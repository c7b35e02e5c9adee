--------------------------- MODULE HistoricalReplay ---------------------------
(***************************************************************************)
(* Replay of one normalized historical dataset through the kernel book,    *)
(* with a synthetic attack injected into it (LiveArenaService.java, with   *)
(* the row cursor of HistoricalMarketDataSource.java).                     *)
(*                                                                         *)
(* A behaviour is either a comparison run (runReplayOnce: load, optionally *)
(* schedule an injection, advance until the replay stops) followed by      *)
(* whatever the operator does next, or an operator's own session.  The     *)
(* arena lock makes each call one step and keeps operators out of a        *)
(* comparison run.                                                         *)
(*                                                                         *)
(* Row r of the source is its position; stamps[r] is its timestamp.  Of    *)
(* the book only what the attack does to it is kept: whose synthetic       *)
(* orders rest in it, and whether historical levels are missing.           *)
(***************************************************************************)
EXTENDS Integers, Sequences, FiniteSets

CONSTANTS
  MaxRows, MaxStamp,  \* the sources explored: length, timestamps
  RowsPerTick,        \* rows per replay tick
  Families,           \* the attack families explored
  Duration,           \* duration_ticks
  MaxTicks,           \* max_ticks of a comparison run
  MaxLaunches         \* bound on attacks launched by the operator

Wall == "wall"                \* spoofing_like_wall, layering_like
Stuffing == "stuffing"        \* quote_stuffing
Evaporation == "evaporation"  \* liquidity_evaporation

ASSUME ReplayAssumption ==
  /\ MaxRows \in Nat \ {0} /\ MaxStamp \in Nat \ {0}
  /\ RowsPerTick \in Nat \ {0} /\ Duration \in Nat \ {0}
  /\ Families \subseteq {Wall, Stuffing, Evaporation}
  /\ MaxTicks \in Nat /\ MaxLaunches \in Nat

VARIABLES
  stamps,      \* the timestamps of the source rows
  hybrid,      \* replaySourceType is "hybrid"
  run,         \* "live", or the state of the comparison run
  running,     \* the replay advances
  tick,        \* the arena's tick
  position,    \* replayPosition: the row read last
  started,     \* kernelCursorStarted
  deferred,    \* scheduledHistoricalRecords
  applied,     \* the rows applied to the book so far
  schedule,    \* the injection schedule
  launches,    \* scenarioCounter
  scenario,    \* the current attack: its number, family and start tick
  overlay,     \* the attacks whose orders rest in the book
  evaporated   \* historical levels are missing from the book

source == <<stamps, hybrid, position, started>>
attack == <<launches, scenario, overlay, evaporated>>
vars == <<stamps, hybrid, run, running, tick, position, started, deferred, applied,
          schedule, launches, scenario, overlay, evaporated>>

Rows == 1..Len(stamps)

Interval(first, last) == [i \in 1..(last - first + 1) |-> first + i - 1]

NoScenario == [id |-> 0, family |-> Wall, start |-> 0]

NoSchedule == [kind |-> "none", at |-> 0, family |-> Wall, triggered |-> FALSE,
               completion |-> 0, tick |-> 0, rows |-> 0]

(***************************************************************************)
(* The row cursor.                                                         *)
(***************************************************************************)
SourceEof == started /\ position = Len(stamps)

\* Mutant: the row that load has read ahead is forgotten.
BatchFirstSkipsPrefetch == position + 1

\* load reads row 1 ahead: the first batch begins with it.
BatchFirst == IF started THEN position + 1 ELSE position

BatchLast ==
  IF BatchFirst + RowsPerTick - 1 < Len(stamps)
  THEN BatchFirst + RowsPerTick - 1 ELSE Len(stamps)

(***************************************************************************)
(* The attack.                                                             *)
(***************************************************************************)
\* scenarioEndTick: the last tick of the label.
EndTick(family, start) ==
  CASE family = Wall -> start + Duration
    [] family = Stuffing -> start + Duration - 1
    [] family = Evaporation -> start + 1

\* Mutant: no observation after the attack.
CompletionAtEnd(family, start) == EndTick(family, start)

CompletionTick(family, start) == EndTick(family, start) + 1

Arm(id, family, start) == [id |-> id, family |-> family, start |-> start]

\* Mutant: the wall stays one tick too long.
WallRestsTooLong(s, t) == t - s.start <= Duration

\* The orders of a wall rest up to age Duration, then they are cancelled.
WallRests(s, t) == t - s.start < Duration

\* A historical row writes all its levels, so it restores the missing ones.
StillMissing(rows) == evaporated /\ rows = <<>>

\* applyScenario at tick t, after the given rows were applied in the same tick.
\* Stuffing leaves nothing behind; evaporation removes the best levels once, with
\* whatever orders rest there.
ApplyScenario(s, t, rows) ==
  LET fires(family) == hybrid /\ s # NoScenario /\ s.family = family
      evaporates == fires(Evaporation) /\ t - s.start = 1
  IN  /\ evaporated' = (evaporates \/ StillMissing(rows))
      /\ CASE fires(Wall) ->
                overlay' = IF WallRests(s, t) THEN overlay \cup {s.id}
                                              ELSE overlay \ {s.id}
           [] evaporates -> overlay' \in SUBSET overlay
           [] OTHER -> UNCHANGED overlay

(***************************************************************************)
(* advanceNormalizedHistoricalReplay, by what it finds.                    *)
(***************************************************************************)
AttackPending == schedule.triggered /\ tick < schedule.completion

CanAdvance == running /\ (run = "comparing" => tick < MaxTicks)

\* Mutant: the replay idles at the end of the source.
AdvanceIdles ==
  /\ CanAdvance
  /\ deferred = <<>> /\ SourceEof /\ ~AttackPending
  /\ UNCHANGED vars

\* Nothing left to replay and no scheduled attack to complete.
AdvanceAtEnd ==
  /\ CanAdvance
  /\ deferred = <<>> /\ SourceEof /\ ~AttackPending
  /\ running' = FALSE
  /\ UNCHANGED <<source, run, tick, deferred, applied, schedule, attack>>

\* advanceScheduledPostSourceTick.
AdvancePostSource ==
  /\ CanAdvance
  /\ deferred = <<>> /\ SourceEof /\ AttackPending
  /\ tick' = tick + 1
  /\ ApplyScenario(scenario, tick + 1, <<>>)
  /\ running' = (tick + 1 < schedule.completion)
  /\ UNCHANGED <<source, run, deferred, applied, schedule, launches, scenario>>

\* The rows deferred by the injection, all of them in one tick.
AdvanceDeferred ==
  /\ CanAdvance
  /\ deferred # <<>>
  /\ tick' = tick + 1
  /\ applied' = applied \o deferred
  /\ deferred' = <<>>
  /\ ApplyScenario(scenario, tick + 1, deferred)
  /\ running' = (~SourceEof \/ (schedule.triggered /\ tick + 1 < schedule.completion))
  /\ UNCHANGED <<source, run, schedule, launches, scenario>>

Triggers(r) ==
  CASE schedule.kind = "sequence" -> r = schedule.at
    [] schedule.kind = "timestamp" -> stamps[r] >= schedule.at
    [] OTHER -> FALSE

NoTriggerIn(first, last) ==
  schedule.triggered \/ \A r \in first..last : ~Triggers(r)

\* A batch without a trigger.
AdvanceBatch ==
  /\ CanAdvance
  /\ deferred = <<>> /\ ~SourceEof
  /\ NoTriggerIn(BatchFirst, BatchLast)
  /\ tick' = tick + 1
  /\ position' = BatchLast
  /\ started' = TRUE
  /\ applied' = applied \o Interval(BatchFirst, BatchLast)
  /\ ApplyScenario(scenario, tick + 1, Interval(BatchFirst, BatchLast))
  /\ running' = (BatchLast < Len(stamps)
                   \/ (schedule.triggered /\ tick + 1 < schedule.completion))
  /\ UNCHANGED <<stamps, hybrid, run, deferred, schedule, launches, scenario>>

\* splitAtScheduledInjection: whole batches are added while the last row still
\* has the trigger's timestamp; rows after the ties are deferred.
IsTriggerRow(r) == Triggers(r) /\ \A q \in BatchFirst..(r - 1) : ~Triggers(q)

EndsTies(r, last) == last = Len(stamps) \/ stamps[last] # stamps[r]

IsBatchEnd(last) == last = Len(stamps) \/ (last - BatchLast) % RowsPerTick = 0

ReadsUpTo(r, last) ==
  /\ IsBatchEnd(last) /\ EndsTies(r, last)
  /\ \A l \in BatchLast..(last - 1) : ~(IsBatchEnd(l) /\ EndsTies(r, l))

IsLastTie(r, tie, last) ==
  /\ \A q \in r..tie : stamps[q] = stamps[r]
  /\ tie < last => stamps[tie + 1] # stamps[r]

AdvanceTrigger ==
  /\ CanAdvance
  /\ deferred = <<>> /\ ~SourceEof
  /\ ~schedule.triggered
  /\ IF hybrid
     THEN /\ launches' = launches + 1
          /\ scenario' = Arm(launches + 1, schedule.family, tick + 1)
     ELSE UNCHANGED <<launches, scenario>>
  /\ \E r \in BatchFirst..BatchLast : \E last \in BatchLast..Len(stamps) :
     \E tie \in r..last :
       /\ IsTriggerRow(r)
       /\ ReadsUpTo(r, last)
       /\ IsLastTie(r, tie, last)
       /\ position' = last
       /\ started' = TRUE
       /\ applied' = applied \o Interval(BatchFirst, tie)
       /\ deferred' = Interval(tie + 1, last)
       /\ ApplyScenario(scenario', tick + 1, Interval(BatchFirst, tie))
  /\ tick' = tick + 1
  /\ schedule' = [schedule EXCEPT !.triggered = TRUE,
                    !.completion = CompletionTick(schedule.family, tick + 1),
                    !.tick = tick + 1, !.rows = Len(applied')]
  /\ running' = TRUE
  /\ UNCHANGED <<stamps, hybrid, run>>

\* The end of runReplayOnce: the run is refused unless a scheduled injection
\* was triggered and had the ticks to complete.
FinishComparison ==
  /\ run = "comparing"
  /\ ~running \/ tick = MaxTicks
  /\ running' = FALSE
  /\ run' = IF schedule.kind # "none"
               /\ (~schedule.triggered \/ tick < schedule.completion)
            THEN "refused" ELSE "completed"
  /\ UNCHANGED <<source, tick, deferred, applied, schedule, attack>>

(***************************************************************************)
(* The operator.                                                           *)
(***************************************************************************)
Start ==
  /\ run # "comparing"
  /\ running' = TRUE
  /\ UNCHANGED <<source, run, tick, deferred, applied, schedule, attack>>

Pause ==
  /\ run # "comparing"
  /\ running' = FALSE
  /\ UNCHANGED <<source, run, tick, deferred, applied, schedule, attack>>

Launch(family) ==
  /\ run # "comparing" /\ hybrid
  /\ launches < MaxLaunches
  /\ launches' = launches + 1
  /\ scenario' = Arm(launches + 1, family, tick + 1)
  /\ running' = TRUE
  /\ UNCHANGED <<source, run, tick, deferred, applied, schedule, overlay, evaporated>>

\* reset reloads the source and starts a fresh book; the counter goes on.
Reset ==
  /\ run # "comparing"
  /\ run' = "live"
  /\ running' = FALSE
  /\ tick' = 0
  /\ position' = 1
  /\ started' = FALSE
  /\ deferred' = <<>>
  /\ applied' = <<>>
  /\ schedule' = NoSchedule
  /\ scenario' = NoScenario
  /\ overlay' = {}
  /\ evaporated' = FALSE
  /\ UNCHANGED <<stamps, hybrid, launches>>

(***************************************************************************)
(* The specification.                                                      *)
(***************************************************************************)
Sources ==
  UNION {{s \in [1..n -> 1..MaxStamp] : \A i \in 1..(n - 1) : s[i] <= s[i + 1]}
         : n \in 1..MaxRows}

\* validateNormalizedTables: timestamps never regress.
Init ==
  /\ stamps \in Sources
  /\ hybrid \in BOOLEAN
  /\ run \in {"live", "comparing"}
  /\ running = (run = "comparing")
  /\ tick = 0
  /\ position = 1
  /\ started = FALSE
  /\ deferred = <<>>
  /\ applied = <<>>
  /\ schedule = NoSchedule \/
     /\ run = "comparing"
     /\ \E kind \in {"sequence", "timestamp"}, at \in 1..(MaxRows + 1), f \in Families :
          schedule = [NoSchedule EXCEPT !.kind = kind, !.at = at, !.family = f]
  /\ \/ /\ run = "comparing" /\ hybrid /\ schedule = NoSchedule
        /\ launches = 1
        /\ \E f \in Families : scenario = Arm(1, f, 1)
     \/ /\ ~(run = "comparing" /\ hybrid /\ schedule = NoSchedule)
        /\ launches = 0
        /\ scenario = NoScenario
  /\ overlay = {}
  /\ evaporated = FALSE

Advance ==
  AdvanceAtEnd \/ AdvancePostSource \/ AdvanceDeferred \/ AdvanceBatch \/ AdvanceTrigger

Next ==
  \/ Advance \/ FinishComparison
  \/ Start \/ Pause \/ Reset
  \/ \E f \in Families : Launch(f)

Spec == Init /\ [][Next]_vars

\* The comparison loop and the scheduler keep calling advance.
FairSpec == Spec /\ WF_vars(Advance) /\ WF_vars(FinishComparison)

(***************************************************************************)
(* Properties.                                                             *)
(***************************************************************************)
\* Every variable has its type.
TypeOK ==
  /\ stamps \in Seq(Nat) /\ Len(stamps) > 0
  /\ hybrid \in BOOLEAN /\ running \in BOOLEAN
  /\ started \in BOOLEAN /\ evaporated \in BOOLEAN
  /\ run \in {"live", "comparing", "refused", "completed"}
  /\ tick \in Nat /\ launches \in Nat
  /\ position \in Rows
  /\ deferred \in Seq(Nat) /\ applied \in Seq(Nat)
  /\ schedule \in [kind : {"none", "sequence", "timestamp"}, at : Nat,
                   family : {Wall, Stuffing, Evaporation}, triggered : BOOLEAN,
                   completion : Nat, tick : Nat, rows : Nat]
  /\ scenario \in [id : Nat, family : {Wall, Stuffing, Evaporation}, start : Nat]
  /\ overlay \subseteq 1..launches

\* Every source row is applied at most once and in source order, and none is
\* skipped: the rows applied and then the rows deferred are exactly the rows the
\* cursor has handed out, however an injection splits or extends a batch.
RowsExactlyOnce ==
  applied \o deferred = Interval(1, IF started THEN position ELSE 0)

\* The rows applied before the synthetic mutations are exactly those up to the
\* trigger's timestamp, ties included, where the trigger is the first row of the
\* whole source that matches; the later rows wait for the next tick only.
InjectionAfterTies ==
  schedule.triggered =>
    /\ \E r \in Rows :
         /\ Triggers(r) /\ \A q \in 1..(r - 1) : ~Triggers(q)
         /\ schedule.rows = Cardinality({q \in Rows : stamps[q] <= stamps[r]})
    /\ deferred # <<>> => tick = schedule.tick

\* The orders of the current attack rest in the book only inside its label, and
\* a replay that goes on never leaves them behind.
AttackRestsOnlyInsideLabel ==
  scenario.id \in overlay =>
    scenario.start <= tick /\ tick < EndTick(scenario.family, scenario.start)

\* A scheduled comparison that is accepted ran through the attack's end and one
\* observation after it, also when the source ended first, and then no synthetic
\* order rests in the book.
CompletedAttackIsOver ==
  run = "completed" /\ schedule.kind # "none" =>
    /\ tick > EndTick(schedule.family, schedule.tick)
    /\ scenario.id = 1 => 1 \notin overlay

\* Outside the labelled interval of the attack the hybrid book of a comparison
\* run is the control book.
NoContaminationOutsideLabel ==
  /\ run \in {"comparing", "completed"}
  /\ scenario.id = 1
  /\ ~(scenario.start <= tick /\ tick <= EndTick(scenario.family, scenario.start))
  => overlay = {} /\ ~evaporated

\* The same while the source still has rows: contamination never outlives the
\* next historical row.
NoContaminationWhileRowsRemain ==
  NoContaminationOutsideLabel \/ (overlay = {} /\ SourceEof)

\* A replay that runs comes to a stop by itself at the end of its source, of its
\* attack or of its ticks, however often it is started or an attack is launched.
ReplayStops == running ~> ~running

\* A running replay comes to its end by itself, injections come after all rows
\* of their timestamp, and while rows remain nothing of a finished attack is
\* left in the book (LiveArenaService.advanceNormalizedHistoricalReplay).
ReplayEndsClean ==
  /\ [](TypeOK /\ InjectionAfterTies /\ NoContaminationWhileRowsRemain)
  /\ ReplayStops
=============================================================================
