----------------------------- MODULE ReplayProofs ------------------------------
(***************************************************************************)
(* Proofs about replays and the evaluations made of them.                  *)
(*                                                                         *)
(* HistoricalReplay: normalized historical replay, for every source, batch *)
(* size and attack duration.                                               *)
(*                                                                         *)
(* GovernedEvaluation: what an evaluation concludes belongs to one corpus, *)
(* for every corpus, every flaw of its bundles and every interleaving with *)
(* the builders that replace its files.                                    *)
(*                                                                         *)
(* FeatureStream: a feature row is the row of its whole history, for every *)
(* stream, every width of the windows and every number of writers.         *)
(*                                                                         *)
(* DataIngestion: a listed data set is whole and counted, for every number *)
(* of requests, of restarts and of rows.                                   *)
(***************************************************************************)
EXTENDS HistoricalReplay, GovernedEvaluation, FeatureStream, DataIngestion,
        SequenceTheorems, FiniteSetTheorems, WellFoundedInduction, TLAPS

(***************************************************************************)
(* Intervals of rows.                                                      *)
(***************************************************************************)
\* The rows first to last, as a sequence.
LEMMA IntervalIsSeq ==
  ASSUME NEW a \in Nat, NEW b \in Nat, a <= b + 1
  PROVE  /\ Interval(a, b) \in Seq(Nat)
         /\ Len(Interval(a, b)) = b - a + 1
         /\ \A i \in 1..(b - a + 1) : Interval(a, b)[i] = a + i - 1
<1> DEFINE n == b - a + 1
<1>1. n \in Nat /\ \A i \in 1..n : a + i - 1 \in Nat
  OBVIOUS
<1>2. Interval(a, b) \in [1..n -> Nat]
  BY <1>1 DEF Interval
<1>3. Interval(a, b) \in Seq(Nat) /\ Len(Interval(a, b)) = n
  BY <1>1, <1>2, SeqDef
<1> QED
  BY <1>3 DEF Interval

\* An empty interval.
LEMMA IntervalEmpty == ASSUME NEW a \in Nat, a > 0 PROVE Interval(a, a - 1) = <<>>
<1>1. Interval(a, a - 1) \in Seq(Nat) /\ Len(Interval(a, a - 1)) = 0
  BY IntervalIsSeq
<1> QED
  BY <1>1, EmptySeq

\* Adjacent intervals are one.
LEMMA IntervalConcat ==
  ASSUME NEW a \in Nat, NEW b \in Nat, NEW c \in Nat, a <= b + 1, b <= c
  PROVE  Interval(a, b) \o Interval(b + 1, c) = Interval(a, c)
<1> DEFINE s == Interval(a, b)
           t == Interval(b + 1, c)
           u == Interval(a, c)
<1>1. /\ s \in Seq(Nat) /\ Len(s) = b - a + 1
      /\ \A i \in 1..(b - a + 1) : s[i] = a + i - 1
  BY IntervalIsSeq
<1>2. /\ t \in Seq(Nat) /\ Len(t) = c - b
      /\ \A i \in 1..(c - b) : t[i] = b + i
  <2>1. c - (b + 1) + 1 = c - b /\ \A i \in Int : b + 1 + i - 1 = b + i
    OBVIOUS
  <2>2. /\ t \in Seq(Nat) /\ Len(t) = c - (b + 1) + 1
        /\ \A i \in 1..(c - (b + 1) + 1) : t[i] = b + 1 + i - 1
    <3>1. b + 1 \in Nat /\ b + 1 <= c + 1
      OBVIOUS
    <3> QED
      BY <3>1, IntervalIsSeq
  <2> HIDE DEF t
  <2> QED
    BY <2>1, <2>2
<1>3. /\ u \in Seq(Nat) /\ Len(u) = c - a + 1
      /\ \A i \in 1..(c - a + 1) : u[i] = a + i - 1
  <2>1. a <= c + 1
    OBVIOUS
  <2> QED
    BY <2>1, IntervalIsSeq
<1> HIDE DEF s, t, u
<1>4. /\ s \o t \in Seq(Nat) /\ Len(s \o t) = Len(s) + Len(t)
      /\ \A i \in 1..(Len(s) + Len(t)) :
           (s \o t)[i] = IF i <= Len(s) THEN s[i] ELSE t[i - Len(s)]
  BY <1>1, <1>2, ConcatProperties
<1>5. Len(s) + Len(t) = c - a + 1
  BY <1>1, <1>2
<1>6. ASSUME NEW i \in 1..(c - a + 1) PROVE (s \o t)[i] = u[i]
  <2>1. CASE i <= Len(s)
    <3>1. (s \o t)[i] = s[i] /\ s[i] = a + i - 1
      BY <1>1, <1>4, <1>5, <2>1
    <3> QED
      BY <1>3, <3>1
  <2>2. CASE ~(i <= Len(s))
    <3>1. i - Len(s) \in 1..(c - b) /\ b + (i - Len(s)) = a + i - 1
      BY <1>1, <2>2
    <3>2. (s \o t)[i] = t[i - Len(s)]
      BY <1>1, <1>4, <1>5, <2>2
    <3>3. t[i - Len(s)] = a + i - 1
      BY <1>2, <3>1
    <3> QED
      BY <1>3, <3>2, <3>3
  <2> QED
    BY <2>1, <2>2
<1>7. s \o t = u
  BY <1>3, <1>4, <1>5, <1>6, SeqEqual
<1> QED
  BY <1>7 DEF s, t, u

(***************************************************************************)
(* Rows.  RowsExactlyOnce becomes inductive with the types of the rows and *)
(* with what load leaves behind: before the first batch the cursor is at   *)
(* row 1, read ahead but not handed out.                                   *)
(***************************************************************************)
HandedOut == IF started THEN position ELSE 0

RowsInv ==
  /\ stamps \in Seq(Nat) /\ Len(stamps) > 0
  /\ started \in BOOLEAN
  /\ position \in Rows
  /\ ~started => position = 1
  /\ applied \in Seq(Nat) /\ deferred \in Seq(Nat)
  /\ RowsExactlyOnce

LEMMA RowsInit == Init => RowsInv
<1> SUFFICES ASSUME Init PROVE RowsInv
  OBVIOUS
<1>1. stamps \in Seq(Nat) /\ Len(stamps) > 0
  <2>1. PICK n \in 1..MaxRows : stamps \in [1..n -> 1..MaxStamp]
    BY DEF Init, Sources
  <2>2. n \in Nat /\ n > 0 /\ 1..MaxStamp \subseteq Nat
    BY ReplayAssumption
  <2>3. stamps \in [1..n -> Nat]
    BY <2>1, <2>2
  <2> QED
    BY <2>2, <2>3, SeqDef
<1>2. started = FALSE /\ position = 1 /\ applied = <<>> /\ deferred = <<>>
  BY DEF Init
<1>3. <<>> \in Seq(Nat) /\ <<>> \o <<>> = <<>>
  BY EmptySeq, ConcatEmptySeq
<1>4. Interval(1, 0) = <<>>
  BY IntervalEmpty
<1>5. position \in Rows
  BY <1>1, <1>2 DEF Rows
<1> QED
  BY <1>1, <1>2, <1>3, <1>4, <1>5 DEF RowsInv, RowsExactlyOnce

\* A batch continues where the cursor has stopped.
LEMMA BatchContinues ==
  ASSUME RowsInv, deferred = <<>>, ~SourceEof
  PROVE  /\ HandedOut \in Nat /\ BatchFirst = HandedOut + 1
         /\ BatchLast \in Rows /\ BatchLast \in Nat /\ BatchFirst <= BatchLast
         /\ Len(stamps) \in Nat
         /\ applied = Interval(1, HandedOut)
<1>1. Len(stamps) \in Nat /\ position \in Nat /\ position >= 1 /\ position <= Len(stamps)
  BY DEF RowsInv, Rows
<1>2. HandedOut \in Nat /\ BatchFirst = HandedOut + 1 /\ BatchFirst <= Len(stamps)
  BY <1>1 DEF RowsInv, HandedOut, BatchFirst, SourceEof
<1>3. BatchLast \in Nat /\ BatchLast <= Len(stamps) /\ BatchFirst <= BatchLast
  <2>1. RowsPerTick \in Nat /\ RowsPerTick >= 1 /\ BatchFirst \in Nat
    BY <1>2, ReplayAssumption
  <2> QED
    BY <1>1, <1>2, <2>1 DEF BatchLast
<1>4. BatchLast \in Rows
  BY <1>1, <1>2, <1>3 DEF Rows
<1>5. applied \o <<>> = applied
  BY ConcatEmptySeq DEF RowsInv
<1>6. applied = Interval(1, HandedOut)
  BY <1>5 DEF RowsInv, RowsExactlyOnce, HandedOut
<1> QED
  BY <1>1, <1>2, <1>3, <1>4, <1>6

\* Rows handed out after the first b extend the first b.
LEMMA PrefixGrows ==
  ASSUME NEW b \in Nat, NEW c \in Nat, b <= c
  PROVE  Interval(1, b) \o Interval(b + 1, c) = Interval(1, c)
<1>1. 1 \in Nat /\ 1 <= b + 1
  OBVIOUS
<1> QED
  BY <1>1, IntervalConcat

LEMMA RowsBatch == RowsInv /\ AdvanceBatch => RowsInv'
<1> SUFFICES ASSUME RowsInv, AdvanceBatch PROVE RowsInv'
  OBVIOUS
<1> DEFINE H == HandedOut
           L == BatchLast
<1>1. /\ UNCHANGED <<stamps, deferred>> /\ deferred = <<>> /\ ~SourceEof
      /\ position' = L /\ started' = TRUE
      /\ applied' = applied \o Interval(BatchFirst, L)
  BY DEF AdvanceBatch
<1>2. /\ H \in Nat /\ BatchFirst = H + 1 /\ L \in Rows /\ L \in Nat
      /\ BatchFirst <= L /\ applied = Interval(1, H)
  BY <1>1, BatchContinues
<1> HIDE DEF H, L
<1>3. applied' = Interval(1, L)
  <2>1. H <= L
    BY <1>2
  <2>2. Interval(1, H) \o Interval(H + 1, L) = Interval(1, L)
    BY <1>2, <2>1, PrefixGrows
  <2> QED
    BY <1>1, <1>2, <2>2
<1>4. applied' \in Seq(Nat) /\ applied' \o <<>> = applied'
  BY <1>2, <1>3, IntervalIsSeq, ConcatEmptySeq
<1>5. RowsExactlyOnce'
  BY <1>1, <1>3, <1>4 DEF RowsExactlyOnce
<1>6. position' \in Rows'
  BY <1>1, <1>2 DEF Rows
<1> QED
  BY <1>1, <1>4, <1>5, <1>6 DEF RowsInv

LEMMA RowsTrigger == RowsInv /\ AdvanceTrigger => RowsInv'
<1> SUFFICES ASSUME RowsInv, AdvanceTrigger PROVE RowsInv'
  OBVIOUS
<1> DEFINE H == HandedOut
<1>1. UNCHANGED stamps /\ deferred = <<>> /\ ~SourceEof
  BY DEF AdvanceTrigger
<1>2. /\ H \in Nat /\ BatchFirst = H + 1 /\ BatchLast \in Nat /\ Len(stamps) \in Nat
      /\ BatchFirst <= BatchLast /\ applied = Interval(1, H)
  BY <1>1, BatchContinues
<1>3. PICK r \in BatchFirst..BatchLast : \E last \in BatchLast..Len(stamps) :
        \E tie \in r..last :
          /\ position' = last
          /\ started' = TRUE
          /\ applied' = applied \o Interval(BatchFirst, tie)
          /\ deferred' = Interval(tie + 1, last)
  BY DEF AdvanceTrigger
<1>p. PICK last \in BatchLast..Len(stamps) : \E tie \in r..last :
          /\ position' = last
          /\ started' = TRUE
          /\ applied' = applied \o Interval(BatchFirst, tie)
          /\ deferred' = Interval(tie + 1, last)
  BY <1>3
<1>4. PICK tie \in r..last :
          /\ position' = last
          /\ started' = TRUE
          /\ applied' = applied \o Interval(BatchFirst, tie)
          /\ deferred' = Interval(tie + 1, last)
  BY <1>p
<1> HIDE DEF H
<1>5. /\ tie \in Nat /\ last \in Nat /\ H <= tie /\ tie <= last
      /\ last >= 1 /\ last <= Len(stamps)
  BY <1>2
<1>6. applied' = Interval(1, tie)
  <2>1. Interval(1, H) \o Interval(H + 1, tie) = Interval(1, tie)
    BY <1>2, <1>5, PrefixGrows
  <2> QED
    BY <1>2, <1>4, <2>1
<1>7. applied' \o deferred' = Interval(1, last)
  <2>1. Interval(1, tie) \o Interval(tie + 1, last) = Interval(1, last)
    BY <1>5, PrefixGrows
  <2> QED
    BY <1>4, <1>6, <2>1
<1>8. applied' \in Seq(Nat)
  BY <1>5, <1>6, IntervalIsSeq
<1>9. deferred' \in Seq(Nat)
  <2>1. tie + 1 \in Nat /\ tie + 1 <= last + 1
    BY <1>5
  <2> QED
    BY <1>4, <1>5, <2>1, IntervalIsSeq
<1>10. position' \in Rows'
  BY <1>1, <1>4, <1>5 DEF Rows
<1>11. RowsExactlyOnce'
  BY <1>4, <1>7 DEF RowsExactlyOnce
<1> QED
  BY <1>1, <1>4, <1>8, <1>9, <1>10, <1>11 DEF RowsInv

LEMMA RowsDeferred == RowsInv /\ AdvanceDeferred => RowsInv'
<1> SUFFICES ASSUME RowsInv, AdvanceDeferred PROVE RowsInv'
  OBVIOUS
<1>1. /\ UNCHANGED <<stamps, position, started>>
      /\ applied' = applied \o deferred /\ deferred' = <<>>
  BY DEF AdvanceDeferred, source
<1>2. applied' \in Seq(Nat) /\ deferred' \in Seq(Nat)
  BY <1>1, ConcatProperties, EmptySeq DEF RowsInv
<1>3. applied' \o deferred' = applied \o deferred
  BY <1>1, <1>2, ConcatEmptySeq
<1> QED
  BY <1>1, <1>2, <1>3 DEF RowsInv, RowsExactlyOnce, Rows

LEMMA RowsReset == RowsInv /\ Reset => RowsInv'
<1> SUFFICES ASSUME RowsInv, Reset PROVE RowsInv'
  OBVIOUS
<1>1. /\ UNCHANGED stamps /\ position' = 1 /\ started' = FALSE
      /\ applied' = <<>> /\ deferred' = <<>>
  BY DEF Reset
<1>2. <<>> \in Seq(Nat) /\ <<>> \o <<>> = <<>>
  BY EmptySeq, ConcatEmptySeq
<1>3. Interval(1, 0) = <<>>
  BY IntervalEmpty
<1>4. position' \in Rows'
  BY <1>1 DEF RowsInv, Rows
<1> QED
  BY <1>1, <1>2, <1>3, <1>4 DEF RowsInv, RowsExactlyOnce

\* Every step preserves the invariant.
LEMMA RowsStep == RowsInv /\ [Next]_vars => RowsInv'
<1> SUFFICES ASSUME RowsInv, [Next]_vars PROVE RowsInv'
  OBVIOUS
<1>1. CASE AdvanceBatch
  BY <1>1, RowsBatch
<1>2. CASE AdvanceTrigger
  BY <1>2, RowsTrigger
<1>3. CASE AdvanceDeferred
  BY <1>3, RowsDeferred
<1>4. CASE Reset
  BY <1>4, RowsReset
<1>5. CASE UNCHANGED <<stamps, position, started, applied, deferred>>
  BY <1>5 DEF RowsInv, RowsExactlyOnce, Rows
<1> QED
  BY <1>1, <1>2, <1>3, <1>4, <1>5
  DEF Next, Advance, vars, source, AdvanceAtEnd, AdvancePostSource, FinishComparison,
      Start, Pause, Launch

\* Every row of every source is applied at most once, in source order and without
\* gaps, however batches, ties, deferred rows and resets interleave.
THEOREM RowsAppliedExactlyOnce == Spec => []RowsExactlyOnce
<1>1. RowsInv => RowsExactlyOnce
  BY DEF RowsInv
<1> QED
  BY <1>1, RowsInit, RowsStep, PTL DEF Spec

(***************************************************************************)
(* Attacks.  That the orders of the current attack rest only inside its    *)
(* label needs to know that ids are never used twice, that an attack       *)
(* starts at the next tick at the latest, that only walls leave orders     *)
(* behind and that a replay without attacks has no current one.            *)
(***************************************************************************)
AttackFamilies == {Wall, Stuffing, Evaporation}

Scenarios == [id : Nat, family : AttackFamilies, start : Nat]

AttackInv ==
  /\ hybrid \in BOOLEAN /\ evaporated \in BOOLEAN
  /\ tick \in Nat /\ launches \in Nat
  /\ scenario \in Scenarios
  /\ overlay \subseteq 1..launches
  /\ scenario.id <= launches
  /\ scenario.start <= tick + 1
  /\ scenario # NoScenario => hybrid /\ scenario.id > 0
  /\ scenario.id \in overlay => scenario.family = Wall
  /\ AttackRestsOnlyInsideLabel

LEMMA FamiliesKnown ==
  /\ Families \subseteq AttackFamilies /\ Duration \in Nat /\ Duration > 0
  /\ NoScenario \in Scenarios
BY ReplayAssumption DEF AttackFamilies, Scenarios, NoScenario

\* What one tick of the scenario program leaves in the book.
LEMMA ScenarioApplied ==
  ASSUME NEW s \in Scenarios, NEW n \in Nat, NEW t \in Nat, NEW rows,
         hybrid \in BOOLEAN, evaporated \in BOOLEAN,
         overlay \subseteq 1..n, s.id <= n, s.start <= t,
         s # NoScenario => hybrid /\ s.id > 0,
         s.id \in overlay => s.family = Wall,
         ApplyScenario(s, t, rows)
  PROVE  /\ evaporated' \in BOOLEAN
         /\ overlay' \subseteq 1..n
         /\ s.id \in overlay' =>
              s.family = Wall /\ s.start <= t /\ t < EndTick(s.family, s.start)
<1> DEFINE wall == hybrid /\ s # NoScenario /\ s.family = Wall
           evaporates == hybrid /\ s # NoScenario /\ s.family = Evaporation
                           /\ t - s.start = 1
<1>1. evaporated' \in BOOLEAN
  BY Zenon DEF ApplyScenario, StillMissing
<1>2. s.id \in Nat /\ s.start \in Nat /\ s.family \in AttackFamilies
  BY DEF Scenarios
<1>3. CASE wall
  <2>1. overlay' = IF WallRests(s, t) THEN overlay \cup {s.id} ELSE overlay \ {s.id}
    BY <1>3 DEF ApplyScenario, Wall, Evaporation
  <2>2. EndTick(s.family, s.start) = s.start + Duration
    BY <1>3 DEF EndTick, Wall, Stuffing, Evaporation
  <2>3. s.id \in 1..n
    BY <1>2, <1>3
  <2>4. CASE WallRests(s, t)
    <3>1. t < s.start + Duration
      BY <1>2, <2>4, FamiliesKnown DEF WallRests
    <3>2. overlay' \subseteq 1..n
      BY <2>1, <2>3, <2>4
    <3> QED
      BY <1>1, <1>3, <2>2, <3>1, <3>2
  <2>5. CASE ~WallRests(s, t)
    <3>1. overlay' = overlay \ {s.id}
      BY <2>1, <2>5
    <3> QED
      BY <1>1, <3>1
  <2> QED
    BY <2>4, <2>5
<1>4. CASE ~wall
  <2>1. s.id \notin overlay
    <3>1. s = NoScenario => s.id = 0
      BY DEF NoScenario
    <3> QED
      BY <1>2, <1>4, <3>1
  <2>2. overlay' \subseteq overlay
    <3>1. CASE evaporates
      BY <1>4, <3>1 DEF ApplyScenario, Wall, Evaporation
    <3>2. CASE ~evaporates
      BY <1>4, <3>2 DEF ApplyScenario, Wall, Evaporation
    <3> QED
      BY <3>1, <3>2
  <2> QED
    BY <1>1, <2>1, <2>2
<1> QED
  BY <1>3, <1>4

LEMMA AttackInit == Init => AttackInv
<1> SUFFICES ASSUME Init PROVE AttackInv
  OBVIOUS
<1>1. hybrid \in BOOLEAN /\ evaporated \in BOOLEAN
  BY DEF Init
<1>2. tick = 0 /\ overlay = {}
  BY DEF Init
<1>3. CASE run = "comparing" /\ hybrid /\ schedule = NoSchedule
  <2>1. launches = 1 /\ \E f \in Families : scenario = Arm(1, f, 1)
    BY <1>3 DEF Init
  <2>2. scenario \in Scenarios /\ scenario.id = 1 /\ scenario.start = 1
    BY <2>1, FamiliesKnown DEF Arm, Scenarios
  <2> QED
    BY <1>1, <1>2, <1>3, <2>1, <2>2 DEF AttackInv, AttackRestsOnlyInsideLabel
<1>4. CASE ~(run = "comparing" /\ hybrid /\ schedule = NoSchedule)
  <2>1. launches = 0 /\ scenario = NoScenario
    BY <1>4 DEF Init
  <2>2. scenario \in Scenarios /\ scenario.id = 0 /\ scenario.start = 0
    BY <2>1, FamiliesKnown DEF NoScenario
  <2> QED
    BY <1>1, <1>2, <2>1, <2>2 DEF AttackInv, AttackRestsOnlyInsideLabel
<1> QED
  BY <1>3, <1>4

\* A tick with the scenario s, the current one or one armed in this tick.
LEMMA AttackAdvances ==
  ASSUME AttackInv, NEW s \in Scenarios, NEW n \in Nat, NEW rows,
         launches <= n, s.id <= n, s.start <= tick + 1,
         s # NoScenario => hybrid /\ s.id > 0,
         s.id \in overlay => s.family = Wall,
         ApplyScenario(s, tick + 1, rows),
         scenario' = s, launches' = n, tick' = tick + 1, UNCHANGED hybrid
  PROVE  AttackInv'
<1>1. overlay \subseteq 1..n /\ tick + 1 \in Nat /\ tick \in Nat
  BY DEF AttackInv
<1>2. hybrid \in BOOLEAN /\ evaporated \in BOOLEAN
  BY DEF AttackInv
<1>3. /\ evaporated' \in BOOLEAN
      /\ overlay' \subseteq 1..n
      /\ s.id \in overlay' =>
           s.family = Wall /\ s.start <= tick + 1 /\ tick + 1 < EndTick(s.family, s.start)
  BY <1>1, <1>2, ScenarioApplied
<1>4. AttackRestsOnlyInsideLabel' /\ (scenario'.id \in overlay' => scenario'.family = Wall)
  BY <1>3 DEF AttackRestsOnlyInsideLabel
<1>5. hybrid' \in BOOLEAN /\ (scenario' # NoScenario => hybrid' /\ scenario'.id > 0)
  BY <1>2
<1>6. scenario'.start <= tick' + 1 /\ tick' \in Nat /\ scenario'.id <= launches'
  <2>1. s.start \in Nat
    BY DEF Scenarios
  <2> QED
    BY <1>1, <2>1
<1> QED
  BY <1>3, <1>4, <1>5, <1>6 DEF AttackInv

\* An attack armed under the next number has no orders yet.
LEMMA ArmedIsFresh ==
  ASSUME AttackInv, NEW f \in AttackFamilies
  PROVE  LET s == Arm(launches + 1, f, tick + 1)
         IN  /\ s \in Scenarios /\ s # NoScenario
             /\ s.id = launches + 1 /\ s.start = tick + 1 /\ s.id \notin overlay
             /\ launches + 1 \in Nat
<1>1. launches \in Nat /\ tick \in Nat /\ overlay \subseteq 1..launches
  BY DEF AttackInv
<1> QED
  BY <1>1 DEF Arm, Scenarios, NoScenario

LEMMA AttackGoesOn ==
  ASSUME AttackInv, NEW rows, ApplyScenario(scenario, tick + 1, rows),
         tick' = tick + 1, UNCHANGED <<hybrid, scenario, launches>>
  PROVE  AttackInv'
BY AttackAdvances DEF AttackInv

LEMMA AttackTriggered ==
  ASSUME AttackInv, AdvanceTrigger, schedule.family \in AttackFamilies
  PROVE  AttackInv'
<1> DEFINE s == Arm(launches + 1, schedule.family, tick + 1)
<1>1. tick' = tick + 1 /\ UNCHANGED hybrid
  BY DEF AdvanceTrigger
<1>2. PICK rows : ApplyScenario(scenario', tick + 1, rows)
  BY DEF AdvanceTrigger
<1>3. CASE hybrid
  <2>1. scenario' = s /\ launches' = launches + 1
    BY <1>3 DEF AdvanceTrigger
  <2>2. /\ s \in Scenarios /\ s # NoScenario
        /\ s.id = launches + 1 /\ s.start = tick + 1 /\ s.id \notin overlay
        /\ launches + 1 \in Nat
    BY ArmedIsFresh
  <2> HIDE DEF s
  <2>3. /\ launches <= launches + 1 /\ s.id <= launches + 1 /\ s.id > 0
        /\ s.start <= tick + 1
    BY <2>2 DEF AttackInv
  <2> QED
    BY <1>1, <1>2, <1>3, <2>1, <2>2, <2>3, AttackAdvances
<1>4. CASE ~hybrid
  BY <1>1, <1>2, <1>4, AttackGoesOn DEF AdvanceTrigger
<1> QED
  BY <1>3, <1>4

LEMMA AttackLaunched ==
  ASSUME AttackInv, NEW f \in Families, Launch(f)
  PROVE  AttackInv'
<1> DEFINE s == Arm(launches + 1, f, tick + 1)
<1>1. /\ scenario' = s /\ launches' = launches + 1 /\ hybrid
      /\ UNCHANGED <<hybrid, tick, overlay, evaporated>>
  BY DEF Launch, source
<1>2. /\ s \in Scenarios /\ s # NoScenario
      /\ s.id = launches + 1 /\ s.start = tick + 1 /\ s.id \notin overlay
      /\ launches + 1 \in Nat
  BY ArmedIsFresh, FamiliesKnown
<1> HIDE DEF s
<1>3. overlay' \subseteq 1..launches'
  BY <1>1 DEF AttackInv
<1>4. scenario'.id \notin overlay' /\ scenario'.start <= tick' + 1 /\ scenario'.id <= launches'
  BY <1>1, <1>2 DEF AttackInv
<1>5. scenario'.id > 0
  BY <1>1, <1>2 DEF AttackInv
<1> QED
  BY <1>1, <1>2, <1>3, <1>4, <1>5 DEF AttackInv, AttackRestsOnlyInsideLabel

LEMMA AttackReset == AttackInv /\ Reset => AttackInv'
<1> SUFFICES ASSUME AttackInv, Reset PROVE AttackInv'
  OBVIOUS
<1>1. /\ UNCHANGED <<hybrid, launches>> /\ tick' = 0 /\ scenario' = NoScenario
      /\ overlay' = {} /\ evaporated' = FALSE
  BY DEF Reset
<1>2. scenario' \in Scenarios /\ scenario'.id = 0 /\ scenario'.start = 0
  BY <1>1, FamiliesKnown DEF NoScenario
<1>3. hybrid' \in BOOLEAN /\ evaporated' \in BOOLEAN
  BY <1>1 DEF AttackInv
<1> QED
  BY <1>1, <1>2, <1>3 DEF AttackInv, AttackRestsOnlyInsideLabel

(***************************************************************************)
(* Schedules.  An accepted comparison was triggered and reached the        *)
(* completion tick, and attack number 1 of a scheduled comparison is the   *)
(* scheduled one: the operator is kept out until the comparison is over,   *)
(* and later attacks have later numbers.                                   *)
(***************************************************************************)
Schedules ==
  [kind : {"none", "sequence", "timestamp"}, at : Nat, family : AttackFamilies,
   triggered : BOOLEAN, completion : Nat, tick : Nat, rows : Nat]

InComparison == run \in {"comparing", "completed"} /\ schedule.kind # "none"

ScheduleInv ==
  /\ run \in {"live", "comparing", "refused", "completed"} /\ running \in BOOLEAN
  /\ schedule \in Schedules
  /\ schedule.triggered =>
       schedule.completion = CompletionTick(schedule.family, schedule.tick)
  /\ run = "completed" /\ schedule.kind # "none" =>
       schedule.triggered /\ tick >= schedule.completion
  /\ InComparison /\ ~schedule.triggered => launches = 0
  /\ InComparison /\ schedule.triggered /\ hybrid => launches > 0
  /\ InComparison /\ scenario.id = 1 =>
       schedule.triggered /\ scenario = Arm(1, schedule.family, schedule.tick)

LEMMA ScheduleInit == Init => ScheduleInv
<1> SUFFICES ASSUME Init PROVE ScheduleInv
  OBVIOUS
<1>1. schedule \in Schedules /\ ~schedule.triggered
  <2>1. CASE schedule = NoSchedule
    BY <2>1 DEF NoSchedule, Schedules, AttackFamilies
  <2>2. CASE schedule # NoSchedule
    <3>1. PICK kind \in {"sequence", "timestamp"}, at \in 1..(MaxRows + 1), f \in Families :
            schedule = [NoSchedule EXCEPT !.kind = kind, !.at = at, !.family = f]
      BY <2>2 DEF Init
    <3>2. at \in Nat /\ f \in AttackFamilies
      BY ReplayAssumption, FamiliesKnown
    <3> QED
      BY <3>1, <3>2 DEF NoSchedule, Schedules
  <2> QED
    BY <2>1, <2>2
<1>2. schedule.kind # "none" => launches = 0 /\ scenario = NoScenario
  <2>1. schedule.kind # "none" => schedule # NoSchedule
    BY DEF NoSchedule
  <2> QED
    BY <2>1, Zenon DEF Init
<1>3. run \in {"live", "comparing"}
  BY DEF Init
<1>4. running \in BOOLEAN
  BY Zenon DEF Init
<1>5. scenario = NoScenario => scenario.id # 1
  BY DEF NoScenario
<1> QED
  BY <1>1, <1>2, <1>3, <1>4, <1>5 DEF ScheduleInv, InComparison

\* A step that leaves schedule, run and attack alone and does not go back in time.
LEMMA ScheduleFrame ==
  ASSUME AttackInv, ScheduleInv, running' \in BOOLEAN,
         UNCHANGED <<run, schedule, hybrid, launches, scenario>>,
         tick' = tick \/ tick' = tick + 1
  PROVE  ScheduleInv'
<1>1. tick' >= tick /\ tick \in Nat /\ tick' \in Nat
  BY DEF AttackInv
<1>2. schedule.completion \in Nat
  BY DEF ScheduleInv, Schedules
<1>3. tick >= schedule.completion => tick' >= schedule.completion
  BY <1>1, <1>2
<1>4. InComparison' = InComparison
  BY DEF InComparison
<1> QED
  BY <1>3, <1>4 DEF ScheduleInv

LEMMA ScheduleTriggered ==
  ASSUME RowsInv', AttackInv, ScheduleInv, AdvanceTrigger
  PROVE  ScheduleInv'
<1>1. /\ ~schedule.triggered /\ running' = TRUE
      /\ UNCHANGED <<run, hybrid>>
      /\ schedule' = [schedule EXCEPT !.triggered = TRUE,
                        !.completion = CompletionTick(schedule.family, tick + 1),
                        !.tick = tick + 1, !.rows = Len(applied')]
  BY DEF AdvanceTrigger
<1>2. schedule.kind # "none"
  BY DEF AdvanceTrigger, IsTriggerRow, Triggers
<1>3. tick \in Nat /\ launches \in Nat
  BY DEF AttackInv
<1>4. schedule.family \in AttackFamilies
  BY DEF ScheduleInv, Schedules
<1>5. CompletionTick(schedule.family, tick + 1) \in Nat
  BY <1>3, <1>4, FamiliesKnown
  DEF CompletionTick, EndTick, AttackFamilies, Wall, Stuffing, Evaporation
<1>6. Len(applied') \in Nat
  BY DEF RowsInv
<1>7. /\ schedule' \in Schedules /\ schedule'.triggered
      /\ schedule'.family = schedule.family /\ schedule'.kind = schedule.kind
      /\ schedule'.tick = tick + 1
      /\ schedule'.completion = CompletionTick(schedule.family, tick + 1)
  <2> DEFINE c == CompletionTick(schedule.family, tick + 1)
             n == Len(applied')
  <2>1. schedule \in Schedules
    BY DEF ScheduleInv
  <2>2. c \in Nat /\ n \in Nat /\ tick + 1 \in Nat
    BY <1>3, <1>5, <1>6
  <2>3. schedule' = [schedule EXCEPT !.triggered = TRUE, !.completion = c,
                       !.tick = tick + 1, !.rows = n]
    BY <1>1
  <2> HIDE DEF c, n
  <2>4. /\ schedule'.family = schedule.family /\ schedule'.kind = schedule.kind
        /\ schedule'.tick = tick + 1 /\ schedule'.completion = c
    BY <2>1, <2>3 DEF Schedules
  <2>5. schedule'.triggered = TRUE
    BY <2>1, <2>3 DEF Schedules
  <2>6. schedule' \in Schedules
    BY <2>1, <2>2, <2>3 DEF Schedules
  <2> QED
    BY <2>4, <2>5, <2>6 DEF c
<1>8. run # "completed"
  BY <1>1, <1>2 DEF ScheduleInv
<1>9. run = "comparing" => launches = 0
  BY <1>1, <1>2 DEF ScheduleInv, InComparison
<1>10. CASE hybrid
  <2>1. scenario' = Arm(launches + 1, schedule.family, tick + 1) /\ launches' = launches + 1
    BY <1>10 DEF AdvanceTrigger
  <2> QED
    BY <1>1, <1>3, <1>7, <1>8, <1>9, <2>1 DEF ScheduleInv, InComparison
<1>11. CASE ~hybrid
  <2>1. scenario' = scenario /\ launches' = launches /\ scenario = NoScenario
    BY <1>11 DEF AdvanceTrigger, AttackInv
  <2>2. scenario.id # 1
    BY <2>1 DEF NoScenario
  <2> QED
    BY <1>1, <1>7, <1>8, <1>11, <2>1, <2>2 DEF ScheduleInv, InComparison
<1> QED
  BY <1>10, <1>11

LEMMA ScheduleFinished ==
  ASSUME AttackInv, ScheduleInv, FinishComparison
  PROVE  ScheduleInv'
<1>1. /\ run = "comparing" /\ running' = FALSE
      /\ UNCHANGED <<tick, schedule, hybrid, launches, scenario>>
      /\ run' \in {"refused", "completed"}
  BY DEF FinishComparison, source, attack
<1>2. run' = "completed" /\ schedule.kind # "none" =>
        schedule.triggered /\ ~(tick < schedule.completion)
  BY DEF FinishComparison
<1>3. tick \in Nat /\ schedule.completion \in Nat
  BY DEF AttackInv, ScheduleInv, Schedules
<1>4. run' = "completed" /\ schedule.kind # "none" =>
        schedule.triggered /\ tick >= schedule.completion
  BY <1>2, <1>3
<1>5. InComparison' => InComparison
  BY <1>1 DEF InComparison
<1> QED
  BY <1>1, <1>4, <1>5 DEF ScheduleInv

LEMMA ScheduleLaunched ==
  ASSUME AttackInv, ScheduleInv, NEW f \in Families, Launch(f)
  PROVE  ScheduleInv'
<1>1. /\ run # "comparing" /\ hybrid /\ running' = TRUE
      /\ launches' = launches + 1 /\ scenario' = Arm(launches + 1, f, tick + 1)
      /\ UNCHANGED <<run, hybrid, tick, schedule>>
  BY DEF Launch, source
<1>2. InComparison => schedule.triggered /\ launches > 0
  BY <1>1 DEF ScheduleInv, InComparison
<1>3. launches \in Nat
  BY DEF AttackInv
<1>4. InComparison' = InComparison /\ scenario'.id = launches + 1
  BY <1>1 DEF InComparison, Arm
<1>5. InComparison => launches' > 0 /\ scenario'.id # 1
  BY <1>1, <1>2, <1>3, <1>4
<1> QED
  BY <1>1, <1>2, <1>4, <1>5 DEF ScheduleInv

LEMMA ScheduleReset == ScheduleInv /\ Reset => ScheduleInv'
<1> SUFFICES ASSUME ScheduleInv, Reset PROVE ScheduleInv'
  OBVIOUS
<1>1. run' = "live" /\ running' = FALSE /\ schedule' = NoSchedule
  BY DEF Reset
<1>2. NoSchedule \in Schedules /\ ~NoSchedule.triggered
  BY DEF NoSchedule, Schedules, AttackFamilies
<1>3. ~InComparison'
  BY <1>1 DEF InComparison
<1> QED
  BY <1>1, <1>2, <1>3 DEF ScheduleInv

(***************************************************************************)
(* The three invariants together.                                          *)
(***************************************************************************)
ReplayInv == RowsInv /\ AttackInv /\ ScheduleInv

LEMMA ReplayAdvance ==
  ASSUME ReplayInv, AdvancePostSource \/ AdvanceDeferred \/ AdvanceBatch
  PROVE  AttackInv' /\ ScheduleInv'
<1>1. PICK rows : ApplyScenario(scenario, tick + 1, rows)
  BY DEF AdvancePostSource, AdvanceDeferred, AdvanceBatch
<1>2. tick' = tick + 1 /\ UNCHANGED <<hybrid, scenario, launches, run, schedule>>
  BY DEF AdvancePostSource, AdvanceDeferred, AdvanceBatch, source
<1>3. running' \in BOOLEAN
  <2>1. CASE AdvancePostSource
    <3>1. running' = (tick + 1 < schedule.completion)
      BY <2>1, Zenon DEF AdvancePostSource
    <3> QED
      BY <3>1
  <2>2. CASE AdvanceDeferred
    <3>1. running' = (~SourceEof \/ (schedule.triggered /\ tick + 1 < schedule.completion))
      BY <2>2, Zenon DEF AdvanceDeferred
    <3> QED
      BY <3>1
  <2>3. CASE AdvanceBatch
    <3>1. running' = (BatchLast < Len(stamps)
                        \/ (schedule.triggered /\ tick + 1 < schedule.completion))
      BY <2>3, Zenon DEF AdvanceBatch
    <3> QED
      BY <3>1
  <2> QED
    BY <2>1, <2>2, <2>3
<1> QED
  BY <1>1, <1>2, <1>3, AttackGoesOn, ScheduleFrame DEF ReplayInv

LEMMA ReplayFrame ==
  ASSUME ReplayInv, AdvanceAtEnd \/ Start \/ Pause \/ UNCHANGED vars
  PROVE  AttackInv' /\ ScheduleInv'
<1>1. UNCHANGED <<tick, hybrid, scenario, launches, overlay, evaporated, run, schedule>>
  BY DEF AdvanceAtEnd, Start, Pause, vars, source, attack
<1>2. running' \in BOOLEAN
  BY DEF AdvanceAtEnd, Start, Pause, vars, ReplayInv, ScheduleInv
<1>3. AttackInv'
  BY <1>1 DEF ReplayInv, AttackInv, AttackRestsOnlyInsideLabel
<1> QED
  BY <1>1, <1>2, <1>3, ScheduleFrame DEF ReplayInv

\* Every step preserves the invariant.
LEMMA ReplayStep == ReplayInv /\ [Next]_vars => ReplayInv'
<1> SUFFICES ASSUME ReplayInv, [Next]_vars PROVE ReplayInv'
  OBVIOUS
<1>1. RowsInv'
  BY RowsStep DEF ReplayInv
<1>2. CASE AdvancePostSource \/ AdvanceDeferred \/ AdvanceBatch
  BY <1>1, <1>2, ReplayAdvance DEF ReplayInv
<1>3. CASE AdvanceTrigger
  <2>1. schedule.family \in AttackFamilies
    BY DEF ReplayInv, ScheduleInv, Schedules
  <2> QED
    BY <1>1, <1>3, <2>1, AttackTriggered, ScheduleTriggered DEF ReplayInv
<1>4. CASE FinishComparison
  <2>1. UNCHANGED <<tick, hybrid, scenario, launches, overlay, evaporated>>
    BY <1>4 DEF FinishComparison, source, attack
  <2>2. AttackInv'
    BY <2>1 DEF ReplayInv, AttackInv, AttackRestsOnlyInsideLabel
  <2> QED
    BY <1>1, <1>4, <2>2, ScheduleFinished DEF ReplayInv
<1>5. ASSUME NEW f \in Families, Launch(f) PROVE ReplayInv'
  BY <1>1, <1>5, AttackLaunched, ScheduleLaunched DEF ReplayInv
<1>6. CASE Reset
  BY <1>1, <1>6, AttackReset, ScheduleReset DEF ReplayInv
<1>7. CASE AdvanceAtEnd \/ Start \/ Pause \/ UNCHANGED vars
  BY <1>1, <1>7, ReplayFrame DEF ReplayInv
<1> QED
  BY <1>2, <1>3, <1>4, <1>5, <1>6, <1>7 DEF Next, Advance

LEMMA ReplayInvariant == Spec => []ReplayInv
<1>1. Init => ReplayInv
  BY RowsInit, AttackInit, ScheduleInit DEF ReplayInv
<1> QED
  BY <1>1, ReplayStep, PTL DEF Spec

\* Type correctness of the replay, its schedule and its attacks.
THEOREM ReplayTypeCorrect == Spec => []TypeOK
<1>1. ReplayInv => TypeOK
  BY DEF ReplayInv, RowsInv, AttackInv, ScheduleInv, TypeOK, Schedules, Scenarios,
         AttackFamilies
<1> QED
  BY <1>1, ReplayInvariant, PTL

\* The synthetic orders of the current attack rest in the book only inside its
\* label, for every duration and every mix of scheduled and manual attacks.
THEOREM AttacksStayInsideTheirLabel == Spec => []AttackRestsOnlyInsideLabel
<1>1. ReplayInv => AttackRestsOnlyInsideLabel
  BY DEF ReplayInv, AttackInv
<1> QED
  BY <1>1, ReplayInvariant, PTL

\* An accepted scheduled comparison has run through its attack's end and one
\* observation more, and none of the attack's orders is left.
THEOREM AcceptedComparisonsAreComplete == Spec => []CompletedAttackIsOver
<1>1. ReplayInv => CompletedAttackIsOver
  <2> SUFFICES ASSUME ReplayInv, run = "completed", schedule.kind # "none"
               PROVE  /\ tick > EndTick(schedule.family, schedule.tick)
                      /\ scenario.id = 1 => 1 \notin overlay
    BY DEF CompletedAttackIsOver
  <2>1. schedule \in Schedules /\ tick \in Nat
    BY DEF ReplayInv, ScheduleInv, AttackInv
  <2>2. EndTick(schedule.family, schedule.tick) \in Int
    <3>1. schedule.family \in AttackFamilies /\ schedule.tick \in Nat
      BY <2>1 DEF Schedules
    <3> QED
      BY <3>1, FamiliesKnown DEF EndTick, AttackFamilies, Wall, Stuffing, Evaporation
  <2>3. tick >= EndTick(schedule.family, schedule.tick) + 1
    BY DEF ReplayInv, ScheduleInv, CompletionTick
  <2>4. tick > EndTick(schedule.family, schedule.tick)
    BY <2>1, <2>2, <2>3
  <2>5. ASSUME scenario.id = 1, 1 \in overlay PROVE FALSE
    <3>1. scenario = Arm(1, schedule.family, schedule.tick)
      BY <2>5 DEF ReplayInv, ScheduleInv, InComparison
    <3>2. scenario.family = schedule.family /\ scenario.start = schedule.tick
      BY <3>1 DEF Arm
    <3>3. tick < EndTick(schedule.family, schedule.tick)
      BY <2>5, <3>2 DEF ReplayInv, AttackInv, AttackRestsOnlyInsideLabel
    <3> QED
      BY <2>1, <2>2, <2>4, <3>3
  <2> QED
    BY <2>4, <2>5
<1> QED
  BY <1>1, ReplayInvariant, PTL

--------------------------------------------------------------------------------
\* Every registered bundle exists and its report is a pass.
Reported(reg) == \A r \in DOMAIN reg : <<r, reg[r]>> \in Exported /\ FlawOf[<<r, reg[r]>>] # "report"

\* A validation that passed on the local files speaks for its own registry.
Speaks(validation) == validation.pass /\ validation.mode = "local" => Reported(validation.of)

Replacing == {"manifest", "validation", "adjudications"}

CorpusInv ==
    /\ DOMAIN disk = {"manifest", "validation", "adjudications"} /\ Speaks(disk.validation)
    /\ DOMAIN builder = Builders
    /\ \A b \in Builders : builder[b].pc \in Replacing =>
        /\ DOMAIN builder[b] = {"pc", "manifest", "validation", "adjudications"}
        /\ Speaks(builder[b].validation)

Judging == {"regime", "streaming", "replays", "passed", "failed"}
Validated == {"predictions", "adjudications"} \cup Judging

EvaluationFields ==
    {"pc", "plan", "detector", "reg", "split", "windows", "runs", "streaming", "units"}

\* What the evaluation holds is of the registry it read, as far as it has come.
ReadInv ==
    /\ DOMAIN evaluation = EvaluationFields
    /\ (evaluation.pc \in Validated => evaluation.split = evaluation.reg /\ Reported(evaluation.reg))
    /\ (evaluation.pc \in Judging => ValidAdjudications(evaluation.windows, evaluation.reg))
    /\ (evaluation.pc \notin {"replays", "passed", "failed"} => evaluation.units = {})

\* Each unit is a sound bundle of the registry, judged by the windows that were read.
UnitsInv ==
    \A u \in evaluation.units :
        /\ Bound(u.replay, u.content, evaluation.reg)
        /\ FlawOf[<<u.replay, u.content>>] = "none"
        /\ u.clean = CleanWindowsOf(evaluation.windows, u.replay)

ConcludedInv ==
    evaluation.pc \in {"passed", "failed"} =>
        /\ {u.replay : u \in evaluation.units} = ExpectedReplays
        /\ (evaluation.detector => evaluation.runs = {u.replay : u \in evaluation.units})

FeaturesInv == \A f \in features : f.negatives = NegativeLabels(f.windows, f.replay)

EvalInv == CorpusInv /\ ReadInv /\ UnitsInv /\ ConcludedInv /\ FeaturesInv
--------------------------------------------------------------------------------
LEMMA ValidationSpeaks ==
    ASSUME NEW reg, NEW mode
    PROVE  Speaks(ValidateCorpus(reg, mode)) /\ ValidateCorpus(reg, mode).of = reg
  BY DEF Speaks, ValidateCorpus, Reported, ArtifactsVerify, ReportsVerify

LEMMA OpensSound ==
    ASSUME NEW r, NEW content, Opens(r, content)
    PROVE  FlawOf[<<r, content>>] = "none"
  BY EvaluationAssumption DEF Opens, ManifestFits, RowsFit, ReportFits, EventsFit

\* Steps that leave the evaluation and the features alone.
LEMMA EvaluationStays ==
    ASSUME EvalInv, CorpusInv', evaluation' = evaluation, features' = features
    PROVE  EvalInv'
  BY DEF EvalInv, ReadInv, UnitsInv, ConcludedInv, FeaturesInv, ExpectedReplays

LEMMA CorpusStays ==
    ASSUME EvalInv, disk' = disk, builder' = builder
    PROVE  CorpusInv'
  BY DEF EvalInv, CorpusInv

LEMMA CorpusSteps ==
    ASSUME EvalInv, CorpusStep
    PROVE  EvalInv'
<1>1. evaluation' = evaluation /\ features' = features
  BY DEF CorpusStep, BuildCorpusBundle, ReplaceTarget, BuilderDies
<1>2. PICK b \in Builders :
        \/ \E reg \in Registries, mode \in {"local", "metadata_only"},
              windows \in {w \in SUBSET Windows : Cardinality(w) <= 2}, a \in BOOLEAN :
           BuildCorpusBundle(b, reg, mode, windows, a)
        \/ ReplaceTarget(b) \/ BuilderDies(b)
  BY DEF CorpusStep
<1>3. ASSUME NEW reg, NEW mode, NEW windows, NEW a, BuildCorpusBundle(b, reg, mode, windows, a)
      PROVE CorpusInv'
  <2> DEFINE new == [pc |-> "manifest", manifest |-> reg,
                     validation |-> ValidateCorpus(reg, mode), adjudications |-> windows]
  <2>1. disk' = disk /\ builder' = [builder EXCEPT ![b] = new]
    BY <1>3 DEF BuildCorpusBundle
  <2>2. DOMAIN new = {"pc", "manifest", "validation", "adjudications"} /\ Speaks(new.validation)
    BY ValidationSpeaks
  <2> HIDE DEF new
  <2>3. DOMAIN builder' = Builders /\ builder'[b] = new
        /\ \A c \in Builders : c # b => builder'[c] = builder[c]
    BY <2>1 DEF EvalInv, CorpusInv
  <2> QED BY <2>1, <2>2, <2>3 DEF EvalInv, CorpusInv, Speaks
<1>4. ASSUME BuilderDies(b) PROVE CorpusInv'
  <2>1. disk' = disk /\ DOMAIN builder' = Builders /\ builder'[b] = Ended
        /\ \A c \in Builders : c # b => builder'[c] = builder[c]
    BY <1>4 DEF BuilderDies, EvalInv, CorpusInv
  <2>2. Ended.pc \notin Replacing
    BY DEF Ended, Replacing
  <2>3. \A c \in Builders : builder'[c].pc \in Replacing =>
          /\ DOMAIN builder'[c] = {"pc", "manifest", "validation", "adjudications"}
          /\ Speaks(builder'[c].validation)
    BY <2>1, <2>2 DEF EvalInv, CorpusInv
  <2>4. DOMAIN disk' = {"manifest", "validation", "adjudications"} /\ Speaks(disk'.validation)
    BY <2>1 DEF EvalInv, CorpusInv
  <2> QED BY <2>1, <2>3, <2>4 DEF CorpusInv, Speaks, Reported, Replacing
<1>5. ASSUME ReplaceTarget(b) PROVE CorpusInv'
  <2>1. PICK pc \in Replacing : pc = builder[b].pc
    BY <1>5 DEF ReplaceTarget, Replacing
  <2>2. /\ DOMAIN builder[b] = {"pc", "manifest", "validation", "adjudications"}
        /\ Speaks(builder[b].validation)
    BY <2>1 DEF EvalInv, CorpusInv
  <2>3. disk' = [disk EXCEPT ![pc] = builder[b][pc]]
    BY <1>5, <2>1 DEF ReplaceTarget
  <2>4. /\ DOMAIN disk' = {"manifest", "validation", "adjudications"}
        /\ disk'["validation"] \in {disk["validation"], builder[b]["validation"]}
    BY <2>3 DEF EvalInv, CorpusInv
  <2>5. Speaks(disk'.validation)
    BY <2>2, <2>4 DEF EvalInv, CorpusInv
  <2>6. PICK next : /\ builder' = [builder EXCEPT ![b] = next]
                    /\ \/ next = Ended
                       \/ /\ DOMAIN next = {"pc", "manifest", "validation", "adjudications"}
                          /\ next.validation = builder[b].validation
    <3>1. CASE pc = "manifest"
      <4> DEFINE moved == [builder[b] EXCEPT !.pc = "validation"]
      <4>1. builder' = [builder EXCEPT ![b] = moved]
        BY <1>5, <2>1, <3>1 DEF ReplaceTarget
      <4>2. DOMAIN moved = {"pc", "manifest", "validation", "adjudications"}
            /\ moved.validation = builder[b].validation
        BY <2>2
      <4> HIDE DEF moved
      <4> QED BY <4>1, <4>2
    <3>2. CASE pc = "validation"
      <4> DEFINE moved == [builder[b] EXCEPT !.pc = "adjudications"]
      <4>1. builder' = [builder EXCEPT ![b] = moved]
        BY <1>5, <2>1, <3>2 DEF ReplaceTarget
      <4>2. DOMAIN moved = {"pc", "manifest", "validation", "adjudications"}
            /\ moved.validation = builder[b].validation
        BY <2>2
      <4> HIDE DEF moved
      <4> QED BY <4>1, <4>2
    <3>3. CASE pc = "adjudications"
      <4>1. builder' = [builder EXCEPT ![b] = Ended]
        BY <1>5, <2>1, <3>3 DEF ReplaceTarget
      <4> QED BY <4>1
    <3> QED BY <3>1, <3>2, <3>3 DEF Replacing
  <2>7. DOMAIN builder' = Builders /\ builder'[b] = next
        /\ \A c \in Builders : c # b => builder'[c] = builder[c]
    BY <2>6 DEF EvalInv, CorpusInv
  <2>8. \A c \in Builders : builder'[c].pc \in Replacing =>
          /\ DOMAIN builder'[c] = {"pc", "manifest", "validation", "adjudications"}
          /\ Speaks(builder'[c].validation)
    BY <2>2, <2>6, <2>7 DEF EvalInv, CorpusInv, Ended, Replacing
  <2> QED BY <2>4, <2>5, <2>7, <2>8 DEF CorpusInv, Speaks, Reported, Replacing
<1>6. CorpusInv'
  <2>1. ASSUME NEW reg \in Registries, NEW mode \in {"local", "metadata_only"},
               NEW windows \in {w \in SUBSET Windows : Cardinality(w) <= 2}, NEW a \in BOOLEAN,
               BuildCorpusBundle(b, reg, mode, windows, a)
        PROVE CorpusInv'
    BY <2>1, <1>3
  <2>2. CASE \E reg \in Registries, mode \in {"local", "metadata_only"},
              windows \in {w \in SUBSET Windows : Cardinality(w) <= 2}, a \in BOOLEAN :
           BuildCorpusBundle(b, reg, mode, windows, a)
    BY <2>1, <2>2, Zenon
  <2> QED BY <1>2, <1>4, <1>5, <2>2
<1> QED
  BY <1>1, <1>6, EvaluationStays

(* The commands that prepare evidence touch neither corpus nor evaluation. *)
LEMMA PreparationSteps ==
    ASSUME EvalInv, GenerateSplit \/ FitRegimes \/ StreamingEvidence \/ Predict
    PROVE  EvalInv'
<1>1. UNCHANGED <<disk, builder, features, evaluation>>
  <2>1. CASE GenerateSplit
    BY <2>1 DEF GenerateSplit, Prepare
  <2>2. CASE FitRegimes
    BY <2>2 DEF FitRegimes, Prepare
  <2>3. CASE StreamingEvidence
    BY <2>3 DEF StreamingEvidence, Prepare
  <2>4. CASE Predict
    BY <2>4 DEF Predict, Prepare
  <2> QED BY <2>1, <2>2, <2>3, <2>4
<1> QED BY <1>1, CorpusStays, EvaluationStays

LEMMA FeatureSteps ==
    ASSUME EvalInv, NEW r, NEW content, GenerateFeatures(r, content)
    PROVE  EvalInv'
<1>1. UNCHANGED <<disk, builder, evaluation>>
  BY DEF GenerateFeatures
<1>2. CorpusInv'
  BY <1>1, CorpusStays
<1>3. FeaturesInv'
  <2>1. features' = features \cup {[replay |-> r, windows |-> disk.adjudications,
                                    negatives |-> NegativeLabels(disk.adjudications, r)]}
    BY DEF GenerateFeatures
  <2> QED BY <2>1 DEF EvalInv, FeaturesInv
<1> QED
  BY <1>1, <1>2, <1>3 DEF EvalInv, ReadInv, UnitsInv, ConcludedInv, ExpectedReplays

(* A step of the evaluation leaves the corpus and the features alone.      *)
LEMMA EvaluationMoves ==
    ASSUME EvalInv, UNCHANGED <<disk, builder, features>>, ReadInv', UnitsInv', ConcludedInv'
    PROVE  EvalInv'
<1>1. CorpusInv'
  BY CorpusStays
<1>2. FeaturesInv'
  BY DEF EvalInv, FeaturesInv
<1> QED BY <1>1, <1>2 DEF EvalInv

(* A read that fails its gate forgets everything the command held.         *)
LEMMA RefusalKeeps ==
    ASSUME EvalInv, UNCHANGED <<disk, builder, features>>, Pass("refused", NotStarted)
    PROVE  EvalInv'
<1>1. /\ DOMAIN evaluation' = EvaluationFields
      /\ evaluation'.pc = "refused" /\ evaluation'.units = {}
  BY DEF Pass, NotStarted, EvaluationFields
<1>2. ReadInv' /\ UnitsInv' /\ ConcludedInv'
  BY <1>1 DEF ReadInv, UnitsInv, ConcludedInv, Validated, Judging
<1> QED BY <1>2, EvaluationMoves

(* Before it judges a replay the command has no unit to account for.       *)
LEMMA ReadingKeeps ==
    ASSUME EvalInv, UNCHANGED <<disk, builder, features>>, ReadInv',
           evaluation'.pc \notin {"replays", "passed", "failed"}
    PROVE  EvalInv'
<1>1. UnitsInv' /\ ConcludedInv'
  BY DEF ReadInv, UnitsInv, ConcludedInv
<1> QED BY <1>1, EvaluationMoves

LEMMA EarlySteps ==
    ASSUME EvalInv, (\E d \in BOOLEAN : StartEvaluation(d)) \/ ReadCorpus \/ ReadSplit
    PROVE  EvalInv'
<1>1. UNCHANGED <<disk, builder, features>>
  BY DEF StartEvaluation, ReadCorpus, ReadSplit, Step
<1>2. /\ DOMAIN evaluation' = EvaluationFields /\ evaluation'.units = evaluation.units
      /\ evaluation'.pc \in {"corpus", "split", "validation"}
      /\ evaluation.pc \in {"idle", "corpus", "split"}
  BY DEF StartEvaluation, ReadCorpus, ReadSplit, Step, Pass, EvalInv, ReadInv, EvaluationFields
<1>3. ReadInv'
  BY <1>2 DEF EvalInv, ReadInv, Validated, Judging
<1> QED BY <1>1, <1>2, <1>3, ReadingKeeps

(* The gate of the validation: it passed, locally, and of this registry.   *)
LEMMA ReadValidationStep ==
    ASSUME EvalInv, ReadValidation
    PROVE  EvalInv'
<1>1. UNCHANGED <<disk, builder, features>> /\ evaluation.pc = "validation"
  BY DEF ReadValidation, Step
<1>2. CASE ValidationBound /\ evaluation.split = evaluation.reg
  <2>1. Reported(evaluation.reg)
    BY <1>2 DEF ValidationBound, EvalInv, CorpusInv, Speaks
  <2>2. /\ DOMAIN evaluation' = EvaluationFields /\ evaluation'.units = evaluation.units
        /\ evaluation'.pc \in {"predictions", "adjudications"}
        /\ evaluation'.reg = evaluation.reg /\ evaluation'.split = evaluation.split
    BY <1>2 DEF ReadValidation, Step, Pass, EvalInv, ReadInv, EvaluationFields
  <2>3. evaluation'.split = evaluation'.reg /\ Reported(evaluation'.reg) /\ evaluation'.units = {}
    BY <1>1, <1>2, <2>1, <2>2 DEF EvalInv, ReadInv
  <2>4. ReadInv'
    BY <2>2, <2>3 DEF ReadInv, Reported, Judging
  <2> QED BY <1>1, <2>2, <2>4, ReadingKeeps
<1>3. CASE ~(ValidationBound /\ evaluation.split = evaluation.reg)
  BY <1>1, <1>3, RefusalKeeps DEF ReadValidation, Step
<1> QED BY <1>2, <1>3

LEMMA ReadPredictionsStep ==
    ASSUME EvalInv, ReadPredictions
    PROVE  EvalInv'
<1>1. UNCHANGED <<disk, builder, features>> /\ evaluation.pc = "predictions"
  BY DEF ReadPredictions, Step
<1>2. CASE evidence.predictions.of = evaluation.reg
  <2>1. /\ DOMAIN evaluation' = EvaluationFields /\ evaluation'.units = evaluation.units
        /\ evaluation'.pc = "adjudications"
        /\ evaluation'.reg = evaluation.reg /\ evaluation'.split = evaluation.split
    BY <1>2 DEF ReadPredictions, Step, Pass, EvalInv, ReadInv, EvaluationFields
  <2>2. evaluation'.split = evaluation'.reg /\ Reported(evaluation'.reg) /\ evaluation'.units = {}
    BY <1>1, <2>1 DEF EvalInv, ReadInv, Validated
  <2>3. ReadInv'
    BY <2>1, <2>2 DEF ReadInv, Reported, Judging
  <2> QED BY <1>1, <2>1, <2>3, ReadingKeeps
<1>3. CASE ~(evidence.predictions.of = evaluation.reg)
  BY <1>1, <1>3, RefusalKeeps DEF ReadPredictions, Step
<1> QED BY <1>2, <1>3

LEMMA ReadAdjudicationsStep ==
    ASSUME EvalInv, ReadAdjudications
    PROVE  EvalInv'
<1>1. UNCHANGED <<disk, builder, features>> /\ evaluation.pc = "adjudications"
  BY DEF ReadAdjudications, Step
<1>2. CASE ValidAdjudications(disk.adjudications, evaluation.reg)
  <2>1. /\ DOMAIN evaluation' = EvaluationFields /\ evaluation'.units = evaluation.units
        /\ evaluation'.pc = "regime" /\ evaluation'.windows = disk.adjudications
        /\ evaluation'.reg = evaluation.reg /\ evaluation'.split = evaluation.split
    BY <1>2 DEF ReadAdjudications, Step, Pass, EvalInv, ReadInv, EvaluationFields
  <2>2. /\ evaluation'.split = evaluation'.reg /\ Reported(evaluation'.reg)
        /\ evaluation'.units = {} /\ ValidAdjudications(evaluation'.windows, evaluation'.reg)
    BY <1>1, <1>2, <2>1 DEF EvalInv, ReadInv, Validated
  <2>3. ReadInv'
    BY <2>1, <2>2 DEF ReadInv, Reported
  <2> QED BY <1>1, <2>1, <2>3, ReadingKeeps
<1>3. CASE ~ValidAdjudications(disk.adjudications, evaluation.reg)
  BY <1>1, <1>3, RefusalKeeps DEF ReadAdjudications, Step
<1> QED BY <1>2, <1>3

LEMMA ReadRegimeStep ==
    ASSUME EvalInv, NEW plan, ReadRegime(plan)
    PROVE  EvalInv'
<1> DEFINE gate == /\ {SessionOf[b[1]] : b \in plan} = Expected(evaluation.reg)
                   /\ evidence.regime.of = evaluation.reg
                   /\ evidence.regime.fit \cap EvaluatedFold = {}
<1>1. UNCHANGED <<disk, builder, features>> /\ evaluation.pc = "regime"
  BY DEF ReadRegime, Step
<1>2. CASE gate
  <2>1. /\ DOMAIN evaluation' = EvaluationFields /\ evaluation'.units = evaluation.units
        /\ evaluation'.pc = "streaming" /\ evaluation'.windows = evaluation.windows
        /\ evaluation'.reg = evaluation.reg /\ evaluation'.split = evaluation.split
    BY <1>2 DEF ReadRegime, Step, Pass, EvalInv, ReadInv, EvaluationFields
  <2>2. /\ evaluation'.split = evaluation'.reg /\ Reported(evaluation'.reg)
        /\ evaluation'.units = {} /\ ValidAdjudications(evaluation'.windows, evaluation'.reg)
    BY <1>1, <2>1 DEF EvalInv, ReadInv, Validated, Judging
  <2>3. ReadInv'
    BY <2>1, <2>2 DEF ReadInv, Reported
  <2> QED BY <1>1, <2>1, <2>3, ReadingKeeps
<1>3. CASE ~gate
  BY <1>1, <1>3, RefusalKeeps DEF ReadRegime, Step
<1> QED BY <1>2, <1>3

LEMMA ReadStreamingStep ==
    ASSUME EvalInv, ReadStreaming
    PROVE  EvalInv'
<1> DEFINE gate == \A s \in Expected(evaluation.reg) : evidence.streaming[s].of = evaluation.reg
<1>1. UNCHANGED <<disk, builder, features>> /\ evaluation.pc = "streaming"
  BY DEF ReadStreaming, Step
<1>2. CASE gate
  <2>1. /\ DOMAIN evaluation' = EvaluationFields /\ evaluation'.units = evaluation.units
        /\ evaluation'.pc = "replays" /\ evaluation'.windows = evaluation.windows
        /\ evaluation'.reg = evaluation.reg /\ evaluation'.split = evaluation.split
    BY <1>2 DEF ReadStreaming, Step, Pass, EvalInv, ReadInv, EvaluationFields
  <2>2. /\ evaluation'.split = evaluation'.reg /\ Reported(evaluation'.reg)
        /\ evaluation'.units = {} /\ ValidAdjudications(evaluation'.windows, evaluation'.reg)
    BY <1>1, <2>1 DEF EvalInv, ReadInv, Validated, Judging
  <2>3. ReadInv' /\ UnitsInv' /\ ConcludedInv'
    BY <2>1, <2>2 DEF ReadInv, UnitsInv, ConcludedInv, Reported
  <2> QED BY <1>1, <2>3, EvaluationMoves
<1>3. CASE ~gate
  BY <1>1, <1>3, RefusalKeeps DEF ReadStreaming, Step
<1> QED BY <1>2, <1>3

(* One more replay: bound to the registry, opened, and judged by the       *)
(* windows that were read.                                                 *)
LEMMA ReadReplayStep ==
    ASSUME EvalInv, ReadReplay
    PROVE  EvalInv'
<1>1. UNCHANGED <<disk, builder, features>> /\ evaluation.pc = "replays"
  BY DEF ReadReplay, Step
<1>2. CASE Pass("refused", NotStarted)
  BY <1>1, <1>2, RefusalKeeps
<1>3. CASE ~Pass("refused", NotStarted)
  <2>1. PICK b \in evaluation.plan :
          /\ Bound(b[1], b[2], evaluation.reg) /\ Opens(b[1], b[2])
          /\ Pass("replays", [evaluation EXCEPT !.units = @ \cup
                {[replay |-> b[1], content |-> b[2],
                  clean |-> CleanWindowsOf(evaluation.windows, b[1])]}])
    BY <1>3, Zenon DEF ReadReplay, Step
  <2>2. FlawOf[<<b[1], b[2]>>] = "none"
    BY <2>1, OpensSound
  <2>3. /\ DOMAIN evaluation' = EvaluationFields /\ evaluation'.pc = "replays"
        /\ evaluation'.windows = evaluation.windows
        /\ evaluation'.reg = evaluation.reg /\ evaluation'.split = evaluation.split
        /\ evaluation'.units = evaluation.units \cup
             {[replay |-> b[1], content |-> b[2],
               clean |-> CleanWindowsOf(evaluation.windows, b[1])]}
    BY <2>1 DEF Pass, EvalInv, ReadInv, EvaluationFields
  <2>4. /\ evaluation'.split = evaluation'.reg /\ Reported(evaluation'.reg)
        /\ ValidAdjudications(evaluation'.windows, evaluation'.reg)
    BY <1>1, <2>3 DEF EvalInv, ReadInv, Validated, Judging
  <2>5. ReadInv' /\ ConcludedInv'
    BY <2>3, <2>4 DEF ReadInv, ConcludedInv, Reported
  <2>6. \A u \in evaluation'.units :
          /\ Bound(u.replay, u.content, evaluation.reg)
          /\ FlawOf[<<u.replay, u.content>>] = "none"
          /\ u.clean = CleanWindowsOf(evaluation.windows, u.replay)
    <3> SUFFICES ASSUME NEW u \in evaluation'.units
                 PROVE  /\ Bound(u.replay, u.content, evaluation.reg)
                        /\ FlawOf[<<u.replay, u.content>>] = "none"
                        /\ u.clean = CleanWindowsOf(evaluation.windows, u.replay)
      OBVIOUS
    <3>1. CASE u \in evaluation.units
      BY <3>1 DEF EvalInv, UnitsInv
    <3>2. CASE u \notin evaluation.units
      <4>1. /\ u.replay = b[1] /\ u.content = b[2]
            /\ u.clean = CleanWindowsOf(evaluation.windows, b[1])
        BY <2>3, <3>2
      <4> QED BY <2>1, <2>2, <4>1
    <3> QED BY <3>1, <3>2
  <2>7. UnitsInv'
    BY <2>3, <2>6 DEF UnitsInv, Bound
  <2> QED BY <1>1, <2>5, <2>7, EvaluationMoves
<1> QED BY <1>2, <1>3

(* The verdict: what was judged is exactly what the registry expects.      *)
LEMMA ConcludeStep ==
    ASSUME EvalInv, Conclude
    PROVE  EvalInv'
<1>1. UNCHANGED <<disk, builder, features>> /\ evaluation.pc = "replays"
  BY DEF Conclude, Step
<1>2. CASE Pass("refused", NotStarted)
  BY <1>1, <1>2, RefusalKeeps
<1>3. CASE ~Pass("refused", NotStarted)
  <2>1. /\ {u.replay : u \in evaluation.units} = ExpectedReplays
        /\ (evaluation.detector => evaluation.runs = {u.replay : u \in evaluation.units})
        /\ \E pc \in {"passed", "failed"} : Pass(pc, evaluation)
    BY <1>3 DEF Conclude, Step
  <2>2. /\ DOMAIN evaluation' = EvaluationFields /\ evaluation'.pc \in {"passed", "failed"}
        /\ evaluation'.windows = evaluation.windows /\ evaluation'.units = evaluation.units
        /\ evaluation'.reg = evaluation.reg /\ evaluation'.split = evaluation.split
        /\ evaluation'.detector = evaluation.detector /\ evaluation'.runs = evaluation.runs
    BY <2>1 DEF Pass, EvalInv, ReadInv, EvaluationFields
  <2>3. /\ evaluation'.split = evaluation'.reg /\ Reported(evaluation'.reg)
        /\ ValidAdjudications(evaluation'.windows, evaluation'.reg)
    BY <1>1, <2>2 DEF EvalInv, ReadInv, Validated, Judging
  <2>4. ReadInv'
    BY <2>2, <2>3 DEF ReadInv, Reported
  <2>5. UnitsInv'
    BY <2>2 DEF EvalInv, UnitsInv, Bound
  <2>6. ConcludedInv'
    BY <2>1, <2>2 DEF ConcludedInv, ExpectedReplays
  <2> QED BY <1>1, <2>4, <2>5, <2>6, EvaluationMoves
<1> QED BY <1>2, <1>3

LEMMA EvaluationInitially == EvaluationInit => EvalInv
<1> SUFFICES ASSUME EvaluationInit PROVE EvalInv
  OBVIOUS
<1>1. PICK reg \in Registries :
        /\ disk = [manifest |-> reg, validation |-> ValidateCorpus(reg, "local"), adjudications |-> {}]
        /\ builder = [b \in Builders |-> [pc |-> "idle"]]
        /\ features = {} /\ evaluation = NotStarted
  BY DEF EvaluationInit
<1>2. CorpusInv
  BY <1>1, ValidationSpeaks DEF CorpusInv, Replacing
<1>3. ReadInv /\ UnitsInv /\ ConcludedInv
  BY <1>1 DEF NotStarted, ReadInv, UnitsInv, ConcludedInv, EvaluationFields, Validated, Judging
<1> QED BY <1>1, <1>2, <1>3 DEF EvalInv, FeaturesInv

LEMMA EvaluationSteps == EvalInv /\ [EvaluationNext]_evaluationVars => EvalInv'
<1> SUFFICES ASSUME EvalInv, [EvaluationNext]_evaluationVars PROVE EvalInv'
  OBVIOUS
<1>1. CASE CorpusStep
  BY <1>1, CorpusSteps
<1>2. CASE GenerateSplit \/ FitRegimes \/ StreamingEvidence \/ Predict
  BY <1>2, PreparationSteps
<1>3. CASE \E b \in Exported : GenerateFeatures(b[1], b[2])
  BY <1>3, FeatureSteps
<1>4. CASE EvaluationStep
  <2>1. CASE (\E d \in BOOLEAN : StartEvaluation(d)) \/ ReadCorpus \/ ReadSplit
    BY <2>1, EarlySteps
  <2>2. CASE ReadValidation
    BY <2>2, ReadValidationStep
  <2>3. CASE ReadPredictions
    BY <2>3, ReadPredictionsStep
  <2>4. CASE ReadAdjudications
    BY <2>4, ReadAdjudicationsStep
  <2>5. CASE \E plan \in SUBSET Exported : ReadRegime(plan)
    BY <2>5, ReadRegimeStep
  <2>6. CASE ReadStreaming
    BY <2>6, ReadStreamingStep
  <2>7. CASE ReadReplay
    BY <2>7, ReadReplayStep
  <2>8. CASE Conclude
    BY <2>8, ConcludeStep
  <2> QED BY <1>4, <2>1, <2>2, <2>3, <2>4, <2>5, <2>6, <2>7, <2>8 DEF EvaluationStep
<1>5. CASE UNCHANGED evaluationVars
  BY <1>5, CorpusStays, EvaluationStays DEF evaluationVars
<1> QED BY <1>1, <1>2, <1>3, <1>4, <1>5 DEF EvaluationNext

(* The inductive invariant of the corpus and its evaluation.               *)
THEOREM EvaluationInvariant == EvaluationSpec => []EvalInv
  BY EvaluationInitially, EvaluationSteps, PTL DEF EvaluationSpec

LEMMA OneCorpusFollows == EvalInv => ResultsAreOfOneCorpus
<1> SUFFICES ASSUME EvalInv, evaluation.pc \in {"passed", "failed"}
             PROVE  ResultsAreOfOneCorpus
  BY DEF ResultsAreOfOneCorpus
<1>1. evaluation.split = evaluation.reg /\ Reported(evaluation.reg)
  BY DEF EvalInv, ReadInv, Validated, Judging
<1>2. \A u \in evaluation.units : /\ FlawOf[<<u.replay, u.content>>] = "none"
                                  /\ u.content = evaluation.reg[u.replay]
  BY DEF EvalInv, UnitsInv, Bound
<1>3. /\ {u.replay : u \in evaluation.units} = ReplaysOf(evaluation.reg, Expected(evaluation.reg))
      /\ (evaluation.detector => evaluation.runs = {u.replay : u \in evaluation.units})
  BY DEF EvalInv, ConcludedInv, ExpectedReplays
<1>4. {<<u.replay, u.content>> : u \in evaluation.units}
        = {<<r, evaluation.reg[r]>> : r \in ReplaysOf(evaluation.reg, Expected(evaluation.reg))}
  <2> DEFINE expected == ReplaysOf(evaluation.reg, Expected(evaluation.reg))
  <2>1. ASSUME NEW u \in evaluation.units
        PROVE  <<u.replay, u.content>> \in {<<r, evaluation.reg[r]>> : r \in expected}
    <3>1. u.replay \in expected /\ <<u.replay, u.content>> = <<u.replay, evaluation.reg[u.replay]>>
      BY <1>2, <1>3
    <3> QED BY <3>1
  <2>2. ASSUME NEW r \in expected
        PROVE  <<r, evaluation.reg[r]>> \in {<<u.replay, u.content>> : u \in evaluation.units}
    <3>1. PICK u \in evaluation.units : u.replay = r
      BY <1>3
    <3>2. <<r, evaluation.reg[r]>> = <<u.replay, u.content>>
      BY <1>2, <3>1
    <3> QED BY <3>2
  <2> HIDE DEF expected
  <2>3. {<<u.replay, u.content>> : u \in evaluation.units}
          = {<<r, evaluation.reg[r]>> : r \in expected}
    BY <2>1, <2>2
  <2> QED BY <2>3 DEF expected
<1> QED BY <1>1, <1>2, <1>3, <1>4 DEF ResultsAreOfOneCorpus, Reported

LEMMA NegativesFollow == EvalInv => NegativesAgree
<1> SUFFICES ASSUME EvalInv PROVE NegativesAgree
  OBVIOUS
<1>1. ASSUME NEW f \in features, NEW u \in evaluation.units,
             u.replay = f.replay, f.windows = evaluation.windows
      PROVE  u.clean = f.negatives
  BY <1>1, ZenonT(60) DEF EvalInv, UnitsInv, FeaturesInv, CleanWindowsOf, NegativeLabels
<1>2. ASSUME NEW u \in evaluation.units, NEW w \in u.clean
      PROVE  Cardinality({v \in Reviewers : w.votes[v] # "absent"}) >= MinReviewers
  <2>1. w \in evaluation.windows
    BY DEF EvalInv, UnitsInv, CleanWindowsOf
  <2>2. ValidAdjudications(evaluation.windows, evaluation.reg)
    BY DEF EvalInv, ReadInv, Judging
  <2> QED BY <2>1, <2>2 DEF ValidAdjudications, VerifiedClean, Voted
<1> QED BY <1>1, <1>2 DEF NegativesAgree

(* Whatever is replaced while it reads, an evaluation that ends with       *)
(* results is of one corpus: the split, the validation, the replays it     *)
(* judged and the runs its detector scored all belong to the registry it   *)
(* read, and none of the bundles has a flaw.                               *)
THEOREM OneCorpus == EvaluationSpec => []ResultsAreOfOneCorpus
  BY EvaluationInvariant, OneCorpusFollows, PTL

(* The negatives a detector is trained with are the ones it is judged by,  *)
(* and each was agreed on by enough reviewers.                             *)
THEOREM NegativesAreShared == EvaluationSpec => []NegativesAgree
  BY EvaluationInvariant, NegativesFollow, PTL

--------------------------------------------------------------------------------
(***************************************************************************)
(* The feature pipeline: what the rolling state stands for.                *)
(***************************************************************************)
Messages ==
    [kind : {"add", "cancel"}, order : Orders, key : PriceKeys, time : Nat, bad : BOOLEAN]
    \cup [kind : {"execute"}, order : Orders, complete : BOOLEAN, time : Nat, bad : BOOLEAN]
    \cup [kind : {"modify"}, order : Orders, key : PriceKeys, grows : BOOLEAN, time : Nat,
          bad : BOOLEAN]
Views == [kind : {"historical", "snapshot"}, time : Nat, bad : BOOLEAN]
Events == Messages \cup Views

\* The first n events that settle the life of an order, that cancel at a price,
\* and that are messages.
LivesOf(h, n, o) ==
    {j \in 1..n : /\ h[j].kind \in {"add", "cancel", "execute"} /\ h[j].order = o
                  /\ (h[j].kind = "execute" => h[j].complete)}
CancelsOf(h, n, k) == {j \in 1..n : h[j].kind = "cancel" /\ h[j].key = k}
MessagesOf(h, n) == {j \in 1..n : h[j].kind \in MessageKinds}

IsRapid(h, i) ==
    LET lives == LivesOf(h, i - 1, h[i].order)
    IN  /\ h[i].kind = "cancel" /\ lives # {} /\ h[Max(lives)].kind = "add"
        /\ h[i].time - h[Max(lives)].time <= RapidCancel
IsReplenishing(h, i) ==
    LET cancels == CancelsOf(h, i - 1, h[i].key)
    IN  /\ h[i].kind = "add" \/ (h[i].kind = "modify" /\ h[i].grows)
        /\ cancels # {} /\ h[i].time - h[Max(cancels)].time <= Replenishment
IsBurst(h, i) ==
    LET messages == MessagesOf(h, i - 1)
    IN  messages # {} /\ h[i].time - h[Max(messages)].time <= BurstGap

FactIn(h, i) ==
    [seq |-> i, time |-> h[i].time, kind |-> h[i].kind, rapid |-> IsRapid(h, i),
     replenishes |-> IsReplenishing(h, i), burst |-> IsBurst(h, i)]
StampIn(h, i) == [seq |-> i, time |-> h[i].time]

\* The events a window covers at event number at, and what is kept of them.
Recent(h, at, window) == {j \in DOMAIN h : j <= at /\ h[j].time > h[at].time - window}
FactsIn(h, at, window) ==
    {FactIn(h, i) : i \in {j \in Recent(h, at, window) : h[j].kind \in MessageKinds}}
SnapshotsIn(h, at, window) ==
    {StampIn(h, i) : i \in {j \in Recent(h, at, window) : h[j].kind = "snapshot"}}
ErrorsIn(h, at, window) ==
    {StampIn(h, i) : i \in {j \in Recent(h, at, window) : h[j].bad /\ h[j].kind # "snapshot"}}

\* An order's birth is kept while an add is the last thing that settled it.
BirthsOf(h, B) ==
    /\ \A b \in B : LET lives == LivesOf(h, Len(h), b.order)
                    IN  /\ b.order \in Orders /\ lives # {} /\ h[Max(lives)].kind = "add"
                        /\ b.time = h[Max(lives)].time
    /\ \A o \in Orders : LET lives == LivesOf(h, Len(h), o)
                         IN  lives # {} /\ h[Max(lives)].kind = "add" =>
                                \E b \in B : b.order = o /\ b.time = h[Max(lives)].time

\* The last cancel at a price is kept while the long window covers it.
CancelsIn(h, C) ==
    /\ \A c \in C : LET cancels == CancelsOf(h, Len(h), c.key)
                    IN  /\ c.key \in PriceKeys /\ cancels # {}
                        /\ c.time = h[Max(cancels)].time
    /\ \A k \in PriceKeys : LET cancels == CancelsOf(h, Len(h), k)
                            IN  cancels # {} /\ h[Max(cancels)].time > h[Len(h)].time - LongWindow =>
                                    \E c \in C : c.key = k /\ c.time = h[Max(cancels)].time

LastMessageIn(h, t) ==
    LET messages == MessagesOf(h, Len(h))
    IN  IF messages = {} THEN t = Never ELSE t = h[Max(messages)].time

InOrder(h) == \A i \in DOMAIN h : \A j \in DOMAIN h : i <= j => h[i].time <= h[j].time

\* What a row says of a history.
RowOf(h, r) ==
    r.at > 0 =>
      /\ r.at \in DOMAIN h
      /\ r.short = FactsIn(h, r.at, ShortWindow) /\ r.long = FactsIn(h, r.at, LongWindow)
      /\ r.snapsShort = SnapshotsIn(h, r.at, ShortWindow)
      /\ r.snapsLong = SnapshotsIn(h, r.at, LongWindow)
      /\ r.valid = (~h[r.at].bad /\ ErrorsIn(h, r.at, LongWindow) = {})

StreamInv ==
    /\ history \in Seq(Events) /\ InOrder(history)
    /\ facts = FactsIn(history, Len(history), LongWindow)
    /\ snapshots = SnapshotsIn(history, Len(history), LongWindow)
    /\ errors = ErrorsIn(history, Len(history), LongWindow)
    /\ BirthsOf(history, birth) /\ CancelsIn(history, lastCancel)
    /\ LastMessageIn(history, lastMessage)
    /\ RowOf(history, row)

Writing == {"check", "features", "quality", "metadata"}

\* A writer that holds the lock has replaced what its step says, and nothing else.
WriterInv(w) ==
    /\ writer[w].pc \in Writing => fileLock = w
    /\ writer[w].pc \in {"idle", "check", "features"} => \A n \in DOMAIN files : files[n] # w
    /\ writer[w].pc = "quality" => files.features = w /\ files.metadata # w
    /\ writer[w].pc = "metadata" => files.features = w /\ files.quality = w /\ files.metadata # w

FilesInv ==
    /\ DOMAIN files = {"features", "quality", "metadata"}
    /\ DOMAIN writer = Writers /\ \A w \in Writers : DOMAIN writer[w] = {"pc", "overwrite"}
    /\ \A w \in Writers : WriterInv(w)
    /\ MetadataSealsTheRun

FeatureInv == StreamInv /\ FilesInv
--------------------------------------------------------------------------------
(***************************************************************************)
(* The files of a run.                                                     *)
(***************************************************************************)
LEMMA FilesStay == FilesInv /\ UNCHANGED fileVars => FilesInv'
  BY DEF FilesInv, fileVars, WriterInv, MetadataSealsTheRun

\* A writer that replaces nothing.
LEMMA WriterMoves ==
    ASSUME FilesInv, NEW w \in Writers, UNCHANGED files, DOMAIN writer' = Writers,
           DOMAIN writer'[w] = {"pc", "overwrite"},
           \A v \in Writers : v # w => writer'[v] = writer[v],
           \A v \in Writers : v # w /\ writer[v].pc \in Writing => fileLock' = v,
           WriterInv(w)'
    PROVE  FilesInv'
<1>1. ASSUME NEW v \in Writers, v # w PROVE WriterInv(v)'
  BY <1>1 DEF FilesInv, WriterInv
<1>2. \A v \in Writers : DOMAIN writer'[v] = {"pc", "overwrite"}
  BY DEF FilesInv
<1> QED BY <1>1, <1>2 DEF FilesInv, MetadataSealsTheRun

\* Nobody else is writing.
LEMMA OneWriter ==
    ASSUME FilesInv, NEW w \in Writers, writer[w].pc \in Writing
    PROVE  fileLock = w /\ \A v \in Writers : v # w => writer[v].pc \notin Writing
  BY DEF FilesInv, WriterInv

LEMMA MovedTo ==
    ASSUME FilesInv, NEW w \in Writers, NEW pc, MoveTo(w, pc)
    PROVE  /\ DOMAIN writer' = Writers /\ DOMAIN writer'[w] = {"pc", "overwrite"}
           /\ writer'[w].pc = pc /\ \A v \in Writers : v # w => writer'[v] = writer[v]
  BY DEF FilesInv, MoveTo

LEMMA BeginWriteStep ==
    ASSUME FilesInv, NEW w \in Writers, NEW overwrite, BeginWrite(w, overwrite)
    PROVE  FilesInv'
<1>1. /\ writer[w].pc = "idle" /\ fileLock = Free /\ fileLock' = w /\ files' = files
      /\ DOMAIN writer' = Writers /\ DOMAIN writer'[w] = {"pc", "overwrite"}
      /\ writer'[w].pc = "check" /\ \A v \in Writers : v # w => writer'[v] = writer[v]
  BY DEF BeginWrite, FilesInv
<1>2. \A v \in Writers : writer[v].pc \notin Writing
  BY <1>1, FeatureAssumption DEF FilesInv, WriterInv
<1>3. WriterInv(w)'
  BY <1>1 DEF FilesInv, WriterInv
<1> QED BY <1>1, <1>2, <1>3, WriterMoves

LEMMA CheckTargetsStep ==
    ASSUME FilesInv, NEW w \in Writers, CheckTargets(w)
    PROVE  FilesInv'
<1>1. PICK pc : /\ writer[w].pc = "check" /\ files' = files /\ MoveTo(w, pc)
                /\ pc = "idle" \/ (pc = "features" /\ fileLock' = fileLock)
  BY DEF CheckTargets
<1>2. fileLock = w /\ \A v \in Writers : v # w => writer[v].pc \notin Writing
  BY <1>1, OneWriter DEF Writing
<1>3. /\ DOMAIN writer' = Writers /\ DOMAIN writer'[w] = {"pc", "overwrite"}
      /\ writer'[w].pc = pc /\ \A v \in Writers : v # w => writer'[v] = writer[v]
  BY <1>1, MovedTo
<1>4. WriterInv(w)'
  BY <1>1, <1>2, <1>3 DEF FilesInv, WriterInv, Writing
<1> QED BY <1>1, <1>2, <1>3, <1>4, WriterMoves

LEMMA WriteEndsStep ==
    ASSUME FilesInv, NEW w \in Writers, WriteFails(w) \/ WriterDies(w)
    PROVE  FilesInv'
<1>1. PICK pc : /\ writer[w].pc \in Writing /\ files' = files /\ MoveTo(w, pc)
                /\ pc \in {"done", "dead"}
  BY DEF WriteFails, WriterDies, Writing
<1>2. fileLock = w /\ \A v \in Writers : v # w => writer[v].pc \notin Writing
  BY <1>1, OneWriter
<1>3. /\ DOMAIN writer' = Writers /\ DOMAIN writer'[w] = {"pc", "overwrite"}
      /\ writer'[w].pc = pc /\ \A v \in Writers : v # w => writer'[v] = writer[v]
  BY <1>1, MovedTo
<1>4. WriterInv(w)'
  BY <1>1, <1>3 DEF WriterInv, Writing
<1> QED BY <1>1, <1>2, <1>3, <1>4, WriterMoves

LEMMA ReplaceFileStep ==
    ASSUME FilesInv, NEW w \in Writers, ReplaceFile(w)
    PROVE  FilesInv'
<1>1. PICK f : f = writer[w].pc
  OBVIOUS
<1>2. /\ f \in {"features", "quality", "metadata"}
      /\ files' = [files EXCEPT ![f] = w]
  BY <1>1 DEF ReplaceFile
<1>3. PICK pc : /\ MoveTo(w, pc)
                /\ \/ f = "metadata" /\ pc = "done"
                   \/ f = "features" /\ pc = "quality" /\ fileLock' = fileLock
                   \/ f = "quality" /\ pc = "metadata" /\ fileLock' = fileLock
  BY <1>1, <1>2 DEF ReplaceFile
<1>4. fileLock = w /\ \A v \in Writers : v # w => writer[v].pc \notin Writing
  BY <1>1, <1>2, OneWriter DEF Writing
<1>5. /\ DOMAIN writer' = Writers /\ DOMAIN writer'[w] = {"pc", "overwrite"}
      /\ writer'[w].pc = pc /\ \A v \in Writers : v # w => writer'[v] = writer[v]
  BY <1>3, MovedTo
<1>6. /\ DOMAIN files' = {"features", "quality", "metadata"} /\ DOMAIN files' = DOMAIN files
      /\ files'[f] = w /\ \A n \in DOMAIN files : n # f => files'[n] = files[n]
  BY <1>2 DEF FilesInv
<1>7. WriterInv(w)
  BY DEF FilesInv
<1>8. WriterInv(w)'
  BY <1>1, <1>2, <1>3, <1>4, <1>5, <1>6, <1>7 DEF WriterInv, Writing
<1>9. ASSUME NEW v \in Writers, v # w PROVE WriterInv(v)'
  <2>1. WriterInv(v) /\ writer'[v] = writer[v] /\ writer[v].pc \notin Writing
    BY <1>4, <1>5, <1>9 DEF FilesInv
  <2> QED BY <1>6, <1>9, <2>1 DEF WriterInv, Writing
<1>10. MetadataSealsTheRun'
  BY <1>1, <1>2, <1>6, <1>7 DEF MetadataSealsTheRun, FilesInv, WriterInv
<1>11. \A v \in Writers : DOMAIN writer'[v] = {"pc", "overwrite"}
  BY <1>5 DEF FilesInv
<1> QED BY <1>5, <1>6, <1>8, <1>9, <1>10, <1>11 DEF FilesInv

LEMMA WriteFilesStep == FilesInv /\ WriteFiles => FilesInv'
  BY BeginWriteStep, CheckTargetsStep, ReplaceFileStep, WriteEndsStep DEF WriteFiles

(***************************************************************************)
(* The last index of a set of indices.                                     *)
(***************************************************************************)
LEMMA LeastIndex ==
    ASSUME NEW S \in SUBSET Nat, S # {}
    PROVE  \E m \in S : \A k \in S : m <= k
<1>1. PICK m \in S : \A k \in S : ~(<<k, m>> \in OpToRel(<, Nat))
  BY NatLessThanWellFounded, WFMin
<1>2. \A k \in S : ~(k < m)
  BY <1>1, Zenon DEF OpToRel
<1> QED BY <1>2

LEMMA MaxOf ==
    ASSUME NEW n \in Nat, NEW S \in SUBSET (1..n), S # {}
    PROVE  Max(S) \in S /\ \A j \in S : j <= Max(S)
<1> DEFINE T == {n - j : j \in S}
<1>1. T \in SUBSET Nat /\ T # {}
  <2>1. PICK x \in S : TRUE
    OBVIOUS
  <2>2. n - x \in T
    BY <2>1
  <2>3. \A t \in T : t \in Nat
    OBVIOUS
  <2> QED BY <2>2, <2>3
<1>2. PICK m \in T : \A k \in T : m <= k
  BY <1>1, LeastIndex
<1>3. PICK x \in S : m = n - x
  BY <1>2
<1>4. \A j \in S : n - x <= n - j
  BY <1>2, <1>3
<1>5. \A j \in S : x >= j
  BY <1>4
<1>6. Max(S) \in S /\ \A j \in S : Max(S) >= j
  BY <1>5 DEF Max
<1> QED BY <1>6

LEMMA MaxTop ==
    ASSUME NEW n \in Nat, NEW S \in SUBSET (1..n), n \in S
    PROVE  Max(S) = n
<1>1. Max(S) \in 1..n /\ n <= Max(S)
  BY MaxOf
<1> QED BY <1>1

(***************************************************************************)
(* One more event.                                                         *)
(***************************************************************************)
Grows(h, g, e) ==
    /\ h \in Seq(Events) /\ g \in Seq(Events) /\ e \in Events /\ Len(h) \in Nat
    /\ DOMAIN h = 1..Len(h) /\ DOMAIN g = 1..(Len(h) + 1) /\ Len(g) = Len(h) + 1
    /\ g[Len(h) + 1] = e /\ \A i \in 1..Len(h) : g[i] = h[i]
    /\ InOrder(g) /\ \A i \in 1..(Len(h) + 1) : g[i].time \in Nat /\ g[i].time <= e.time

LEMMA EventShape ==
    ASSUME NEW e \in Events
    PROVE  e.time \in Nat /\ e.bad \in BOOLEAN
  BY DEF Events, Messages, Views

LEMMA ArrivalGrows ==
    ASSUME history \in Seq(Events), InOrder(history), NEW e \in Events, Arrives(e)
    PROVE  Grows(history, history', e)
<1>1. /\ history' = Append(history, e) /\ e.time \in Now..MaxClock /\ e.time \in Nat
  BY EventShape DEF Arrives
<1>2. /\ history' \in Seq(Events) /\ Len(history) \in Nat /\ Len(history') = Len(history) + 1
      /\ DOMAIN history = 1..Len(history) /\ DOMAIN history' = 1..(Len(history) + 1)
      /\ history'[Len(history) + 1] = e /\ \A i \in 1..Len(history) : history'[i] = history[i]
  BY <1>1
<1>3. \A i \in 1..(Len(history) + 1) : history'[i] \in Events /\ history'[i].time \in Nat
  BY <1>2, EventShape
<1>4. ASSUME NEW i \in 1..Len(history) PROVE history[i].time <= e.time
  <2>1. history # <<>> /\ Now = history[Len(history)].time /\ Len(history) \in DOMAIN history
    BY <1>2, <1>4 DEF Now
  <2>2. history[i].time <= history[Len(history)].time
    BY <1>2, <1>4, <2>1 DEF InOrder
  <2>3. history[i].time \in Nat /\ history[Len(history)].time \in Nat
    BY <1>2, <1>4, EventShape
  <2>4. history[Len(history)].time <= e.time
    BY <1>1, <2>1, <2>3, FeatureAssumption
  <2> QED BY <1>1, <2>2, <2>3, <2>4
<1>5. \A i \in 1..(Len(history) + 1) : history'[i].time <= e.time
  BY <1>1, <1>2, <1>4
<1>6. ASSUME NEW i \in DOMAIN history', NEW j \in DOMAIN history', i <= j
      PROVE  history'[i].time <= history'[j].time
  <2>1. CASE j = Len(history) + 1
    BY <1>2, <1>5, <2>1
  <2>2. CASE j # Len(history) + 1
    <3>1. i \in DOMAIN history /\ j \in DOMAIN history
      BY <1>2, <1>6, <2>2
    <3> QED BY <1>2, <1>6, <3>1 DEF InOrder
  <2> QED BY <2>1, <2>2
<1> QED BY <1>2, <1>3, <1>5, <1>6 DEF Grows, InOrder

\* Indices below an event are the same in the longer history.
LEMMA EarlierIndices ==
    ASSUME NEW h, NEW g, NEW e, Grows(h, g, e), NEW n \in 0..Len(h)
    PROVE  /\ \A o : LivesOf(g, n, o) = LivesOf(h, n, o)
           /\ \A k : CancelsOf(g, n, k) = CancelsOf(h, n, k)
           /\ MessagesOf(g, n) = MessagesOf(h, n)
<1>1. \A j \in 1..n : g[j] = h[j]
  BY DEF Grows
<1> QED BY <1>1 DEF LivesOf, CancelsOf, MessagesOf

LEMMA IndexSets ==
    ASSUME NEW h, NEW n
    PROVE  /\ \A o : LivesOf(h, n, o) \in SUBSET (1..n)
           /\ \A k : CancelsOf(h, n, k) \in SUBSET (1..n)
           /\ MessagesOf(h, n) \in SUBSET (1..n)
  BY DEF LivesOf, CancelsOf, MessagesOf

LEMMA LastStays ==
    ASSUME NEW h, NEW g, NEW e, Grows(h, g, e), NEW n \in 0..Len(h), NEW S \in SUBSET (1..n), S # {}
    PROVE  g[Max(S)] = h[Max(S)]
<1>1. n \in Nat /\ \A j \in 1..n : g[j] = h[j]
  BY DEF Grows
<1> QED BY <1>1, MaxOf

LEMMA FactStays ==
    ASSUME NEW h, NEW g, NEW e, Grows(h, g, e), NEW i \in 1..Len(h)
    PROVE  FactIn(g, i) = FactIn(h, i) /\ StampIn(g, i) = StampIn(h, i)
<1>1. g[i] = h[i] /\ i - 1 \in 0..Len(h)
  BY DEF Grows
<1>2. IsRapid(g, i) = IsRapid(h, i)
  <2> DEFINE S == LivesOf(h, i - 1, h[i].order)
  <2>1. LivesOf(g, i - 1, g[i].order) = S /\ S \in SUBSET (1..(i - 1))
    BY <1>1, EarlierIndices, IndexSets
  <2>2. S # {} => g[Max(S)] = h[Max(S)]
    BY <1>1, <2>1, LastStays
  <2> QED BY <1>1, <2>1, <2>2 DEF IsRapid
<1>3. IsReplenishing(g, i) = IsReplenishing(h, i)
  <2> DEFINE S == CancelsOf(h, i - 1, h[i].key)
  <2>1. CancelsOf(g, i - 1, g[i].key) = S /\ S \in SUBSET (1..(i - 1))
    BY <1>1, EarlierIndices, IndexSets
  <2>2. S # {} => g[Max(S)] = h[Max(S)]
    BY <1>1, <2>1, LastStays
  <2> QED BY <1>1, <2>1, <2>2 DEF IsReplenishing
<1>4. IsBurst(g, i) = IsBurst(h, i)
  <2> DEFINE S == MessagesOf(h, i - 1)
  <2>1. MessagesOf(g, i - 1) = S /\ S \in SUBSET (1..(i - 1))
    BY <1>1, EarlierIndices, IndexSets
  <2>2. S # {} => g[Max(S)] = h[Max(S)]
    BY <1>1, <2>1, LastStays
  <2> QED BY <1>1, <2>1, <2>2 DEF IsBurst
<1> QED BY <1>1, <1>2, <1>3, <1>4 DEF FactIn, StampIn

(***************************************************************************)
(* Windows.                                                                *)
(***************************************************************************)
LEMMA RecentStays ==
    ASSUME NEW h, NEW g, NEW e, Grows(h, g, e), NEW at \in 1..Len(h), NEW window
    PROVE  Recent(g, at, window) = Recent(h, at, window)
  BY DEF Grows, Recent

\* A row says the same of a longer history.
LEMMA RowStays ==
    ASSUME NEW h, NEW g, NEW e, Grows(h, g, e), NEW r, RowOf(h, r)
    PROVE  RowOf(g, r)
<1> SUFFICES ASSUME r.at > 0 PROVE RowOf(g, r)
  BY DEF RowOf
<1>1. r.at \in 1..Len(h) /\ r.at \in DOMAIN g /\ g[r.at] = h[r.at]
  BY DEF RowOf, Grows
<1>2. \A window : Recent(g, r.at, window) = Recent(h, r.at, window)
  BY <1>1, RecentStays
<1>3. \A window : \A j \in Recent(h, r.at, window) :
        g[j] = h[j] /\ FactIn(g, j) = FactIn(h, j) /\ StampIn(g, j) = StampIn(h, j)
  BY <1>1, FactStays DEF Recent, Grows
<1>4. \A window : /\ FactsIn(g, r.at, window) = FactsIn(h, r.at, window)
                  /\ SnapshotsIn(g, r.at, window) = SnapshotsIn(h, r.at, window)
                  /\ ErrorsIn(g, r.at, window) = ErrorsIn(h, r.at, window)
  BY <1>2, <1>3 DEF FactsIn, SnapshotsIn, ErrorsIn
<1> QED BY <1>1, <1>4 DEF RowOf

\* The window moves on: it loses what is too old and gains the new event.
LEMMA RecentMoves ==
    ASSUME NEW h, NEW g, NEW e, Grows(h, g, e)
    PROVE  Recent(g, Len(g), LongWindow) =
             {j \in Recent(h, Len(h), LongWindow) : h[j].time > e.time - LongWindow} \cup {Len(g)}
<1> DEFINE n == Len(h)
<1>1. /\ n \in Nat /\ Len(g) = n + 1 /\ DOMAIN h = 1..n /\ DOMAIN g = 1..(n + 1) /\ g[n + 1] = e
      /\ \A i \in 1..n : g[i] = h[i] /\ h[i].time \in Nat /\ h[i].time <= e.time
      /\ e.time \in Nat /\ LongWindow \in Nat /\ LongWindow > 0
  <2>1. LongWindow \in Nat /\ LongWindow > 0
    BY FeatureAssumption
  <2>2. /\ n \in Nat /\ Len(g) = n + 1 /\ DOMAIN h = 1..n /\ DOMAIN g = 1..(n + 1) /\ g[n + 1] = e
        /\ \A i \in 1..n : g[i] = h[i]
    BY DEF Grows
  <2>3. \A i \in 1..(n + 1) : g[i].time \in Nat /\ g[i].time <= e.time
    BY DEF Grows
  <2>4. \A i \in 1..n : i \in 1..(n + 1)
    BY <2>2
  <2> QED BY <2>1, <2>2, <2>3, <2>4
<1>2. n + 1 \in Recent(g, n + 1, LongWindow)
  BY <1>1 DEF Recent
<1>3. ASSUME NEW j \in 1..n
      PROVE  j \in Recent(g, n + 1, LongWindow) <=>
               j \in Recent(h, n, LongWindow) /\ h[j].time > e.time - LongWindow
  <2>1. h[n].time \in Nat /\ h[n].time <= e.time /\ h[j].time \in Nat
    BY <1>1, <1>3
  <2> QED BY <1>1, <1>3, <2>1 DEF Recent
<1>4. Recent(g, n + 1, LongWindow) \subseteq 1..(n + 1) /\ Recent(h, n, LongWindow) \subseteq 1..n
  BY <1>1 DEF Recent
<1> QED BY <1>1, <1>2, <1>3, <1>4

\* So what is kept of it is what is kept after an eviction.
LEMMA FactsMove ==
    ASSUME NEW h, NEW g, NEW e, Grows(h, g, e),
           NEW X, X = IF e.kind \in MessageKinds THEN {FactIn(g, Len(g))} ELSE {}
    PROVE  FactsIn(g, Len(g), LongWindow) =
             Within(FactsIn(h, Len(h), LongWindow) \cup X, e.time, LongWindow)
<1> DEFINE R == Recent(h, Len(h), LongWindow)
           Q == Recent(g, Len(g), LongWindow)
<1>1. /\ Q = {j \in R : h[j].time > e.time - LongWindow} \cup {Len(g)}
      /\ R \subseteq 1..Len(h) /\ Len(g) \notin R /\ g[Len(g)] = e
      /\ \A j \in 1..Len(h) : g[j] = h[j]
      /\ e.time \in Nat /\ LongWindow \in Nat /\ LongWindow > 0
  <2>1. Q = {j \in R : h[j].time > e.time - LongWindow} \cup {Len(g)}
    BY RecentMoves
  <2>2. R \subseteq 1..Len(h) /\ Len(h) \in Nat /\ Len(g) = Len(h) + 1
    BY DEF Recent, Grows
  <2>3. Len(g) \notin R
    BY <2>2
  <2> QED BY <2>1, <2>2, <2>3, FeatureAssumption DEF Grows
<1>2. \A j \in 1..Len(h) : FactIn(g, j) = FactIn(h, j)
  BY FactStays
<1>3. /\ \A j : FactIn(h, j).time = h[j].time
      /\ FactIn(g, Len(g)).time = e.time
  BY <1>1 DEF FactIn
<1>4. FactIn(g, Len(g)).time > e.time - LongWindow
  BY <1>1, <1>3
<1> HIDE DEF R, Q
<1>5. ASSUME NEW f \in FactsIn(g, Len(g), LongWindow)
      PROVE  f \in Within(FactsIn(h, Len(h), LongWindow) \cup X, e.time, LongWindow)
  <2>1. PICK j \in Q : g[j].kind \in MessageKinds /\ f = FactIn(g, j)
    BY <1>5 DEF FactsIn, Q
  <2>2. CASE j = Len(g)
    BY <1>1, <1>4, <2>1, <2>2 DEF Within
  <2>3. CASE j # Len(g)
    BY <1>1, <1>2, <1>3, <2>1, <2>3 DEF Within, FactsIn, R
  <2> QED BY <2>2, <2>3
<1>6. ASSUME NEW f \in Within(FactsIn(h, Len(h), LongWindow) \cup X, e.time, LongWindow)
      PROVE  f \in FactsIn(g, Len(g), LongWindow)
  <2>1. CASE f \in X
    BY <1>1, <2>1 DEF FactsIn, Q
  <2>2. CASE f \in FactsIn(h, Len(h), LongWindow)
    <3>1. PICK j \in R : h[j].kind \in MessageKinds /\ f = FactIn(h, j)
      BY <2>2 DEF FactsIn, R
    <3>2. f.time > e.time - LongWindow
      BY <1>6 DEF Within
    <3>3. j \in Q /\ g[j] = h[j] /\ FactIn(g, j) = f
      BY <1>1, <1>2, <1>3, <3>1, <3>2
    <3> QED BY <3>1, <3>3 DEF FactsIn, Q
  <2> QED BY <1>6, <2>1, <2>2 DEF Within
<1> QED BY <1>5, <1>6

LEMMA StampsMove ==
    ASSUME NEW h, NEW g, NEW e, Grows(h, g, e)
    PROVE  /\ SnapshotsIn(g, Len(g), LongWindow) =
                Within(SnapshotsIn(h, Len(h), LongWindow)
                         \cup (IF e.kind = "snapshot" THEN {StampIn(g, Len(g))} ELSE {}),
                       e.time, LongWindow)
           /\ ErrorsIn(g, Len(g), LongWindow) =
                Within(ErrorsIn(h, Len(h), LongWindow)
                         \cup (IF e.bad /\ e.kind # "snapshot" THEN {StampIn(g, Len(g))} ELSE {}),
                       e.time, LongWindow)
<1> DEFINE R == Recent(h, Len(h), LongWindow)
           Q == Recent(g, Len(g), LongWindow)
<1>1. /\ Q = {j \in R : h[j].time > e.time - LongWindow} \cup {Len(g)}
      /\ R \subseteq 1..Len(h) /\ Len(g) \notin R /\ g[Len(g)] = e
      /\ \A j \in 1..Len(h) : g[j] = h[j]
      /\ e.time \in Nat /\ LongWindow \in Nat /\ LongWindow > 0
  <2>1. Q = {j \in R : h[j].time > e.time - LongWindow} \cup {Len(g)}
    BY RecentMoves
  <2>2. R \subseteq 1..Len(h) /\ Len(h) \in Nat /\ Len(g) = Len(h) + 1
    BY DEF Recent, Grows
  <2>3. Len(g) \notin R
    BY <2>2
  <2> QED BY <2>1, <2>2, <2>3, FeatureAssumption DEF Grows
<1>2. \A j \in 1..Len(h) : StampIn(g, j) = StampIn(h, j)
  BY FactStays
<1>3. /\ \A j : StampIn(h, j).time = h[j].time
      /\ StampIn(g, Len(g)).time = e.time
  BY <1>1 DEF StampIn
<1>4. StampIn(g, Len(g)).time > e.time - LongWindow
  BY <1>1, <1>3
<1> HIDE DEF R, Q
<1>5. SnapshotsIn(g, Len(g), LongWindow) =
        Within(SnapshotsIn(h, Len(h), LongWindow)
                 \cup (IF e.kind = "snapshot" THEN {StampIn(g, Len(g))} ELSE {}),
               e.time, LongWindow)
  <2>1. /\ SnapshotsIn(g, Len(g), LongWindow) = {StampIn(g, i) : i \in {j \in Q : g[j].kind = "snapshot"}}
        /\ SnapshotsIn(h, Len(h), LongWindow) = {StampIn(h, i) : i \in {j \in R : h[j].kind = "snapshot"}}
    BY DEF SnapshotsIn, Q, R
  <2> QED BY <1>1, <1>2, <1>3, <1>4, <2>1 DEF Within
<1>6. ErrorsIn(g, Len(g), LongWindow) =
        Within(ErrorsIn(h, Len(h), LongWindow)
                 \cup (IF e.bad /\ e.kind # "snapshot" THEN {StampIn(g, Len(g))} ELSE {}),
               e.time, LongWindow)
  <2>1. /\ ErrorsIn(g, Len(g), LongWindow) =
             {StampIn(g, i) : i \in {j \in Q : g[j].bad /\ g[j].kind # "snapshot"}}
        /\ ErrorsIn(h, Len(h), LongWindow) =
             {StampIn(h, i) : i \in {j \in R : h[j].bad /\ h[j].kind # "snapshot"}}
    BY DEF ErrorsIn, Q, R
  <2> QED BY <1>1, <1>2, <1>3, <1>4, <2>1 DEF Within
<1> QED BY <1>5, <1>6

\* The short window is the recent part of the long one.
LEMMA ShortOfLong ==
    ASSUME NEW h, NEW g, NEW e, Grows(h, g, e)
    PROVE  /\ FactsIn(g, Len(g), ShortWindow) =
                Within(FactsIn(g, Len(g), LongWindow), e.time, ShortWindow)
           /\ SnapshotsIn(g, Len(g), ShortWindow) =
                Within(SnapshotsIn(g, Len(g), LongWindow), e.time, ShortWindow)
<1> DEFINE S == Recent(g, Len(g), ShortWindow)
           Q == Recent(g, Len(g), LongWindow)
<1>1. /\ ShortWindow \in Nat /\ LongWindow \in Nat /\ ShortWindow < LongWindow /\ e.time \in Nat
      /\ g[Len(g)] = e /\ \A j \in DOMAIN g : g[j].time \in Nat
  BY FeatureAssumption DEF Grows
<1>2. S = {j \in Q : g[j].time > e.time - ShortWindow}
  BY <1>1 DEF Recent
<1>3. \A j : FactIn(g, j).time = g[j].time /\ StampIn(g, j).time = g[j].time
  BY DEF FactIn, StampIn
<1> HIDE DEF S, Q
<1>4. /\ FactsIn(g, Len(g), ShortWindow) = {FactIn(g, i) : i \in {j \in S : g[j].kind \in MessageKinds}}
      /\ FactsIn(g, Len(g), LongWindow) = {FactIn(g, i) : i \in {j \in Q : g[j].kind \in MessageKinds}}
      /\ SnapshotsIn(g, Len(g), ShortWindow) = {StampIn(g, i) : i \in {j \in S : g[j].kind = "snapshot"}}
      /\ SnapshotsIn(g, Len(g), LongWindow) = {StampIn(g, i) : i \in {j \in Q : g[j].kind = "snapshot"}}
  BY DEF FactsIn, SnapshotsIn, S, Q
<1> QED BY <1>2, <1>3, <1>4 DEF Within

(***************************************************************************)
(* What the rolling state knows of the past.                               *)
(***************************************************************************)
\* The last of some earlier events is no later than the last event.
LEMMA LastIndex ==
    ASSUME NEW h, NEW g, NEW e, Grows(h, g, e), NEW S \in SUBSET (1..Len(h)), S # {}
    PROVE  /\ Max(S) \in 1..Len(h) /\ Len(h) \in 1..Len(h) /\ g[Max(S)] = h[Max(S)]
           /\ h[Max(S)].time \in Nat /\ h[Len(h)].time \in Nat
           /\ h[Max(S)].time <= e.time /\ h[Len(h)].time <= e.time
<1>1. Len(h) \in Nat /\ \A i \in 1..Len(h) : g[i] = h[i] /\ h[i].time \in Nat /\ h[i].time <= e.time
  BY DEF Grows
<1>2. Max(S) \in 1..Len(h)
  BY <1>1, MaxOf
<1>3. Len(h) \in 1..Len(h)
  BY <1>1, <1>2
<1> QED BY <1>1, <1>2, <1>3

LEMMA RapidIsTrue ==
    ASSUME NEW g, NEW e \in Messages, Grows(history, g, e), BirthsOf(history, birth)
    PROVE  RapidlyCancels(e) = IsRapid(g, Len(g))
<1> DEFINE n == Len(history)
           S == LivesOf(history, n, e.order)
<1>1. n \in Nat /\ Len(g) = n + 1 /\ (n + 1) - 1 = n /\ g[n + 1] = e /\ n \in 0..n
  BY DEF Grows
<1>2. LivesOf(g, n, e.order) = S /\ S \in SUBSET (1..n) /\ e.order \in Orders
  BY <1>1, EarlierIndices, IndexSets DEF Messages
<1>3. S # {} => g[Max(S)] = history[Max(S)]
  BY <1>2, LastIndex
<1> HIDE DEF n
<1>4. IsRapid(g, n + 1) = (/\ e.kind = "cancel" /\ S # {} /\ history[Max(S)].kind = "add"
                           /\ e.time - history[Max(S)].time <= RapidCancel)
  BY <1>1, <1>2, <1>3 DEF IsRapid
<1>5. (\E b \in birth : b.order = e.order /\ e.time - b.time <= RapidCancel) =
        (/\ S # {} /\ history[Max(S)].kind = "add" /\ e.time - history[Max(S)].time <= RapidCancel)
  BY <1>2 DEF BirthsOf, n
<1> QED BY <1>1, <1>4, <1>5 DEF RapidlyCancels

LEMMA ReplenishmentIsTrue ==
    ASSUME NEW g, NEW e \in Messages, Grows(history, g, e), CancelsIn(history, lastCancel)
    PROVE  Replenishes(e) = IsReplenishing(g, Len(g))
<1> DEFINE n == Len(history)
           S == CancelsOf(history, n, e.key)
           Adds == e.kind = "add" \/ (e.kind = "modify" /\ e.grows)
<1>1. n \in Nat /\ Len(g) = n + 1 /\ (n + 1) - 1 = n /\ g[n + 1] = e /\ n \in 0..n
  BY DEF Grows
<1>2. CancelsOf(g, n, e.key) = S /\ S \in SUBSET (1..n) /\ (Adds => e.key \in PriceKeys)
  BY <1>1, EarlierIndices, IndexSets DEF Messages
<1>3. S # {} => /\ g[Max(S)] = history[Max(S)] /\ history[Max(S)].time \in Nat
                /\ history[n].time \in Nat /\ history[n].time <= e.time
  BY <1>2, LastIndex
<1>4. /\ e.time \in Nat /\ LongWindow \in Nat /\ Replenishment \in Nat /\ Replenishment < LongWindow
  BY FeatureAssumption, EventShape DEF Events
<1> HIDE DEF n
<1>5. IsReplenishing(g, n + 1) = (/\ Adds /\ S # {}
                                  /\ e.time - history[Max(S)].time <= Replenishment)
  BY <1>1, <1>2, <1>3 DEF IsReplenishing
<1>6. ASSUME Adds, NEW c \in lastCancel, c.key = e.key, e.time - c.time <= Replenishment
      PROVE  S # {} /\ e.time - history[Max(S)].time <= Replenishment
  BY <1>6 DEF CancelsIn, n
<1>7. ASSUME Adds, S # {}, e.time - history[Max(S)].time <= Replenishment
      PROVE  \E c \in lastCancel : c.key = e.key /\ e.time - c.time <= Replenishment
  <2>1. history[Max(S)].time > history[n].time - LongWindow
    BY <1>3, <1>4, <1>7
  <2>2. PICK c \in lastCancel : c.key = e.key /\ c.time = history[Max(S)].time
    BY <1>2, <1>7, <2>1 DEF CancelsIn, n
  <2> QED BY <1>7, <2>2
<1> QED BY <1>1, <1>5, <1>6, <1>7 DEF Replenishes

LEMMA BurstIsTrue ==
    ASSUME NEW g, NEW e \in Messages, Grows(history, g, e), LastMessageIn(history, lastMessage)
    PROVE  Bursts(e) = IsBurst(g, Len(g))
<1> DEFINE n == Len(history)
           S == MessagesOf(history, n)
<1>1. n \in Nat /\ Len(g) = n + 1 /\ (n + 1) - 1 = n /\ g[n + 1] = e /\ n \in 0..n
  BY DEF Grows
<1>2. MessagesOf(g, n) = S /\ S \in SUBSET (1..n)
  BY <1>1, EarlierIndices, IndexSets
<1>3. S # {} => g[Max(S)] = history[Max(S)] /\ history[Max(S)].time \in Nat
  BY <1>2, LastIndex
<1> HIDE DEF n
<1>4. IsBurst(g, n + 1) = (S # {} /\ e.time - history[Max(S)].time <= BurstGap)
  BY <1>1, <1>2, <1>3 DEF IsBurst
<1>5. IF S = {} THEN lastMessage = Never ELSE lastMessage = history[Max(S)].time
  BY DEF LastMessageIn, n
<1> QED BY <1>1, <1>3, <1>4, <1>5 DEF Bursts, Never

LEMMA FactIsTrue ==
    ASSUME StreamInv, NEW g, NEW e \in Messages, Grows(history, g, e)
    PROVE  Fact(e) = FactIn(g, Len(g))
<1>1. Len(g) = Len(history) + 1 /\ g[Len(g)] = e
  BY DEF Grows
<1>2. /\ RapidlyCancels(e) = IsRapid(g, Len(g)) /\ Replenishes(e) = IsReplenishing(g, Len(g))
      /\ Bursts(e) = IsBurst(g, Len(g))
  BY RapidIsTrue, ReplenishmentIsTrue, BurstIsTrue DEF StreamInv
<1> QED BY <1>1, <1>2 DEF Fact, FactIn

Settles(e) == e.kind \in {"add", "cancel", "execute"} /\ (e.kind = "execute" => e.complete)

LEMMA IndicesGrow ==
    ASSUME NEW h, NEW g, NEW e, Grows(h, g, e)
    PROVE  /\ \A o : LivesOf(g, Len(g), o) =
                       LivesOf(h, Len(h), o)
                         \cup (IF Settles(e) /\ e.order = o THEN {Len(g)} ELSE {})
           /\ \A k : CancelsOf(g, Len(g), k) =
                       CancelsOf(h, Len(h), k)
                         \cup (IF e.kind = "cancel" /\ e.key = k THEN {Len(g)} ELSE {})
           /\ MessagesOf(g, Len(g)) =
                MessagesOf(h, Len(h)) \cup (IF e.kind \in MessageKinds THEN {Len(g)} ELSE {})
<1>1. Len(h) \in Nat /\ Len(g) = Len(h) + 1 /\ g[Len(g)] = e /\ \A j \in 1..Len(h) : g[j] = h[j]
  BY DEF Grows
<1>2. 1..Len(g) = 1..Len(h) \cup {Len(g)} /\ Len(g) \notin 1..Len(h)
  BY <1>1
<1>3. ASSUME NEW o
      PROVE  LivesOf(g, Len(g), o) = LivesOf(h, Len(h), o)
                         \cup (IF Settles(e) /\ e.order = o THEN {Len(g)} ELSE {})
  BY <1>1, <1>2 DEF LivesOf, Settles
<1>4. ASSUME NEW k
      PROVE  CancelsOf(g, Len(g), k) = CancelsOf(h, Len(h), k)
                         \cup (IF e.kind = "cancel" /\ e.key = k THEN {Len(g)} ELSE {})
  BY <1>1, <1>2 DEF CancelsOf
<1>5. MessagesOf(g, Len(g)) =
        MessagesOf(h, Len(h)) \cup (IF e.kind \in MessageKinds THEN {Len(g)} ELSE {})
  BY <1>1, <1>2 DEF MessagesOf
<1> QED BY <1>3, <1>4, <1>5

\* The last index of a set that did not grow, and of one that did.
LEMMA LastAfter ==
    ASSUME NEW h, NEW g, NEW e, Grows(h, g, e)
    PROVE  /\ \A S \in SUBSET (1..Len(h)) : S # {} => g[Max(S)] = h[Max(S)]
           /\ \A S \in SUBSET (1..Len(g)) : Len(g) \in S => g[Max(S)] = e
<1>1. Len(h) \in Nat /\ Len(g) \in Nat /\ Len(g) = Len(h) + 1 /\ g[Len(g)] = e
  BY DEF Grows
<1>2. ASSUME NEW S \in SUBSET (1..Len(h)), S # {} PROVE g[Max(S)] = h[Max(S)]
  BY <1>2, LastIndex
<1>3. ASSUME NEW S \in SUBSET (1..Len(g)), Len(g) \in S PROVE g[Max(S)] = e
  BY <1>1, <1>3, MaxTop
<1> QED BY <1>2, <1>3

LEMMA BirthsMove ==
    ASSUME NEW g, NEW e \in Messages, Grows(history, g, e), BirthsOf(history, birth)
    PROVE  BirthsOf(g, BirthsAfter(e))
<1> DEFINE n == Len(history)
           Old(o) == LivesOf(history, n, o)
           New(o) == LivesOf(g, Len(g), o)
           B == BirthsAfter(e)
<1>1. /\ \A o : New(o) = Old(o) \cup (IF Settles(e) /\ e.order = o THEN {Len(g)} ELSE {})
      /\ \A o : Old(o) \in SUBSET (1..n) /\ New(o) \in SUBSET (1..Len(g))
      /\ e.order \in Orders
  BY IndicesGrow, IndexSets DEF Messages
<1>2. /\ \A o : Old(o) # {} => g[Max(Old(o))] = history[Max(Old(o))]
      /\ \A o : Settles(e) /\ e.order = o => g[Max(New(o))] = e
  BY <1>1, LastAfter
<1>3. /\ \A b \in birth : /\ b.order \in Orders /\ Old(b.order) # {}
                          /\ history[Max(Old(b.order))].kind = "add"
                          /\ b.time = history[Max(Old(b.order))].time
      /\ \A o \in Orders : Old(o) # {} /\ history[Max(Old(o))].kind = "add" =>
            \E b \in birth : b.order = o /\ b.time = history[Max(Old(o))].time
  BY DEF BirthsOf
<1>4. \A b : b \in B <=> \/ b \in birth /\ (Settles(e) => b.order # e.order)
                         \/ e.kind = "add" /\ b = [order |-> e.order, time |-> e.time]
  BY DEF BirthsAfter, Settles, Messages
<1>5. e.kind = "add" => Settles(e)
  BY DEF Settles
<1> HIDE DEF n, Old, New, B
<1>6. ASSUME NEW b \in B
      PROVE  /\ b.order \in Orders /\ New(b.order) # {} /\ g[Max(New(b.order))].kind = "add"
             /\ b.time = g[Max(New(b.order))].time
  <2>1. CASE b \in birth /\ (Settles(e) => b.order # e.order)
    <3>1. New(b.order) = Old(b.order) /\ Old(b.order) # {}
      BY <1>1, <1>3, <2>1
    <3> QED BY <1>2, <1>3, <2>1, <3>1
  <2>2. CASE e.kind = "add" /\ b = [order |-> e.order, time |-> e.time]
    <3>1. b.order = e.order /\ b.time = e.time /\ Len(g) \in New(e.order)
      BY <1>1, <1>5, <2>2
    <3> QED BY <1>1, <1>2, <1>5, <2>2, <3>1
  <2> QED BY <1>4, <1>6, <2>1, <2>2
<1>7. ASSUME NEW o \in Orders, New(o) # {}, g[Max(New(o))].kind = "add"
      PROVE  \E b \in B : b.order = o /\ b.time = g[Max(New(o))].time
  <2>1. CASE Settles(e) /\ e.order = o
    <3>1. g[Max(New(o))] = e /\ e.kind = "add"
      BY <1>2, <1>7, <2>1
    <3>2. [order |-> e.order, time |-> e.time] \in B
      BY <1>4, <3>1
    <3> QED BY <2>1, <3>1, <3>2
  <2>2. CASE ~(Settles(e) /\ e.order = o)
    <3>1. New(o) = Old(o)
      BY <1>1, <2>2
    <3>2. PICK b \in birth : b.order = o /\ b.time = history[Max(Old(o))].time
      BY <1>2, <1>3, <1>7, <3>1
    <3> QED BY <1>2, <1>4, <1>7, <2>2, <3>1, <3>2
  <2> QED BY <2>1, <2>2
<1> QED BY <1>6, <1>7 DEF BirthsOf, B, New

LEMMA BirthsStay ==
    ASSUME NEW g, NEW e \in Views, Grows(history, g, e), BirthsOf(history, birth)
    PROVE  BirthsOf(g, birth)
<1>1. ~Settles(e)
  BY DEF Settles, Views
<1>2. \A o : /\ LivesOf(g, Len(g), o) = LivesOf(history, Len(history), o)
             /\ LivesOf(history, Len(history), o) \in SUBSET (1..Len(history))
  <2> TAKE o
  <2>1. LivesOf(g, Len(g), o) = LivesOf(history, Len(history), o)
                                  \cup (IF Settles(e) /\ e.order = o THEN {Len(g)} ELSE {})
    BY IndicesGrow
  <2> QED BY <1>1, <2>1, IndexSets
<1>3. \A o : LivesOf(g, Len(g), o) # {} =>
        g[Max(LivesOf(g, Len(g), o))] = history[Max(LivesOf(history, Len(history), o))]
  BY <1>2, LastAfter
<1> QED BY <1>2, <1>3 DEF BirthsOf

LEMMA CancelsMove ==
    ASSUME NEW g, NEW e \in Events, Grows(history, g, e), CancelsIn(history, lastCancel)
    PROVE  CancelsIn(g, CancelsKept(CancelsAfter(e), e.time))
<1> DEFINE n == Len(history)
           Old(k) == CancelsOf(history, n, k)
           New(k) == CancelsOf(g, Len(g), k)
           C == CancelsKept(CancelsAfter(e), e.time)
           Here(k) == e.kind = "cancel" /\ e.key = k
<1>1. /\ \A k : New(k) = Old(k) \cup (IF Here(k) THEN {Len(g)} ELSE {})
      /\ \A k : Old(k) \in SUBSET (1..n) /\ New(k) \in SUBSET (1..Len(g))
      /\ g[Len(g)] = e /\ (e.kind = "cancel" => e.key \in PriceKeys)
      /\ e.time \in Nat /\ LongWindow \in Nat /\ LongWindow > 0
  <2>1. \A k : New(k) = Old(k) \cup (IF Here(k) THEN {Len(g)} ELSE {})
    BY IndicesGrow
  <2>2. \A k : Old(k) \in SUBSET (1..n) /\ New(k) \in SUBSET (1..Len(g))
    BY IndexSets
  <2>3. g[Len(g)] = e /\ (e.kind = "cancel" => e.key \in PriceKeys)
    BY DEF Events, Messages, Views, Grows
  <2> QED BY <2>1, <2>2, <2>3, FeatureAssumption, EventShape
<1>2. /\ \A k : Old(k) # {} => /\ g[Max(Old(k))] = history[Max(Old(k))]
                               /\ history[Max(Old(k))].time \in Nat
                               /\ history[n].time \in Nat /\ history[n].time <= e.time
      /\ \A k : Here(k) => g[Max(New(k))] = e
  <2>1. ASSUME NEW k, Old(k) # {}
        PROVE  /\ g[Max(Old(k))] = history[Max(Old(k))] /\ history[Max(Old(k))].time \in Nat
               /\ history[n].time \in Nat /\ history[n].time <= e.time
    <3>1. Old(k) \in SUBSET (1..n)
      BY <1>1
    <3> QED BY <2>1, <3>1, LastIndex
  <2>2. ASSUME NEW k, Here(k) PROVE g[Max(New(k))] = e
    <3>1. Len(g) \in New(k) /\ New(k) \in SUBSET (1..Len(g))
      BY <1>1, <2>2
    <3> QED BY <3>1, LastAfter
  <2> QED BY <2>1, <2>2
<1>3. /\ \A c \in lastCancel : /\ c.key \in PriceKeys /\ Old(c.key) # {}
                               /\ c.time = history[Max(Old(c.key))].time
      /\ \A k \in PriceKeys :
            Old(k) # {} /\ history[Max(Old(k))].time > history[n].time - LongWindow =>
                \E c \in lastCancel : c.key = k /\ c.time = history[Max(Old(k))].time
  BY DEF CancelsIn
<1>4. \A c : c \in C <=> /\ \/ c \in lastCancel /\ ~Here(c.key)
                            \/ e.kind = "cancel" /\ c = [key |-> e.key, time |-> e.time]
                         /\ c.time > e.time - LongWindow
  BY DEF CancelsKept, CancelsAfter, Within
<1> HIDE DEF n, Old, New, C
<1>5. ASSUME NEW c \in C
      PROVE  c.key \in PriceKeys /\ New(c.key) # {} /\ c.time = g[Max(New(c.key))].time
  <2>1. CASE c \in lastCancel /\ ~Here(c.key)
    <3>1. New(c.key) = Old(c.key) /\ Old(c.key) # {}
      BY <1>1, <1>3, <2>1
    <3> QED BY <1>2, <1>3, <2>1, <3>1
  <2>2. CASE e.kind = "cancel" /\ c = [key |-> e.key, time |-> e.time]
    <3>1. c.key = e.key /\ c.time = e.time /\ Here(c.key) /\ Len(g) \in New(c.key)
      BY <1>1, <2>2
    <3> QED BY <1>1, <1>2, <2>2, <3>1
  <2> QED BY <1>4, <1>5, <2>1, <2>2
<1>6. ASSUME NEW k \in PriceKeys, New(k) # {}, g[Max(New(k))].time > g[Len(g)].time - LongWindow
      PROVE  \E c \in C : c.key = k /\ c.time = g[Max(New(k))].time
  <2>1. CASE Here(k)
    <3>1. g[Max(New(k))] = e
      BY <1>2, <2>1
    <3>2. [key |-> e.key, time |-> e.time] \in C
      BY <1>1, <1>4, <2>1
    <3> QED BY <2>1, <3>1, <3>2
  <2>2. CASE ~Here(k)
    <3>1. New(k) = Old(k) /\ g[Max(Old(k))] = history[Max(Old(k))]
      BY <1>1, <1>2, <1>6, <2>2
    <3>2. history[Max(Old(k))].time > e.time - LongWindow
      BY <1>1, <1>6, <3>1
    <3>3. history[Max(Old(k))].time > history[n].time - LongWindow
      BY <1>1, <1>2, <1>6, <3>1, <3>2
    <3>4. PICK c \in lastCancel : c.key = k /\ c.time = history[Max(Old(k))].time
      BY <1>3, <1>6, <3>1, <3>3
    <3>5. c \in C
      BY <1>4, <2>2, <3>2, <3>4
    <3> QED BY <3>1, <3>4, <3>5
  <2> QED BY <2>1, <2>2
<1> QED BY <1>5, <1>6 DEF CancelsIn, C, New

LEMMA LastMessageMoves ==
    ASSUME NEW g, NEW e \in Events, Grows(history, g, e), LastMessageIn(history, lastMessage)
    PROVE  LastMessageIn(g, IF e.kind \in MessageKinds THEN e.time ELSE lastMessage)
<1> DEFINE Old == MessagesOf(history, Len(history))
           New == MessagesOf(g, Len(g))
<1>1. /\ New = Old \cup (IF e.kind \in MessageKinds THEN {Len(g)} ELSE {})
      /\ Old \in SUBSET (1..Len(history)) /\ New \in SUBSET (1..Len(g))
  BY IndicesGrow, IndexSets
<1>2. /\ Old # {} => g[Max(Old)] = history[Max(Old)]
      /\ Len(g) \in New => g[Max(New)] = e
  BY <1>1, LastAfter
<1> QED BY <1>1, <1>2 DEF LastMessageIn

(***************************************************************************)
(* The steps of the stream.                                                *)
(***************************************************************************)
LEMMA StreamStays == StreamInv /\ UNCHANGED streamVars => StreamInv'
  BY DEF StreamInv, streamVars

LEMMA ObserveEventStep ==
    ASSUME StreamInv, NEW e \in Messages, ObserveEvent(e)
    PROVE  StreamInv'
<1>1. /\ Arrives(e) /\ facts' = Within(facts \cup {Fact(e)}, e.time, LongWindow)
      /\ errors' = Within(errors \cup Faults(e), e.time, LongWindow)
      /\ snapshots' = Within(snapshots, e.time, LongWindow)
      /\ birth' = BirthsAfter(e) /\ lastCancel' = CancelsKept(CancelsAfter(e), e.time)
      /\ lastMessage' = e.time /\ row' = row
  BY DEF ObserveEvent
<1>2. PICK h : h = history
  OBVIOUS
<1>3. PICK g : g = history'
  OBVIOUS
<1>4. Grows(h, g, e) /\ Grows(history, g, e)
  BY <1>1, <1>2, <1>3, ArrivalGrows DEF StreamInv, Events
<1>5. /\ e \in Events /\ e.kind \in MessageKinds /\ e.kind # "snapshot"
      /\ g \in Seq(Events) /\ InOrder(g) /\ Len(g) = Len(history) + 1 /\ g[Len(g)] = e
  BY <1>4 DEF Messages, Events, MessageKinds, Grows
<1>6. Fact(e) = FactIn(g, Len(g))
  BY <1>4, FactIsTrue
<1>7. facts' = FactsIn(g, Len(g), LongWindow)
  <2>1. facts = FactsIn(h, Len(h), LongWindow)
    BY <1>2 DEF StreamInv
  <2>2. FactsIn(g, Len(g), LongWindow) =
          Within(FactsIn(h, Len(h), LongWindow) \cup {FactIn(g, Len(g))}, e.time, LongWindow)
    BY <1>4, <1>5, FactsMove
  <2> QED BY <1>1, <1>6, <2>1, <2>2
<1>8. Faults(e) = (IF e.bad /\ e.kind # "snapshot" THEN {StampIn(g, Len(g))} ELSE {})
  BY <1>5 DEF Faults, StampIn
<1>9. snapshots = SnapshotsIn(h, Len(h), LongWindow) /\ errors = ErrorsIn(h, Len(h), LongWindow)
  BY <1>2 DEF StreamInv
<1>10. /\ snapshots' = SnapshotsIn(g, Len(g), LongWindow)
       /\ errors' = ErrorsIn(g, Len(g), LongWindow)
  BY <1>1, <1>4, <1>5, <1>8, <1>9, StampsMove
<1>11. /\ BirthsOf(g, birth') /\ CancelsIn(g, lastCancel') /\ LastMessageIn(g, lastMessage')
  BY <1>1, <1>4, <1>5, BirthsMove, CancelsMove, LastMessageMoves DEF StreamInv
<1>12. RowOf(g, row')
  <2>1. PICK r : r = row
    OBVIOUS
  <2>2. RowOf(h, r)
    BY <1>2, <2>1 DEF StreamInv
  <2> QED BY <1>1, <1>4, <2>1, <2>2, RowStays
<1> QED BY <1>3, <1>5, <1>7, <1>10, <1>11, <1>12 DEF StreamInv

\* A snapshot of either kind is no message.
LEMMA ViewStep ==
    ASSUME StreamInv, NEW e \in Views, Arrives(e), NEW g, g = history',
           facts' = Within(facts, e.time, LongWindow),
           lastCancel' = CancelsKept(lastCancel, e.time), UNCHANGED <<birth, lastMessage>>
    PROVE  /\ Grows(history, g, e) /\ g \in Seq(Events) /\ InOrder(g)
           /\ Len(g) = Len(history) + 1 /\ g[Len(g)] = e
           /\ facts' = FactsIn(g, Len(g), LongWindow)
           /\ BirthsOf(g, birth') /\ CancelsIn(g, lastCancel') /\ LastMessageIn(g, lastMessage')
<1>1. Grows(history, g, e)
  BY ArrivalGrows DEF StreamInv, Events
<1>2. /\ e \in Events /\ e.kind \notin MessageKinds /\ CancelsAfter(e) = lastCancel
      /\ g \in Seq(Events) /\ InOrder(g) /\ Len(g) = Len(history) + 1 /\ g[Len(g)] = e
  BY <1>1 DEF Views, Events, MessageKinds, Grows, CancelsAfter
<1>3. facts' = FactsIn(g, Len(g), LongWindow)
  <2>1. PICK h : h = history
    OBVIOUS
  <2>2. facts = FactsIn(h, Len(h), LongWindow) /\ Grows(h, g, e)
    BY <1>1, <2>1 DEF StreamInv
  <2>3. FactsIn(g, Len(g), LongWindow) =
          Within(FactsIn(h, Len(h), LongWindow) \cup {}, e.time, LongWindow)
    BY <1>2, <2>2, FactsMove
  <2> QED BY <2>2, <2>3 DEF Within
<1>4. BirthsOf(g, birth') /\ CancelsIn(g, lastCancel') /\ LastMessageIn(g, lastMessage')
  <2>1. BirthsOf(g, birth)
    BY <1>1, BirthsStay DEF StreamInv
  <2>2. CancelsIn(g, CancelsKept(CancelsAfter(e), e.time))
    BY <1>1, <1>2, CancelsMove DEF StreamInv
  <2>3. LastMessageIn(g, IF e.kind \in MessageKinds THEN e.time ELSE lastMessage)
    BY <1>1, <1>2, LastMessageMoves DEF StreamInv
  <2> QED BY <1>2, <2>1, <2>2, <2>3
<1> QED BY <1>1, <1>2, <1>3, <1>4

LEMMA HistoricalSnapshotStep ==
    ASSUME StreamInv, NEW e \in Views, e.kind = "historical", HistoricalSnapshot(e)
    PROVE  StreamInv'
<1>1. /\ Arrives(e) /\ facts' = Within(facts, e.time, LongWindow)
      /\ errors' = Within(errors \cup Faults(e), e.time, LongWindow)
      /\ snapshots' = Within(snapshots, e.time, LongWindow)
      /\ lastCancel' = CancelsKept(lastCancel, e.time)
      /\ UNCHANGED <<birth, lastMessage>> /\ row' = row
  BY DEF HistoricalSnapshot
<1>2. PICK h : h = history
  OBVIOUS
<1>3. PICK g : g = history'
  OBVIOUS
<1>4. /\ Grows(h, g, e) /\ g \in Seq(Events) /\ InOrder(g)
      /\ Len(g) = Len(history) + 1 /\ g[Len(g)] = e
      /\ facts' = FactsIn(g, Len(g), LongWindow)
      /\ BirthsOf(g, birth') /\ CancelsIn(g, lastCancel') /\ LastMessageIn(g, lastMessage')
  BY <1>1, <1>2, <1>3, ViewStep
<1>5. Faults(e) = (IF e.bad /\ e.kind # "snapshot" THEN {StampIn(g, Len(g))} ELSE {})
  BY <1>4 DEF Faults, StampIn
<1>6. snapshots = SnapshotsIn(h, Len(h), LongWindow) /\ errors = ErrorsIn(h, Len(h), LongWindow)
  BY <1>2 DEF StreamInv
<1>7. /\ snapshots' = SnapshotsIn(g, Len(g), LongWindow)
      /\ errors' = ErrorsIn(g, Len(g), LongWindow)
  BY <1>1, <1>4, <1>5, <1>6, StampsMove, ZenonT(60)
<1>8. RowOf(g, row')
  <2>1. PICK r : r = row
    OBVIOUS
  <2>2. RowOf(h, r)
    BY <1>2, <2>1 DEF StreamInv
  <2> QED BY <1>1, <1>4, <2>1, <2>2, RowStays
<1> QED BY <1>3, <1>4, <1>7, <1>8 DEF StreamInv

LEMMA SnapshotRowStep ==
    ASSUME StreamInv, NEW e \in Views, e.kind = "snapshot", SnapshotRow(e)
    PROVE  StreamInv'
<1>1. /\ Arrives(e) /\ facts' = Within(facts, e.time, LongWindow)
      /\ errors' = Within(errors, e.time, LongWindow)
      /\ snapshots' = Within(snapshots \cup {[seq |-> Len(history) + 1, time |-> e.time]},
                             e.time, LongWindow)
      /\ lastCancel' = CancelsKept(lastCancel, e.time)
      /\ row' = FeaturesOf(e, facts', snapshots', errors')
      /\ UNCHANGED <<birth, lastMessage>>
  BY DEF SnapshotRow
<1>2. PICK h : h = history
  OBVIOUS
<1>3. PICK g : g = history'
  OBVIOUS
<1>4. /\ Grows(h, g, e) /\ g \in Seq(Events) /\ InOrder(g)
      /\ Len(g) = Len(history) + 1 /\ g[Len(g)] = e
      /\ facts' = FactsIn(g, Len(g), LongWindow)
      /\ BirthsOf(g, birth') /\ CancelsIn(g, lastCancel') /\ LastMessageIn(g, lastMessage')
  BY <1>1, <1>2, <1>3, ViewStep
<1>5. {[seq |-> Len(history) + 1, time |-> e.time]} = {StampIn(g, Len(g))}
  BY <1>4 DEF StampIn
<1>6. snapshots = SnapshotsIn(h, Len(h), LongWindow) /\ errors = ErrorsIn(h, Len(h), LongWindow)
  BY <1>2 DEF StreamInv
<1>7. snapshots' = SnapshotsIn(g, Len(g), LongWindow)
  <2>1. SnapshotsIn(g, Len(g), LongWindow) =
          Within(SnapshotsIn(h, Len(h), LongWindow) \cup {StampIn(g, Len(g))}, e.time, LongWindow)
    BY <1>4, StampsMove
  <2> QED BY <1>1, <1>5, <1>6, <2>1
<1>8. errors' = ErrorsIn(g, Len(g), LongWindow)
  <2>1. ErrorsIn(g, Len(g), LongWindow) =
          Within(ErrorsIn(h, Len(h), LongWindow) \cup {}, e.time, LongWindow)
    BY <1>4, StampsMove
  <2> QED BY <1>1, <1>6, <2>1 DEF Within
<1>9. RowOf(g, row')
  <2>1. /\ row'.at = Len(g) /\ row'.long = FactsIn(g, Len(g), LongWindow)
        /\ row'.short = Within(FactsIn(g, Len(g), LongWindow), e.time, ShortWindow)
        /\ row'.snapsLong = SnapshotsIn(g, Len(g), LongWindow)
        /\ row'.snapsShort = Within(SnapshotsIn(g, Len(g), LongWindow), e.time, ShortWindow)
        /\ row'.valid = (~e.bad /\ ErrorsIn(g, Len(g), LongWindow) = {})
    BY <1>1, <1>4, <1>7, <1>8 DEF FeaturesOf
  <2>2. Len(g) \in DOMAIN g
    BY <1>4 DEF Grows
  <2> QED BY <1>4, <2>1, <2>2, ShortOfLong DEF RowOf
<1> QED BY <1>3, <1>4, <1>7, <1>8, <1>9 DEF StreamInv

LEMMA ObserveStep == StreamInv /\ Observe => StreamInv'
<1> SUFFICES ASSUME StreamInv, NEW t \in 0..MaxClock, NEW bad \in BOOLEAN,
      \/ \E o \in Orders, k \in PriceKeys, kind \in {"add", "cancel"} :
           ObserveEvent([kind |-> kind, order |-> o, key |-> k, time |-> t, bad |-> bad])
      \/ \E o \in Orders, c \in BOOLEAN :
           ObserveEvent([kind |-> "execute", order |-> o, complete |-> c, time |-> t, bad |-> bad])
      \/ \E o \in Orders, k \in PriceKeys, g \in BOOLEAN :
           ObserveEvent([kind |-> "modify", order |-> o, key |-> k, grows |-> g, time |-> t, bad |-> bad])
      \/ HistoricalSnapshot([kind |-> "historical", time |-> t, bad |-> bad])
      \/ SnapshotRow([kind |-> "snapshot", time |-> t, bad |-> bad])
    PROVE StreamInv'
  BY DEF Observe
<1>1. t \in Nat
  OBVIOUS
<1>2. ASSUME NEW o \in Orders, NEW k \in PriceKeys, NEW kind \in {"add", "cancel"},
             ObserveEvent([kind |-> kind, order |-> o, key |-> k, time |-> t, bad |-> bad])
      PROVE  StreamInv'
  BY <1>1, <1>2, ObserveEventStep DEF Messages
<1>3. ASSUME NEW o \in Orders, NEW c \in BOOLEAN,
             ObserveEvent([kind |-> "execute", order |-> o, complete |-> c, time |-> t, bad |-> bad])
      PROVE  StreamInv'
  BY <1>1, <1>3, ObserveEventStep DEF Messages
<1>4. ASSUME NEW o \in Orders, NEW k \in PriceKeys, NEW g \in BOOLEAN,
             ObserveEvent([kind |-> "modify", order |-> o, key |-> k, grows |-> g, time |-> t,
                           bad |-> bad])
      PROVE  StreamInv'
  BY <1>1, <1>4, ObserveEventStep DEF Messages
<1>5. ASSUME HistoricalSnapshot([kind |-> "historical", time |-> t, bad |-> bad]) PROVE StreamInv'
  BY <1>1, <1>5, HistoricalSnapshotStep DEF Views
<1>6. ASSUME SnapshotRow([kind |-> "snapshot", time |-> t, bad |-> bad]) PROVE StreamInv'
  BY <1>1, <1>6, SnapshotRowStep DEF Views
<1> QED BY <1>2, <1>3, <1>4, <1>5, <1>6

(***************************************************************************)
(* The specification.                                                      *)
(***************************************************************************)
LEMMA FeatureInitHolds == FeatureInit => FeatureInv
<1> SUFFICES ASSUME FeatureInit PROVE FeatureInv
  OBVIOUS
<1>1. /\ history = <<>> /\ facts = {} /\ snapshots = {} /\ errors = {} /\ birth = {}
      /\ lastCancel = {} /\ lastMessage = Never /\ row.at = -1
  BY DEF FeatureInit, NoFeatureRow
<1>2. history \in Seq(Events) /\ DOMAIN history = {} /\ Len(history) = 0 /\ 1..0 = {}
  BY <1>1
<1>3. \A window : Recent(history, 0, window) = {}
  BY <1>2 DEF Recent
<1>4. /\ FactsIn(history, 0, LongWindow) = {} /\ SnapshotsIn(history, 0, LongWindow) = {}
      /\ ErrorsIn(history, 0, LongWindow) = {}
  BY <1>3 DEF FactsIn, SnapshotsIn, ErrorsIn
<1>5. /\ \A o : LivesOf(history, 0, o) = {} /\ \A k : CancelsOf(history, 0, k) = {}
      /\ MessagesOf(history, 0) = {}
  BY <1>2, IndexSets
<1>6. /\ BirthsOf(history, birth) /\ CancelsIn(history, lastCancel)
      /\ LastMessageIn(history, lastMessage) /\ InOrder(history) /\ RowOf(history, row)
  BY <1>1, <1>2, <1>5 DEF BirthsOf, CancelsIn, LastMessageIn, InOrder, RowOf
<1>7. StreamInv
  BY <1>1, <1>2, <1>4, <1>6 DEF StreamInv
<1>8. FilesInv
  BY FeatureAssumption DEF FeatureInit, FilesInv, WriterInv, Writing, MetadataSealsTheRun
<1> QED BY <1>7, <1>8 DEF FeatureInv

LEMMA ObserveLeavesFiles == Observe => UNCHANGED fileVars
<1>1. ASSUME NEW e, ObserveEvent(e) PROVE UNCHANGED fileVars
  BY <1>1 DEF ObserveEvent
<1>2. ASSUME NEW e, HistoricalSnapshot(e) PROVE UNCHANGED fileVars
  BY <1>2 DEF HistoricalSnapshot
<1>3. ASSUME NEW e, SnapshotRow(e) PROVE UNCHANGED fileVars
  BY <1>3 DEF SnapshotRow
<1> QED BY <1>1, <1>2, <1>3, ZenonT(60) DEF Observe

LEMMA FeatureStep == FeatureInv /\ [FeatureNext]_featureVars => FeatureInv'
<1> SUFFICES ASSUME StreamInv, FilesInv, [FeatureNext]_featureVars PROVE FeatureInv'
  BY DEF FeatureInv
<1>1. CASE Observe
  <2>1. UNCHANGED fileVars
    BY <1>1, ObserveLeavesFiles
  <2> QED BY <1>1, <2>1, ObserveStep, FilesStay DEF FeatureInv
<1>2. CASE WriteFiles
  <2>1. UNCHANGED streamVars
    BY <1>2 DEF WriteFiles, BeginWrite, CheckTargets, ReplaceFile, WriteFails, WriterDies
  <2> QED BY <1>2, <2>1, WriteFilesStep, StreamStays DEF FeatureInv
<1>3. CASE UNCHANGED featureVars
  BY <1>3, StreamStays, FilesStay DEF featureVars, FeatureInv
<1> QED BY <1>1, <1>2, <1>3 DEF FeatureNext

(* The inductive invariant of the feature pipeline: the rolling state is   *)
(* what the whole history says of the windows.                             *)
THEOREM FeatureInvariant == FeatureSpec => []FeatureInv
  BY FeatureInitHolds, FeatureStep, PTL DEF FeatureSpec

LEMMA TrueFactIs == ASSUME NEW i PROVE TrueFact(i) = FactIn(history, i)
<1> DEFINE e == history[i]
<1>1. /\ LivesOf(history, i - 1, e.order) =
            {j \in 1..(i - 1) : /\ history[j].kind \in {"add", "cancel", "execute"}
                                /\ history[j].order = e.order
                                /\ (history[j].kind = "execute" => history[j].complete)}
      /\ CancelsOf(history, i - 1, e.key) =
            {j \in 1..(i - 1) : history[j].kind = "cancel" /\ history[j].key = e.key}
      /\ MessagesOf(history, i - 1) = {j \in 1..(i - 1) : history[j].kind \in MessageKinds}
  BY DEF LivesOf, CancelsOf, MessagesOf
<1> QED BY <1>1 DEF TrueFact, FactIn, IsRapid, IsReplenishing, IsBurst

LEMMA FeaturesFollow == FeatureInv => FeaturesAreSealed
<1> SUFFICES ASSUME FeatureInv PROVE FeaturesAreSealed
  OBVIOUS
<1>1. MetadataSealsTheRun
  BY DEF FeatureInv, FilesInv
<1>2. ASSUME row.at > 0 PROVE RowIsOfItsHistory
  <2>1. RowOf(history, row) /\ row.at \in DOMAIN history /\ DOMAIN history = 1..Len(history)
    BY <1>2 DEF FeatureInv, StreamInv, RowOf
  <2>2. \A window : {j \in DOMAIN history : InLast(j, row.at, window)} = Recent(history, row.at, window)
    BY DEF InLast, Recent
  <2>3. \A window : TrueFacts(row.at, window) = FactsIn(history, row.at, window)
    <3> TAKE window
    <3>1. {j \in DOMAIN history : InLast(j, row.at, window) /\ history[j].kind \in MessageKinds} =
            {j \in Recent(history, row.at, window) : history[j].kind \in MessageKinds}
      BY <2>2
    <3> QED BY <3>1, TrueFactIs DEF TrueFacts, FactsIn
  <2>4. \A window : TrueSnapshots(row.at, window) = SnapshotsIn(history, row.at, window)
    <3> TAKE window
    <3>1. {j \in DOMAIN history : InLast(j, row.at, window) /\ history[j].kind = "snapshot"} =
            {j \in Recent(history, row.at, window) : history[j].kind = "snapshot"}
      BY <2>2
    <3> QED BY <3>1 DEF TrueSnapshots, SnapshotsIn, StampIn
  <2>5. row.valid = (~history[row.at].bad /\ ErrorsIn(history, row.at, LongWindow) = {})
    BY <1>2, <2>1 DEF RowOf
  <2>6. row.at \in Recent(history, row.at, LongWindow)
    <3>1. history[row.at].time \in Nat /\ LongWindow \in Nat /\ LongWindow > 0
      BY <2>1, EventShape, FeatureAssumption DEF FeatureInv, StreamInv
    <3> QED BY <2>1, <3>1 DEF Recent
  <2>7. ErrorsIn(history, row.at, LongWindow) = {} <=>
          ~\E j \in Recent(history, row.at, LongWindow) : history[j].bad /\ history[j].kind # "snapshot"
    BY DEF ErrorsIn
  <2>8. \A j : j \in Recent(history, row.at, LongWindow) <=>
                 j \in 1..row.at /\ InLast(j, row.at, LongWindow)
    BY <2>1, <2>2 DEF InLast
  <2>9. row.valid <=> ~\E i \in 1..row.at :
           /\ InLast(i, row.at, LongWindow) /\ history[i].bad
           /\ history[i].kind = "snapshot" => i = row.at
    BY <2>5, <2>6, <2>7, <2>8
  <2> QED BY <1>2, <2>1, <2>3, <2>4, <2>9 DEF RowIsOfItsHistory, RowOf
<1>3. RowIsOfItsHistory
  BY <1>2 DEF RowIsOfItsHistory
<1> QED BY <1>1, <1>3 DEF FeaturesAreSealed

(* For all windows with a replenishment gap below the long one, any number *)
(* of events and any writers: a feature row is the row of the whole        *)
(* history although the pipeline keeps only a rolling part of it, and the  *)
(* metadata of a run never vouches for files of two runs.                  *)
THEOREM FeaturesSealed == FeatureSpec => []FeaturesAreSealed
  BY FeatureInvariant, FeaturesFollow, PTL

--------------------------------------------------------------------------------
(***************************************************************************)
(* The import service.                                                     *)
(***************************************************************************)
Directories == SUBSET Whole

ImporterStates ==
    [pc : {"idle", "acquire", "convert", "write", "seal", "rename"}, window : DataSets \cup {None}]
RequestStates ==
    [pc : {"idle", "claim", "delete", "remove", "remove_left"}, window : DataSets \cup {None}]

\* The import lock and who works under it.
LockHeld ==
    /\ lock = "importer" <=> importer.pc \in {"convert", "write", "seal", "rename"}
    /\ \A r \in Requests : Removing(r) => lock = r
    /\ importer.pc # "idle" => job = "importing"

\* The temporary directory is as far as the importer is, and a conversion is
\* only started for a valid pair.
TemporaryIsOf(i, t) ==
    /\ i.pc # "idle" => i.window \in DataSets
    /\ i.pc \in {"write", "seal", "rename"} => Report(i.window).valid
    /\ \A w \in DataSets :
         t[w] = IF i.window = w /\ i.pc = "rename" THEN Whole
                ELSE IF i.window = w /\ i.pc = "seal" THEN {"data"} ELSE {}

RequestTypes ==
    \A r \in Requests :
      /\ request[r].pc # "idle" => request[r].window \in DataSets
      /\ request[r].pc = "remove_left" => left[request[r].window] # <<>>
      /\ request[r].pc = "remove" => left[request[r].window] = <<>>

RemovedAs(pc, w) == \E r \in Requests : request[r].pc = pc /\ request[r].window = w

\* Only a deletion takes a file out of a directory, and only of the directory
\* it has chosen.
FinalWhole ==
    \A w \in DataSets : w \notin torn /\ ~RemovedAs("remove", w) => final[w] \in {{}, Whole}

LeftWhole ==
    \A w \in DataSets : w \notin torn =>
      \A i \in DOMAIN left[w] : (i = 1 /\ RemovedAs("remove_left", w)) \/ left[w][i] = Whole

ManifestsAreOfThePair ==
    \A w \in DataSets : final[w] # {} => Report(w).valid

IngestTypes ==
    /\ final \in [DataSets -> Directories] /\ left \in [DataSets -> Seq(Directories)]
    /\ temp \in [DataSets -> Directories]
    /\ request \in [Requests -> RequestStates]
    /\ importer \in ImporterStates
    /\ \E n \in Nat : pair.rows \in [1..n -> PairRows]

IngestInv ==
    /\ IngestTypes /\ LockHeld /\ TemporaryIsOf(importer, temp) /\ RequestTypes
    /\ FinalWhole /\ LeftWhole /\ ManifestsAreOfThePair

LEMMA IngestInitHolds == IngestInit => IngestInv
<1> SUFFICES ASSUME IngestInit PROVE IngestInv
  OBVIOUS
<1>1. IngestTypes
  <2>1. PICK n \in 0..MaxPairRows : \E rows \in [1..n -> PairRows], even \in BOOLEAN :
           pair = [rows |-> rows, even |-> even]
    BY DEF IngestInit
  <2>2. n \in Nat /\ pair.rows \in [1..n -> PairRows]
    BY <2>1, IngestionAssumption
  <2>3. <<>> \in Seq(Directories)
    OBVIOUS
  <2> QED BY <2>2, <2>3 DEF IngestInit, IngestTypes, Directories, Idle, ImporterStates, RequestStates
<1>2. LockHeld /\ TemporaryIsOf(importer, temp) /\ RequestTypes
  BY IngestionAssumption
  DEF IngestInit, LockHeld, TemporaryIsOf, RequestTypes, Idle, Removing, None, DataSets, Nobody
<1>3. FinalWhole /\ LeftWhole /\ ManifestsAreOfThePair
  BY DEF IngestInit, FinalWhole, LeftWhole, ManifestsAreOfThePair
<1> QED BY <1>1, <1>2, <1>3 DEF IngestInv

\* What a step that leaves the directories and the pair alone still owes.
LEMMA FilesStayPut ==
  ASSUME IngestInv, UNCHANGED <<final, temp, left, pair, torn>>,
         request' \in [Requests -> RequestStates],
         importer' \in ImporterStates,
         LockHeld', TemporaryIsOf(importer, temp)', RequestTypes',
         \A w \in DataSets : /\ RemovedAs("remove", w) => RemovedAs("remove", w)'
                             /\ RemovedAs("remove_left", w) => RemovedAs("remove_left", w)'
  PROVE  IngestInv'
<1>1. IngestTypes'
  BY DEF IngestInv, IngestTypes
<1>2. \A w : Report(w)' = Report(w)
  BY DEF Report, Inside, WindowOf
<1>3. ManifestsAreOfThePair'
  BY <1>2 DEF IngestInv, ManifestsAreOfThePair
<1>4. FinalWhole'
  <2>1. ASSUME NEW w \in DataSets, w \notin torn', ~RemovedAs("remove", w)'
        PROVE  final'[w] \in {{}, Whole}
    <3>1. w \notin torn /\ ~RemovedAs("remove", w)
      BY <2>1
    <3> QED BY <3>1 DEF IngestInv, FinalWhole
  <2> QED BY <2>1 DEF FinalWhole
<1>5. LeftWhole'
  <2>1. ASSUME NEW w \in DataSets, w \notin torn', NEW i \in DOMAIN left'[w],
               ~(i = 1 /\ RemovedAs("remove_left", w)')
        PROVE  left'[w][i] = Whole
    <3>1. w \notin torn /\ i \in DOMAIN left[w] /\ ~(i = 1 /\ RemovedAs("remove_left", w))
      BY <2>1
    <3> QED BY <3>1 DEF IngestInv, LeftWhole
  <2> QED BY <2>1 DEF LeftWhole
<1> QED BY <1>1, <1>3, <1>4, <1>5 DEF IngestInv

\* A request that moves on without ever having chosen a directory.
LEMMA GoStays ==
  ASSUME IngestInv, NEW r \in Requests, NEW pc \in {"idle", "claim", "delete"},
         NEW w \in DataSets \cup {None}, Go(r, pc, w), pc # "idle" => w \in DataSets, ~Removing(r),
         UNCHANGED <<final, temp, left, lock, pair, torn>>,
         importer' \in ImporterStates,
         TemporaryIsOf(importer, temp)', importer'.pc # "idle" => job' = "importing",
         lock = "importer" <=> importer'.pc \in {"convert", "write", "seal", "rename"}
  PROVE  IngestInv'
<1>1. /\ request' \in [Requests -> RequestStates]
      /\ request'[r] = [pc |-> pc, window |-> w]
      /\ \A q \in Requests \ {r} : request'[q] = request[q]
  BY DEF IngestInv, IngestTypes, Go, RequestStates
<1>2. RequestTypes'
  BY <1>1 DEF IngestInv, RequestTypes
<1>3. LockHeld'
  BY <1>1 DEF IngestInv, LockHeld, Removing
<1>4. \A v \in DataSets : /\ RemovedAs("remove", v) => RemovedAs("remove", v)'
                          /\ RemovedAs("remove_left", v) => RemovedAs("remove_left", v)'
  BY <1>1 DEF RemovedAs, Removing
<1> QED BY <1>1, <1>2, <1>3, <1>4, FilesStayPut

LEMMA BeginImportStep ==
  ASSUME IngestInv, NEW r \in Requests, NEW w \in DataSets, BeginImport(r, w)
  PROVE  IngestInv'
<1>1. CASE UNCHANGED request
  <2>1. /\ LockHeld' /\ TemporaryIsOf(importer, temp)' /\ RequestTypes'
        /\ \A v \in DataSets : /\ RemovedAs("remove", v) => RemovedAs("remove", v)'
                               /\ RemovedAs("remove_left", v) => RemovedAs("remove_left", v)'
    BY <1>1 DEF BeginImport, IngestInv, LockHeld, TemporaryIsOf, RequestTypes, RemovedAs, Removing,
                Report, Inside, WindowOf
  <2> QED BY <1>1, <2>1, FilesStayPut DEF BeginImport, IngestInv, IngestTypes
<1>2. CASE Go(r, "claim", w)
  <2>1. TemporaryIsOf(importer, temp)'
    BY DEF BeginImport, IngestInv, TemporaryIsOf, Report, Inside, WindowOf
  <2> QED BY <1>2, <2>1, GoStays DEF BeginImport, IngestInv, IngestTypes, LockHeld, Removing
<1> QED BY <1>1, <1>2 DEF BeginImport

LEMMA ClaimImportStep ==
  ASSUME IngestInv, NEW r \in Requests, ClaimImport(r)
  PROVE  IngestInv'
<1>1. /\ Go(r, "idle", None) /\ ~Removing(r) /\ request[r].window \in DataSets
      /\ UNCHANGED <<final, temp, left, lock, pair, torn>>
  BY DEF ClaimImport, Removing, IngestInv, RequestTypes
<1>2. CASE UNCHANGED <<job, importer>>
  <2>1. TemporaryIsOf(importer, temp)'
    BY <1>1, <1>2 DEF IngestInv, TemporaryIsOf, Report, Inside, WindowOf
  <2> QED BY <1>1, <1>2, <2>1, GoStays DEF IngestInv, IngestTypes, LockHeld
<1>3. CASE job # "importing" /\ job' = "importing"
           /\ importer' = [pc |-> "acquire", window |-> request[r].window]
  <2>1. importer.pc = "idle" /\ lock # "importer"
    BY <1>3 DEF IngestInv, LockHeld
  <2>2. TemporaryIsOf(importer, temp)'
    BY <1>1, <1>3, <2>1 DEF IngestInv, TemporaryIsOf
  <2>3. importer' \in ImporterStates
    BY <1>1, <1>3 DEF ImporterStates
  <2> QED BY <1>1, <1>3, <2>1, <2>2, <2>3, GoStays
<1> QED BY <1>2, <1>3 DEF ClaimImport

\* A step of the importer that leaves the published directories alone.
LEMMA ImporterMoves ==
  ASSUME IngestInv, UNCHANGED <<final, left, request, pair, torn>>,
         temp' \in [DataSets -> Directories],
         importer' \in ImporterStates,
         LockHeld', TemporaryIsOf(importer, temp)'
  PROVE  IngestInv'
<1>1. IngestTypes' /\ RequestTypes'
  BY DEF IngestInv, IngestTypes, RequestTypes
<1>2. \A w : Report(w)' = Report(w)
  BY DEF Report, Inside, WindowOf
<1>3. FinalWhole' /\ ManifestsAreOfThePair' /\ LeftWhole'
  BY <1>2 DEF IngestInv, FinalWhole, ManifestsAreOfThePair, LeftWhole, RemovedAs
<1> QED BY <1>1, <1>3 DEF IngestInv

LEMMA AcquireStep == ASSUME IngestInv, AcquireImport PROVE IngestInv'
<1>1. /\ importer' = [pc |-> "convert", window |-> importer.window]
      /\ importer.window \in DataSets
      /\ importer.pc = "acquire" /\ lock = Nobody /\ lock' = "importer"
      /\ UNCHANGED <<final, temp, left, request, pair, torn, job>>
  BY DEF AcquireImport, IngestInv, IngestTypes, TemporaryIsOf, ImporterStates
<1>2. LockHeld'
  BY <1>1, IngestionAssumption DEF IngestInv, LockHeld, Removing, Nobody
<1>3. TemporaryIsOf(importer, temp)'
  BY <1>1 DEF IngestInv, TemporaryIsOf
<1> QED BY <1>1, <1>2, <1>3, ImporterMoves DEF IngestInv, IngestTypes, ImporterStates

\* An import that ends leaves no temporary directory.
LEMMA ImportEnds ==
  ASSUME IngestInv, NEW outcome, EndImport(outcome), UNCHANGED request,
         importer.pc \in {"convert", "write", "seal", "rename"}
  PROVE  LockHeld'
<1>1. lock = "importer" /\ \A r \in Requests : ~Removing(r)
  BY IngestionAssumption DEF IngestInv, LockHeld
<1> QED BY <1>1, IngestionAssumption DEF EndImport, LockHeld, Removing, Idle, Nobody

LEMMA ConvertStep == ASSUME IngestInv, Convert PROVE IngestInv'
<1>1. importer.pc = "convert" /\ UNCHANGED <<final, temp, left, request, pair, torn>>
  BY DEF Convert
<1>2. \A w \in DataSets : temp[w] = {}
  BY <1>1 DEF IngestInv, TemporaryIsOf
<1>3. temp' \in [DataSets -> Directories]
  BY <1>1 DEF IngestInv, IngestTypes
<1>4. ASSUME NEW outcome, EndImport(outcome) PROVE IngestInv'
  <2>1. LockHeld'
    BY <1>1, <1>4, ImportEnds
  <2>2. importer' = Idle /\ TemporaryIsOf(importer, temp)'
    BY <1>1, <1>2, <1>4 DEF EndImport, TemporaryIsOf, Idle, None, DataSets
  <2>3. importer' \in ImporterStates
    BY <2>2 DEF Idle, ImporterStates
  <2> QED BY <1>1, <1>3, <2>1, <2>2, <2>3, ImporterMoves
<1>5. CASE /\ Report(importer.window).valid /\ importer' = [importer EXCEPT !.pc = "write"]
           /\ UNCHANGED <<job, lock>>
  <2>1. /\ importer' = [pc |-> "write", window |-> importer.window]
        /\ importer' \in ImporterStates /\ importer.window \in DataSets
    BY <1>1, <1>5 DEF IngestInv, IngestTypes, TemporaryIsOf, ImporterStates
  <2>2. LockHeld'
    BY <1>1, <1>5, <2>1 DEF IngestInv, LockHeld, Removing
  <2>3. Report(importer.window)' = Report(importer.window)
    BY <1>1, <2>1 DEF Report, Inside, WindowOf
  <2>4. TemporaryIsOf(importer, temp)'
    BY <1>1, <1>2, <1>5, <2>1, <2>3 DEF TemporaryIsOf
  <2> QED BY <1>1, <1>3, <2>1, <2>2, <2>4, ImporterMoves
<1> QED BY <1>4, <1>5 DEF Convert

LEMMA WriteStep == ASSUME IngestInv, WriteTemporary PROVE IngestInv'
<1> DEFINE w == importer.window
<1>1. /\ importer.pc \in {"write", "seal"} /\ w \in DataSets
      /\ UNCHANGED <<final, left, job, lock, request, torn, pair>>
      /\ importer' = [pc |-> IF importer.pc = "write" THEN "seal" ELSE "rename", window |-> w]
      /\ temp'[w] = temp[w] \cup {IF importer.pc = "write" THEN "data" ELSE "manifest"}
      /\ \A v \in DataSets \ {w} : temp'[v] = temp[v]
      /\ temp' \in [DataSets -> Directories]
  BY DEF WriteTemporary, IngestInv, IngestTypes, TemporaryIsOf, Directories, Whole, ImporterStates
<1>2. importer' \in ImporterStates
  BY <1>1 DEF ImporterStates
<1>3. LockHeld'
  BY <1>1 DEF IngestInv, LockHeld, Removing
<1>4. Report(importer.window)' = Report(w)
  BY <1>1 DEF Report, Inside, WindowOf
<1>5. TemporaryIsOf(importer, temp)'
  <2>1. temp[w] = (IF importer.pc = "write" THEN {} ELSE {"data"}) /\ \A v \in DataSets \ {w} : temp[v] = {}
    BY <1>1 DEF IngestInv, TemporaryIsOf
  <2>2. temp'[w] = (IF importer.pc = "write" THEN {"data"} ELSE Whole)
    BY <1>1, <2>1 DEF Whole
  <2>3. Report(w).valid
    BY <1>1 DEF IngestInv, TemporaryIsOf
  <2> QED BY <1>1, <1>4, <2>1, <2>2, <2>3 DEF TemporaryIsOf
<1> QED BY <1>1, <1>2, <1>3, <1>5, ImporterMoves

\* The importer's own directory is emptied and the others are empty.
LEMMA NoTemporaryLeft ==
  ASSUME IngestInv, temp' = [temp EXCEPT ![importer.window] = {}], importer' = Idle,
         importer.pc \in {"write", "seal", "rename"}
  PROVE  /\ TemporaryIsOf(importer, temp)' /\ temp' \in [DataSets -> Directories]
         /\ importer' \in ImporterStates
<1>1. importer.window \in DataSets /\ \A v \in DataSets \ {importer.window} : temp[v] = {}
  BY DEF IngestInv, TemporaryIsOf
<1>2. temp' \in [DataSets -> Directories] /\ \A v \in DataSets : temp'[v] = {}
  BY <1>1 DEF IngestInv, IngestTypes, Directories
<1> QED BY <1>2 DEF TemporaryIsOf, Idle, None, DataSets, ImporterStates

LEMMA FailStep == ASSUME IngestInv, ConversionFails PROVE IngestInv'
<1>1. /\ TemporaryIsOf(importer, temp)' /\ temp' \in [DataSets -> Directories]
      /\ importer' \in ImporterStates
  BY NoTemporaryLeft DEF ConversionFails, EndImport
<1>2. LockHeld'
  BY ImportEnds DEF ConversionFails
<1> QED BY <1>1, <1>2, ImporterMoves DEF ConversionFails

LEMMA PublishStep == ASSUME IngestInv, Publish PROVE IngestInv'
<1> DEFINE w == importer.window
<1>1. /\ importer.pc = "rename" /\ w \in DataSets /\ temp[w] = Whole /\ Report(w).valid
      /\ temp' = [temp EXCEPT ![w] = {}]
      /\ UNCHANGED <<left, request, torn, pair>>
  BY DEF Publish, IngestInv, TemporaryIsOf
<1>2. PICK outcome : EndImport(outcome)
  BY DEF Publish
<1>3. importer' = Idle
  BY <1>2 DEF EndImport
<1>4. LockHeld'
  BY <1>1, <1>2, ImportEnds
<1>5. /\ TemporaryIsOf(importer, temp)' /\ temp' \in [DataSets -> Directories]
      /\ importer' \in ImporterStates
  BY <1>1, <1>3, NoTemporaryLeft
<1>6. CASE UNCHANGED final
  BY <1>1, <1>4, <1>5, <1>6, ImporterMoves
<1>7. CASE final[w] = {} /\ final' = [final EXCEPT ![w] = temp[w]]
  <2>1. /\ final' \in [DataSets -> Directories] /\ final'[w] = Whole
        /\ \A v \in DataSets \ {w} : final'[v] = final[v]
    BY <1>1, <1>7 DEF IngestInv, IngestTypes
  <2>2. IngestTypes' /\ RequestTypes' /\ LeftWhole'
    BY <1>1, <1>5, <2>1 DEF IngestInv, IngestTypes, RequestTypes, LeftWhole, RemovedAs
  <2>3. \A v : Report(v)' = Report(v)
    BY <1>1 DEF Report, Inside, WindowOf
  <2>4. FinalWhole' /\ ManifestsAreOfThePair'
    BY <1>1, <2>1, <2>3 DEF IngestInv, FinalWhole, ManifestsAreOfThePair, RemovedAs
  <2> QED BY <1>4, <1>5, <2>2, <2>4 DEF IngestInv
<1> QED BY <1>6, <1>7 DEF Publish

LEMMA BeginDeleteStep ==
  ASSUME IngestInv, NEW r \in Requests, NEW w \in DataSets, BeginDelete(r, w)
  PROVE  IngestInv'
<1>1. TemporaryIsOf(importer, temp)'
  BY DEF BeginDelete, IngestInv, TemporaryIsOf, Report, Inside, WindowOf
<1> QED BY <1>1, GoStays DEF BeginDelete, IngestInv, IngestTypes, LockHeld, Removing

LEMMA ChooseStep ==
  ASSUME IngestInv, NEW r \in Requests, ChooseDirectory(r)
  PROVE  IngestInv'
<1>1. PICK w : w = request[r].window
  OBVIOUS
<1>2. /\ request[r].pc = "delete" /\ lock = Nobody /\ w \in DataSets
      /\ UNCHANGED <<final, temp, left, job, importer, pair, torn>>
  BY <1>1 DEF ChooseDirectory, IngestInv, RequestTypes
<1>3. TemporaryIsOf(importer, temp)'
  BY <1>2 DEF IngestInv, TemporaryIsOf, Report, Inside, WindowOf
<1>4. CASE Go(r, "idle", None) /\ UNCHANGED lock
  BY <1>2, <1>3, <1>4, GoStays DEF IngestInv, IngestTypes, LockHeld, Removing
<1>5. CASE Go(r, IF left[w] # <<>> THEN "remove_left" ELSE "remove", w) /\ lock' = r
  <2>1. /\ request' \in [Requests -> RequestStates]
        /\ request'[r] = [pc |-> IF left[w] # <<>> THEN "remove_left" ELSE "remove", window |-> w]
        /\ \A q \in Requests \ {r} : request'[q] = request[q]
    BY <1>2, <1>5 DEF IngestInv, IngestTypes, Go, RequestStates
  <2>2. RequestTypes'
    BY <1>2, <2>1 DEF IngestInv, RequestTypes
  <2>3. \A q \in Requests : ~Removing(q)
    BY <1>2, IngestionAssumption DEF IngestInv, LockHeld
  <2>4. LockHeld'
    BY <1>2, <1>5, <2>1, <2>3, IngestionAssumption DEF IngestInv, LockHeld, Removing, Nobody
  <2>5. \A v \in DataSets : /\ RemovedAs("remove", v) => RemovedAs("remove", v)'
                            /\ RemovedAs("remove_left", v) => RemovedAs("remove_left", v)'
    BY <2>3 DEF RemovedAs, Removing
  <2> QED BY <1>2, <1>3, <2>1, <2>2, <2>4, <2>5, FilesStayPut DEF IngestInv, IngestTypes
<1> QED BY <1>1, <1>4, <1>5 DEF ChooseDirectory

LEMMA RemoveFileStep ==
  ASSUME IngestInv, NEW r \in Requests, RemoveFile(r)
  PROVE  IngestInv'
<1>1. PICK w : w = request[r].window
  OBVIOUS
<1>2. /\ Removing(r) /\ w \in DataSets
      /\ UNCHANGED <<temp, job, importer, lock, request, torn, pair>>
  BY <1>1 DEF RemoveFile, Removing, IngestInv, RequestTypes
<1>3. TemporaryIsOf(importer, temp)' /\ LockHeld'
  BY <1>2 DEF IngestInv, TemporaryIsOf, Report, Inside, WindowOf, LockHeld, Removing
<1>4. PICK f \in Doomed(r) :
        IF request[r].pc = "remove"
        THEN final' = [final EXCEPT ![w] = @ \ {f}] /\ UNCHANGED left
        ELSE left' = [left EXCEPT ![w][1] = @ \ {f}] /\ UNCHANGED final
  BY <1>1 DEF RemoveFile
<1>5. \A v : Report(v)' = Report(v)
  BY <1>2 DEF Report, Inside, WindowOf
<1>6. \A pc, v : RemovedAs(pc, v)' = RemovedAs(pc, v)
  BY <1>2 DEF RemovedAs
<1>7. CASE request[r].pc = "remove"
  <2>1. /\ final' \in [DataSets -> Directories] /\ final'[w] \subseteq final[w]
        /\ \A v \in DataSets \ {w} : final'[v] = final[v]
        /\ UNCHANGED left
    BY <1>2, <1>4, <1>7 DEF IngestInv, IngestTypes, Directories
  <2>2. RemovedAs("remove", w)
    BY <1>1, <1>7 DEF RemovedAs
  <2>3. IngestTypes' /\ RequestTypes'
    BY <1>2, <2>1 DEF IngestInv, IngestTypes, RequestTypes
  <2>4. FinalWhole' /\ LeftWhole' /\ ManifestsAreOfThePair'
    BY <1>2, <1>5, <1>6, <2>1, <2>2 DEF IngestInv, FinalWhole, LeftWhole, ManifestsAreOfThePair
  <2> QED BY <1>3, <2>3, <2>4 DEF IngestInv
<1>8. CASE request[r].pc = "remove_left"
  <2>1. /\ left[w] \in Seq(Directories) /\ left[w] # <<>> /\ left[w][1] \in Directories
    BY <1>1, <1>2, <1>8 DEF IngestInv, IngestTypes, RequestTypes
  <2>2. /\ left' \in [DataSets -> Seq(Directories)] /\ UNCHANGED final
        /\ left'[w] = [left[w] EXCEPT ![1] = @ \ {f}]
        /\ \A v \in DataSets \ {w} : left'[v] = left[v]
    <3>1. left' = [left EXCEPT ![w] = [left[w] EXCEPT ![1] = left[w][1] \ {f}]] /\ UNCHANGED final
      BY <1>4, <1>8
    <3>2. left[w][1] \ {f} \in Directories
      BY <2>1 DEF Directories
    <3>3. [left[w] EXCEPT ![1] = left[w][1] \ {f}] \in Seq(Directories)
      BY <2>1, <3>2
    <3> QED BY <1>2, <3>1, <3>3 DEF IngestInv, IngestTypes
  <2>3. /\ DOMAIN left'[w] = DOMAIN left[w] /\ left'[w] # <<>>
        /\ \A i \in DOMAIN left[w] \ {1} : left'[w][i] = left[w][i]
    BY <2>1, <2>2
  <2>4. RemovedAs("remove_left", w) /\ ~RemovedAs("remove", w)
    BY <1>1, <1>8, <2>1 DEF RemovedAs, IngestInv, RequestTypes
  <2>5. IngestTypes'
    BY <1>2, <2>2 DEF IngestInv, IngestTypes
  <2>6. RequestTypes'
    BY <1>2, <2>1, <2>2, <2>3 DEF IngestInv, RequestTypes
  <2>7. FinalWhole' /\ ManifestsAreOfThePair'
    BY <1>2, <1>5, <1>6, <2>2 DEF IngestInv, FinalWhole, ManifestsAreOfThePair
  <2>8. LeftWhole'
    <3>1. ASSUME NEW v \in DataSets, v \notin torn, NEW i \in DOMAIN left'[v]
          PROVE  (i = 1 /\ RemovedAs("remove_left", v)) \/ left'[v][i] = Whole
      BY <1>2, <2>2, <2>3, <2>4, <3>1 DEF IngestInv, LeftWhole
    <3> QED BY <1>2, <1>6, <3>1 DEF LeftWhole
  <2> QED BY <1>3, <2>5, <2>6, <2>7, <2>8 DEF IngestInv
<1> QED BY <1>2, <1>7, <1>8 DEF Removing

LEMMA DeletedStep ==
  ASSUME IngestInv, NEW r \in Requests, Deleted(r)
  PROVE  IngestInv'
<1>1. PICK w : w = request[r].window
  OBVIOUS
<1>2. /\ Removing(r) /\ w \in DataSets /\ lock = r /\ lock' = Nobody
      /\ UNCHANGED <<temp, final, job, importer, pair>>
  BY <1>1 DEF Deleted, Removing, IngestInv, RequestTypes, LockHeld
<1>3. /\ request' \in [Requests -> RequestStates] /\ request'[r] = [pc |-> "idle", window |-> None]
      /\ \A q \in Requests \ {r} : request'[q] = request[q]
  BY DEF Deleted, Go, IngestInv, IngestTypes, RequestStates
<1>4. \A q \in Requests \ {r} : ~Removing(q)
  BY <1>2 DEF IngestInv, LockHeld
<1>5. TemporaryIsOf(importer, temp)' /\ LockHeld'
  BY <1>2, <1>3, <1>4, IngestionAssumption
  DEF IngestInv, TemporaryIsOf, Report, Inside, WindowOf, LockHeld, Removing, Nobody
<1>6. \A v : Report(v)' = Report(v)
  BY <1>2 DEF Report, Inside, WindowOf
<1>7. /\ left' \in [DataSets -> Seq(Directories)]
      /\ \A v \in DataSets \ {w} : left'[v] = left[v]
      /\ request[r].pc = "remove" => left'[w] = left[w] /\ left[w] = <<>> /\ final[w] = {}
      /\ request[r].pc # "remove" => left'[w] = Tail(left[w]) /\ left[w] # <<>>
      /\ left[w] \in Seq(Directories)
  <2>1. left[w] \in Seq(Directories)
    BY <1>2 DEF IngestInv, IngestTypes
  <2>2. CASE request[r].pc = "remove"
    <3>1. left[w] = <<>> /\ final[w] = {} /\ left' = left
      BY <1>1, <1>2, <2>2 DEF Deleted, Doomed, IngestInv, RequestTypes
    <3> QED BY <2>1, <2>2, <3>1 DEF IngestInv, IngestTypes
  <2>3. CASE request[r].pc # "remove"
    <3>1. left[w] # <<>> /\ left' = [left EXCEPT ![w] = Tail(left[w])]
      BY <1>1, <1>2, <2>3 DEF Deleted, Removing, IngestInv, RequestTypes
    <3>2. Tail(left[w]) \in Seq(Directories)
      BY <2>1, <3>1
    <3> QED BY <1>2, <2>1, <2>3, <3>1, <3>2 DEF IngestInv, IngestTypes
  <2> QED BY <2>2, <2>3
<1>8. torn' = IF final[w] = {} /\ left'[w] = <<>> THEN torn \ {w} ELSE torn
  BY <1>1 DEF Deleted
<1>9. \A v \in DataSets : ~RemovedAs("remove", v)' /\ ~RemovedAs("remove_left", v)'
  BY <1>3, <1>4 DEF RemovedAs, Removing
<1>10. \A v \in DataSets \ {w} : ~RemovedAs("remove", v) /\ ~RemovedAs("remove_left", v)
  BY <1>1, <1>4 DEF RemovedAs, Removing
<1>11. IngestTypes'
  BY <1>2, <1>3, <1>7 DEF IngestInv, IngestTypes
<1>12. RequestTypes'
  BY <1>2, <1>3, <1>4, <1>7 DEF IngestInv, RequestTypes, Removing
<1>13. ManifestsAreOfThePair'
  BY <1>2, <1>6 DEF IngestInv, ManifestsAreOfThePair
<1>14. FinalWhole'
  <2>1. CASE request[r].pc = "remove"
    BY <1>2, <1>7, <1>8, <1>10, <2>1 DEF IngestInv, FinalWhole
  <2>2. CASE request[r].pc # "remove"
    <3>1. ~RemovedAs("remove", w)
      BY <1>1, <1>4, <2>2 DEF RemovedAs, Removing
    <3> QED BY <1>2, <1>8, <1>10, <3>1 DEF IngestInv, FinalWhole
  <2> QED BY <2>1, <2>2
<1>15. LeftWhole'
  <2> SUFFICES ASSUME NEW v \in DataSets, v \notin torn', NEW i \in DOMAIN left'[v]
               PROVE  left'[v][i] = Whole
    BY DEF LeftWhole
  <2>1. CASE v # w
    BY <1>7, <1>8, <1>10, <2>1 DEF IngestInv, LeftWhole
  <2>2. CASE v = w /\ request[r].pc = "remove"
    BY <1>7, <2>2
  <2>3. CASE v = w /\ request[r].pc # "remove"
    <3>1. /\ i \in Nat \ {0} /\ i + 1 \in DOMAIN left[w] /\ i + 1 # 1 /\ left'[w][i] = left[w][i + 1]
          /\ left'[w] # <<>>
      <4>1. PICK dirs \in Seq(Directories) : dirs = left[w]
        BY <1>7
      <4>2. dirs # <<>> /\ left'[w] = Tail(dirs) /\ i \in DOMAIN Tail(dirs)
        BY <1>7, <2>3, <4>1
      <4>3. /\ Len(Tail(dirs)) = Len(dirs) - 1 /\ DOMAIN Tail(dirs) = 1..(Len(dirs) - 1)
            /\ \A j \in 1..(Len(dirs) - 1) : Tail(dirs)[j] = dirs[j + 1]
        BY <4>1, <4>2, HeadTailProperties
      <4>4. i \in Nat \ {0} /\ i + 1 \in 1..Len(dirs) /\ i + 1 # 1
        BY <4>1, <4>2, <4>3
      <4>5. Tail(dirs) # <<>>
        BY <4>2
      <4> QED BY <4>1, <4>2, <4>3, <4>4, <4>5
    <3>2. w \notin torn
      BY <1>8, <2>3, <3>1
    <3> QED BY <1>2, <2>3, <3>1, <3>2 DEF IngestInv, LeftWhole
  <2> QED BY <2>1, <2>2, <2>3
<1> QED BY <1>5, <1>11, <1>12, <1>13, <1>14, <1>15 DEF IngestInv

LEMMA ArenaLoadsStep ==
  ASSUME IngestInv, NEW w, ArenaLoads(w) PROVE IngestInv'
<1>1. /\ LockHeld' /\ TemporaryIsOf(importer, temp)' /\ RequestTypes'
      /\ \A v \in DataSets : /\ RemovedAs("remove", v) => RemovedAs("remove", v)'
                             /\ RemovedAs("remove_left", v) => RemovedAs("remove_left", v)'
  BY DEF ArenaLoads, IngestInv, LockHeld, TemporaryIsOf, RequestTypes, RemovedAs, Removing,
         Report, Inside, WindowOf
<1> QED BY <1>1, FilesStayPut DEF ArenaLoads, IngestInv, IngestTypes

LEMMA RestartStep == ASSUME IngestInv, Restart PROVE IngestInv'
<1> DEFINE kept(w) == IF left[w] # <<>> /\ "manifest" \notin Head(left[w]) THEN Tail(left[w]) ELSE left[w]
<1> DEFINE next(w) == IF "manifest" \in temp[w] THEN Append(kept(w), temp[w]) ELSE kept(w)
<1>1. /\ importer' = Idle /\ lock' = Nobody /\ request' = [q \in Requests |-> Idle]
      /\ temp' = [w \in DataSets |-> {}] /\ left' = [w \in DataSets |-> next(w)]
      /\ torn' = torn \cup {request[q].window : q \in {p \in Requests : Removing(p)}}
      /\ UNCHANGED <<final, pair>>
  BY DEF Restart
<1>2. ASSUME NEW w \in DataSets
      PROVE  /\ kept(w) \in Seq(Directories) /\ next(w) \in Seq(Directories)
             /\ (\A i \in DOMAIN left[w] : left[w][i] = Whole)
                  => \A i \in DOMAIN kept(w) : kept(w)[i] = Whole
             /\ "manifest" \in temp[w] => temp[w] = Whole
  <2>1. left[w] \in Seq(Directories) /\ temp[w] \in Directories
    BY DEF IngestInv, IngestTypes
  <2>2. kept(w) \in Seq(Directories)
    BY <2>1
  <2>3. next(w) \in Seq(Directories)
    BY <2>1, <2>2
  <2>4. ASSUME \A i \in DOMAIN left[w] : left[w][i] = Whole PROVE kept(w) = left[w]
    <3>1. left[w] # <<>> => Head(left[w]) = Whole
      BY <2>1, <2>4
    <3> QED BY <3>1 DEF Whole
  <2>5. "manifest" \in temp[w] => temp[w] = Whole
    BY DEF IngestInv, TemporaryIsOf
  <2> QED BY <2>2, <2>3, <2>4, <2>5
<1> HIDE DEF kept
<1>3. IngestTypes'
  <2>1. left' \in [DataSets -> Seq(Directories)]
    BY <1>1, <1>2
  <2>2. temp' \in [DataSets -> Directories] /\ request' \in [Requests -> RequestStates]
        /\ importer' \in ImporterStates
    BY <1>1 DEF Directories, RequestStates, ImporterStates, Idle
  <2> QED BY <1>1, <2>1, <2>2 DEF IngestInv, IngestTypes
<1>4. \A q \in Requests : request'[q].pc = "idle"
  BY <1>1 DEF Idle
<1>5. LockHeld' /\ RequestTypes'
  BY <1>1, <1>4 DEF LockHeld, RequestTypes, Removing, Idle, Nobody
<1>6. TemporaryIsOf(importer, temp)'
  BY <1>1 DEF TemporaryIsOf, Idle, None, DataSets
<1>7. \A v : Report(v)' = Report(v)
  BY <1>1 DEF Report, Inside, WindowOf
<1>8. \A w \in DataSets \ torn' : w \notin torn /\ ~RemovedAs("remove", w) /\ ~RemovedAs("remove_left", w)
  BY <1>1 DEF RemovedAs, Removing
<1>9. FinalWhole' /\ ManifestsAreOfThePair'
  BY <1>1, <1>7, <1>8 DEF IngestInv, FinalWhole, ManifestsAreOfThePair
<1>10. LeftWhole'
  <2> SUFFICES ASSUME NEW w \in DataSets, w \notin torn', NEW i \in DOMAIN left'[w]
               PROVE  left'[w][i] = Whole
    BY DEF LeftWhole
  <2>1. \A j \in DOMAIN left[w] : left[w][j] = Whole
    BY <1>8 DEF IngestInv, LeftWhole
  <2>2. /\ kept(w) \in Seq(Directories) /\ \A j \in DOMAIN kept(w) : kept(w)[j] = Whole
        /\ "manifest" \in temp[w] => temp[w] = Whole
    BY <1>2, <2>1
  <2>3. left'[w] = next(w)
    BY <1>1
  <2>4. \A j \in DOMAIN next(w) : next(w)[j] = Whole
    <3>1. CASE "manifest" \in temp[w]
      BY <2>2, <3>1
    <3>2. CASE "manifest" \notin temp[w]
      BY <2>2, <3>2
    <3> QED BY <3>1, <3>2
  <2> QED BY <2>3, <2>4
<1> QED BY <1>3, <1>5, <1>6, <1>9, <1>10 DEF IngestInv

LEMMA IngestStep == IngestInv /\ [IngestNext]_ingestVars => IngestInv'
<1> SUFFICES ASSUME IngestInv, [IngestNext]_ingestVars PROVE IngestInv'
  OBVIOUS
<1>1. CASE \E r \in Requests, w \in DataSets : BeginImport(r, w) \/ BeginDelete(r, w)
  BY <1>1, BeginImportStep, BeginDeleteStep
<1>2. CASE \E r \in Requests : ClaimImport(r) \/ ChooseDirectory(r) \/ RemoveFile(r) \/ Deleted(r)
  BY <1>2, ClaimImportStep, ChooseStep, RemoveFileStep, DeletedStep
<1>3. CASE AcquireImport \/ Convert \/ WriteTemporary \/ ConversionFails \/ Publish
  BY <1>3, AcquireStep, ConvertStep, WriteStep, FailStep, PublishStep
<1>4. CASE \E w \in DataSets \cup {None} : ArenaLoads(w)
  BY <1>4, ArenaLoadsStep
<1>5. CASE Restart
  BY <1>5, RestartStep
<1>6. CASE UNCHANGED ingestVars
  <2>1. /\ LockHeld' /\ TemporaryIsOf(importer, temp)' /\ RequestTypes'
        /\ \A v \in DataSets : /\ RemovedAs("remove", v) => RemovedAs("remove", v)'
                               /\ RemovedAs("remove_left", v) => RemovedAs("remove_left", v)'
    BY <1>6 DEF ingestVars, IngestInv, LockHeld, TemporaryIsOf, RequestTypes, RemovedAs, Removing,
                Report, Inside, WindowOf
  <2> QED BY <1>6, <2>1, FilesStayPut DEF ingestVars, IngestInv, IngestTypes
<1> QED BY <1>1, <1>2, <1>3, <1>4, <1>5, <1>6 DEF IngestNext

(* The inductive invariant of the import service: every directory is whole *)
(* or empty unless the one deletion under the lock, or one that a restart  *)
(* cut short, is to blame.                                                 *)
THEOREM IngestInvariant == IngestSpec => []IngestInv
  BY IngestInitHolds, IngestStep, PTL DEF IngestSpec

LEMMA LeastRow ==
  ASSUME NEW S \in SUBSET Nat, S # {}
  PROVE  \E m \in S : \A k \in S : m <= k
<1>1. PICK m \in S : \A k \in S : ~(<<k, m>> \in OpToRel(<, Nat))
  BY NatLessThanWellFounded, WFMin
<1>2. \A k \in S : ~(k < m)
  BY <1>1, Zenon DEF OpToRel
<1>3. m \in Nat /\ \A k \in S : k \in Nat
  OBVIOUS
<1> QED BY <1>2, <1>3

\* Neighbours in order are all in order.
LEMMA RowsAreSorted ==
  ASSUME NEW n \in Nat, NEW rows \in [1..n -> PairRows],
         \A i \in 1..n : i > 1 => rows[i - 1].time <= rows[i].time,
         NEW i \in 1..n, NEW j \in 1..n, i <= j
  PROVE  rows[i].time <= rows[j].time
<1>1. \A k \in 1..n : rows[k].time \in Nat
  BY IngestionAssumption DEF PairRows
<1> DEFINE bad == {k \in 1..n : i <= k /\ rows[k].time < rows[i].time}
<1> SUFFICES ASSUME bad # {} PROVE FALSE
  BY <1>1
<1>2. bad \in SUBSET Nat
  OBVIOUS
<1>3. PICK k \in bad : \A l \in bad : k <= l
  <2> HIDE DEF bad
  <2> QED BY <1>2, LeastRow
<1>4. k # i /\ k > 1 /\ k - 1 \in 1..n /\ i <= k - 1
  BY <1>1, <1>3
<1>5. k - 1 \notin bad
  BY <1>3, <1>4
<1>6. rows[i].time <= rows[k - 1].time /\ rows[k - 1].time <= rows[k].time
  BY <1>1, <1>3, <1>4, <1>5
<1> QED BY <1>1, <1>3, <1>4, <1>6

\* The reading that stops early misses no row of the window of a valid pair.
LEMMA BothReadingsAgree ==
  ASSUME NEW n \in Nat, pair.rows \in [1..n -> PairRows], NEW w \in DataSets, Report(w).valid
  PROVE  Report(w).count = Cardinality(ConvertedRows(w)) /\ Report(w).count > 0
<1> DEFINE inside == {i \in 1..n : Inside(pair.rows[i], w)}
<1> DEFINE past == {i \in 1..n : pair.rows[i].time >= WindowOf(w)[2]}
<1> DEFINE read == IF past = {} THEN n ELSE (CHOOSE i \in past : \A j \in past : i <= j) - 1
<1>1. /\ \A i \in 1..n : i > 1 => pair.rows[i - 1].time <= pair.rows[i].time
      /\ inside # {}
  BY DEF Report
<1>2. \A i \in 1..n : pair.rows[i].time \in Nat
  BY IngestionAssumption DEF PairRows
<1>3. WindowOf(w)[1] \in Nat /\ WindowOf(w)[2] \in Nat
  BY IngestionAssumption DEF WindowOf
<1>4. DOMAIN pair.rows = 1..n /\ Len(pair.rows) = n
  <2>1. pair.rows \in Seq(PairRows)
    OBVIOUS
  <2> QED BY <2>1, LenProperties
<1>5. Report(w).count = Cardinality(inside)
  BY <1>4 DEF Report
<1>6. ConvertedRows(w) = {i \in 1..read : Inside(pair.rows[i], w)}
  BY <1>4 DEF ConvertedRows
<1>7. {i \in 1..read : Inside(pair.rows[i], w)} = inside
  <2>1. CASE past = {}
    BY <2>1
  <2>2. CASE past # {}
    <3>1. past \in SUBSET Nat
      OBVIOUS
    <3>2. PICK f \in past : \A j \in past : f <= j
      <4> HIDE DEF past
      <4> QED BY <2>2, <3>1, LeastRow
    <3>3. PICK m : m = CHOOSE i \in past : \A j \in past : i <= j
      OBVIOUS
    <3>4. m \in past /\ \A j \in past : m <= j
      <4> HIDE DEF past
      <4> QED BY <3>2, <3>3
    <3>5. m \in 1..n /\ pair.rows[m].time >= WindowOf(w)[2] /\ read = m - 1
      BY <2>2, <3>3, <3>4
    <3>6. ASSUME NEW i \in inside PROVE i < m
      <4>1. i \in 1..n /\ pair.rows[i].time < WindowOf(w)[2]
        BY DEF Inside
      <4>2. m <= i => pair.rows[m].time <= pair.rows[i].time
        BY <1>1, <3>5, <4>1, RowsAreSorted
      <4> QED BY <1>2, <1>3, <3>5, <4>1, <4>2, SMTT(60)
    <3> HIDE DEF read, past
    <3>7. \A i : i \in inside <=> i \in {k \in 1..read : Inside(pair.rows[k], w)}
      BY <3>5, <3>6
    <3> QED BY <3>7
  <2> QED BY <2>1, <2>2
<1>8. IsFiniteSet(inside)
  <2>1. IsFiniteSet(1..n) /\ inside \subseteq 1..n
    BY FS_Interval
  <2> HIDE DEF inside
  <2> QED BY <2>1, FS_Subset
<1>9. Cardinality(inside) \in Nat /\ Cardinality(inside) # 0
  BY <1>1, <1>8, FS_CardinalityType, FS_EmptySet
<1>10. ConvertedRows(w) = inside
  BY <1>6, <1>7
<1> HIDE DEF inside, read
<1> QED BY <1>5, <1>9, <1>10

(* ListedIsCounted for every number of requests, restarts and rows: a data *)
(* set the registry lists is whole unless its deletion is under way or was *)
(* cut short, and its manifest counts the rows that were written           *)
(* (data_ingestion/service.py, lobster.py).                                *)
THEOREM ListedCounted == IngestSpec => []ListedIsCounted
<1>1. IngestInv => ListedIsCounted
  <2> SUFFICES ASSUME IngestInv PROVE ListedIsWhole /\ ManifestCountsWrittenRows
    BY DEF ListedIsCounted
  <2>1. ListedIsWhole
    <3> SUFFICES ASSUME NEW w \in DataSets, ~BeingRemoved(w), w \notin torn
                 PROVE  /\ "manifest" \in final[w] => final[w] = Whole
                        /\ "manifest" \in temp[w] => temp[w] = Whole
                        /\ \A i \in DOMAIN left[w] : left[w][i] = Whole
      BY DEF ListedIsWhole
    <3>1. ~RemovedAs("remove", w) /\ ~RemovedAs("remove_left", w)
      BY DEF BeingRemoved, RemovedAs, Removing
    <3>2. final[w] \in {{}, Whole} /\ \A i \in DOMAIN left[w] : left[w][i] = Whole
      BY <3>1 DEF IngestInv, FinalWhole, LeftWhole
    <3>3. "manifest" \in temp[w] => temp[w] = Whole
      BY DEF IngestInv, TemporaryIsOf
    <3> QED BY <3>2, <3>3
  <2>2. ManifestCountsWrittenRows
    <3> SUFFICES ASSUME NEW w \in DataSets, "manifest" \in final[w]
                 PROVE  Report(w).count = Cardinality(ConvertedRows(w)) /\ Report(w).count > 0
      BY DEF ManifestCountsWrittenRows
    <3>1. Report(w).valid
      BY DEF IngestInv, ManifestsAreOfThePair
    <3>2. PICK n \in Nat : pair.rows \in [1..n -> PairRows]
      BY DEF IngestInv, IngestTypes
    <3> QED BY <3>1, <3>2, BothReadingsAgree
  <2> QED BY <2>1, <2>2
<1> QED BY <1>1, IngestInvariant, PTL
================================================================================
