---------------------------- MODULE PlatformProofs -----------------------------
(***************************************************************************)
(* Proofs about the services around the arena and the release of its       *)
(* detector.                                                               *)
(*                                                                         *)
(* MCServices: the records of tournaments and the evidence archive, for    *)
(* every number of tournaments, refreshes and records, as long as the      *)
(* observer's memory holds every tournament.                               *)
(*                                                                         *)
(* AiServices: the AI endpoint, its client and the demo, for every number  *)
(* of requests and demos.                                                  *)
(*                                                                         *)
(* DetectorRelease: a verified release is one lineage, for every number of *)
(* commands, directories and seeds, and however often feature shards are   *)
(* written again.                                                          *)
(***************************************************************************)
EXTENDS MCServices, AiServices, DetectorRelease, FiniteSetTheorems,
        SequenceTheorems, TLAPS

(***************************************************************************)
(* Tournaments and the evidence archive.                                   *)
(***************************************************************************)
\* A tournament has ended for the metrics, or a refresh is about to say so.
Observing(t) == \E p \in Pollers : poll[p][t].step = "observe" /\ poll[p][t].next \in Terminal
Settled(t) == t \in Range(terminal) \/ Observing(t)

\* What a record, or a copy of it, may say about a tournament.
Truthful(r, t) ==
    /\ r.status \in Terminal => Settled(t)
    /\ r.status = "completed" /\ r.mode = "nebius_serverless_job" => layout[t] = Files

ShapeInv ==
    /\ DOMAIN record = Tournaments /\ DOMAIN poll = Pollers
    /\ \A p \in Pollers : DOMAIN poll[p] = Tournaments
    /\ \A p \in Pollers, t \in Tournaments : DOMAIN poll[p][t] = {"step", "snap", "next"}
    /\ DOMAIN bucket = Tournaments /\ DOMAIN synced = Tournaments /\ DOMAIN layout = Tournaments
    /\ \A t \in Tournaments : bucket[t] \subseteq Files /\ synced[t] \subseteq Files
                              /\ layout[t] \subseteq Files

\* The observer never forgets a tournament: its memory is large enough.
MetricsInv ==
    /\ terminal \in Seq(Range(terminal)) /\ Range(terminal) \subseteq Tournaments
    /\ Len(terminal) = Cardinality(Range(terminal))
    /\ active \cap Range(terminal) = {}
    /\ DOMAIN counted = Tournaments
    /\ \A t \in Tournaments : counted[t] = IF t \in Range(terminal) THEN 1 ELSE 0

RecordInv == \A t \in Tournaments : Truthful(record[t], t)

\* So are the copies that refreshes hold, and what they have decided.
TruthfulCopy(p, t) ==
    /\ poll[p][t].step # "idle" => Truthful(poll[p][t].snap, t)
    /\ poll[p][t].step \in {"write", "observe"} /\ poll[p][t].next = "completed"
       => layout[t] = Files

CopyInv == \A p \in Pollers, t \in Tournaments : TruthfulCopy(p, t)

TournamentInv == ShapeInv /\ MetricsInv /\ RecordInv /\ CopyInv

ArchiveInv == index \in Seq(Range(index)) /\ IsInjective(index)
--------------------------------------------------------------------------------
LEMMA AppendRange ==
    ASSUME NEW s, NEW x, s \in Seq(Range(s))
    PROVE  /\ Range(Append(s, x)) = Range(s) \cup {x}
           /\ Append(s, x) \in Seq(Range(Append(s, x)))
           /\ Len(Append(s, x)) = Len(s) + 1
           /\ x \notin Range(s) /\ IsInjective(s) => IsInjective(Append(s, x))
<1> DEFINE a == Append(s, x)
<1>0. PICK T : T = Range(s) \cup {x}
  OBVIOUS
<1>1. s \in Seq(T) /\ x \in T
  <2>1. Range(s) \subseteq T
    BY <1>0
  <2>2. /\ Len(s) \in Nat /\ DOMAIN s = 1..Len(s) /\ \A i \in 1..Len(s) : s[i] \in Range(s)
        /\ s = [i \in 1..Len(s) |-> s[i]]
    OBVIOUS
  <2>3. s \in [1..Len(s) -> T]
    BY <2>1, <2>2
  <2> QED BY <1>0, <2>2, <2>3, SeqDef
<1>2. /\ a \in Seq(T) /\ Len(a) = Len(s) + 1 /\ Len(s) \in Nat /\ a[Len(s) + 1] = x
      /\ DOMAIN a = 1..(Len(s) + 1) /\ DOMAIN s = 1..Len(s)
      /\ \A i \in 1..Len(s) : a[i] = s[i]
  BY <1>1
<1> HIDE DEF a
<1>3. Range(a) = T
  <2>1. \A i \in DOMAIN a : a[i] \in T
    BY <1>2
  <2>2. ASSUME NEW y \in T PROVE \E i \in DOMAIN a : a[i] = y
    <3>1. CASE y = x
      BY <1>2, <3>1
    <3>2. CASE y \in Range(s)
      <4>1. PICK i \in DOMAIN s : s[i] = y
        BY <3>2 DEF Range
      <4> QED BY <1>2, <4>1
    <3> QED BY <1>0, <3>1, <3>2
  <2> QED BY <2>1, <2>2 DEF Range
<1>4. x \notin Range(s) /\ IsInjective(s) => IsInjective(a)
  <2> SUFFICES ASSUME x \notin Range(s), IsInjective(s), NEW i \in DOMAIN a, NEW j \in DOMAIN a,
                      a[i] = a[j]
               PROVE  i = j
    BY DEF IsInjective
  <2>1. \A k \in DOMAIN s : s[k] # x
    BY DEF Range
  <2>2. i \in DOMAIN s \/ i = Len(s) + 1
    BY <1>2
  <2>3. j \in DOMAIN s \/ j = Len(s) + 1
    BY <1>2
  <2> QED BY <1>2, <2>1, <2>2, <2>3 DEF IsInjective
<1> QED BY <1>0, <1>2, <1>3, <1>4 DEF a

(* The observer evicts nothing: it remembers fewer tournaments than there  *)
(* are, and never one twice.                                               *)
LEMMA ObserveKeeps ==
    ASSUME MetricsInv, NEW t \in Tournaments, NEW status, Observe(t, status)
    PROVE  /\ MetricsInv' /\ Range(terminal) \subseteq Range(terminal')
           /\ status \in Terminal => t \in Range(terminal')
<1>1. CASE Counts(t, status)
  <2>1. /\ status \in Terminal /\ t \notin Range(terminal)
        /\ terminal' = Append(Evict(terminal), t)
        /\ counted' = [counted EXCEPT ![t] = @ + 1]
    BY <1>1 DEF Observe, Counts
  <2>2. active' = active \ {t}
    BY <2>1 DEF Observe, EntersFlight, Terminal, Active
  <2>3. /\ IsFiniteSet(Range(terminal)) /\ IsFiniteSet(Range(terminal) \cup {t})
        /\ Cardinality(Range(terminal) \cup {t}) = Cardinality(Range(terminal)) + 1
        /\ Cardinality(Range(terminal) \cup {t}) <= Cardinality(Tournaments)
        /\ Cardinality(Range(terminal)) \in Nat /\ Cardinality(Tournaments) \in Nat
    <3>1. IsFiniteSet(Range(terminal)) /\ (Range(terminal) \cup {t}) \in SUBSET Tournaments
      BY FS_Subset, DetectorTournamentAssumption DEF MetricsInv
    <3> QED BY <2>1, <3>1, FS_Subset, FS_AddElement, FS_CardinalityType, DetectorTournamentAssumption
  <2>4. terminal' = Append(terminal, t)
    <3>1. ~(Len(terminal) >= DedupLimit)
      BY <2>3, DetectorTournamentAssumption DEF MetricsInv
    <3> QED BY <2>1, <3>1 DEF Evict
  <2>5. /\ Range(terminal') = Range(terminal) \cup {t} /\ terminal' \in Seq(Range(terminal'))
        /\ Len(terminal') = Len(terminal) + 1
    BY <2>4, AppendRange DEF MetricsInv
  <2>6. Len(terminal') = Cardinality(Range(terminal')) /\ Range(terminal') \subseteq Tournaments
    BY <2>3, <2>5 DEF MetricsInv
  <2>7. active' \cap Range(terminal') = {}
    BY <2>2, <2>5 DEF MetricsInv
  <2>8. /\ DOMAIN counted' = Tournaments
        /\ \A u \in Tournaments : counted'[u] = IF u \in Range(terminal') THEN 1 ELSE 0
    <3>1. counted[t] = 0 /\ DOMAIN counted = Tournaments
      BY <2>1 DEF MetricsInv
    <3>2. counted'[t] = 1
      BY <2>1, <3>1
    <3>3. \A u \in Tournaments : u # t => counted'[u] = counted[u]
      BY <2>1, <3>1
    <3> QED BY <2>1, <2>5, <3>1, <3>2, <3>3 DEF MetricsInv
  <2> QED BY <2>5, <2>6, <2>7, <2>8 DEF MetricsInv
<1>2. CASE ~Counts(t, status)
  <2>1. terminal' = terminal /\ counted' = counted
    BY <1>2 DEF Observe
  <2>2. active' \cap Range(terminal) = {}
    BY DEF Observe, EntersFlight, MetricsInv
  <2>3. status \in Terminal => t \in Range(terminal)
    BY <1>2 DEF Counts
  <2>4. MetricsInv'
    BY <2>1, <2>2 DEF MetricsInv
  <2> QED BY <2>1, <2>3, <2>4
<1> QED BY <1>1, <1>2

(* What was truthful stays so while tournaments stay settled and layouts   *)
(* stay whole: a step answers only for what it writes.                     *)
LEMMA TruthCarries ==
    ASSUME TournamentInv, ShapeInv', MetricsInv',
           \A u \in Tournaments : Settled(u) => Settled(u)',
           \A u \in Tournaments : layout[u] = Files => layout'[u] = Files,
           \A u \in Tournaments : record'[u] = record[u] \/ Truthful(record[u], u)',
           \A p \in Pollers, u \in Tournaments : poll'[p][u] = poll[p][u] \/ TruthfulCopy(p, u)'
    PROVE  TournamentInv'
<1>1. RecordInv'
  <2> SUFFICES ASSUME NEW u \in Tournaments, record'[u] = record[u] PROVE Truthful(record[u], u)'
    BY DEF RecordInv
  <2> QED BY DEF TournamentInv, RecordInv, Truthful
<1>2. CopyInv'
  <2> SUFFICES ASSUME NEW p \in Pollers, NEW u \in Tournaments, poll'[p][u] = poll[p][u]
               PROVE  TruthfulCopy(p, u)'
    BY DEF CopyInv
  <2> QED BY DEF TournamentInv, CopyInv, TruthfulCopy, Truthful
<1> QED BY <1>1, <1>2 DEF TournamentInv

\* The record of t, or what p holds of t, changes, and nothing else of its kind.
OnlyRecord(t) ==
    DOMAIN record' = Tournaments /\ \A u \in Tournaments : u # t => record'[u] = record[u]
OnlyPoll(p, t) ==
    /\ DOMAIN poll' = Pollers /\ \A o \in Pollers : DOMAIN poll'[o] = Tournaments
    /\ \A o \in Pollers, u \in Tournaments : o # p \/ u # t => poll'[o][u] = poll[o][u]

LEMMA SettledByRange ==
    ASSUME NEW u, poll' = poll, Range(terminal) \subseteq Range(terminal')
    PROVE  Settled(u) => Settled(u)'
  BY DEF Settled, Observing

(* Requests and background tasks write a record and observe it at once.    *)
LEMMA RecordObserved ==
    ASSUME TournamentInv, NEW t \in Tournaments, NEW r, Persist(t, r), Observe(t, r.status),
           r.status # "completed" \/ r.mode # "nebius_serverless_job",
           UNCHANGED <<bucket, synced, layout, poll>>
    PROVE  TournamentInv'
<1>1. MetricsInv' /\ Range(terminal) \subseteq Range(terminal')
      /\ (r.status \in Terminal => t \in Range(terminal'))
  BY ObserveKeeps DEF TournamentInv
<1>2. OnlyRecord(t) /\ record'[t] = r
  BY DEF Persist, OnlyRecord, TournamentInv, ShapeInv
<1>3. ShapeInv'
  BY <1>2 DEF OnlyRecord, TournamentInv, ShapeInv
<1>4. \A u \in Tournaments : Settled(u) => Settled(u)'
  BY <1>1, SettledByRange
<1>5. r.status \in Terminal => Settled(t)'
  BY <1>1 DEF Settled
<1>6. Truthful(record[t], t)'
  BY <1>2, <1>5 DEF Truthful
<1>7. \A u \in Tournaments : record'[u] = record[u] \/ Truthful(record[u], u)'
  BY <1>2, <1>6 DEF OnlyRecord
<1> QED BY <1>1, <1>3, <1>4, <1>7, TruthCarries

LEMMA QueueStep ==
    ASSUME TournamentInv, NEW t \in Tournaments, Queue(t)
    PROVE  TournamentInv'
<1>1. PICK r \in {Mock} \cup IF t \in Cloud THEN Submissions ELSE {Record("queued", "local")} :
        Persist(t, r) /\ Observe(t, r.status)
  BY DEF Queue
<1>2. r.status # "completed" \/ r.mode # "nebius_serverless_job"
  BY <1>1 DEF Mock, Submissions, Record
<1>3. UNCHANGED <<bucket, synced, layout, poll>>
  BY DEF Queue
<1> QED BY <1>1, <1>2, <1>3, RecordObserved

LEMMA ResultStep ==
    ASSUME TournamentInv, NEW t \in Tournaments,
           StartDirect(t) \/ FindRunnerBusy(t) \/ FinishLocal(t)
    PROVE  TournamentInv'
<1>1. PICK r \in RunnerResults : Persist(t, r)
  BY DEF StartDirect, FindRunnerBusy, FinishLocal, RunnerResults
<1>2. r.status = "completed" /\ r.mode # "nebius_serverless_job"
  BY <1>1 DEF RunnerResults, Mock, Record
<1>3. UNCHANGED <<bucket, synced, layout, poll>> /\ Observe(t, "completed")
  BY DEF StartDirect, FindRunnerBusy, FinishLocal, platform
<1> QED BY <1>1, <1>2, <1>3, RecordObserved

LEMMA BeginStep ==
    ASSUME TournamentInv, NEW t \in Tournaments, BeginLocal(t)
    PROVE  TournamentInv'
<1>1. PICK r : r = Record("running", record[t].mode)
  OBVIOUS
<1>2. Persist(t, r) /\ r.status = "running" /\ Observe(t, r.status)
  BY <1>1 DEF BeginLocal, Record
<1>3. UNCHANGED <<bucket, synced, layout, poll>>
  BY DEF BeginLocal, platform
<1> QED BY <1>2, <1>3, RecordObserved

(* The lock and the platform's job are of no concern to the records.       *)
LEMMA PlatformStep ==
    ASSUME TournamentInv, NEW t \in Tournaments, TakeRunner(t) \/ JobWrites(t) \/ JobEnds(t)
    PROVE  TournamentInv'
<1>1. UNCHANGED <<record, poll, synced, layout, active, terminal, counted>>
  BY DEF TakeRunner, JobWrites, JobEnds, metrics
<1>2. DOMAIN bucket' = Tournaments /\ \A u \in Tournaments : bucket'[u] \subseteq Files
  <2>1. CASE JobWrites(t)
    <3>1. PICK f \in Files : bucket' = [bucket EXCEPT ![t] = @ \cup {f}]
      BY <2>1 DEF JobWrites
    <3> QED BY <3>1 DEF TournamentInv, ShapeInv
  <2>2. CASE TakeRunner(t) \/ JobEnds(t)
    BY <2>2 DEF TakeRunner, JobEnds, platform, TournamentInv, ShapeInv
  <2> QED BY <2>1, <2>2
<1>3. ShapeInv' /\ MetricsInv'
  BY <1>1, <1>2 DEF TournamentInv, ShapeInv, MetricsInv
<1>4. \A u \in Tournaments : Settled(u) => Settled(u)'
  BY <1>1, SettledByRange
<1> QED BY <1>1, <1>3, <1>4, TruthCarries

(* A refresh that neither ends nor begins an observation leaves a          *)
(* tournament as settled as it was.                                        *)
LEMMA SettledByPoll ==
    ASSUME NEW p \in Pollers, NEW t \in Tournaments, NEW u \in Tournaments, OnlyPoll(p, t),
           terminal' = terminal, poll[p][t].step # "observe"
    PROVE  Settled(u) => Settled(u)'
  BY DEF Settled, Observing, OnlyPoll

LEMMA RefreshReadStep ==
    ASSUME TournamentInv, NEW p \in Pollers, NEW t \in Tournaments, RefreshRead(p, t)
    PROVE  TournamentInv'
<1> DEFINE new == [NoPoll EXCEPT !.step = "ask", !.snap = record[t]]
<1>1. /\ poll' = [poll EXCEPT ![p][t] = new] /\ poll[p][t].step = "idle"
      /\ UNCHANGED <<record, bucket, synced, layout, active, terminal, counted>>
  BY DEF RefreshRead, platform, metrics
<1>2. DOMAIN new = {"step", "snap", "next"} /\ new.step = "ask" /\ new.snap = record[t]
  BY DEF NoPoll
<1> HIDE DEF new
<1>3. OnlyPoll(p, t) /\ poll'[p][t] = new
  BY <1>1 DEF OnlyPoll, TournamentInv, ShapeInv
<1>4. ShapeInv' /\ MetricsInv'
  BY <1>1, <1>2, <1>3 DEF OnlyPoll, TournamentInv, ShapeInv, MetricsInv
<1>5. \A u \in Tournaments : Settled(u) => Settled(u)'
  BY <1>1, <1>3, SettledByPoll
<1>6. TruthfulCopy(p, t)'
  BY <1>1, <1>2, <1>3, <1>5 DEF TruthfulCopy, Truthful, TournamentInv, RecordInv
<1> QED BY <1>1, <1>3, <1>4, <1>5, <1>6, TruthCarries DEF OnlyPoll

LEMMA StatusFailsStep ==
    ASSUME TournamentInv, NEW p \in Pollers, NEW t \in Tournaments, StatusFails(p, t)
    PROVE  TournamentInv'
<1>1. /\ poll' = [poll EXCEPT ![p][t] = NoPoll] /\ poll[p][t].step = "ask"
      /\ record' = [record EXCEPT ![t] = poll[p][t].snap]
      /\ UNCHANGED <<bucket, synced, layout, active, terminal, counted>>
  BY DEF StatusFails, Persist, platform, metrics
<1>2. DOMAIN NoPoll = {"step", "snap", "next"} /\ NoPoll.step = "idle"
  BY DEF NoPoll
<1>3. /\ OnlyPoll(p, t) /\ poll'[p][t] = NoPoll
      /\ OnlyRecord(t) /\ record'[t] = poll[p][t].snap
  BY <1>1 DEF OnlyPoll, OnlyRecord, TournamentInv, ShapeInv
<1>4. ShapeInv' /\ MetricsInv'
  BY <1>1, <1>2, <1>3 DEF OnlyPoll, OnlyRecord, TournamentInv, ShapeInv, MetricsInv
<1>5. \A u \in Tournaments : Settled(u) => Settled(u)'
  BY <1>1, <1>3, SettledByPoll
<1>6. TruthfulCopy(p, t)' /\ Truthful(record[t], t)'
  BY <1>1, <1>2, <1>3, <1>5 DEF TruthfulCopy, Truthful, TournamentInv, CopyInv
<1> QED BY <1>1, <1>3, <1>4, <1>5, <1>6, TruthCarries DEF OnlyPoll, OnlyRecord

LEMMA StatusAnswersStep ==
    ASSUME TournamentInv, NEW p \in Pollers, NEW t \in Tournaments, StatusAnswers(p, t)
    PROVE  TournamentInv'
<1>1. PICK s : poll' = [poll EXCEPT ![p][t].next = s,
                          ![p][t].step = IF s = "completed" THEN "collect" ELSE "write"]
  BY DEF StatusAnswers
<1>2. /\ poll[p][t].step = "ask"
      /\ UNCHANGED <<record, bucket, synced, layout, active, terminal, counted>>
  BY DEF StatusAnswers, platform, metrics
<1>3. /\ OnlyPoll(p, t) /\ DOMAIN poll'[p][t] = {"step", "snap", "next"}
      /\ poll'[p][t].next = s /\ poll'[p][t].snap = poll[p][t].snap
      /\ poll'[p][t].step = IF s = "completed" THEN "collect" ELSE "write"
  BY <1>1 DEF OnlyPoll, TournamentInv, ShapeInv
<1>4. ShapeInv' /\ MetricsInv'
  BY <1>2, <1>3 DEF OnlyPoll, TournamentInv, ShapeInv, MetricsInv
<1>5. \A u \in Tournaments : Settled(u) => Settled(u)'
  BY <1>2, <1>3, SettledByPoll
<1>6. TruthfulCopy(p, t)'
  BY <1>2, <1>3, <1>5 DEF TruthfulCopy, Truthful, TournamentInv, CopyInv
<1> QED BY <1>2, <1>3, <1>4, <1>5, <1>6, TruthCarries DEF OnlyPoll

(* A refresh decides "completed" only with every file in the layout; files *)
(* are added to it and never taken away.                                   *)
LEMMA CollectStep ==
    ASSUME TournamentInv, NEW p \in Pollers, NEW t \in Tournaments, Collect(p, t)
    PROVE  TournamentInv'
<1>1. /\ poll[p][t].step = "collect"
      /\ UNCHANGED <<record, bucket, active, terminal, counted>>
  BY DEF Collect, platform, metrics
<1> DEFINE Decides(s) ==
      /\ OnlyPoll(p, t) /\ DOMAIN poll'[p][t] = {"step", "snap", "next"}
      /\ poll'[p][t].step = "write" /\ poll'[p][t].snap = poll[p][t].snap
      /\ poll'[p][t].next = s /\ (s = "completed" => layout'[t] = Files)
      /\ DOMAIN synced' = Tournaments /\ DOMAIN layout' = Tournaments
      /\ \A u \in Tournaments : synced'[u] \subseteq Files /\ layout'[u] \subseteq Files
      /\ \A u \in Tournaments : layout[u] \subseteq layout'[u]
<1>2. PICK s : Decides(s)
  <2>1. ASSUME NEW part \in SUBSET bucket[t], synced' = [synced EXCEPT ![t] = @ \cup part],
               poll' = [poll EXCEPT ![p][t].step = "write", ![p][t].next = "failed"],
               layout' = layout
        PROVE  \E s : Decides(s)
    <3>1. OnlyPoll(p, t) /\ DOMAIN poll'[p][t] = {"step", "snap", "next"}
          /\ poll'[p][t].step = "write" /\ poll'[p][t].snap = poll[p][t].snap
          /\ poll'[p][t].next = "failed"
      BY <2>1 DEF OnlyPoll, TournamentInv, ShapeInv
    <3>2. /\ DOMAIN synced' = Tournaments /\ DOMAIN layout' = Tournaments
          /\ \A u \in Tournaments : synced'[u] \subseteq Files /\ layout'[u] \subseteq Files
          /\ \A u \in Tournaments : layout[u] \subseteq layout'[u]
      BY <2>1 DEF TournamentInv, ShapeInv
    <3> QED BY <3>1, <3>2
  <2>2. ASSUME synced' = [synced EXCEPT ![t] = @ \cup bucket[t]],
               layout' = [layout EXCEPT ![t] = @ \cup synced'[t]],
               poll' = [poll EXCEPT ![p][t].step = "write",
                          ![p][t].next = IF Collected(synced'[t]) THEN "completed" ELSE "running"]
        PROVE  \E s : Decides(s)
    <3>1. PICK s : s = IF Collected(synced'[t]) THEN "completed" ELSE "running"
      OBVIOUS
    <3>2. OnlyPoll(p, t) /\ DOMAIN poll'[p][t] = {"step", "snap", "next"}
          /\ poll'[p][t].step = "write" /\ poll'[p][t].snap = poll[p][t].snap
          /\ poll'[p][t].next = s
      BY <2>2, <3>1 DEF OnlyPoll, TournamentInv, ShapeInv
    <3>3. DOMAIN synced' = Tournaments /\ \A u \in Tournaments : synced'[u] \subseteq Files
      BY <2>2 DEF TournamentInv, ShapeInv
    <3>4. /\ DOMAIN layout' = Tournaments /\ layout'[t] = layout[t] \cup synced'[t]
          /\ \A u \in Tournaments : u # t => layout'[u] = layout[u]
      BY <2>2 DEF TournamentInv, ShapeInv
    <3>5. /\ \A u \in Tournaments : layout'[u] \subseteq Files /\ layout[u] \subseteq layout'[u]
          /\ (s = "completed" => layout'[t] = Files)
      BY <3>1, <3>3, <3>4 DEF TournamentInv, ShapeInv, Collected
    <3> QED BY <3>2, <3>3, <3>4, <3>5
  <2> QED BY <2>1, <2>2 DEF Collect
<1>3. ShapeInv' /\ MetricsInv'
  BY <1>1, <1>2 DEF OnlyPoll, TournamentInv, ShapeInv, MetricsInv
<1>4. \A u \in Tournaments : Settled(u) => Settled(u)'
  BY <1>1, <1>2, SettledByPoll
<1>5. \A u \in Tournaments : layout[u] = Files => layout'[u] = Files
  BY <1>2
<1>6. TruthfulCopy(p, t)'
  BY <1>1, <1>2, <1>4, <1>5 DEF TruthfulCopy, Truthful, TournamentInv, CopyInv
<1> QED BY <1>1, <1>2, <1>3, <1>4, <1>5, <1>6, TruthCarries DEF OnlyPoll

(* The record is written before the metrics hear of it: until then the     *)
(* refresh itself is the witness that the tournament has ended.            *)
LEMMA RefreshWriteStep ==
    ASSUME TournamentInv, NEW p \in Pollers, NEW t \in Tournaments, RefreshWrite(p, t)
    PROVE  TournamentInv'
<1>1. /\ poll' = [poll EXCEPT ![p][t].step = "observe"] /\ poll[p][t].step = "write"
      /\ record' = [record EXCEPT ![t] = Record(poll[p][t].next, poll[p][t].snap.mode)]
      /\ UNCHANGED <<bucket, synced, layout, active, terminal, counted>>
  BY DEF RefreshWrite, Persist, platform, metrics
<1>2. /\ OnlyPoll(p, t) /\ DOMAIN poll'[p][t] = {"step", "snap", "next"}
      /\ poll'[p][t].step = "observe" /\ poll'[p][t].snap = poll[p][t].snap
      /\ poll'[p][t].next = poll[p][t].next
      /\ OnlyRecord(t) /\ record'[t].status = poll[p][t].next
  BY <1>1 DEF OnlyPoll, OnlyRecord, Record, TournamentInv, ShapeInv
<1>3. ShapeInv' /\ MetricsInv'
  BY <1>1, <1>2 DEF OnlyPoll, OnlyRecord, TournamentInv, ShapeInv, MetricsInv
<1>4. \A u \in Tournaments : Settled(u) => Settled(u)'
  BY <1>1, <1>2, SettledByPoll
<1>5. poll[p][t].next \in Terminal => Settled(t)'
  BY <1>2 DEF Settled, Observing
<1>6. TruthfulCopy(p, t)' /\ Truthful(record[t], t)'
  BY <1>1, <1>2, <1>4, <1>5 DEF TruthfulCopy, Truthful, TournamentInv, CopyInv
<1> QED BY <1>1, <1>2, <1>3, <1>4, <1>6, TruthCarries DEF OnlyPoll, OnlyRecord

LEMMA RefreshObserveStep ==
    ASSUME TournamentInv, NEW p \in Pollers, NEW t \in Tournaments, RefreshObserve(p, t)
    PROVE  TournamentInv'
<1>1. /\ poll' = [poll EXCEPT ![p][t] = NoPoll] /\ poll[p][t].step = "observe"
      /\ UNCHANGED <<record, bucket, synced, layout>>
  BY DEF RefreshObserve, platform
<1>2. PICK status : status = poll[p][t].next
  OBVIOUS
<1>3. MetricsInv' /\ Range(terminal) \subseteq Range(terminal')
      /\ (status \in Terminal => t \in Range(terminal'))
  BY <1>2, ObserveKeeps DEF RefreshObserve, TournamentInv
<1>4. DOMAIN NoPoll = {"step", "snap", "next"} /\ NoPoll.step = "idle"
  BY DEF NoPoll
<1>5. OnlyPoll(p, t) /\ poll'[p][t] = NoPoll
  BY <1>1 DEF OnlyPoll, TournamentInv, ShapeInv
<1>6. ShapeInv'
  BY <1>1, <1>4, <1>5 DEF OnlyPoll, TournamentInv, ShapeInv
<1>7. \A u \in Tournaments : Settled(u) => Settled(u)'
  BY <1>2, <1>3, <1>5 DEF Settled, Observing, OnlyPoll
<1>8. TruthfulCopy(p, t)'
  BY <1>4, <1>5 DEF TruthfulCopy
<1> QED BY <1>1, <1>3, <1>5, <1>6, <1>7, <1>8, TruthCarries DEF OnlyPoll

LEMMA TournamentInitially == Init => TournamentInv
<1> SUFFICES ASSUME Init PROVE TournamentInv
  OBVIOUS
<1>1. ShapeInv
  BY DEF Init, ShapeInv, NoPoll
<1>2. terminal = <<>> /\ Range(terminal) = {} /\ terminal \in Seq({}) /\ Len(terminal) = 0
  BY DEF Init, Range
<1>3. MetricsInv
  BY <1>2, FS_EmptySet DEF Init, MetricsInv
<1>4. RecordInv /\ CopyInv
  BY DEF Init, RecordInv, CopyInv, TruthfulCopy, Truthful, NoRecord, NoPoll, Terminal
<1> QED BY <1>1, <1>3, <1>4 DEF TournamentInv

LEMMA TournamentSteps == TournamentInv /\ [Next]_vars => TournamentInv'
<1> SUFFICES ASSUME TournamentInv, [Next]_vars PROVE TournamentInv'
  OBVIOUS
<1>1. CASE UNCHANGED vars
  <2>1. UNCHANGED <<record, bucket, synced, layout, active, terminal, counted, poll>>
    BY <1>1 DEF vars
  <2>2. \A u \in Tournaments : Settled(u) => Settled(u)'
    BY <2>1, SettledByRange
  <2>3. ShapeInv' /\ MetricsInv'
    BY <2>1 DEF TournamentInv, ShapeInv, MetricsInv
  <2> QED BY <2>1, <2>2, <2>3, TruthCarries
<1>2. ASSUME NEW t \in Tournaments,
             Queue(t) \/ StartDirect(t) \/ Local(t) \/ JobWrites(t) \/ JobEnds(t)
      PROVE  TournamentInv'
  BY <1>2, QueueStep, ResultStep, BeginStep, PlatformStep DEF Local
<1>3. ASSUME NEW t \in Tournaments, NEW p \in Pollers, RefreshRead(p, t) \/ Poll(p, t)
      PROVE  TournamentInv'
  BY <1>3, RefreshReadStep, StatusFailsStep, StatusAnswersStep, CollectStep, RefreshWriteStep,
     RefreshObserveStep DEF Poll
<1> QED BY <1>1, <1>2, <1>3 DEF Next

(* The index of the archive grows only by records it does not have.        *)
LEMMA ArchiveSteps == ArchiveInv /\ [EvNext]_evVars => ArchiveInv'
<1> SUFFICES ASSUME ArchiveInv, [EvNext]_evVars PROVE ArchiveInv'
  OBVIOUS
<1>1. ASSUME NEW e, index' = IF IsNew(e) THEN Append(index, e) ELSE index PROVE ArchiveInv'
  BY <1>1, AppendRange DEF ArchiveInv, IsNew
<1>2. CASE UNCHANGED index
  BY <1>2 DEF ArchiveInv
<1>3. index' = index \/ \E e : index' = IF IsNew(e) THEN Append(index, e) ELSE index
  BY DEF EvNext, evVars, BeginSync, SyncStep, SyncUpload, SyncMark, SyncRestore, SyncRegister,
         Writer, WriteEvidence, MirrorEvidence, MarkUploadFailed, Register
<1> QED BY <1>1, <1>2, <1>3

LEMMA ArchiveInitially == EvInit => ArchiveInv
<1> SUFFICES ASSUME EvInit PROVE ArchiveInv
  OBVIOUS
<1>1. index = <<>> /\ Range(index) = {} /\ index \in Seq({}) /\ DOMAIN index = {}
  BY DEF EvInit, Range
<1> QED BY <1>1 DEF ArchiveInv, IsInjective

(* The inductive invariant of the two services.                            *)
THEOREM ServicesInvariant == ServicesSpec => [](TournamentInv /\ ArchiveInv)
<1>1. ServicesInit => TournamentInv /\ ArchiveInv
  BY TournamentInitially, ArchiveInitially DEF ServicesInit
<1>2. TournamentInv /\ ArchiveInv /\ [ServicesNext]_allVars => (TournamentInv /\ ArchiveInv)'
  BY TournamentSteps, ArchiveSteps DEF ServicesNext, allVars
<1> QED BY <1>1, <1>2, PTL DEF ServicesSpec

LEMMA RecordsFollow == TournamentInv /\ ArchiveInv => RecordsAreConsistent
<1> SUFFICES ASSUME TournamentInv, ArchiveInv PROVE RecordsAreConsistent
  OBVIOUS
<1>1. FinishedIsNotInFlight
  BY DEF FinishedIsNotInFlight, TournamentInv, MetricsInv, RecordInv, Truthful, Settled, Observing
<1>2. RunCountedOnce
  BY DEF RunCountedOnce, TournamentInv, MetricsInv
<1>3. CompletedHasArtifacts
  BY DEF CompletedHasArtifacts, TournamentInv, RecordInv, Truthful, Record
<1> QED
  BY <1>1, <1>2, <1>3 DEF RecordsAreConsistent, TournamentIsConsistent, ArchiveInv, IndexedOnce

(* However many refreshes race, and however many tournaments there are up  *)
(* to the observer's limit: a finished tournament is not counted as in     *)
(* flight, is counted once, and is completed only with every artifact; and *)
(* the archive indexes a record once.                                      *)
THEOREM RecordsConsistent == ServicesSpec => []RecordsAreConsistent
  BY ServicesInvariant, RecordsFollow, PTL

--------------------------------------------------------------------------------
(***************************************************************************)
(* The AI endpoint, its client and the demo.                               *)
(***************************************************************************)
HandlerFields == {"pc", "route", "before", "own", "mode", "from"}

AiShape ==
    /\ configured \subseteq Routes
    /\ DOMAIN handler = Handlers /\ DOMAIN answers = Handlers
    /\ \A h \in Handlers : DOMAIN handler[h] = HandlerFields
    /\ DOMAIN cloud = Demos /\ DOMAIN experiment = Demos
    /\ \A d \in Demos : DOMAIN experiment[d] = {"status", "calls", "cost"}

\* An answer names its author.
Authored(a) ==
    /\ (a.writer = "model") = (a.label = "local_vllm")
    /\ a.writer = "backend" => a.mode = "mock" /\ a.reason # None
    /\ a.route = "abuse" => (a.mode = "nebius") = (a.writer = "model")

AuthorInv == \A h \in Handlers : Authored(answers[h])

\* The calls recorded that are not among those noted before.
Since(before) == {r \in archive : r.call \notin before}

\* Calls are numbered as they are recorded; a handler's own were recorded
\* after it noted the ones before.
CallsInv ==
    /\ IsFiniteSet(archive) /\ \A r \in archive : r.call \in 1..Cardinality(archive)
    /\ \A h \in Handlers : /\ handler[h].before \subseteq 1..Cardinality(archive)
                           /\ handler[h].own \in Nat
                           /\ handler[h].own <= Cardinality(Since(handler[h].before))

Calling == {"ask"} \cup Routes
Decided == {"completed", "failed"}

\* Where a demo stands, what it knows of its cloud tournament and what it reports.
DemoReports(d) ==
    /\ handler[d].pc \in Calling => handler[d].from \in {"reset", "investigate", "tournament"}
    /\ handler[d].pc = "save" /\ handler[d].from \in Decided => cloud[d] = handler[d].from
    /\ handler[d].pc = "done" => experiment[d].calls >= handler[d].own
    /\ experiment[d].status \in Decided =>
         /\ handler[d].pc = "done"
         /\ handler[d].mode = "nebius" => cloud[d] = experiment[d].status /\ experiment[d].cost

DemoInv == \A d \in Demos : DemoReports(d)

AiInv == AiShape /\ AuthorInv /\ CallsInv /\ DemoInv
--------------------------------------------------------------------------------
LEMMA LocalAuthored ==
    ASSUME NEW route, NEW why, why # None
    PROVE  Authored(LocalAnswer(route, why))
  BY DEF Authored, LocalAnswer, None

LEMMA EndpointHonest ==
    ASSUME NEW mode, mode = endpointMode, NEW sent, NEW screen, NEW outcome \in Outcomes
    PROVE  LET a == EndpointAnswer(sent, screen, outcome)
           IN  \/ a.writer = "model" /\ a.label = "local_vllm"
               \/ a.writer = "endpoint" /\ a.label = "deterministic_fallback"
<1>1. ASSUME NEW called, \/ called.payload = None /\ called.label = "deterministic_fallback"
                         \/ called.payload \in Outcomes /\ called.label = "local_vllm"
      PROVE  \/ Typed(called).writer = "model" /\ Typed(called).label = "local_vllm"
             \/ Typed(called).writer = "endpoint" /\ Typed(called).label = "deterministic_fallback"
  BY <1>1 DEF Typed, FallbackModelResult, None, Outcomes
<1>2. \/ CallModel(outcome).payload = None /\ CallModel(outcome).label = "deterministic_fallback"
      \/ CallModel(outcome).payload \in Outcomes /\ CallModel(outcome).label = "local_vllm"
  BY DEF CallModel, Outcomes
<1>3. \/ /\ CallSurveillance(screen, outcome).payload = None
         /\ CallSurveillance(screen, outcome).label = "deterministic_fallback"
      \/ /\ CallSurveillance(screen, outcome).payload \in Outcomes
         /\ CallSurveillance(screen, outcome).label = "local_vllm"
  BY <1>2 DEF CallSurveillance
<1> QED BY <1>1, <1>2, <1>3 DEF EndpointAnswer, AnalysisAnswer, ScenarioAnswer

LEMMA ParsedAuthored ==
    ASSUME NEW route, NEW sent, NEW a,
           \/ a.writer = "model" /\ a.label = "local_vllm"
           \/ a.writer = "endpoint" /\ a.label = "deterministic_fallback"
    PROVE  Authored(ParsedAnswer(route, sent, a))
  BY DEF Authored, ParsedAnswer, AbuseAnswer

(* One more record: it is in the count of everyone who noted less.         *)
LEMMA CallsGrow ==
    ASSUME CallsInv, NEW h, RecordCall(h, TRUE)
    PROVE  /\ IsFiniteSet(archive') /\ Cardinality(archive') = Cardinality(archive) + 1
           /\ Cardinality(archive) \in Nat
           /\ \A r \in archive' : r.call \in 1..Cardinality(archive')
           /\ \A b \in SUBSET (1..Cardinality(archive)) :
                /\ Cardinality(Since(b))' = Cardinality(Since(b)) + 1
                /\ Cardinality(Since(b)) \in Nat
<1>1. PICK n : n = Cardinality(archive)
  OBVIOUS
<1>2. n \in Nat /\ IsFiniteSet(archive)
  BY <1>1, FS_CardinalityType DEF CallsInv
<1>3. PICK new : new = [call |-> n + 1, owner |-> h]
  OBVIOUS
<1>4. archive' = archive \cup {new} /\ new.call = n + 1
  BY <1>1, <1>3 DEF RecordCall
<1>5. new \notin archive
  BY <1>1, <1>2, <1>4 DEF CallsInv
<1>6. IsFiniteSet(archive') /\ Cardinality(archive') = n + 1
  BY <1>1, <1>2, <1>4, <1>5, FS_AddElement
<1>7. \A r \in archive' : r.call \in 1..Cardinality(archive')
  BY <1>1, <1>2, <1>4, <1>6 DEF CallsInv
<1>8. ASSUME NEW b \in SUBSET (1..n)
      PROVE  Cardinality(Since(b))' = Cardinality(Since(b)) + 1 /\ Cardinality(Since(b)) \in Nat
  <2>1. Since(b)' = Since(b) \cup {new} /\ new \notin Since(b)
    BY <1>2, <1>4, <1>5 DEF Since
  <2>2. IsFiniteSet(Since(b)) /\ Cardinality(Since(b)) \in Nat
    <3>1. Since(b) \in SUBSET archive
      BY DEF Since
    <3> QED BY <1>2, <3>1, FS_Subset, FS_CardinalityType
  <2>3. Cardinality(Since(b) \cup {new}) = Cardinality(Since(b)) + 1
    BY <2>1, <2>2, FS_AddElement
  <2> QED BY <2>1, <2>2, <2>3
<1> QED BY <1>1, <1>2, <1>6, <1>7, <1>8

\* Handler h takes a step and no other.
OnlyHandler(h) ==
    /\ DOMAIN handler' = Handlers /\ DOMAIN handler'[h] = HandlerFields
    /\ \A g \in Handlers : g # h => handler'[g] = handler[g]

(* A call counts for its own handler at most once, and only if recorded.   *)
LEMMA CallsCounted ==
    ASSUME CallsInv, NEW h \in Handlers, NEW recorded \in BOOLEAN, RecordCall(h, recorded),
           OnlyHandler(h), handler'[h].before = handler[h].before,
           handler'[h].own = handler[h].own + (IF recorded THEN 1 ELSE 0)
    PROVE  CallsInv'
<1>1. \A g \in Handlers : /\ handler'[g].before = handler[g].before
                          /\ handler[g].own \in Nat /\ handler'[g].own \in Nat
                          /\ handler'[g].own <= handler[g].own + (IF recorded THEN 1 ELSE 0)
  BY DEF OnlyHandler, CallsInv
<1>2. CASE recorded = TRUE
  <2> SUFFICES ASSUME NEW g \in Handlers
               PROVE  /\ handler'[g].before \subseteq 1..Cardinality(archive')
                      /\ handler'[g].own <= Cardinality(Since(handler[g].before))'
    BY <1>1, <1>2, CallsGrow DEF CallsInv
  <2>1. PICK b : b = handler[g].before
    OBVIOUS
  <2>2. b \in SUBSET (1..Cardinality(archive)) /\ handler[g].own <= Cardinality(Since(b))
    BY <2>1 DEF CallsInv
  <2>3. /\ Cardinality(Since(b))' = Cardinality(Since(b)) + 1 /\ Cardinality(Since(b)) \in Nat
        /\ Cardinality(archive') = Cardinality(archive) + 1 /\ Cardinality(archive) \in Nat
    BY <1>2, <2>2, CallsGrow
  <2>4. Cardinality(Since(handler[g].before))' = Cardinality(Since(b))'
    BY <1>1, <2>1 DEF Since
  <2> QED BY <1>1, <1>2, <2>1, <2>2, <2>3, <2>4
<1>3. CASE recorded = FALSE
  <2>1. archive' = archive
    BY <1>3 DEF RecordCall
  <2>2. \A g \in Handlers : handler'[g].own <= handler[g].own
    BY <1>1, <1>3
  <2>3. \A g \in Handlers : Since(handler[g].before)' = Since(handler[g].before)
    BY <1>1, <2>1 DEF Since
  <2>4. \A g \in Handlers : Cardinality(Since(handler[g].before)) \in Nat
    <3> SUFFICES ASSUME NEW g \in Handlers PROVE Cardinality(Since(handler[g].before)) \in Nat
      OBVIOUS
    <3>1. Since(handler[g].before) \in SUBSET archive /\ IsFiniteSet(archive)
      BY DEF Since, CallsInv
    <3> QED BY <3>1, FS_Subset, FS_CardinalityType
  <2> QED BY <1>1, <2>1, <2>2, <2>3, <2>4 DEF CallsInv
<1> QED BY <1>2, <1>3

LEMMA AnswerKept ==
    ASSUME AiShape, AuthorInv, NEW h, NEW a, Authored(a), answers' = [answers EXCEPT ![h] = a]
    PROVE  AuthorInv' /\ DOMAIN answers' = Handlers
<1>1. \A g \in Handlers : answers'[g] = answers[g] \/ answers'[g] = a
  BY DEF AiShape
<1> QED BY <1>1 DEF AiShape, AuthorInv, Authored

(* While a handler calls the endpoint, a demo's plans are those it began   *)
(* the call with.                                                          *)
LEMMA CallingKeeps ==
    ASSUME AiInv, NEW h \in Handlers, OnlyHandler(h), CallsInv', AuthorInv',
           DOMAIN answers' = Handlers, UNCHANGED <<configured, cloud, experiment>>,
           h \in Demos =>
             /\ handler[h].pc \in Calling /\ handler'[h].from = handler[h].from
             /\ handler'[h].pc \in Calling \cup {handler[h].from}
    PROVE  AiInv'
<1>1. AiShape'
  BY DEF AiInv, AiShape, OnlyHandler
<1>2. DemoInv'
  <2> SUFFICES ASSUME NEW d \in Demos, d = h
               PROVE  /\ handler'[d].pc \notin {"save", "done"}
                      /\ handler'[d].from \in {"reset", "investigate", "tournament"}
                      /\ experiment[d].status \notin Decided
    BY DEF AiInv, DemoInv, DemoReports, OnlyHandler, Calling, Routes, Decided, Handlers
  <2> QED BY DEF AiInv, DemoInv, DemoReports, Calling, Routes
<1> QED BY <1>1, <1>2 DEF AiInv

LEMMA SendStep ==
    ASSUME AiInv, NEW h \in Handlers, Send(h)
    PROVE  AiInv'
<1>1. /\ handler[h].pc = "ask" /\ archive' = archive /\ UNCHANGED <<configured, cloud, experiment>>
      /\ DOMAIN handler = Handlers /\ DOMAIN handler[h] = HandlerFields
  BY DEF Send, Loop, AiInv, AiShape
<1>2. OnlyHandler(h) /\ handler'[h].from = handler[h].from /\ handler'[h].own = handler[h].own
      /\ handler'[h].before = handler[h].before
  BY <1>1, ZenonT(60) DEF Send, Go, Answered, OnlyHandler, HandlerFields
<1>3. CallsInv'
  <2>1. RecordCall(h, FALSE) /\ handler'[h].own = handler[h].own + (IF FALSE THEN 1 ELSE 0)
    BY <1>1, <1>2 DEF RecordCall, AiInv, CallsInv
  <2> QED BY <1>2, <2>1, CallsCounted DEF AiInv
<1>4. CASE Url(h, handler[h].route)
  <2>1. answers' = answers /\ handler'[h].pc = handler[h].route
    BY <1>1, <1>4 DEF Send, Go, HandlerFields
  <2>2. handler'[h].pc \in Calling
    BY <1>4, <2>1 DEF Url, AiInv, AiShape, Calling
  <2>3. AuthorInv' /\ DOMAIN answers' = Handlers
    BY <2>1 DEF AiInv, AiShape, AuthorInv
  <2> QED BY <1>1, <1>2, <1>3, <2>2, <2>3, CallingKeeps DEF Calling
<1>5. CASE ~Url(h, handler[h].route)
  <2>1. PICK a : a = LocalAnswer(handler[h].route, "not_configured")
    OBVIOUS
  <2>2. /\ answers' = [answers EXCEPT ![h] = a]
        /\ handler'[h].pc = IF h \in Demos THEN handler[h].from ELSE "done"
    BY <1>1, <1>5, <2>1 DEF Send, Go, Answered, HandlerFields
  <2>3. Authored(a)
    BY <2>1, LocalAuthored DEF None
  <2>4. AuthorInv' /\ DOMAIN answers' = Handlers
    BY <2>2, <2>3, AnswerKept DEF AiInv
  <2> QED BY <1>1, <1>2, <1>3, <2>2, <2>4, CallingKeeps DEF Calling
<1> QED BY <1>4, <1>5

LEMMA ReturnsStep ==
    ASSUME AiInv, NEW h \in Handlers, NEW screen, NEW outcome \in Outcomes,
           NEW recorded \in BOOLEAN, Returns(h, screen, outcome, recorded)
    PROVE  AiInv'
<1>1. /\ handler[h].pc \in Routes /\ UNCHANGED <<configured, cloud, experiment>>
      /\ DOMAIN handler = Handlers /\ DOMAIN handler[h] = HandlerFields
      /\ RecordCall(h, recorded)
  BY DEF Returns, Loop, AiInv, AiShape
<1>2. /\ OnlyHandler(h) /\ handler'[h].from = handler[h].from
      /\ handler'[h].before = handler[h].before
      /\ handler'[h].own = handler[h].own + (IF recorded THEN 1 ELSE 0)
      /\ handler'[h].pc = IF h \in Demos THEN handler[h].from ELSE "done"
  BY <1>1 DEF Returns, OnlyHandler, HandlerFields
<1>3. CallsInv'
  BY <1>1, <1>2, CallsCounted DEF AiInv
<1>4. AuthorInv' /\ DOMAIN answers' = Handlers
  <2>1. PICK b : b = EndpointAnswer(handler[h].pc, screen, outcome)
    OBVIOUS
  <2>2. PICK a : a = ParsedAnswer(handler[h].route, handler[h].pc, b)
    OBVIOUS
  <2>3. \/ b.writer = "model" /\ b.label = "local_vllm"
        \/ b.writer = "endpoint" /\ b.label = "deterministic_fallback"
    BY <2>1, EndpointHonest
  <2>4. Authored(a)
    BY <2>2, <2>3, ParsedAuthored
  <2>5. answers' = [answers EXCEPT ![h] = a]
    BY <2>1, <2>2 DEF Returns
  <2> QED BY <2>4, <2>5, AnswerKept DEF AiInv
<1> QED BY <1>1, <1>2, <1>3, <1>4, CallingKeeps DEF Calling

LEMMA CallFailsStep ==
    ASSUME AiInv, NEW h \in Handlers, NEW failure \in {"404", "http", "network"},
           NEW recorded \in BOOLEAN, CallFails(h, failure, recorded)
    PROVE  AiInv'
<1>0. PICK next : next = NextRoute(h, handler[h].pc, failure)
  OBVIOUS
<1>1. /\ handler[h].pc \in Routes /\ UNCHANGED <<configured, cloud, experiment>>
      /\ DOMAIN handler = Handlers /\ DOMAIN handler[h] = HandlerFields
      /\ RecordCall(h, recorded)
  BY DEF CallFails, Loop, AiInv, AiShape
<1>2. /\ OnlyHandler(h) /\ handler'[h].from = handler[h].from
      /\ handler'[h].before = handler[h].before
      /\ handler'[h].own = handler[h].own + (IF recorded THEN 1 ELSE 0)
      /\ handler'[h].pc = IF next # None THEN next
                          ELSE IF h \in Demos THEN handler[h].from ELSE "done"
  <2>1. CASE next # None
    <3>1. handler' = [handler EXCEPT ![h] = [handler[h] EXCEPT !.pc = next,
                        !.own = handler[h].own + (IF recorded THEN 1 ELSE 0)]]
      BY <1>0, <2>1 DEF CallFails, Go
    <3> QED BY <1>1, <2>1, <3>1 DEF OnlyHandler, HandlerFields
  <2>2. CASE next = None
    <3>1. handler' = [handler EXCEPT ![h] = [handler[h] EXCEPT
                        !.pc = IF h \in Demos THEN handler[h].from ELSE "done", !.route = None,
                        !.own = handler[h].own + (IF recorded THEN 1 ELSE 0)]]
      BY <1>0, <2>2 DEF CallFails, Go
    <3> QED BY <1>1, <2>2, <3>1 DEF OnlyHandler, HandlerFields
  <2> QED BY <2>1, <2>2
<1>3. CallsInv'
  BY <1>1, <1>2, CallsCounted DEF AiInv
<1>4. next # None => next \in Calling
  BY <1>0 DEF NextRoute, Calling, Routes
<1>5. AuthorInv' /\ DOMAIN answers' = Handlers
  <2>1. CASE next # None
    BY <1>0, <2>1 DEF CallFails, AiInv, AiShape, AuthorInv
  <2>2. CASE next = None
    <3>1. PICK a : a = LocalAnswer(handler[h].route, failure)
      OBVIOUS
    <3>2. Authored(a) /\ answers' = [answers EXCEPT ![h] = a]
      BY <1>0, <2>2, <3>1, LocalAuthored DEF CallFails, None
    <3> QED BY <3>2, AnswerKept DEF AiInv
  <2> QED BY <2>1, <2>2
<1> QED BY <1>1, <1>2, <1>3, <1>4, <1>5, CallingKeeps DEF Calling

LEMMA AskOnceStep ==
    ASSUME AiInv, NEW h \in Requests, NEW route, AskOnce(h, route)
    PROVE  AiInv'
<1>1. /\ h \in Handlers /\ h \notin Demos
      /\ UNCHANGED <<configured, archive, answers, cloud, experiment>>
      /\ DOMAIN handler = Handlers /\ DOMAIN handler[h] = HandlerFields
  BY AiServicesAssumption DEF AskOnce, Loop, AiInv, AiShape, Handlers
<1>2. OnlyHandler(h) /\ handler'[h].before = handler[h].before /\ handler'[h].own = handler[h].own
  BY <1>1 DEF AskOnce, Go, OnlyHandler, HandlerFields
<1>3. CallsInv'
  <2>1. RecordCall(h, FALSE) /\ handler'[h].own = handler[h].own + (IF FALSE THEN 1 ELSE 0)
    BY <1>1, <1>2 DEF RecordCall, AiInv, CallsInv
  <2> QED BY <1>1, <1>2, <2>1, CallsCounted DEF AiInv
<1>4. AuthorInv' /\ DOMAIN answers' = Handlers
  BY <1>1 DEF AiInv, AiShape, AuthorInv
<1> QED BY <1>1, <1>2, <1>3, <1>4, CallingKeeps

(* A step of a demo between its calls answers for that demo alone.         *)
LEMMA DemoMoves ==
    ASSUME AiInv, NEW d \in Demos, OnlyHandler(d), Endpoint, CallsInv',
           DOMAIN cloud' = Demos, DOMAIN experiment' = Demos,
           DOMAIN experiment'[d] = {"status", "calls", "cost"},
           \A e \in Demos : e # d => cloud'[e] = cloud[e] /\ experiment'[e] = experiment[e],
           DemoReports(d)'
    PROVE  AiInv'
<1>1. AiShape' /\ AuthorInv'
  BY DEF AiInv, AiShape, AuthorInv, OnlyHandler, Endpoint
<1>2. ASSUME NEW e \in Demos, e # d PROVE DemoReports(e)'
  BY <1>2 DEF AiInv, DemoInv, DemoReports, OnlyHandler, Handlers
<1> QED BY <1>1, <1>2 DEF AiInv, DemoInv

LEMMA CallsKept ==
    ASSUME AiInv, NEW d \in Demos, OnlyHandler(d), Endpoint,
           handler'[d].before = handler[d].before, handler'[d].own = handler[d].own
    PROVE  CallsInv'
<1>1. d \in Handlers /\ RecordCall(d, FALSE)
      /\ handler'[d].own = handler[d].own + (IF FALSE THEN 1 ELSE 0)
  BY DEF Handlers, RecordCall, Endpoint, AiInv, CallsInv
<1> QED BY <1>1, CallsCounted DEF AiInv

(* Steps that only move the demo on.                                       *)
LEMMA DemoGoesOn ==
    ASSUME AiInv, NEW d \in Demos, OnlyHandler(d), Endpoint, UNCHANGED <<cloud, experiment>>,
           handler'[d].before = handler[d].before, handler'[d].own = handler[d].own,
           handler[d].pc # "done", handler'[d].pc \notin {"save", "done"},
           handler'[d].pc \in Calling => handler'[d].from \in {"reset", "investigate", "tournament"}
    PROVE  AiInv'
<1>1. DemoReports(d)'
  BY DEF AiInv, DemoInv, DemoReports
<1>2. /\ DOMAIN cloud' = Demos /\ DOMAIN experiment' = Demos
      /\ DOMAIN experiment'[d] = {"status", "calls", "cost"}
  BY DEF AiInv, AiShape
<1> QED BY <1>1, <1>2, CallsKept, DemoMoves

LEMMA MovingSteps ==
    ASSUME AiInv, NEW d \in Demos,
           RunWindow(d) \/ Investigate(d) \/ \E i \in BOOLEAN : WindowEnds(d, i)
    PROVE  AiInv'
<1>0. DOMAIN handler = Handlers /\ d \in Handlers /\ DOMAIN handler[d] = HandlerFields
  BY DEF AiInv, AiShape, Handlers
<1>1. Endpoint /\ UNCHANGED <<cloud, experiment>> /\ handler[d].pc # "done"
  BY DEF RunWindow, Investigate, WindowEnds
<1> DEFINE Reaches(pc, from) ==
      /\ pc \in {"ticking", "tournament"} \/ (pc = "ask" /\ from \in {"investigate", "tournament"})
      /\ OnlyHandler(d) /\ handler'[d].before = handler[d].before
      /\ handler'[d].own = handler[d].own
      /\ handler'[d].pc = pc /\ (pc = "ask" => handler'[d].from = from)
<1>2. PICK pc, from : Reaches(pc, from)
  <2>1. CASE RunWindow(d)
    <3>1. Reaches("ticking", None)
      BY <1>0, <2>1 DEF RunWindow, Go, OnlyHandler, HandlerFields
    <3> QED BY <3>1
  <2>2. CASE Investigate(d)
    <3>1. Reaches("ask", "tournament")
      BY <1>0, <2>2 DEF Investigate, Ask, Go, OnlyHandler, HandlerFields
    <3> QED BY <3>1
  <2>3. ASSUME NEW i \in BOOLEAN, WindowEnds(d, i) PROVE \E pc, from : Reaches(pc, from)
    <3>1. CASE i = TRUE
      <4>1. handler' = [handler EXCEPT ![d] = [handler[d] EXCEPT !.pc = "ask",
                          !.route = "explain", !.from = "investigate"]]
        BY <2>3, <3>1 DEF WindowEnds, Ask, Go
      <4>2. Reaches("ask", "investigate")
        BY <1>0, <4>1 DEF OnlyHandler, HandlerFields
      <4> QED BY <4>2
    <3>2. CASE i = FALSE
      <4>1. Reaches("tournament", None)
        BY <1>0, <2>3, <3>2 DEF WindowEnds, Ask, Go, OnlyHandler, HandlerFields
      <4> QED BY <4>1
    <3> QED BY <3>1, <3>2
  <2> QED BY <2>1, <2>2, <2>3
<1> QED BY <1>1, <1>2, DemoGoesOn DEF Calling, Routes

LEMMA StartDemoStep ==
    ASSUME AiInv, NEW d \in Demos, NEW mode, StartDemo(d, mode)
    PROVE  AiInv'
<1>0. DOMAIN handler = Handlers /\ d \in Handlers /\ DOMAIN handler[d] = HandlerFields
  BY DEF AiInv, AiShape, Handlers
<1>1. /\ Endpoint /\ cloud' = cloud /\ handler[d].pc = "rest" /\ archive' = archive
      /\ experiment' = [experiment EXCEPT ![d].status = "created"]
  BY DEF StartDemo, Endpoint
<1>2. PICK noted : noted = {r.call : r \in archive}
  OBVIOUS
<1>3. /\ OnlyHandler(d) /\ handler'[d].pc = "ask" /\ handler'[d].from = "reset"
      /\ handler'[d].own = 0 /\ handler'[d].before = noted
  BY <1>0, <1>2 DEF StartDemo, Go, Resting, OnlyHandler, HandlerFields
<1>4. CallsInv'
  <2>1. noted \subseteq 1..Cardinality(archive) /\ Since(noted)' = {}
    BY <1>1, <1>2 DEF AiInv, CallsInv, Since
  <2>2. Since(handler[d].before)' = {} /\ Cardinality({}) = 0
    BY <1>3, <2>1, FS_EmptySet DEF Since
  <2>3. \A g \in Handlers : g # d => Since(handler[g].before)' = Since(handler[g].before)
    BY <1>1, <1>3 DEF OnlyHandler, Since
  <2>4. \A g \in Handlers :
          /\ handler'[g].before \subseteq 1..Cardinality(archive)
          /\ handler'[g].own \in Nat /\ handler'[g].own <= Cardinality(Since(handler[g].before))'
    <3> SUFFICES ASSUME NEW g \in Handlers
                 PROVE  /\ handler'[g].before \subseteq 1..Cardinality(archive)
                        /\ handler'[g].own \in Nat
                        /\ handler'[g].own <= Cardinality(Since(handler[g].before))'
      OBVIOUS
    <3>1. CASE g = d
      <4>1. Since(handler[g].before)' = {}
        BY <2>2, <3>1 DEF Since
      <4>2. Cardinality(Since(handler[g].before))' = 0
        BY <2>2, <4>1
      <4>3. handler'[g].own = 0 /\ handler'[g].before = noted
        BY <1>3, <3>1
      <4>4. handler'[g].own <= Cardinality(Since(handler[g].before))'
        BY <4>2, <4>3
      <4> QED BY <2>1, <4>3, <4>4
    <3>2. CASE g # d
      <4>1. handler'[g] = handler[g] /\ Since(handler[g].before)' = Since(handler[g].before)
        BY <1>3, <2>3, <3>2 DEF OnlyHandler
      <4>2. Cardinality(Since(handler[g].before))' = Cardinality(Since(handler[g].before))
        BY <4>1
      <4> QED BY <4>1, <4>2 DEF AiInv, CallsInv
    <3> QED BY <3>1, <3>2
  <2> QED BY <1>1, <2>4 DEF AiInv, CallsInv
<1>5. /\ DOMAIN cloud' = Demos /\ DOMAIN experiment' = Demos
      /\ DOMAIN experiment'[d] = {"status", "calls", "cost"}
      /\ experiment'[d].status = "created"
      /\ \A e \in Demos : e # d => cloud'[e] = cloud[e] /\ experiment'[e] = experiment[e]
  BY <1>1 DEF AiInv, AiShape
<1>6. DemoReports(d)'
  BY <1>3, <1>5 DEF DemoReports, Calling, Decided
<1> QED BY <1>1, <1>3, <1>4, <1>5, <1>6, DemoMoves

LEMMA TournamentsStep ==
    ASSUME AiInv, NEW d \in Demos, NEW submit, StartTournaments(d, submit)
    PROVE  AiInv'
<1>0. DOMAIN handler = Handlers /\ d \in Handlers /\ DOMAIN handler[d] = HandlerFields
      /\ DOMAIN cloud = Demos
  BY DEF AiInv, AiShape, Handlers
<1>1. /\ Endpoint /\ experiment' = experiment /\ handler[d].pc = "tournament"
      /\ cloud' = [cloud EXCEPT ![d] = IF submit = "not_configured" THEN None ELSE submit]
  BY DEF StartTournaments
<1>2. /\ OnlyHandler(d) /\ handler'[d].pc = "save" /\ handler'[d].from = cloud'[d]
      /\ handler'[d].own = handler[d].own /\ handler'[d].before = handler[d].before
  BY <1>0 DEF StartTournaments, Go, OnlyHandler, HandlerFields
<1>3. /\ DOMAIN cloud' = Demos /\ DOMAIN experiment' = Demos
      /\ DOMAIN experiment'[d] = {"status", "calls", "cost"}
      /\ \A e \in Demos : e # d => cloud'[e] = cloud[e] /\ experiment'[e] = experiment[e]
  BY <1>0, <1>1 DEF AiInv, AiShape
<1>4. DemoReports(d)'
  BY <1>1, <1>2 DEF AiInv, DemoInv, DemoReports, Calling, Routes
<1> QED BY <1>1, <1>2, <1>3, <1>4, CallsKept, DemoMoves

LEMMA CloudEndsStep ==
    ASSUME AiInv, NEW d \in Demos, CloudTournamentEnds(d)
    PROVE  AiInv'
<1>1. /\ Endpoint /\ UNCHANGED <<handler, experiment>> /\ cloud[d] = "running"
  BY DEF CloudTournamentEnds
<1>2. PICK s : cloud' = [cloud EXCEPT ![d] = s]
  BY DEF CloudTournamentEnds
<1>3. /\ DOMAIN cloud' = Demos /\ DOMAIN experiment' = Demos
      /\ DOMAIN experiment'[d] = {"status", "calls", "cost"}
      /\ \A e \in Demos : e # d => cloud'[e] = cloud[e] /\ experiment'[e] = experiment[e]
  BY <1>1, <1>2 DEF AiInv, AiShape
<1>4. OnlyHandler(d) /\ handler'[d].before = handler[d].before /\ handler'[d].own = handler[d].own
  BY <1>1 DEF OnlyHandler, AiInv, AiShape, Handlers
<1>5. DemoReports(d)'
  BY <1>1 DEF AiInv, DemoInv, DemoReports, Decided
<1> QED BY <1>1, <1>3, <1>4, <1>5, CallsKept, DemoMoves

LEMMA SaveDemoStep ==
    ASSUME AiInv, NEW d \in Demos, SaveDemo(d)
    PROVE  AiInv'
<1>0. DOMAIN handler = Handlers /\ d \in Handlers /\ DOMAIN handler[d] = HandlerFields
  BY DEF AiInv, AiShape, Handlers
<1>1. /\ Endpoint /\ cloud' = cloud /\ handler[d].pc = "save"
      /\ experiment' = [experiment EXCEPT ![d] =
             [status |-> FinalStatus(d), calls |-> Cardinality(Since(handler[d].before)),
              cost |-> handler[d].from \in Decided]]
  BY DEF SaveDemo, Since, Decided
<1>2. /\ OnlyHandler(d) /\ handler'[d].pc = "done" /\ handler'[d].from = handler[d].from
      /\ handler'[d].own = handler[d].own /\ handler'[d].before = handler[d].before
      /\ handler'[d].mode = handler[d].mode
  BY <1>0 DEF SaveDemo, Go, OnlyHandler, HandlerFields
<1>3. /\ DOMAIN cloud' = Demos /\ DOMAIN experiment' = Demos
      /\ DOMAIN experiment'[d] = {"status", "calls", "cost"}
      /\ experiment'[d].status = FinalStatus(d) /\ experiment'[d].cost = (handler[d].from \in Decided)
      /\ experiment'[d].calls = Cardinality(Since(handler[d].before))
      /\ \A e \in Demos : e # d => cloud'[e] = cloud[e] /\ experiment'[e] = experiment[e]
  BY <1>1 DEF AiInv, AiShape
<1>4. experiment'[d].calls >= handler'[d].own
  <2>1. /\ handler[d].own \in Nat /\ handler[d].own <= Cardinality(Since(handler[d].before))
        /\ Since(handler[d].before) \in SUBSET archive /\ IsFiniteSet(archive)
    BY <1>0 DEF AiInv, CallsInv, Since
  <2>2. Cardinality(Since(handler[d].before)) \in Nat
    BY <2>1, FS_Subset, FS_CardinalityType
  <2> QED BY <1>2, <1>3, <2>1, <2>2
<1>5. handler[d].mode = "nebius" /\ FinalStatus(d) \in Decided =>
        handler[d].from \in Decided /\ FinalStatus(d) = handler[d].from
  <2> SUFFICES ASSUME handler[d].mode = "nebius"
               PROVE  FinalStatus(d) \in Decided =>
                        handler[d].from \in Decided /\ FinalStatus(d) = handler[d].from
    OBVIOUS
  <2>1. CASE handler[d].from = "failed"
    <3>1. DemoMode(d) = "error"
      BY <2>1 DEF DemoMode, None
    <3> QED BY <2>1, <3>1 DEF FinalStatus, Decided
  <2>2. CASE handler[d].from # "failed"
    <3>1. DemoMode(d) # "error"
      BY <2>2 DEF DemoMode
    <3> QED BY <3>1, <2>2 DEF FinalStatus, CloudPending, Decided
  <2> QED BY <2>1, <2>2
<1>6. handler[d].from \in Decided => cloud[d] = handler[d].from
  BY <1>1 DEF AiInv, DemoInv, DemoReports
<1>7. DemoReports(d)'
  BY <1>1, <1>2, <1>3, <1>4, <1>5, <1>6 DEF DemoReports, Calling, Routes
<1> QED BY <1>1, <1>2, <1>3, <1>7, CallsKept, DemoMoves

LEMMA FinalizeStep ==
    ASSUME AiInv, NEW d \in Demos, Finalize(d)
    PROVE  AiInv'
<1>1. /\ Endpoint /\ UNCHANGED <<handler, cloud>> /\ handler[d].pc = "done"
      /\ experiment' = [experiment EXCEPT ![d].status = cloud[d], ![d].cost = TRUE]
  BY DEF Finalize
<1>2. OnlyHandler(d) /\ handler'[d].before = handler[d].before /\ handler'[d].own = handler[d].own
  BY <1>1 DEF OnlyHandler, AiInv, AiShape, Handlers
<1>3. /\ DOMAIN cloud' = Demos /\ DOMAIN experiment' = Demos
      /\ DOMAIN experiment'[d] = {"status", "calls", "cost"}
      /\ experiment'[d].status = cloud[d] /\ experiment'[d].cost = TRUE
      /\ experiment'[d].calls = experiment[d].calls
      /\ \A e \in Demos : e # d => cloud'[e] = cloud[e] /\ experiment'[e] = experiment[e]
  BY <1>1 DEF AiInv, AiShape
<1>4. DemoReports(d)'
  BY <1>1, <1>3 DEF AiInv, DemoInv, DemoReports, Calling, Routes
<1> QED BY <1>1, <1>2, <1>3, <1>4, CallsKept, DemoMoves

LEMMA AiInitially == AiInit => AiInv
<1> SUFFICES ASSUME AiInit PROVE AiInv
  OBVIOUS
<1>1. AiShape
  BY DEF AiInit, AiShape, Resting, HandlerFields, Routes
<1>2. AuthorInv
  BY DEF AiInit, AuthorInv, Authored, NoAnswer, None
<1>3. CallsInv
  <2>1. \A h \in Handlers : handler[h].own = 0 /\ handler[h].before = {} /\ Since(handler[h].before) = {}
    BY DEF AiInit, Resting, Since
  <2>2. archive = {} /\ IsFiniteSet({}) /\ Cardinality({}) = 0
    BY FS_EmptySet DEF AiInit
  <2> QED BY <2>1, <2>2 DEF CallsInv
<1>4. DemoInv
  BY DEF AiInit, DemoInv, DemoReports, Resting, Handlers, Calling, Routes, Decided, None
<1> QED BY <1>1, <1>2, <1>3, <1>4 DEF AiInv

LEMMA AiSteps == AiInv /\ [AiNext]_aiVars => AiInv'
<1> SUFFICES ASSUME AiInv, [AiNext]_aiVars PROVE AiInv'
  OBVIOUS
<1>1. CASE UNCHANGED aiVars
  BY <1>1 DEF aiVars, AiInv, AiShape, AuthorInv, CallsInv, DemoInv, DemoReports, Since
<1>2. ASSUME NEW h \in Handlers,
             \/ Send(h)
             \/ \E b \in BOOLEAN : \/ \E s \in Screening, o \in Outcomes : Returns(h, s, o, b)
                                   \/ \E f \in {"404", "http", "network"} : CallFails(h, f, b)
      PROVE  AiInv'
  BY <1>2, SendStep, ReturnsStep, CallFailsStep
<1>3. ASSUME NEW h \in Requests, NEW r \in Routes, AskOnce(h, r) PROVE AiInv'
  BY <1>3, AskOnceStep
<1>4. ASSUME NEW d \in Demos,
             \/ \E m \in {"local", "nebius"} : StartDemo(d, m)
             \/ RunWindow(d) \/ Investigate(d) \/ CloudTournamentEnds(d) \/ SaveDemo(d) \/ Finalize(d)
             \/ \E i \in BOOLEAN : WindowEnds(d, i)
             \/ \E s \in {"running", "completed", "failed", "not_configured"} : StartTournaments(d, s)
      PROVE  AiInv'
  BY <1>4, StartDemoStep, MovingSteps, CloudEndsStep, SaveDemoStep, FinalizeStep, TournamentsStep
<1> QED BY <1>1, <1>2, <1>3, <1>4 DEF AiNext

(* The inductive invariant of the AI services.                             *)
THEOREM AiInvariant == AiSpec => []AiInv
  BY AiInitially, AiSteps, PTL DEF AiSpec

LEMMA HonestyFollows == AiInv => ServicesAreHonest
  BY DEF AiInv, AuthorInv, Authored, DemoInv, DemoReports, Decided, ServicesAreHonest,
         AnswerNamesItsAuthor, UsageCountsOwnCalls, DemoStatusIsHonest

(* For any number of requests and demos: deterministic code is never       *)
(* presented as the model, a demo counts all of its own calls, and it is   *)
(* completed or failed only as its own cloud tournament is.                *)
THEOREM ServicesHonest == AiSpec => []ServicesAreHonest
  BY AiInvariant, HonestyFollows, PTL

--------------------------------------------------------------------------------
(***************************************************************************)
(* The governed detector, from feature shards to a verified release.       *)
(***************************************************************************)
Contents == [shape : Shapes, version : Nat]
Disks == [Domains -> Contents]

\* No shard returns to a version it once had.
Later(S, T) == \A d \in Domains : S[d] = T[d] \/ S[d].version < T[d].version

\* What was on disk as d when it was looked at, and is not known to be gone.
Seen(c, d, S) ==
    /\ c \in Contents /\ c.version <= S[d].version
    /\ c.version = S[d].version => c = S[d]

\* A shard that was read after the version that a manifest names was seen.
Tied(n, c, d, S) ==
    /\ Seen(n, d, S) /\ Seen(c, d, S) /\ n.version <= c.version
    /\ n.version = c.version => n = c

\* The rows a training run or a prediction read, of the folds it was granted.
Learned(a, folds, S) ==
    /\ a.named \in [DomainsOf(folds) -> Contents]
    /\ a.read \in [DomainsOf(folds) -> Contents]
    /\ \A d \in DomainsOf(folds) : Tied(a.named[d], a.read[d], d, S)

\* Published artifacts.
GoodTraining(a, S) == a.model = a.binding.run[1] /\ Learned(a, {"train", "validation"}, S)
GoodCalibration(a) == a.scoredBy = a.binding.run[1]
GoodPrediction(a, S) ==
    /\ a.scoredBy = a.binding.run[1] /\ Learned(a, {"test"}, S)
    /\ \A d \in DomainsOf({"test"}) : ValidShard(d, a.named[d])

Good(a, S) ==
    /\ a.kind = "train" => GoodTraining(a, S)
    /\ a.kind = "calibrate" => GoodCalibration(a)
    /\ a.kind = "predict" => GoodPrediction(a, S)

\* A command that reads shards: what it read so far is tied to what it named.
ReaderKinds == {"train", "calibrate", "predict"}
ReaderFields ==
    {"kind", "slot", "step", "named", "config", "release", "todo", "read", "given"}
FoldsRead(kind) == IF kind = "calibrate" THEN {"validation"} ELSE AccessOf(kind)
Ahead(todo) == {todo[i] : i \in 1..Len(todo)}

Reader(p, S) ==
    /\ DOMAIN p = ReaderFields /\ p.step \in {"verify", "read", "stage"}
    /\ p.named \in [DomainsOf(AccessOf(p.kind)) -> Contents]
    /\ \A d \in DomainsOf(AccessOf(p.kind)) : Seen(p.named[d], d, S) /\ ValidShard(d, p.named[d])
    /\ p.todo \in Seq(Domains) /\ (p.step = "stage" <=> p.todo = <<>>)
    /\ DOMAIN p.read \cup Ahead(p.todo) = DomainsOf(FoldsRead(p.kind))
    /\ p.read \in [DOMAIN p.read -> Contents]
    /\ \A d \in DOMAIN p.read : Tied(p.named[d], p.read[d], d, S)

\* ... and it was given the artifacts that it builds on.
Given(p, S) ==
    /\ p.kind = "calibrate" => p.given.training.kind = "train" /\ Good(p.given.training, S)
    /\ p.kind = "predict" => p.given.training.kind = "train" /\ Good(p.given.training, S)

Builder(p, S) ==
    /\ DOMAIN p = {"kind", "slot", "step", "artifact"}
    /\ DOMAIN p.artifact.manifests = 1..3
    /\ p.artifact.kind = "bundle"
    /\ GoodTraining(p.artifact.manifests[1], S)
    /\ GoodCalibration(p.artifact.manifests[2])
    /\ GoodPrediction(p.artifact.manifests[3], S)

Tracker(p, V) ==
    /\ DOMAIN p = {"kind", "step", "accepted", "snapshot"}
    /\ p.accepted \in V
    /\ p.snapshot = [of |-> p.accepted.prediction, text |-> "verified"]

Doing(p, S, V) ==
    /\ p.kind \in ReaderKinds => Reader(p, S) /\ Given(p, S)
    /\ p.kind = "bundle" => Builder(p, S)
    /\ p.kind = "track" => Tracker(p, V)

\* What was accepted is one lineage.
Lineage(a) ==
    /\ a.training.read = a.training.named
    /\ a.prediction.read = a.prediction.named
    /\ {a.calibration.scoredBy, a.prediction.scoredBy} = {a.training.model}
    /\ a.prediction.threshold = a.calibration.points[a.prediction.mode]
    /\ DOMAIN a.training.named \cap DOMAIN a.prediction.named = {}
    /\ \A d \in DOMAIN a.prediction.named : ValidShard(d, a.prediction.named[d])

RunFields == {"kind", "by", "of", "metrics", "status", "uploaded"}
Shown(run, V) ==
    IF run.kind = "development"
    THEN run.calibration.scoredBy = run.training.model
    ELSE /\ DOMAIN run = RunFields /\ run.of \in V
         /\ run.metrics = [of |-> run.of.prediction, text |-> "verified"]
         /\ run.status = "FINISHED" => run.uploaded = run.metrics

DetInv ==
    /\ exports \in Nat /\ shards \in Disks /\ \A d \in Domains : shards[d].version <= exports
    /\ DOMAIN dirs = Outputs /\ \A o \in Outputs : Good(dirs[o], shards)
    /\ DOMAIN proc = Commands /\ \A w \in Commands : Doing(proc[w], shards, verified)
    /\ report = [of |-> report.of, text |-> report.text]
    /\ \A a \in verified : Lineage(a)
    /\ \A run \in tracked : Shown(run, verified)
--------------------------------------------------------------------------------
(***************************************************************************)
(* What is said of a shard stays true while shards are written again.      *)
(***************************************************************************)
LEMMA DomainsOfIn == ASSUME NEW folds PROVE DomainsOf(folds) \subseteq Domains
  BY DEF DomainsOf

LEMMA SeenLater ==
    ASSUME NEW S \in Disks, NEW T \in Disks, Later(S, T), NEW d \in Domains, NEW c, Seen(c, d, S)
    PROVE  Seen(c, d, T)
<1>1. S[d] \in Contents /\ T[d] \in Contents /\ c \in Contents
  BY DEF Disks, Seen
<1>2. S[d].version \in Nat /\ T[d].version \in Nat /\ c.version \in Nat
  BY <1>1 DEF Contents
<1>3. S[d] = T[d] \/ S[d].version < T[d].version
  BY DEF Later
<1> QED BY <1>1, <1>2, <1>3 DEF Seen

LEMMA TiedLater ==
    ASSUME NEW S \in Disks, NEW T \in Disks, Later(S, T), NEW d \in Domains, NEW n, NEW c,
           Tied(n, c, d, S)
    PROVE  Tied(n, c, d, T)
<1>1. Seen(n, d, T) /\ Seen(c, d, T)
  BY SeenLater DEF Tied
<1> QED BY <1>1 DEF Tied

LEMMA LearnedLater ==
    ASSUME NEW S \in Disks, NEW T \in Disks, Later(S, T), NEW a, NEW folds, Learned(a, folds, S)
    PROVE  Learned(a, folds, T)
<1>1. ASSUME NEW d \in DomainsOf(folds) PROVE Tied(a.named[d], a.read[d], d, T)
  BY TiedLater, DomainsOfIn DEF Learned
<1> QED BY <1>1 DEF Learned

LEMMA GoodLater ==
    ASSUME NEW S \in Disks, NEW T \in Disks, Later(S, T), NEW a, Good(a, S)
    PROVE  Good(a, T)
  BY LearnedLater DEF Good, GoodTraining, GoodPrediction

LEMMA ReaderLater ==
    ASSUME NEW S \in Disks, NEW T \in Disks, Later(S, T), NEW p, Reader(p, S)
    PROVE  Reader(p, T)
<1>1. DOMAIN p.read \subseteq Domains
  BY DomainsOfIn DEF Reader
<1>2. ASSUME NEW d \in DOMAIN p.read PROVE Tied(p.named[d], p.read[d], d, T)
  BY <1>1, TiedLater DEF Reader
<1>3. ASSUME NEW d \in DomainsOf(AccessOf(p.kind)) PROVE Seen(p.named[d], d, T)
  BY SeenLater, DomainsOfIn DEF Reader
<1> QED BY <1>2, <1>3 DEF Reader

LEMMA DoingLater ==
    ASSUME NEW S \in Disks, NEW T \in Disks, Later(S, T), NEW p, NEW V, NEW W, V \subseteq W,
           Doing(p, S, V)
    PROVE  Doing(p, T, W)
<1>1. p.kind \in ReaderKinds => Reader(p, T)
  BY ReaderLater DEF Doing
<1>2. p.kind \in ReaderKinds => Given(p, T)
  BY GoodLater DEF Doing, Given
<1>3. p.kind = "bundle" => Builder(p, T)
  BY LearnedLater DEF Doing, Builder, GoodTraining, GoodPrediction
<1>4. p.kind = "track" => Tracker(p, W)
  BY DEF Doing, Tracker
<1> QED BY <1>1, <1>2, <1>3, <1>4 DEF Doing

LEMMA ShownLater ==
    ASSUME NEW V, NEW W, V \subseteq W, NEW run, Shown(run, V)
    PROVE  Shown(run, W)
  BY DEF Shown

\* What a step leaves behind is what was there or is as it has to be.
LEMMA StepKeeps ==
    ASSUME DetInv, shards' \in Disks, exports' \in Nat, Later(shards, shards'),
           \A d \in Domains : shards'[d].version <= exports',
           DOMAIN dirs' = Outputs, \A o \in Outputs : dirs'[o] = dirs[o] \/ Good(dirs'[o], shards'),
           DOMAIN proc' = Commands,
           \A v \in Commands : proc'[v] = proc[v] \/ Doing(proc'[v], shards', verified'),
           report' = [of |-> report'.of, text |-> report'.text],
           verified \subseteq verified', \A a \in verified' : a \in verified \/ Lineage(a),
           \A run \in tracked' : run \in tracked \/ Shown(run, verified')
    PROVE  DetInv'
<1>1. ASSUME NEW o \in Outputs PROVE Good(dirs'[o], shards')
  BY GoodLater DEF DetInv
<1>2. ASSUME NEW v \in Commands PROVE Doing(proc'[v], shards', verified')
  <2>1. proc'[v] = proc[v] => Doing(proc'[v], shards', verified')
    BY DoingLater DEF DetInv
  <2> QED BY <2>1
<1>3. ASSUME NEW run \in tracked' PROVE Shown(run, verified')
  BY ShownLater DEF DetInv
<1> QED BY <1>1, <1>2, <1>3 DEF DetInv

\* A command changes no shard.
LEMMA CommandKeeps ==
    ASSUME DetInv, UNCHANGED world, DOMAIN proc' = Commands,
           \A v \in Commands : proc'[v] = proc[v] \/ Doing(proc'[v], shards, verified'),
           DOMAIN dirs' = Outputs, \A o \in Outputs : dirs'[o] = dirs[o] \/ Good(dirs'[o], shards),
           verified \subseteq verified', \A a \in verified' : a \in verified \/ Lineage(a),
           \A run \in tracked' : run \in tracked \/ Shown(run, verified')
    PROVE  DetInv'
<1>1. shards' = shards /\ exports' = exports /\ report' = report
  BY DEF world
<1>2. Later(shards, shards')
  BY <1>1 DEF Later
<1>3. \A v \in Commands : proc'[v] = proc[v] \/ Doing(proc'[v], shards', verified')
  BY <1>1
<1>4. /\ shards' \in Disks /\ exports' \in Nat /\ \A d \in Domains : shards'[d].version <= exports'
      /\ report' = [of |-> report'.of, text |-> report'.text]
      /\ \A o \in Outputs : dirs'[o] = dirs[o] \/ Good(dirs'[o], shards')
  BY <1>1 DEF DetInv
<1> QED BY <1>2, <1>3, <1>4, StepKeeps

LEMMA IdleDoes == ASSUME NEW S, NEW V PROVE Doing(Idle, S, V)
  BY DEF Doing, Idle, ReaderKinds

\* A command moves on.
LEMMA ProcessMoves ==
    ASSUME DetInv, NEW w \in Commands, NEW q, proc' = [proc EXCEPT ![w] = q],
           Doing(q, shards, verified')
    PROVE  /\ DOMAIN proc' = Commands
           /\ \A v \in Commands : proc'[v] = proc[v] \/ Doing(proc'[v], shards, verified')
  BY DEF DetInv

LEMMA MoveKeeps ==
    ASSUME DetInv, NEW w \in Commands, UNCHANGED <<world, dirs, tracked, verified>>,
           NEW q, proc' = [proc EXCEPT ![w] = q], Doing(q, shards, verified)
    PROVE  DetInv'
<1>1. /\ DOMAIN dirs' = Outputs /\ \A o \in Outputs : dirs'[o] = dirs[o]
      /\ Doing(q, shards, verified') /\ verified \subseteq verified'
      /\ \A a \in verified' : a \in verified
      /\ \A run \in tracked' : run \in tracked
  BY DEF DetInv
<1>2. /\ DOMAIN proc' = Commands
      /\ \A v \in Commands : proc'[v] = proc[v] \/ Doing(proc'[v], shards, verified')
  BY <1>1, ProcessMoves
<1> QED BY <1>1, <1>2, CommandKeeps

(***************************************************************************)
(* The world of the commands: exports, releases and reports.               *)
(***************************************************************************)
LEMMA ExportStep ==
    ASSUME DetInv, NEW d \in Domains, NEW shape \in Shapes, Export(d, shape)
    PROVE  DetInv'
<1>1. /\ exports \in Nat /\ shards \in Disks /\ \A e \in Domains : shards[e].version <= exports
      /\ DOMAIN dirs = Outputs /\ DOMAIN proc = Commands
      /\ report = [of |-> report.of, text |-> report.text]
  BY DEF DetInv
<1>2. PICK c : c = [shape |-> shape, version |-> exports + 1]
  OBVIOUS
<1>3. c \in Contents /\ c.version = exports + 1
  BY <1>1, <1>2 DEF Contents
<1>4. /\ exports' = exports + 1 /\ shards' = [shards EXCEPT ![d] = c]
      /\ UNCHANGED <<dirs, proc, report, tracked, verified>>
  BY <1>2 DEF Export
<1>5. shards' \in Disks /\ shards'[d] = c /\ \A e \in Domains : e # d => shards'[e] = shards[e]
  BY <1>1, <1>3, <1>4 DEF Disks
<1>6. \A e \in Domains : shards[e].version \in Nat
  BY <1>1 DEF Disks, Contents
<1>7. /\ \A e \in Domains : shards'[e].version <= exports'
      /\ Later(shards, shards')
  BY <1>1, <1>3, <1>4, <1>5, <1>6 DEF Later
<1> QED BY <1>1, <1>4, <1>5, <1>7, StepKeeps

LEMMA WriteStep ==
    ASSUME DetInv,
           \/ \E listed, config : WriteRelease(listed, config)
           \/ \E p, text : WriteReport(p, text)
           \/ UNCHANGED detVars
    PROVE  DetInv'
<1>1. UNCHANGED <<shards, exports, dirs, proc, tracked, verified>>
  BY DEF WriteRelease, WriteReport, detVars
<1>2. report' = [of |-> report'.of, text |-> report'.text]
  BY DEF WriteRelease, WriteReport, detVars, DetInv
<1>3. /\ shards' \in Disks /\ exports' \in Nat /\ \A d \in Domains : shards'[d].version <= exports'
      /\ DOMAIN dirs' = Outputs /\ DOMAIN proc' = Commands /\ Later(shards, shards')
  BY <1>1 DEF DetInv, Later
<1> QED BY <1>1, <1>2, <1>3, StepKeeps

(***************************************************************************)
(* Commands that read shards.                                              *)
(***************************************************************************)
LEMMA ReadsAreGranted ==
    ASSUME NEW kind \in ReaderKinds
    PROVE  DomainsOf(FoldsRead(kind)) \subseteq DomainsOf(AccessOf(kind))
  BY DEF ReaderKinds, DomainsOf, FoldsRead, AccessOf

LEMMA FourInARow == ASSUME NEW a, NEW b, NEW c, NEW d PROVE <<a, b>> \o <<c, d>> = <<a, b, c, d>>
<1> DEFINE S == {a, b, c, d}
           s == <<a, b>>
           t == <<c, d>>
           u == <<a, b, c, d>>
<1>1. s \in Seq(S) /\ t \in Seq(S) /\ u \in Seq(S) /\ Len(s) = 2 /\ Len(t) = 2 /\ Len(u) = 4
  OBVIOUS
<1>2. /\ s \o t \in Seq(S) /\ Len(s \o t) = 4
      /\ \A i \in 1..4 : (s \o t)[i] = IF i <= 2 THEN s[i] ELSE t[i - 2]
  BY <1>1, ConcatProperties
<1>3. \A i \in 1..4 : (s \o t)[i] = u[i]
  BY <1>2
<1> QED BY <1>1, <1>2, <1>3, SeqEqual

\* Every shard of the folds a command reads is on its list.
LEMMA ReadsCover ==
    ASSUME NEW kind \in ReaderKinds
    PROVE  /\ ReadsOf(kind) \in Seq(Domains) /\ ReadsOf(kind) # <<>>
           /\ Ahead(ReadsOf(kind)) = DomainsOf(FoldsRead(kind))
<1>1. CASE kind = "train"
  <2> DEFINE s == <<<<"train", "campaign">>, <<"train", "control">>,
                    <<"validation", "campaign">>, <<"validation", "control">>>>
  <2>1. ReadsOf(kind) = s
    BY <1>1, FourInARow DEF ReadsOf
  <2>2. s \in Seq(Domains) /\ s # <<>> /\ Len(s) = 4
    BY DEF Domains, Folds
  <2>3. Ahead(s) = {s[1], s[2], s[3], s[4]}
    BY <2>2 DEF Ahead
  <2>4. DomainsOf(FoldsRead(kind)) = {s[1], s[2], s[3], s[4]}
    BY <1>1 DEF DomainsOf, Domains, Folds, FoldsRead, AccessOf
  <2> QED BY <2>1, <2>2, <2>3, <2>4
<1>2. ASSUME NEW fold \in Folds, FoldsRead(kind) = {fold},
             ReadsOf(kind) = <<<<fold, "campaign">>, <<fold, "control">>>>
      PROVE  /\ ReadsOf(kind) \in Seq(Domains) /\ ReadsOf(kind) # <<>>
             /\ Ahead(ReadsOf(kind)) = DomainsOf(FoldsRead(kind))
  <2> DEFINE s == <<<<fold, "campaign">>, <<fold, "control">>>>
  <2>2. s \in Seq(Domains) /\ s # <<>> /\ Len(s) = 2
    BY <1>2 DEF Domains
  <2>3. Ahead(s) = {s[1], s[2]}
    BY <2>2 DEF Ahead
  <2>4. DomainsOf(FoldsRead(kind)) = {s[1], s[2]}
    BY <1>2 DEF DomainsOf, Domains
  <2> QED BY <1>2, <2>2, <2>3, <2>4
<1>3. CASE kind = "calibrate"
  BY <1>2, <1>3 DEF ReadsOf, FoldsRead, Folds
<1>4. CASE kind = "predict"
  BY <1>2, <1>4 DEF ReadsOf, FoldsRead, AccessOf, Folds
<1> QED BY <1>1, <1>3, <1>4 DEF ReaderKinds

\* What is on disk now is seen.
LEMMA OnDiskIsSeen == ASSUME NEW S \in Disks, NEW d \in Domains PROVE Seen(S[d], d, S)
  BY DEF Seen, Disks, Contents

LEMMA BeginCommandStep ==
    ASSUME DetInv, NEW w \in Commands, NEW kind \in ReaderKinds, NEW slot, NEW r, NEW given,
           Begin(w, kind, slot, r, given),
           kind # "train" => given.training.kind = "train" /\ Good(given.training, shards)
    PROVE  DetInv'
<1> DEFINE D == DomainsOf(AccessOf(kind))
<1>1. shards \in Disks /\ D \subseteq Domains
  BY DomainsOfIn DEF DetInv
<1>2. PICK named : named = Restricted(r.pins, D)
  OBVIOUS
<1>3. \A d \in D : r.pins[d] = shards[d] /\ ValidShard(d, shards[d])
  BY DEF Begin, Loadable, ShardAsPinned
<1>4. /\ named \in [D -> Contents]
      /\ \A d \in D : Seen(named[d], d, shards) /\ ValidShard(d, named[d])
  BY <1>1, <1>2, <1>3, OnDiskIsSeen DEF Restricted, Seen
<1>5. PICK q : q = [kind |-> kind, slot |-> slot, step |-> "verify", named |-> named,
                    config |-> r.config, release |-> r, todo |-> ReadsOf(kind),
                    read |-> <<>>, given |-> given]
  OBVIOUS
<1>6. proc' = [proc EXCEPT ![w] = q] /\ UNCHANGED <<world, dirs, tracked, verified>>
  BY <1>2, <1>5 DEF Begin
<1>7. /\ DOMAIN q = ReaderFields /\ q.kind = kind /\ q.step = "verify" /\ q.named = named
      /\ q.todo = ReadsOf(kind) /\ DOMAIN q.read = {} /\ q.given = given
      /\ q.read \in [DOMAIN q.read -> Contents]
  BY <1>5 DEF ReaderFields
<1>8. Reader(q, shards)
  BY <1>4, <1>7, ReadsCover DEF Reader
<1>9. Doing(q, shards, verified)
  BY <1>7, <1>8 DEF Doing, Given, ReaderKinds
<1> QED BY <1>6, <1>9, MoveKeeps

LEMMA VerifyShardStep ==
    ASSUME DetInv, NEW w \in Commands, VerifyShard(w)
    PROVE  DetInv'
<1>1. /\ proc[w].kind \in ReaderKinds /\ proc[w].step = "verify"
      /\ UNCHANGED <<world, dirs, tracked, verified>>
  BY DEF VerifyShard, ReaderKinds
<1>2. Reader(proc[w], shards) /\ Given(proc[w], shards)
  BY <1>1 DEF DetInv, Doing
<1>3. PICK p : p = proc[w]
  OBVIOUS
<1>4. PICK q : q = [p EXCEPT !.step = "read"]
  OBVIOUS
<1>5. proc' = [proc EXCEPT ![w] = q] \/ proc' = [proc EXCEPT ![w] = Idle]
  BY <1>3, <1>4 DEF VerifyShard, Fail
<1>6. DOMAIN p = ReaderFields
  BY <1>2, <1>3 DEF Reader
<1>7. /\ DOMAIN q = ReaderFields /\ q.step = "read" /\ q.kind = p.kind /\ q.named = p.named
      /\ q.todo = p.todo /\ q.read = p.read /\ q.given = p.given
  BY <1>4, <1>6 DEF ReaderFields
<1>8. Reader(q, shards)
  BY <1>1, <1>2, <1>3, <1>7 DEF Reader
<1>9. Doing(q, shards, verified)
  BY <1>1, <1>2, <1>3, <1>7, <1>8 DEF Doing, Given, ReaderKinds
<1> QED BY <1>1, <1>5, <1>9, IdleDoes, MoveKeeps

LEMMA HeadOfAhead ==
    ASSUME NEW todo \in Seq(Domains), todo # <<>>
    PROVE  /\ Head(todo) \in Domains /\ Tail(todo) \in Seq(Domains)
           /\ Ahead(todo) = {Head(todo)} \cup Ahead(Tail(todo))
<1>1. /\ Head(todo) = todo[1] /\ Len(todo) \in Nat \ {0} /\ Head(todo) \in Domains
      /\ Tail(todo) \in Seq(Domains) /\ Len(Tail(todo)) = Len(todo) - 1
      /\ \A i \in 1..Len(Tail(todo)) : Tail(todo)[i] = todo[i + 1]
  BY HeadTailProperties
<1>2. ASSUME NEW e \in Ahead(todo) PROVE e \in {Head(todo)} \cup Ahead(Tail(todo))
  <2>1. PICK i \in 1..Len(todo) : e = todo[i]
    BY <1>2 DEF Ahead
  <2>2. ASSUME i # 1 PROVE i - 1 \in 1..Len(Tail(todo)) /\ Tail(todo)[i - 1] = todo[i]
    <3>1. i - 1 \in 1..Len(Tail(todo)) /\ (i - 1) + 1 = i
      BY <1>1, <2>2
    <3>2. Tail(todo)[i - 1] = todo[(i - 1) + 1]
      BY <1>1, <3>1
    <3> QED BY <3>1, <3>2
  <2> QED BY <1>1, <2>1, <2>2 DEF Ahead
<1>3. ASSUME NEW e \in {Head(todo)} \cup Ahead(Tail(todo)) PROVE e \in Ahead(todo)
  <2>1. CASE e = Head(todo)
    <3>1. e = todo[1] /\ 1 \in 1..Len(todo)
      BY <1>1, <2>1
    <3> QED BY <3>1 DEF Ahead
  <2>2. CASE e \in Ahead(Tail(todo))
    <3>1. PICK i \in 1..Len(Tail(todo)) : e = Tail(todo)[i]
      BY <2>2 DEF Ahead
    <3>2. e = todo[i + 1] /\ i + 1 \in 1..Len(todo)
      BY <1>1, <3>1
    <3> QED BY <3>2 DEF Ahead
  <2> QED BY <1>3, <2>1, <2>2
<1> QED BY <1>1, <1>2, <1>3

(* A shard that is read now is not older than the one the command named.   *)
LEMMA ReadShardStep ==
    ASSUME DetInv, NEW w \in Commands, ReadShard(w)
    PROVE  DetInv'
<1>1. /\ proc[w].kind \in ReaderKinds /\ proc[w].step = "read"
      /\ UNCHANGED <<world, dirs, tracked, verified>>
  BY DEF ReadShard, ReaderKinds
<1>2. PICK p : p = proc[w]
  OBVIOUS
<1>3. PICK d : d = Head(p.todo)
  OBVIOUS
<1>4. PICK rest : rest = Tail(p.todo)
  OBVIOUS
<1>5. PICK c : c = shards[d]
  OBVIOUS
<1>6. PICK read : read = Extended(p.read, d, c)
  OBVIOUS
<1>7. PICK q : q = [p EXCEPT !.read = read, !.todo = rest,
                             !.step = IF rest = <<>> THEN "stage" ELSE "verify"]
  OBVIOUS
<1>8. proc' = [proc EXCEPT ![w] = q]
  BY <1>2, <1>3, <1>4, <1>5, <1>6, <1>7 DEF ReadShard
<1>9. Reader(p, shards) /\ Given(p, shards) /\ shards \in Disks
  BY <1>1, <1>2 DEF DetInv, Doing
<1>10. /\ DOMAIN p = ReaderFields /\ p.todo \in Seq(Domains) /\ p.todo # <<>>
       /\ p.read \in [DOMAIN p.read -> Contents]
       /\ DOMAIN p.read \cup Ahead(p.todo) = DomainsOf(FoldsRead(p.kind))
  BY <1>1, <1>2, <1>9 DEF Reader
<1>11. /\ d \in Domains /\ rest \in Seq(Domains) /\ Ahead(p.todo) = {d} \cup Ahead(rest)
  BY <1>3, <1>4, <1>10, HeadOfAhead
<1>12. d \in DomainsOf(AccessOf(p.kind))
  BY <1>1, <1>2, <1>10, <1>11, ReadsAreGranted
<1>13. Seen(p.named[d], d, shards) /\ Seen(c, d, shards)
  BY <1>5, <1>9, <1>11, <1>12, OnDiskIsSeen DEF Reader
<1>14. Tied(p.named[d], c, d, shards)
  BY <1>5, <1>13 DEF Tied, Seen
<1>15. /\ DOMAIN read = DOMAIN p.read \cup {d} /\ read[d] = c
       /\ \A e \in DOMAIN p.read : e # d => read[e] = p.read[e]
       /\ read \in [DOMAIN read -> Contents]
  BY <1>6, <1>10, <1>13 DEF Extended, Seen
<1>16. \A e \in DOMAIN read : Tied(p.named[e], read[e], e, shards)
  BY <1>9, <1>14, <1>15 DEF Reader
<1>17. /\ DOMAIN q = ReaderFields /\ q.kind = p.kind /\ q.named = p.named /\ q.todo = rest
       /\ q.read = read /\ q.given = p.given
       /\ q.step = IF rest = <<>> THEN "stage" ELSE "verify"
  BY <1>7, <1>10 DEF ReaderFields
<1>18. DOMAIN q.read \cup Ahead(q.todo) = DomainsOf(FoldsRead(q.kind))
  BY <1>10, <1>11, <1>15, <1>17
<1>19. Reader(q, shards)
  BY <1>9, <1>11, <1>15, <1>16, <1>17, <1>18 DEF Reader
<1>20. Doing(q, shards, verified)
  BY <1>1, <1>2, <1>9, <1>17, <1>19 DEF Doing, Given, ReaderKinds
<1> QED BY <1>1, <1>8, <1>20, MoveKeeps

\* What a command has read when it stages its output.
LEMMA StagedIsLearned ==
    ASSUME NEW p, NEW S, Reader(p, S), p.step = "stage", p.kind \in {"train", "predict"}
    PROVE  Learned(p, AccessOf(p.kind), S)
<1>1. p.todo = <<>> /\ Ahead(p.todo) = {}
  BY DEF Reader, Ahead
<1>2. DOMAIN p.read = DomainsOf(AccessOf(p.kind))
  BY <1>1 DEF Reader, FoldsRead
<1> QED BY <1>2 DEF Reader, Learned

LEMMA ArtifactIsGood ==
    ASSUME NEW p, NEW S, p.kind \in ReaderKinds, Reader(p, S), Given(p, S), p.step = "stage"
    PROVE  Good(ArtifactOf(p), S)
<1>1. CASE p.kind = "train"
  <2>1. PICK a : a = TrainingOf(p)
    OBVIOUS
  <2>2. /\ a.kind = "train" /\ a.model = ModelOf(p) /\ a.binding.run[1] = ModelOf(p)
        /\ a.named = p.named /\ a.read = p.read
    BY <2>1 DEF TrainingOf, BindingOf
  <2>3. Learned(a, {"train", "validation"}, S)
    BY <1>1, <2>2, StagedIsLearned DEF Learned, AccessOf
  <2>4. ArtifactOf(p) = a
    BY <1>1, <2>1 DEF ArtifactOf
  <2> QED BY <2>2, <2>3, <2>4 DEF Good, GoodTraining
<1>2. CASE p.kind = "calibrate"
  <2>1. PICK a : a = CalibrationOf(p)
    OBVIOUS
  <2>2. /\ a.kind = "calibrate" /\ a.binding = p.given.training.binding
        /\ a.scoredBy = p.given.training.model
    BY <2>1 DEF CalibrationOf
  <2>3. p.given.training.model = p.given.training.binding.run[1]
    BY <1>2 DEF Given, Good, GoodTraining
  <2>4. ArtifactOf(p) = a
    BY <1>2, <2>1 DEF ArtifactOf
  <2> QED BY <2>2, <2>3, <2>4 DEF Good, GoodCalibration
<1>3. CASE p.kind = "predict"
  <2>1. PICK a : a = PredictionOf(p)
    OBVIOUS
  <2>2. /\ a.kind = "predict" /\ a.binding = p.given.training.binding
        /\ a.scoredBy = p.given.training.model /\ a.named = p.named /\ a.read = p.read
    BY <2>1 DEF PredictionOf
  <2>3. p.given.training.model = p.given.training.binding.run[1]
    BY <1>3 DEF Given, Good, GoodTraining
  <2>4. Learned(a, {"test"}, S) /\ \A d \in DomainsOf({"test"}) : ValidShard(d, a.named[d])
    BY <1>3, <2>2, StagedIsLearned DEF Learned, AccessOf, Reader
  <2>5. ArtifactOf(p) = a
    BY <1>3, <2>1 DEF ArtifactOf
  <2> QED BY <2>2, <2>3, <2>4, <2>5 DEF Good, GoodPrediction
<1> QED BY <1>1, <1>2, <1>3 DEF ReaderKinds

LEMMA PublishStep ==
    ASSUME DetInv, NEW w \in Commands, Publish(w)
    PROVE  DetInv'
<1>1. PICK p : p = proc[w]
  OBVIOUS
<1>2. PICK a : a = ArtifactOf(p)
  OBVIOUS
<1>3. /\ p.kind \in ReaderKinds /\ p.step = "stage" /\ proc' = [proc EXCEPT ![w] = Idle]
      /\ dirs' = [dirs EXCEPT ![<<p.kind, p.slot>>] = a] \/ dirs' = dirs
      /\ UNCHANGED world /\ tracked' = tracked /\ verified' = verified
  BY <1>1, <1>2 DEF Publish, ReaderKinds, Fail
<1>4. Good(a, shards)
  <2>1. Reader(p, shards) /\ Given(p, shards)
    BY <1>1, <1>3 DEF DetInv, Doing
  <2> QED BY <1>2, <1>3, <2>1, ArtifactIsGood
<1>5. DOMAIN dirs' = Outputs /\ \A o \in Outputs : dirs'[o] = dirs[o] \/ Good(dirs'[o], shards)
  BY <1>3, <1>4 DEF DetInv
<1>6. /\ DOMAIN proc' = Commands
      /\ \A v \in Commands : proc'[v] = proc[v] \/ Doing(proc'[v], shards, verified')
  BY <1>3, IdleDoes, ProcessMoves
<1> QED BY <1>3, <1>5, <1>6, CommandKeeps

(***************************************************************************)
(* Bundles and their verification.                                         *)
(***************************************************************************)
LEMMA OutputIn == ASSUME NEW kind \in Kinds, NEW slot \in Slots[kind] PROVE <<kind, slot>> \in Outputs
  BY DEF Outputs

LEMMA BeginBundleStep ==
    ASSUME DetInv, NEW w \in Commands, NEW slot \in Slots["bundle"], NEW t \in Slots["train"],
           NEW c \in Slots["calibrate"], NEW p \in Slots["predict"], NEW m, NEW k,
           BeginBundle(w, slot, t, c, p, m, k)
    PROVE  DetInv'
<1>1. PICK training : training = dirs[<<"train", t>>]
  OBVIOUS
<1>2. PICK calibration : calibration = dirs[<<"calibrate", c>>]
  OBVIOUS
<1>3. PICK prediction : prediction = dirs[<<"predict", p>>]
  OBVIOUS
<1>4. /\ training.kind = "train" /\ calibration.kind = "calibrate" /\ prediction.kind = "predict"
      /\ UNCHANGED <<world, dirs, tracked, verified>>
  BY <1>1, <1>2, <1>3 DEF BeginBundle
<1>5. Good(training, shards) /\ Good(calibration, shards) /\ Good(prediction, shards)
  BY <1>1, <1>2, <1>3, OutputIn DEF DetInv, Kinds
<1>6. PICK manifests : manifests = <<training, calibration, prediction>>
  OBVIOUS
<1>7. PICK artifact : artifact =
            [kind |-> "bundle", binding |-> training.binding, model |-> training.model,
             calibration |-> calibration.id, manifests |-> manifests,
             evidence |-> <<dirs[<<"calibrate", m>>], dirs[<<"predict", k>>]>>]
  OBVIOUS
<1>8. PICK q : q = [kind |-> "bundle", slot |-> slot, step |-> "publish", artifact |-> artifact]
  OBVIOUS
<1>9. proc' = [proc EXCEPT ![w] = q]
  BY <1>1, <1>2, <1>3, <1>6, <1>7, <1>8 DEF BeginBundle
<1>10. /\ DOMAIN manifests = 1..3 /\ manifests[1] = training /\ manifests[2] = calibration
       /\ manifests[3] = prediction
  BY <1>6
<1>11. /\ q.kind = "bundle" /\ DOMAIN q = {"kind", "slot", "step", "artifact"}
       /\ q.artifact.kind = "bundle" /\ q.artifact.manifests = manifests
  BY <1>7, <1>8
<1>12. Builder(q, shards)
  BY <1>4, <1>5, <1>10, <1>11 DEF Builder, Good
<1>13. Doing(q, shards, verified)
  BY <1>11, <1>12 DEF Doing, ReaderKinds
<1> QED BY <1>4, <1>9, <1>13, MoveKeeps

LEMMA PublishBundleStep ==
    ASSUME DetInv, NEW w \in Commands, PublishBundle(w)
    PROVE  DetInv'
<1>1. PICK p : p = proc[w]
  OBVIOUS
<1>2. PICK q : q = [p EXCEPT !.step = "check"]
  OBVIOUS
<1>3. /\ p.kind = "bundle"
      /\ \/ dirs' = [dirs EXCEPT ![<<"bundle", p.slot>>] = p.artifact]
         \/ dirs' = dirs
      /\ proc' = [proc EXCEPT ![w] = q] \/ proc' = [proc EXCEPT ![w] = Idle]
      /\ UNCHANGED world /\ tracked' = tracked /\ verified' = verified
  BY <1>1, <1>2 DEF PublishBundle, Work, Fail
<1>4. Builder(p, shards)
  BY <1>1, <1>3 DEF DetInv, Doing
<1>5. /\ DOMAIN q = {"kind", "slot", "step", "artifact"} /\ q.kind = "bundle"
      /\ q.artifact = p.artifact
  BY <1>2, <1>3, <1>4 DEF Builder
<1>6. Doing(q, shards, verified')
  BY <1>4, <1>5 DEF Doing, Builder, ReaderKinds
<1>7. /\ DOMAIN proc' = Commands
      /\ \A v \in Commands : proc'[v] = proc[v] \/ Doing(proc'[v], shards, verified')
  BY <1>3, <1>6, IdleDoes, ProcessMoves
<1>8. Good(p.artifact, shards)
  BY <1>4 DEF Good, Builder
<1>9. DOMAIN dirs' = Outputs /\ \A o \in Outputs : dirs'[o] = dirs[o] \/ Good(dirs'[o], shards)
  BY <1>3, <1>8 DEF DetInv
<1> QED BY <1>3, <1>7, <1>9, CommandKeeps

(* If the named version is on disk now, nothing else was read since.       *)
LEMMA IntactIsExact ==
    ASSUME NEW S \in Disks, NEW folds, NEW a, Learned(a, folds, S),
           \A d \in DOMAIN a.named : S[d] = a.named[d]
    PROVE  a.read = a.named
<1>1. ASSUME NEW d \in DomainsOf(folds) PROVE a.read[d] = a.named[d]
  <2>1. Tied(a.named[d], a.read[d], d, S) /\ S[d] = a.named[d]
    BY DEF Learned
  <2>2. a.read[d].version \in Nat /\ a.named[d].version \in Nat
    BY <2>1 DEF Tied, Seen, Contents
  <2> QED BY <2>1, <2>2 DEF Tied, Seen
<1> QED BY <1>1 DEF Learned

LEMMA AcceptedIsOneLineage ==
    ASSUME NEW t, NEW c, NEW p, NEW b, shards \in Disks,
           GoodTraining(t, shards), GoodCalibration(c), GoodPrediction(p, shards),
           Verifies(t, c, p, b)
    PROVE  Lineage(Accepted(t, c, p, b))
<1>1. t.read = t.named /\ p.read = p.named
  BY IntactIsExact DEF GoodTraining, GoodPrediction, Verifies, ArtifactsIntact
<1>2. c.binding = t.binding /\ p.binding = t.binding /\ p.threshold = c.points[p.mode]
  BY DEF Verifies, Compatible
<1>3. c.scoredBy = t.model /\ p.scoredBy = t.model
  BY <1>2 DEF GoodTraining, GoodCalibration, GoodPrediction
<1>4. /\ DOMAIN t.named = DomainsOf({"train", "validation"}) /\ DOMAIN p.named = DomainsOf({"test"})
  BY DEF GoodTraining, GoodPrediction, Learned
<1>5. DOMAIN t.named \cap DOMAIN p.named = {}
  BY <1>4 DEF DomainsOf
<1>6. \A d \in DOMAIN p.named : ValidShard(d, p.named[d])
  BY <1>4 DEF GoodPrediction
<1>7. PICK a : a = Accepted(t, c, p, b)
  OBVIOUS
<1>8. a.training = t /\ a.calibration = c /\ a.prediction = p
  BY <1>7 DEF Accepted
<1>9. Lineage(a)
  BY <1>1, <1>2, <1>3, <1>5, <1>6, <1>8 DEF Lineage
<1> QED BY <1>7, <1>9

LEMMA VerifyBundleStep ==
    ASSUME DetInv, NEW w \in Commands, VerifyBundle(w)
    PROVE  DetInv'
<1>1. PICK p : p = proc[w]
  OBVIOUS
<1>2. PICK b : b = p.artifact
  OBVIOUS
<1>3. PICK a : a = Accepted(b.manifests[1], b.manifests[2], b.manifests[3], b)
  OBVIOUS
<1>4. /\ p.kind = "bundle" /\ proc' = [proc EXCEPT ![w] = Idle]
      /\ \/ /\ Verifies(b.manifests[1], b.manifests[2], b.manifests[3], b)
            /\ verified' = verified \cup {a} /\ dirs' = dirs
         \/ /\ dirs' = [dirs EXCEPT ![<<"bundle", p.slot>>] = NoArtifact]
            /\ verified' = verified
      /\ UNCHANGED world /\ tracked' = tracked
  BY <1>1, <1>2, <1>3 DEF VerifyBundle, Work, Fail
<1>5. Builder(p, shards) /\ shards \in Disks
  BY <1>1, <1>4 DEF DetInv, Doing
<1>6. verified \subseteq verified' /\ \A x \in verified' : x \in verified \/ Lineage(x)
  BY <1>2, <1>3, <1>4, <1>5, AcceptedIsOneLineage DEF Builder
<1>7. Good(NoArtifact, shards)
  BY DEF Good, NoArtifact
<1>8. DOMAIN dirs' = Outputs /\ \A o \in Outputs : dirs'[o] = dirs[o] \/ Good(dirs'[o], shards)
  BY <1>4, <1>7 DEF DetInv
<1>9. /\ DOMAIN proc' = Commands
      /\ \A v \in Commands : proc'[v] = proc[v] \/ Doing(proc'[v], shards, verified')
  BY <1>4, IdleDoes, ProcessMoves
<1> QED BY <1>4, <1>6, <1>8, <1>9, CommandKeeps

LEMMA VerifyReleaseStep ==
    ASSUME DetInv, NEW w, NEW slot, NEW t \in Slots["train"], NEW c \in Slots["calibrate"],
           NEW p \in Slots["predict"], VerifyRelease(w, slot, t, c, p)
    PROVE  DetInv'
<1>1. PICK training : training = dirs[<<"train", t>>]
  OBVIOUS
<1>2. PICK calibration : calibration = dirs[<<"calibrate", c>>]
  OBVIOUS
<1>3. PICK prediction : prediction = dirs[<<"predict", p>>]
  OBVIOUS
<1>4. PICK b : b = dirs[<<"bundle", slot>>]
  OBVIOUS
<1>5. PICK a : a = Accepted(training, calibration, prediction, b)
  OBVIOUS
<1>6. /\ training.kind = "train" /\ calibration.kind = "calibrate" /\ prediction.kind = "predict"
      /\ Verifies(training, calibration, prediction, b) /\ verified' = verified \cup {a}
      /\ UNCHANGED world /\ dirs' = dirs /\ proc' = proc /\ tracked' = tracked
  BY <1>1, <1>2, <1>3, <1>4, <1>5 DEF VerifyRelease
<1>7. Good(training, shards) /\ Good(calibration, shards) /\ Good(prediction, shards)
  BY <1>1, <1>2, <1>3, OutputIn DEF DetInv, Kinds
<1>8. shards \in Disks /\ DOMAIN dirs' = Outputs /\ DOMAIN proc' = Commands
  BY <1>6 DEF DetInv
<1>9. Lineage(a)
  BY <1>5, <1>6, <1>7, <1>8, AcceptedIsOneLineage DEF Good
<1> QED BY <1>6, <1>8, <1>9, CommandKeeps

(***************************************************************************)
(* Tracking.                                                               *)
(***************************************************************************)
LEMMA BeginTrackingStep ==
    ASSUME DetInv, NEW w \in Commands, NEW a, BeginTracking(w, a)
    PROVE  DetInv'
<1>1. PICK snapshot : snapshot = report
  OBVIOUS
<1>2. PICK q : q = [kind |-> "track", step |-> "tags", accepted |-> a, snapshot |-> snapshot]
  OBVIOUS
<1>3. /\ a \in verified /\ proc' = [proc EXCEPT ![w] = q]
      /\ snapshot.of = a.prediction /\ snapshot.text = "verified"
      /\ UNCHANGED <<world, dirs, tracked, verified>>
  BY <1>1, <1>2 DEF BeginTracking
<1>4. snapshot = [of |-> a.prediction, text |-> "verified"]
  BY <1>1, <1>3 DEF DetInv
<1>5. /\ q.kind = "track" /\ DOMAIN q = {"kind", "step", "accepted", "snapshot"}
      /\ q.accepted = a /\ q.snapshot = snapshot
  BY <1>2
<1>6. Doing(q, shards, verified)
  BY <1>3, <1>4, <1>5 DEF Doing, Tracker, ReaderKinds
<1> QED BY <1>3, <1>6, MoveKeeps

LEMMA StartRunStep ==
    ASSUME DetInv, NEW w \in Commands, StartRun(w)
    PROVE  DetInv'
<1>1. PICK p : p = proc[w]
  OBVIOUS
<1>2. PICK q : q = [p EXCEPT !.step = "upload"]
  OBVIOUS
<1>3. PICK run : run = [kind |-> "evaluation", by |-> w, of |-> p.accepted, metrics |-> p.snapshot,
                        status |-> "RUNNING", uploaded |-> NoArtifact]
  OBVIOUS
<1>4. /\ p.kind = "track" /\ proc' = [proc EXCEPT ![w] = q] /\ tracked' = tracked \cup {run}
      /\ UNCHANGED world /\ dirs' = dirs /\ verified' = verified
  BY <1>1, <1>2, <1>3 DEF StartRun, Work
<1>5. Tracker(p, verified) /\ DOMAIN dirs = Outputs
  BY <1>1, <1>4 DEF DetInv, Doing
<1>6. /\ q.kind = "track" /\ DOMAIN q = {"kind", "step", "accepted", "snapshot"}
      /\ q.accepted = p.accepted /\ q.snapshot = p.snapshot
  BY <1>2, <1>4, <1>5 DEF Tracker
<1>7. Doing(q, shards, verified')
  BY <1>4, <1>5, <1>6 DEF Doing, Tracker, ReaderKinds
<1>8. /\ run.kind = "evaluation" /\ DOMAIN run = RunFields /\ run.of = p.accepted
      /\ run.metrics = p.snapshot /\ run.status = "RUNNING"
  BY <1>3 DEF RunFields
<1>9. Shown(run, verified')
  BY <1>4, <1>5, <1>8 DEF Shown, Tracker
<1>10. /\ DOMAIN proc' = Commands
       /\ \A v \in Commands : proc'[v] = proc[v] \/ Doing(proc'[v], shards, verified')
  BY <1>4, <1>7, ProcessMoves
<1> QED BY <1>4, <1>5, <1>9, <1>10, CommandKeeps

(* The upload is the snapshot that was compared, not the report's file.    *)
LEMMA FinishRunStep ==
    ASSUME DetInv, NEW w \in Commands, FinishRun(w)
    PROVE  DetInv'
<1>1. PICK p : p = proc[w]
  OBVIOUS
<1>2. /\ p.kind = "track" /\ proc' = [proc EXCEPT ![w] = Idle]
      /\ UNCHANGED world /\ dirs' = dirs /\ verified' = verified
  BY <1>1 DEF FinishRun, Work, Fail
<1>3. Tracker(p, verified) /\ DOMAIN dirs = Outputs
  BY <1>1, <1>2 DEF DetInv, Doing
<1>4. PICK run \in tracked :
            /\ run.kind = "evaluation" /\ run.of = p.accepted
            /\ tracked' = (tracked \ {run}) \cup
                          {[run EXCEPT !.status = "FINISHED", !.uploaded = p.snapshot]}
  BY <1>1 DEF FinishRun, UploadSource
<1>5. PICK new : new = [run EXCEPT !.status = "FINISHED", !.uploaded = p.snapshot]
  OBVIOUS
<1>6. Shown(run, verified)
  BY <1>4 DEF DetInv
<1>7. /\ DOMAIN run = RunFields /\ run.of \in verified
      /\ run.metrics = [of |-> run.of.prediction, text |-> "verified"]
  BY <1>4, <1>6 DEF Shown
<1>8. /\ DOMAIN new = RunFields /\ new.kind = run.kind /\ new.of = run.of
      /\ new.metrics = run.metrics /\ new.uploaded = p.snapshot
  BY <1>5, <1>7 DEF RunFields
<1>9. new.uploaded = new.metrics
  BY <1>3, <1>4, <1>7, <1>8 DEF Tracker
<1>10. Shown(new, verified')
  BY <1>2, <1>4, <1>7, <1>8, <1>9 DEF Shown
<1>11. \A r \in tracked' : r \in tracked \/ Shown(r, verified')
  BY <1>4, <1>5, <1>10
<1>12. /\ DOMAIN proc' = Commands
       /\ \A v \in Commands : proc'[v] = proc[v] \/ Doing(proc'[v], shards, verified')
  BY <1>2, IdleDoes, ProcessMoves
<1> QED BY <1>2, <1>3, <1>11, <1>12, CommandKeeps

LEMMA LogDevelopmentStep ==
    ASSUME DetInv, NEW w, NEW t \in Slots["train"], NEW c \in Slots["calibrate"],
           LogDevelopment(w, t, c)
    PROVE  DetInv'
<1>1. PICK training : training = dirs[<<"train", t>>]
  OBVIOUS
<1>2. PICK calibration : calibration = dirs[<<"calibrate", c>>]
  OBVIOUS
<1>3. PICK run : run = [kind |-> "development", training |-> training, calibration |-> calibration]
  OBVIOUS
<1>4. /\ training.kind = "train" /\ calibration.kind = "calibrate"
      /\ calibration.binding = training.binding /\ tracked' = tracked \cup {run}
      /\ UNCHANGED world /\ dirs' = dirs /\ proc' = proc /\ verified' = verified
  BY <1>1, <1>2, <1>3 DEF LogDevelopment
<1>5. Good(training, shards) /\ Good(calibration, shards)
  BY <1>1, <1>2, OutputIn DEF DetInv, Kinds
<1>6. calibration.scoredBy = training.model
  BY <1>4, <1>5 DEF Good, GoodTraining, GoodCalibration
<1>7. Shown(run, verified')
  BY <1>3, <1>6 DEF Shown
<1>8. DOMAIN dirs' = Outputs /\ DOMAIN proc' = Commands
  BY <1>4 DEF DetInv
<1> QED BY <1>4, <1>7, <1>8, CommandKeeps

LEMMA CrashStep ==
    ASSUME DetInv, NEW w \in Commands, Crash(w)
    PROVE  DetInv'
<1>1. proc' = [proc EXCEPT ![w] = Idle] /\ UNCHANGED <<world, dirs, tracked, verified>>
  BY DEF Crash, Fail
<1> QED BY <1>1, IdleDoes, MoveKeeps

LEMMA BeginningSteps ==
    ASSUME DetInv, NEW w \in Commands, NEW t \in Slots["train"], NEW c, NEW p, NEW r,
           \/ \E seed : BeginTraining(w, t, r, seed)
           \/ BeginCalibration(w, c, r, t)
           \/ \E mode : BeginPrediction(w, p, r, t, c, mode)
    PROVE  DetInv'
<1>1. ASSUME NEW seed, BeginTraining(w, t, r, seed) PROVE DetInv'
  BY <1>1, BeginCommandStep DEF BeginTraining, ReaderKinds
<1>2. PICK training : training = dirs[<<"train", t>>]
  OBVIOUS
<1>3. Good(training, shards)
  BY <1>2, OutputIn DEF DetInv, Kinds
<1>4. ASSUME BeginCalibration(w, c, r, t) PROVE DetInv'
  <2>1. PICK given : given = [training |-> training]
    OBVIOUS
  <2>2. Begin(w, "calibrate", c, r, given) /\ training.kind = "train" /\ given.training = training
    BY <1>2, <1>4, <2>1 DEF BeginCalibration
  <2> QED BY <1>3, <2>2, BeginCommandStep DEF ReaderKinds
<1>5. ASSUME NEW mode, BeginPrediction(w, p, r, t, c, mode) PROVE DetInv'
  <2>1. PICK given : given = [training |-> training, calibration |-> dirs[<<"calibrate", c>>],
                              mode |-> mode]
    OBVIOUS
  <2>2. Begin(w, "predict", p, r, given) /\ training.kind = "train" /\ given.training = training
    BY <1>2, <1>5, <2>1 DEF BeginPrediction
  <2> QED BY <1>3, <2>2, BeginCommandStep DEF ReaderKinds
<1> QED BY <1>1, <1>4, <1>5

(***************************************************************************)
(* The specification.                                                      *)
(***************************************************************************)
LEMMA DetInitHolds == DetInit => DetInv
<1> SUFFICES ASSUME DetInit PROVE DetInv
  OBVIOUS
<1>1. /\ exports = 0 /\ shards = [d \in Domains |-> First(d)] /\ dirs = [o \in Outputs |-> NoArtifact]
      /\ proc = [w \in Commands |-> Idle] /\ report = [of |-> NoArtifact, text |-> "stale"]
      /\ tracked = {} /\ verified = {}
  BY DEF DetInit
<1>2. \A d \in Domains : First(d) \in Contents /\ First(d).version = 0
  BY DEF First, Contents, Shapes
<1>3. shards \in Disks /\ \A d \in Domains : shards[d].version <= exports
  BY <1>1, <1>2 DEF Disks
<1>4. DOMAIN dirs = Outputs /\ \A o \in Outputs : Good(dirs[o], shards)
  BY <1>1 DEF Good, NoArtifact
<1>5. DOMAIN proc = Commands /\ \A w \in Commands : Doing(proc[w], shards, verified)
  BY <1>1, IdleDoes
<1> QED BY <1>1, <1>3, <1>4, <1>5 DEF DetInv

LEMMA DetStep == DetInv /\ [DetNext]_detVars => DetInv'
<1> SUFFICES ASSUME DetInv, [DetNext]_detVars PROVE DetInv'
  OBVIOUS
<1>1. ASSUME NEW d \in Exported,
             \/ \E shape \in Shapes : Export(d, shape)
             \/ \E config \in 1..2 : WriteRelease(Domains, config) \/ WriteRelease(Domains \ {d}, config)
      PROVE  DetInv'
  BY <1>1, ExportStep, WriteStep, ExportedAssumption
<1>2. ASSUME NEW p \in Slots["predict"], NEW text, WriteReport(p, text) PROVE DetInv'
  BY <1>2, WriteStep
<1>3. ASSUME NEW w \in Commands,
             \/ VerifyShard(w) \/ ReadShard(w) \/ Publish(w)
             \/ PublishBundle(w) \/ VerifyBundle(w)
             \/ StartRun(w) \/ FinishRun(w) \/ Crash(w)
             \/ \E a \in verified : BeginTracking(w, a)
      PROVE  DetInv'
  BY <1>3, VerifyShardStep, ReadShardStep, PublishStep, PublishBundleStep, VerifyBundleStep,
     StartRunStep, FinishRunStep, CrashStep, BeginTrackingStep
<1>4. ASSUME NEW w \in Commands, NEW t \in Slots["train"], NEW c \in Slots["calibrate"],
             NEW p \in Slots["predict"], NEW b \in Slots["bundle"],
             \/ \E r \in released, seed \in Seeds : BeginTraining(w, t, r, seed)
             \/ \E r \in released : BeginCalibration(w, c, r, t)
             \/ \E r \in released, mode \in Modes : BeginPrediction(w, p, r, t, c, mode)
             \/ \E m \in Slots["calibrate"], k \in Slots["predict"] :
                    BeginBundle(w, b, t, c, p, m, k)
             \/ VerifyRelease(w, b, t, c, p)
             \/ \E mode \in Modes : ServeDetector(w, b, t, c, p, mode)
             \/ LogDevelopment(w, t, c)
      PROVE  DetInv'
  <2>1. ASSUME NEW mode, ServeDetector(w, b, t, c, p, mode) PROVE VerifyRelease(w, b, t, c, p)
    BY <2>1 DEF ServeDetector
  <2> QED BY <1>4, <2>1, BeginningSteps, BeginBundleStep, VerifyReleaseStep, LogDevelopmentStep
<1>5. CASE UNCHANGED detVars
  BY <1>5, WriteStep
<1>6. ASSUME DetNext PROVE DetInv'
  <2>1. ASSUME NEW w \in Commands,
               \E t \in Slots["train"], c \in Slots["calibrate"],
                  p \in Slots["predict"], b \in Slots["bundle"] :
                 \/ \E r \in released, seed \in Seeds : BeginTraining(w, t, r, seed)
                 \/ \E r \in released : BeginCalibration(w, c, r, t)
                 \/ \E r \in released, mode \in Modes : BeginPrediction(w, p, r, t, c, mode)
                 \/ \E m \in Slots["calibrate"], k \in Slots["predict"] :
                        BeginBundle(w, b, t, c, p, m, k)
                 \/ VerifyRelease(w, b, t, c, p)
                 \/ \E mode \in Modes : ServeDetector(w, b, t, c, p, mode)
                 \/ LogDevelopment(w, t, c)
        PROVE  DetInv'
    BY <1>4, <2>1, Zenon
  <2> QED BY <1>1, <1>2, <1>3, <1>6, <2>1, ZenonT(60) DEF DetNext
<1> QED BY <1>5, <1>6

(* The inductive invariant of the governed detector.                       *)
THEOREM DetectorInvariant == DetSpec => []DetInv
  BY DetInitHolds, DetStep, PTL DEF DetSpec

LEMMA LineageFollows == DetInv => ReleaseIsOneLineage
  BY DEF DetInv, Lineage, Shown, ReleaseIsOneLineage, VerifiedIsOneLineage, TrackedReportIsVerified

(* However many commands, exports, directories and seeds there are: a      *)
(* release that was verified is of the shards its manifests name, although *)
(* each is checked before it is read and may be written again in between;  *)
(* one model scored its validation and test rows, and training named no    *)
(* test shard; and a tracked run shows the report that was compared.       *)
THEOREM OneLineage == DetSpec => []ReleaseIsOneLineage
  BY DetectorInvariant, LineageFollows, PTL
================================================================================
