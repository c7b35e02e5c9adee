--------------------------- MODULE TransformerProofs ---------------------------
(***************************************************************************)
(* Proofs about the Transformer's campaign and its single evaluation on    *)
(* the held-out day.                                                       *)
(*                                                                         *)
(* TransformerHoldout: for every number of jobs, of faults and every       *)
(* deadline the day is read once, and a live job the supervisor has seen   *)
(* never outlives its bound without having been cancelled.                 *)
(*                                                                         *)
(* TransformerCampaign: for every grid, set of seeds and losses, number of *)
(* jobs, directories and faults, a slot has one outcome and a verified     *)
(* result is its own job's.                                                *)
(***************************************************************************)
EXTENDS TransformerHoldout, TransformerCampaign, FiniteSetTheorems,
        WellFoundedInduction, TLAPS

JobStates == {"none", "wait", "claim", "intent", "parity", "final", "publish", "failing"} \cup Terminal

JobRecords == [pc : JobStates, created : Nat, cancel : BOOLEAN]

JobsTyped ==
    /\ now \in Nat /\ jobs \in [Numbers -> JobRecords]
    /\ result.intent \in Numbers \cup {0}
    /\ DOMAIN result = {"intent", "failed", "success"}

Past == {"parity", "final", "publish", "failing"}

\* Only the holder of INTENT is past the claim, and INTENT stays with it.
ClaimHeld ==
    /\ \A j \in Numbers : jobs[j].pc \in Past => result.intent = j
    /\ result.intent # 0 => jobs[result.intent].pc \in Past \cup Terminal

\* What its stage says of the final inputs and of the two markers.
StageOfHolder ==
    /\ finalReads \subseteq {result.intent} \ {0}
    /\ \A j \in Numbers : jobs[j].pc = "publish" => j \in finalReads
    /\ result.success # 0 => result.success \in finalReads /\ ~result.failed
    /\ result.success # 0 \/ result.failed =>
         result.intent # 0 /\ jobs[result.intent].pc \in Terminal

ReadInv == JobsTyped /\ ClaimHeld /\ StageOfHolder

---------------------------------------------------------------------------------
\* Steps that leave every job where it is.
LEMMA JobsStay ==
    ASSUME ReadInv, UNCHANGED <<result, finalReads>>, now' \in Nat, jobs' \in [Numbers -> JobRecords],
           \A j \in Numbers : jobs'[j].pc = jobs[j].pc
    PROVE  ReadInv'
BY DEF ReadInv, JobsTyped, ClaimHeld, StageOfHolder

\* A cancellation only raises a flag of the job.
LEMMA CancelFlag ==
    ASSUME ReadInv, NEW i, UNCHANGED <<now, result, finalReads>>,
           jobs' \in {jobs, [jobs EXCEPT ![i].cancel = TRUE]}
    PROVE  ReadInv'
<1>1. jobs \in [Numbers -> JobRecords] /\ now' \in Nat
  BY DEF ReadInv, JobsTyped
<1>2. CASE UNCHANGED jobs
  BY <1>1, <1>2, JobsStay
<1>3. CASE jobs' = [jobs EXCEPT ![i].cancel = TRUE]
  <2> DEFINE rec == [jobs[i] EXCEPT !.cancel = TRUE]
  <2>1. jobs' = [jobs EXCEPT ![i] = rec]
    BY <1>3
  <2>2. i \in Numbers => rec \in JobRecords /\ rec.pc = jobs[i].pc
    BY <1>1 DEF JobRecords
  <2> HIDE DEF rec
  <2>3. jobs' \in [Numbers -> JobRecords] /\ \A j \in Numbers : jobs'[j].pc = jobs[j].pc
    BY <1>1, <2>1, <2>2
  <2> QED
    BY <1>1, <2>3, JobsStay
<1> QED
  BY <1>2, <1>3

\* A job that stops short of the claim, or after it.
LEMMA WorkFacts ==
    ASSUME JobsTyped, NEW j \in Numbers, NEW pc \in JobStates, Work(j, pc)
    PROVE  /\ jobs' \in [Numbers -> JobRecords] /\ jobs'[j].pc = pc
           /\ \A i \in Numbers : i # j => jobs'[i] = jobs[i]
<1> DEFINE rec == [jobs[j] EXCEPT !.pc = pc]
<1>1. jobs \in [Numbers -> JobRecords]
  BY DEF JobsTyped
<1>2. jobs' = [jobs EXCEPT ![j] = rec]
  BY DEF Work
<1>3. rec \in JobRecords /\ rec.pc = pc
  BY <1>1 DEF JobRecords
<1> HIDE DEF rec
<1> QED
  BY <1>1, <1>2, <1>3

\* Before the claim a job holds nothing, so it may move freely.
LEMMA EarlyMove ==
    ASSUME ReadInv, NEW j \in Numbers, jobs' \in [Numbers -> JobRecords],
           \A i \in Numbers : i # j => jobs'[i] = jobs[i],
           UNCHANGED <<now, result, finalReads>>,
           jobs[j].pc \in {"none", "wait", "claim", "intent"}, jobs'[j].pc \notin Past
    PROVE  ReadInv'
<1>1. result.intent # j /\ 0 \notin Numbers
  BY DEF ReadInv, ClaimHeld, Past, Terminal, Numbers
<1> QED
  BY <1>1 DEF ReadInv, JobsTyped, ClaimHeld, StageOfHolder, Past

\* A job that ends.
LEMMA EndMove ==
    ASSUME ReadInv, NEW j \in Numbers, jobs' \in [Numbers -> JobRecords],
           \A i \in Numbers : i # j => jobs'[i] = jobs[i],
           UNCHANGED <<now, result, finalReads>>, jobs'[j].pc \in Terminal
    PROVE  ReadInv'
BY DEF ReadInv, JobsTyped, ClaimHeld, StageOfHolder, Past, Terminal

LEMMA ReadInit == HoInit => ReadInv
BY DEF HoInit, ReadInv, JobsTyped, ClaimHeld, StageOfHolder, JobRecords, JobStates, NoJob, Past

\* A job is created under the name.
LEMMA NewJobReads ==
    ASSUME ReadInv, NEW j \in Numbers, Fresh(j), jobs' = [jobs EXCEPT ![j] = NewJob],
           UNCHANGED <<now, result, finalReads>>
    PROVE  ReadInv'
<1>1. jobs \in [Numbers -> JobRecords] /\ NewJob \in JobRecords /\ NewJob.pc = "wait"
  BY DEF ReadInv, JobsTyped, NewJob, JobRecords, JobStates
<1>2. jobs[j].pc = "none"
  BY DEF Fresh, NoJob
<1> HIDE DEF NewJob
<1>3. /\ jobs' \in [Numbers -> JobRecords] /\ jobs'[j].pc = "wait"
      /\ \A i \in Numbers : i # j => jobs'[i] = jobs[i]
  BY <1>1
<1> QED
  BY <1>2, <1>3, EarlyMove DEF Past

\* The supervisor, the provider and the clock.
LEMMA WatchReads ==
    ASSUME ReadInv, WatchStep \/ CrashWatch \/ Tick \/ DeleteHoldoutJob
    PROVE  ReadInv'
<1>1. jobs \in [Numbers -> JobRecords] /\ now \in Nat /\ now + 1 \in Nat
  BY DEF ReadInv, JobsTyped
<1>2. ASSUME UNCHANGED <<jobs, result, finalReads>>, now' \in {now, now + 1} PROVE ReadInv'
  BY <1>1, <1>2, JobsStay
<1>3. CASE Tick \/ CrashWatch \/ DeleteHoldoutJob
  BY <1>2, <1>3 DEF Tick, CrashWatch, DeleteHoldoutJob, Outside
<1>4. CASE TopCancel \/ CancelObserved
  <2>1. UNCHANGED <<now, result, finalReads>> /\ jobs' \in {jobs, [jobs EXCEPT ![sup.identity].cancel = TRUE]}
    BY <1>4 DEF TopCancel, CancelObserved, CancelCall
  <2> QED
    BY <2>1, CancelFlag
<1>5. CASE Handler
  <2>1. UNCHANGED <<now, result, finalReads>> /\ jobs' \in {jobs, [jobs EXCEPT ![sup.identity].cancel = TRUE]}
    BY <1>5 DEF Handler
  <2> QED
    BY <2>1, CancelFlag
<1>6. CASE CreateOnce
  <2>1. UNCHANGED <<now, result, finalReads>>
    BY <1>6 DEF CreateOnce
  <2>2. CASE UNCHANGED jobs
    BY <1>2, <2>1, <2>2
  <2>3. CASE \E j \in Numbers : Fresh(j) /\ jobs' = [jobs EXCEPT ![j] = NewJob]
    BY <2>1, <2>3, NewJobReads
  <2> QED
    BY <1>6, <2>2, <2>3 DEF CreateOnce
<1>7. CASE \/ \E submit \in BOOLEAN : StartWatch(submit)
           \/ TopRead \/ ReadFails \/ ReadAbsent \/ ReadJob \/ AfterCancel \/ Deliver \/ EndPause
  BY <1>2, <1>7 DEF StartWatch, TopRead, ReadFails, ReadAbsent, ReadJob, AfterCancel, Deliver, EndPause, Outside
<1> QED
  BY <1>3, <1>4, <1>5, <1>6, <1>7 DEF WatchStep

\* INTENT is put on condition that there is none.
LEMMA ClaimReads ==
    ASSUME ReadInv, NEW j \in Numbers, ClaimHoldout(j)
    PROVE  ReadInv'
<1> DEFINE claimed == [result EXCEPT !.intent = j]
<1>1. /\ UNCHANGED <<now, finalReads>> /\ jobs[j].pc = "intent" /\ JobsTyped /\ 0 \notin Numbers
      /\ "parity" \in JobStates /\ "failed" \in JobStates
  BY DEF ClaimHoldout, WorkFrame, ReadInv, JobStates, Terminal, Numbers
<1>2. /\ claimed.intent = j /\ claimed.failed = result.failed /\ claimed.success = result.success
      /\ DOMAIN claimed = {"intent", "failed", "success"}
  BY <1>1 DEF JobsTyped
<1> HIDE DEF claimed
<1>3. ASSUME result.intent = 0
      PROVE  finalReads = {} /\ result.success = 0 /\ ~result.failed /\ \A i \in Numbers : jobs[i].pc \notin Past
  BY <1>1, <1>3 DEF ReadInv, StageOfHolder, ClaimHeld
<1>4. CASE result.intent = 0 /\ result' = claimed /\ Work(j, "parity")
  <2>1. /\ jobs' \in [Numbers -> JobRecords] /\ jobs'[j].pc = "parity"
        /\ \A i \in Numbers : i # j => jobs'[i] = jobs[i]
    BY <1>1, <1>4, WorkFacts
  <2> QED
    BY <1>1, <1>2, <1>3, <1>4, <2>1 DEF ReadInv, JobsTyped, ClaimHeld, StageOfHolder, Past
<1>5. CASE result' = result /\ Work(j, "failed")
  <2>1. /\ jobs' \in [Numbers -> JobRecords] /\ jobs'[j].pc = "failed"
        /\ \A i \in Numbers : i # j => jobs'[i] = jobs[i]
    BY <1>1, <1>5, WorkFacts
  <2> QED
    BY <1>1, <1>5, <2>1, EndMove DEF Terminal
<1>6. CASE result.intent = 0 /\ result' = claimed /\ Work(j, "failed")
  <2>1. /\ jobs' \in [Numbers -> JobRecords] /\ jobs'[j].pc = "failed"
        /\ \A i \in Numbers : i # j => jobs'[i] = jobs[i]
    BY <1>1, <1>6, WorkFacts
  <2> QED
    BY <1>1, <1>2, <1>3, <1>6, <2>1 DEF ReadInv, JobsTyped, ClaimHeld, StageOfHolder, Past, Terminal
<1> QED
  BY <1>4, <1>5, <1>6 DEF ClaimHoldout, claimed

\* The final inputs and the markers are the holder's.
LEMMA HolderReads ==
    ASSUME ReadInv, NEW j \in Numbers,
           \/ ReadFinal(j) \/ FinishHoldout(j) \/ PutHoldoutFailed(j)
           \/ \E passed \in BOOLEAN : CheckParity(j, passed)
    PROVE  ReadInv'
<1> DEFINE good == [result EXCEPT !.success = j]
           bad == [result EXCEPT !.failed = TRUE]
<1>1. /\ UNCHANGED now /\ jobs[j].pc \in Past /\ JobsTyped /\ 0 \notin Numbers
      /\ {"publish", "failed", "final", "failing", "done"} \subseteq JobStates
  BY DEF ReadFinal, FinishHoldout, PutHoldoutFailed, CheckParity, WorkFrame, ReadInv, JobStates,
         Terminal, Numbers, Past
<1>2. /\ result.intent = j /\ result.success = 0 /\ ~result.failed
      /\ finalReads \subseteq {j} /\ \A i \in Numbers : i # j => jobs[i].pc \notin Past
      /\ jobs[j].pc = "publish" => j \in finalReads
  BY <1>1 DEF ReadInv, ClaimHeld, StageOfHolder, Past, Terminal
<1>3. /\ good.intent = j /\ good.success = j /\ ~good.failed
      /\ DOMAIN good = {"intent", "failed", "success"}
      /\ bad.intent = j /\ bad.success = 0 /\ bad.failed
      /\ DOMAIN bad = {"intent", "failed", "success"}
  <2>1. DOMAIN result = {"intent", "failed", "success"}
    BY <1>1 DEF JobsTyped
  <2>2. /\ good.intent = j /\ good.success = j /\ ~good.failed
        /\ DOMAIN good = {"intent", "failed", "success"}
    BY <1>2, <2>1
  <2>3. /\ bad.intent = j /\ bad.success = 0
        /\ DOMAIN bad = {"intent", "failed", "success"}
    BY <1>2, <2>1
  <2>4. bad.failed
    BY <2>1
  <2> QED
    BY <2>2, <2>3, <2>4
<1> HIDE DEF good, bad
<1>4. ASSUME NEW pc \in JobStates, Work(j, pc)
      PROVE  /\ jobs' \in [Numbers -> JobRecords] /\ jobs'[j].pc = pc
             /\ \A i \in Numbers : i # j => jobs'[i] = jobs[i]
  BY <1>1, <1>4, WorkFacts
<1>5. CASE ReadFinal(j)
  <2>1. Work(j, "publish") /\ UNCHANGED result /\ finalReads' = finalReads \cup {j}
    BY <1>5 DEF ReadFinal
  <2>2. /\ jobs' \in [Numbers -> JobRecords] /\ jobs'[j].pc = "publish"
        /\ \A i \in Numbers : i # j => jobs'[i] = jobs[i]
    BY <1>1, <1>4, <2>1
  <2> QED
    BY <1>1, <1>2, <2>1, <2>2 DEF ReadInv, JobsTyped, ClaimHeld, StageOfHolder, Past
<1>6. ASSUME NEW pc \in {"final", "failing", "failed"}, Work(j, pc), UNCHANGED <<result, finalReads>>
      PROVE  ReadInv'
  <2>1. /\ jobs' \in [Numbers -> JobRecords] /\ jobs'[j].pc = pc
        /\ \A i \in Numbers : i # j => jobs'[i] = jobs[i]
    BY <1>1, <1>4, <1>6
  <2> QED
    BY <1>1, <1>2, <1>6, <2>1 DEF ReadInv, JobsTyped, ClaimHeld, StageOfHolder, Past, Terminal
<1>7. CASE \E passed \in BOOLEAN : CheckParity(j, passed)
  BY <1>6, <1>7 DEF CheckParity
<1>8. ASSUME NEW pc \in {"done", "failed"}, Work(j, pc), result' = good, UNCHANGED finalReads, j \in finalReads
      PROVE  ReadInv'
  <2>1. /\ jobs' \in [Numbers -> JobRecords] /\ jobs'[j].pc = pc
        /\ \A i \in Numbers : i # j => jobs'[i] = jobs[i]
    BY <1>1, <1>4, <1>8
  <2> QED
    BY <1>1, <1>2, <1>3, <1>8, <2>1 DEF ReadInv, JobsTyped, ClaimHeld, StageOfHolder, Past, Terminal
<1>9. CASE FinishHoldout(j)
  <2>1. j \in finalReads /\ UNCHANGED finalReads
    BY <1>2, <1>9 DEF FinishHoldout
  <2> QED
    BY <1>6, <1>8, <1>9, <2>1 DEF FinishHoldout, good
<1>10. CASE PutHoldoutFailed(j)
  <2>1. Work(j, "failed") /\ UNCHANGED finalReads /\ result' \in {result, bad}
    BY <1>10 DEF PutHoldoutFailed, bad
  <2>2. /\ jobs' \in [Numbers -> JobRecords] /\ jobs'[j].pc = "failed"
        /\ \A i \in Numbers : i # j => jobs'[i] = jobs[i]
    BY <1>1, <1>4, <2>1
  <2>3. CASE result' = bad
    BY <1>1, <1>2, <1>3, <2>1, <2>2, <2>3 DEF ReadInv, JobsTyped, ClaimHeld, StageOfHolder, Past, Terminal
  <2> QED
    BY <1>6, <2>1, <2>3
<1> QED
  BY <1>5, <1>7, <1>9, <1>10

LEMMA ReadNext == ReadInv /\ [HoNext]_hoVars => ReadInv'
<1> SUFFICES ASSUME ReadInv, [HoNext]_hoVars PROVE ReadInv'
  OBVIOUS
<1>1. JobsTyped /\ {"claim", "intent", "failed", "cancelled"} \subseteq JobStates
  BY DEF ReadInv, JobStates, Terminal
<1>2. CASE UNCHANGED hoVars
  <2>1. UNCHANGED <<now, jobs, result, finalReads>>
    BY <1>2 DEF hoVars
  <2> QED
    BY <1>1, <2>1, JobsStay DEF JobsTyped
<1>3. ASSUME NEW j \in Numbers, ExternalJob(j) PROVE ReadInv'
  BY <1>3, NewJobReads DEF ExternalJob
<1>4. ASSUME NEW j \in Numbers, WaitContext(j) \/ ListHoldout(j) PROVE ReadInv'
  <2>1. /\ UNCHANGED <<now, result, finalReads>> /\ jobs[j].pc \in {"wait", "claim"}
        /\ \E pc \in {"claim", "intent", "failed"} : Work(j, pc)
    BY <1>4 DEF WaitContext, ListHoldout, WorkFrame
  <2>2. PICK pc \in {"claim", "intent", "failed"} : Work(j, pc)
    BY <2>1
  <2>3. /\ jobs' \in [Numbers -> JobRecords] /\ jobs'[j].pc = pc
        /\ \A i \in Numbers : i # j => jobs'[i] = jobs[i]
    BY <1>1, <2>2, WorkFacts
  <2> QED
    BY <2>1, <2>2, <2>3, EarlyMove DEF Past
<1>5. ASSUME NEW j \in Numbers, CancelTakesEffect(j) \/ JobDies(j) PROVE ReadInv'
  <2>1. /\ UNCHANGED <<now, result, finalReads>>
        /\ \E pc \in {"cancelled", "failed"} : Work(j, pc)
    BY <1>5 DEF CancelTakesEffect, JobDies, Work, WorkFrame
  <2>2. PICK pc \in {"cancelled", "failed"} : Work(j, pc)
    BY <2>1
  <2>3. /\ jobs' \in [Numbers -> JobRecords] /\ jobs'[j].pc = pc
        /\ \A i \in Numbers : i # j => jobs'[i] = jobs[i]
    BY <1>1, <2>2, WorkFacts
  <2> QED
    BY <2>1, <2>2, <2>3, EndMove DEF Terminal
<1> QED
  BY <1>2, <1>3, <1>4, <1>5, WatchReads, ClaimReads, HolderReads DEF HoNext

\* The invariant of the reading holds in every reachable state.
THEOREM ReadInvariant == HoSpec => []ReadInv
BY ReadInit, ReadNext, PTL DEF HoSpec

\* At most one job ever reads the final inputs, it is the one whose INTENT is in
\* the prefix, and no prefix holds both outcomes, however many jobs of the name
\* run at once and whatever dies (holdout_storage.py, claim; holdout_worker.py).
THEOREM ReadOnce == HoSpec => []HeldOutDayReadOnce
<1>1. ReadInv => HeldOutDayReadOnce
  <2> SUFFICES ASSUME ReadInv PROVE HeldOutDayReadOnce
    OBVIOUS
  <2>1. IsFiniteSet({result.intent}) /\ Cardinality({result.intent}) = 1
    BY FS_Singleton
  <2>2. finalReads \subseteq {result.intent}
    BY DEF ReadInv, StageOfHolder
  <2>3. IsFiniteSet(finalReads) /\ Cardinality(finalReads) <= Cardinality({result.intent})
    BY <2>1, <2>2, FS_Subset
  <2> QED
    BY <2>1, <2>2, <2>3 DEF ReadInv, StageOfHolder, HeldOutDayReadOnce
<1> QED
  BY <1>1, ReadInvariant, PTL

---------------------------------------------------------------------------------
(***************************************************************************)
(* The supervisor's deadlines.  While it works, the clock does not pass    *)
(* the end of its call, and that end is not behind the stop time of a live *)
(* job it has not cancelled yet.                                           *)
(***************************************************************************)
Fields == {"pc", "until", "identity", "delivered", "cancelStarted", "creationRequested",
           "ownedLive", "stopAt", "cancelAt", "submit"}

Busy == {"top", "reading", "creating", "cancelling", "cancelled", "delivering", "pausing"}

WatchTyped ==
    /\ now \in Nat /\ shown \in Numbers \cup {0}
    /\ DOMAIN sup = Fields
    /\ sup.until \in Nat /\ sup.stopAt \in Nat /\ sup.cancelAt \in Nat
    /\ sup.pc \in Busy \cup {"none", "handler", "raised", "returned", "crashed"}

Deadlines ==
    /\ sup.pc \in Busy \cup {"handler"} => now <= sup.until
    /\ sup.pc \in Busy /\ sup.identity # 0 => sup.cancelAt # 0 /\ sup.cancelAt < sup.stopAt
    /\ sup.pc \in Busy /\ sup.identity # 0 /\ sup.ownedLive /\ ~sup.cancelStarted =>
         sup.until <= sup.stopAt
    /\ sup.pc = "delivering" => sup.until = sup.cancelAt

Endings ==
    /\ sup.pc \in {"none", "creating"} => sup.identity = 0
    /\ sup.pc = "cancelled" => sup.cancelStarted
    /\ sup.pc = "returned" => ~sup.ownedLive
    /\ sup.pc = "raised" => sup.cancelStarted \/ sup.identity = 0 \/ ~sup.ownedLive

WatchInv == WatchTyped /\ Deadlines /\ Endings

LEMMA WatchInit == HoInit => WatchInv
BY DEF HoInit, NotStarted, WatchInv, WatchTyped, Deadlines, Endings, Fields, Busy

LEMMA LesserFacts ==
    ASSUME NEW a \in Nat, NEW b \in Nat
    PROVE  Lesser(a, b) \in Nat /\ Lesser(a, b) <= a /\ Lesser(a, b) <= b /\ Lesser(a, b) \in {a, b}
BY DEF Lesser

\* The call ends and nothing else about the supervisor changes, but for its place.
LEMMA MoveFacts ==
    ASSUME DOMAIN sup = Fields, NEW c, NEW u, sup' = [sup EXCEPT !.pc = c, !.until = u]
    PROVE  /\ DOMAIN sup' = Fields /\ sup'.pc = c /\ sup'.until = u
           /\ sup'.identity = sup.identity /\ sup'.cancelStarted = sup.cancelStarted
           /\ sup'.ownedLive = sup.ownedLive /\ sup'.stopAt = sup.stopAt
           /\ sup'.cancelAt = sup.cancelAt
BY DEF Fields

\* The supervisor gives the error to its handler.
LEMMA ToHandler ==
    ASSUME WatchInv, UNCHANGED <<now, shown>>, sup' = [sup EXCEPT !.pc = "handler", !.until = now]
    PROVE  WatchInv'
<1>1. /\ DOMAIN sup' = Fields /\ sup'.pc = "handler" /\ sup'.until = now
      /\ sup'.stopAt = sup.stopAt /\ sup'.cancelAt = sup.cancelAt
  BY MoveFacts DEF WatchInv, WatchTyped
<1> QED
  BY <1>1 DEF WatchInv, WatchTyped, Deadlines, Endings, Busy

\* It pauses, or reads, until a time that is not past and not behind the stop of
\* a live job.
LEMMA ToCall ==
    ASSUME WatchInv, UNCHANGED <<now, shown>>, NEW c \in {"top", "reading", "pausing"}, NEW u \in Nat,
           sup' = [sup EXCEPT !.pc = c, !.until = u], now <= u,
           sup.identity # 0 => sup.cancelAt # 0 /\ sup.cancelAt < sup.stopAt,
           sup.identity # 0 /\ sup.ownedLive /\ ~sup.cancelStarted => u <= sup.stopAt
    PROVE  WatchInv'
<1>1. /\ DOMAIN sup' = Fields /\ sup'.pc = c /\ sup'.until = u
      /\ sup'.identity = sup.identity /\ sup'.cancelStarted = sup.cancelStarted
      /\ sup'.ownedLive = sup.ownedLive /\ sup'.stopAt = sup.stopAt
      /\ sup'.cancelAt = sup.cancelAt
  BY MoveFacts DEF WatchInv, WatchTyped
<1> QED
  BY <1>1 DEF WatchInv, WatchTyped, Deadlines, Endings, Busy

\* A cancellation is tried, once.
LEMMA CancelTried ==
    ASSUME WatchInv, UNCHANGED <<now, shown>>, NEW c \in {"top", "cancelled", "handler"}, sup.pc \in Busy,
           sup' = [sup EXCEPT !.cancelStarted = TRUE, !.pc = c, !.until = now]
    PROVE  WatchInv'
<1>1. DOMAIN sup = Fields
  BY DEF WatchInv, WatchTyped
<1>2. /\ DOMAIN sup' = Fields /\ sup'.pc = c /\ sup'.until = now
      /\ sup'.identity = sup.identity
      /\ sup'.stopAt = sup.stopAt /\ sup'.cancelAt = sup.cancelAt
  BY <1>1 DEF Fields
<1>3. sup'.cancelStarted
  BY <1>1 DEF Fields
<1> QED
  BY <1>2, <1>3 DEF WatchInv, WatchTyped, Deadlines, Endings, Busy

---------------------------------------------------------------------------------
LEMMA ReadAbsentWatch ==
    ASSUME WatchInv, ReadAbsent
    PROVE  WatchInv'
<1>1. UNCHANGED <<now, shown>> /\ sup.pc = "reading"
  BY DEF ReadAbsent, Outside
<1>2. /\ now \in Nat /\ DOMAIN sup = Fields /\ sup.stopAt \in Nat /\ sup.cancelAt \in Nat
      /\ CreateReserve \in Nat
  BY TransformerHoldoutAssumption DEF WatchInv, WatchTyped
<1>3. CASE sup' = [sup EXCEPT !.pc = "handler", !.until = now]
  BY <1>1, <1>3, ToHandler
<1>4. CASE /\ sup.identity = 0 /\ sup.stopAt > now + CreateReserve
           /\ sup' = [sup EXCEPT !.pc = "creating", !.creationRequested = TRUE,
                                 !.until = sup.stopAt - CreateReserve]
  <2> DEFINE u == sup.stopAt - CreateReserve
  <2>1. u \in Nat /\ now <= u
    BY <1>2, <1>4
  <2>2. sup' = [sup EXCEPT !.pc = "creating", !.creationRequested = TRUE, !.until = u]
    BY <1>4
  <2> HIDE DEF u
  <2>3. /\ DOMAIN sup' = Fields /\ sup'.pc = "creating" /\ sup'.until = u
        /\ sup'.identity = sup.identity
        /\ sup'.stopAt = sup.stopAt /\ sup'.cancelAt = sup.cancelAt
    BY <1>2, <2>2 DEF Fields
  <2> QED
    BY <1>1, <1>2, <1>4, <2>1, <2>3 DEF WatchInv, WatchTyped, Deadlines, Endings, Busy
<1>5. CASE /\ sup.identity = 0 /\ now < sup.stopAt
           /\ sup' = [sup EXCEPT !.pc = "pausing", !.until = Lesser(now + 1, sup.stopAt)]
  <2> DEFINE u == Lesser(now + 1, sup.stopAt)
  <2>1. u \in Nat /\ now <= u
    BY <1>2, <1>5 DEF Lesser
  <2>2. sup' = [sup EXCEPT !.pc = "pausing", !.until = u]
    BY <1>5
  <2> HIDE DEF u
  <2> QED
    BY <1>1, <1>5, <2>1, <2>2, ToCall
<1> DEFINE late == sup.identity # 0 \/ now >= sup.stopAt
           admits == sup.submit /\ ~sup.creationRequested
<1>6. CASE late \/ (admits /\ sup.stopAt <= now + CreateReserve)
  BY <1>3, <1>6 DEF ReadAbsent
<1>7. CASE ~late /\ admits /\ ~(sup.stopAt <= now + CreateReserve)
  <2>1. /\ sup.identity = 0 /\ sup.stopAt > now + CreateReserve
    BY <1>2, <1>7
  <2>2. sup' = [sup EXCEPT !.pc = "creating", !.creationRequested = TRUE,
                           !.until = sup.stopAt - CreateReserve]
    BY <1>7 DEF ReadAbsent
  <2> QED
    BY <1>4, <2>1, <2>2
<1>8. CASE ~late /\ ~admits
  <2>1. sup.identity = 0 /\ now < sup.stopAt
    BY <1>2, <1>8
  <2>2. sup' = [sup EXCEPT !.pc = "pausing", !.until = Lesser(now + 1, sup.stopAt)]
    BY <1>8 DEF ReadAbsent
  <2> QED
    BY <1>5, <2>1, <2>2
<1> QED
  BY <1>6, <1>7, <1>8

\* The job is there: every branch of the observation keeps the deadlines.
LEMMA ReadJobWatch ==
    ASSUME WatchInv, ReadInv, ReadJob
    PROVE  WatchInv'
<1> DEFINE created == jobs[shown].created
           seen == [sup EXCEPT !.identity = shown, !.ownedLive = LiveJob(shown)]
           stop == created + Lifetime
           cut == created + Lifetime - CancelReserve
           bound == [seen EXCEPT !.stopAt = stop, !.cancelAt = cut]
<1>1. UNCHANGED <<now, shown>> /\ sup.pc = "reading" /\ shown \in Numbers /\ shown # 0
  BY DEF ReadJob, Outside, WatchInv, WatchTyped
<1>2. /\ now \in Nat /\ DOMAIN sup = Fields /\ created \in Nat /\ stop \in Nat /\ cut \in Nat
      /\ cut # 0 /\ cut < stop /\ Pause \in Nat \ {0}
  <2>1. created \in Nat
    BY <1>1 DEF ReadInv, JobsTyped, JobRecords
  <2>2. Lifetime \in Nat \ {0} /\ CancelReserve \in Nat \ {0} /\ CancelReserve < Lifetime
        /\ Pause \in Nat \ {0}
    BY TransformerHoldoutAssumption
  <2> HIDE DEF created
  <2> QED
    BY <2>1, <2>2 DEF WatchInv, WatchTyped
<1> HIDE DEF created, stop, cut
<1>3. /\ DOMAIN bound = Fields /\ bound.stopAt = stop /\ bound.cancelAt = cut
      /\ bound.identity = shown /\ bound.cancelStarted = sup.cancelStarted
      /\ bound.ownedLive = LiveJob(shown) /\ bound.until = sup.until
  BY <1>2 DEF Fields
<1>4. ASSUME NEW c, NEW u, sup' = [bound EXCEPT !.pc = c, !.until = u]
      PROVE  /\ DOMAIN sup' = Fields /\ sup'.stopAt = stop /\ sup'.cancelAt = cut
             /\ sup'.identity = shown /\ sup'.cancelStarted = sup.cancelStarted
             /\ sup'.ownedLive = LiveJob(shown) /\ sup'.until = u /\ sup'.pc = c
  <2> HIDE DEF bound
  <2> QED
    BY <1>3, <1>4 DEF Fields
<1>5. ASSUME NEW c \in {"cancelling", "delivering", "pausing"}, NEW u \in Nat,
             sup' = [bound EXCEPT !.pc = c, !.until = u], now <= u, u <= stop,
             c = "delivering" => u = cut
      PROVE  WatchInv'
  <2> HIDE DEF bound
  <2> QED
    BY <1>1, <1>2, <1>4, <1>5 DEF WatchInv, WatchTyped, Deadlines, Endings, Busy
<1>6. CASE sup' = [sup EXCEPT !.pc = "handler", !.until = now]
  BY <1>1, <1>6, ToHandler
<1>7. CASE sup' = [seen EXCEPT !.pc = "handler", !.until = now]
  <2>1. /\ DOMAIN sup' = Fields /\ sup'.pc = "handler" /\ sup'.until = now
        /\ sup'.stopAt = sup.stopAt /\ sup'.cancelAt = sup.cancelAt
    BY <1>2, <1>7 DEF Fields
  <2> QED
    BY <1>1, <2>1 DEF WatchInv, WatchTyped, Deadlines, Endings, Busy
<1>8. CASE ~LiveJob(shown) /\ sup' = [bound EXCEPT !.pc = "returned", !.until = now]
  <2> HIDE DEF bound
  <2>1. sup' = [bound EXCEPT !.pc = "returned", !.until = now]
    BY <1>8
  <2>2. /\ DOMAIN sup' = Fields /\ sup'.stopAt = stop /\ sup'.cancelAt = cut
        /\ sup'.identity = shown /\ sup'.cancelStarted = sup.cancelStarted
        /\ sup'.ownedLive = LiveJob(shown) /\ sup'.until = now /\ sup'.pc = "returned"
    BY <1>4, <2>1
  <2> QED
    BY <1>1, <1>2, <1>8, <2>2 DEF WatchInv, WatchTyped, Deadlines, Endings, Busy
<1>9. CASE now <= stop /\ sup.cancelStarted /\ sup' = [bound EXCEPT !.pc = "cancelled", !.until = now]
  <2> HIDE DEF bound
  <2>1. sup' = [bound EXCEPT !.pc = "cancelled", !.until = now]
    BY <1>9
  <2>2. /\ DOMAIN sup' = Fields /\ sup'.stopAt = stop /\ sup'.cancelAt = cut
        /\ sup'.identity = shown /\ sup'.cancelStarted = sup.cancelStarted
        /\ sup'.ownedLive = LiveJob(shown) /\ sup'.until = now /\ sup'.pc = "cancelled"
    BY <1>4, <2>1
  <2>3. sup'.cancelStarted
    BY <1>9, <2>2
  <2>4. DOMAIN sup' = Fields /\ sup'.stopAt = stop /\ sup'.cancelAt = cut /\ sup'.until = now
        /\ sup'.pc = "cancelled"
    BY <2>2
  <2> QED
    BY <1>1, <1>2, <2>3, <2>4 DEF WatchInv, WatchTyped, Deadlines, Endings, Busy
<1>10. CASE now <= stop /\ sup' = [bound EXCEPT !.pc = "cancelling", !.until = now]
  <2> HIDE DEF bound
  <2>1. sup' = [bound EXCEPT !.pc = "cancelling", !.until = now]
    BY <1>10
  <2>2. now \in Nat /\ now <= now /\ now <= stop
    BY <1>2, <1>10
  <2> QED
    BY <1>5, <2>1, <2>2
<1>11. CASE now < cut /\ sup' = [bound EXCEPT !.pc = "delivering", !.until = cut]
  <2> HIDE DEF bound
  <2>1. sup' = [bound EXCEPT !.pc = "delivering", !.until = cut]
    BY <1>11
  <2>2. cut \in Nat /\ now <= cut /\ cut <= stop
    BY <1>2, <1>11
  <2> QED
    BY <1>5, <2>1, <2>2
<1>12. CASE now < cut /\ sup' = [bound EXCEPT !.pc = "pausing", !.until = Lesser(now + Pause, cut)]
  <2> DEFINE u == Lesser(now + Pause, cut)
  <2>1. u \in Nat /\ now <= u /\ u <= stop
    BY <1>2, <1>12 DEF Lesser
  <2>2. sup' = [bound EXCEPT !.pc = "pausing", !.until = u]
    BY <1>12
  <2> HIDE DEF u, bound
  <2> QED
    BY <1>5, <2>1, <2>2
<1> DEFINE foreign == (sup.submit /\ ~sup.creationRequested) \/ (sup.identity # 0 /\ sup.identity # shown)
<1>13. sup' =
        IF foreign THEN [sup EXCEPT !.pc = "handler", !.until = now]
        ELSE IF now > stop THEN [seen EXCEPT !.pc = "handler", !.until = now]
        ELSE IF ~LiveJob(shown) THEN [bound EXCEPT !.pc = "returned", !.until = now]
        ELSE IF now >= bound.cancelAt
        THEN [bound EXCEPT !.pc = IF sup.cancelStarted THEN "cancelled" ELSE "cancelling",
                           !.until = now]
        ELSE IF ~sup.delivered THEN [bound EXCEPT !.pc = "delivering", !.until = bound.cancelAt]
        ELSE [bound EXCEPT !.pc = "pausing", !.until = Lesser(now + Pause, bound.cancelAt)]
  BY DEF ReadJob, created, stop, cut
<1>14. (now > stop \/ now <= stop) /\ (now >= cut \/ now < cut)
  BY <1>2
<1>15. bound.cancelAt = cut
  BY <1>3
<1> HIDE DEF bound, seen, foreign
<1>16. \/ sup' = [sup EXCEPT !.pc = "handler", !.until = now]
       \/ sup' = [seen EXCEPT !.pc = "handler", !.until = now]
       \/ ~LiveJob(shown) /\ sup' = [bound EXCEPT !.pc = "returned", !.until = now]
       \/ now <= stop /\ sup.cancelStarted /\ sup' = [bound EXCEPT !.pc = "cancelled", !.until = now]
       \/ now <= stop /\ sup' = [bound EXCEPT !.pc = "cancelling", !.until = now]
       \/ now < cut /\ sup' = [bound EXCEPT !.pc = "delivering", !.until = cut]
       \/ now < cut /\ sup' = [bound EXCEPT !.pc = "pausing", !.until = Lesser(now + Pause, cut)]
  BY <1>13, <1>14, <1>15
<1> QED
  BY <1>6, <1>7, <1>8, <1>9, <1>10, <1>11, <1>12, <1>16

\* The clock does not pass the end of a call in progress.
LEMMA ClockWatch ==
    ASSUME WatchInv, Tick
    PROVE  WatchInv'
<1>1. /\ now' = now + 1 /\ UNCHANGED <<sup, shown>> /\ (Watching => now < sup.until)
  BY DEF Tick
<1>2. sup.pc \in Busy \cup {"handler"} => now < sup.until
  BY <1>1 DEF Watching, Busy
<1> QED
  BY <1>1, <1>2 DEF WatchInv, WatchTyped, Deadlines, Endings

\* Steps of others leave the supervisor alone.
LEMMA OthersWatch ==
    ASSUME WatchInv, UNCHANGED <<now, sup>>, shown' \in Numbers \cup {0}
    PROVE  WatchInv'
BY DEF WatchInv, WatchTyped, Deadlines, Endings

LEMMA SupervisorWatch ==
    ASSUME WatchInv, ReadInv, WatchStep \/ CrashWatch
    PROVE  WatchInv'
<1>1. /\ now \in Nat /\ DOMAIN sup = Fields /\ sup.stopAt \in Nat /\ sup.cancelAt \in Nat
      /\ sup.until \in Nat /\ shown \in Numbers \cup {0}
      /\ Pause \in Nat \ {0} /\ Admission \in Nat \ {0}
  BY TransformerHoldoutAssumption DEF WatchInv, WatchTyped
<1>2. ASSUME NEW submit \in BOOLEAN, StartWatch(submit) PROVE WatchInv'
  <2>1. sup' = [NotStarted EXCEPT !.pc = "top", !.until = now, !.stopAt = now + Admission,
                                  !.submit = submit] /\ UNCHANGED <<now, shown>>
    BY <1>2 DEF StartWatch, Outside
  <2>2. /\ DOMAIN sup' = Fields /\ sup'.pc = "top" /\ sup'.until = now
        /\ sup'.stopAt = now + Admission /\ sup'.cancelAt = 0 /\ sup'.identity = 0
    BY <2>1 DEF NotStarted, Fields
  <2> QED
    BY <1>1, <2>1, <2>2 DEF WatchInv, WatchTyped, Deadlines, Endings, Busy
<1>3. CASE TopCancel \/ CancelObserved
  <2>1. /\ UNCHANGED <<now, shown>> /\ sup.pc \in {"top", "cancelling"}
        /\ \E c \in {"top", "cancelled", "handler"} :
              sup' = [sup EXCEPT !.cancelStarted = TRUE, !.pc = c, !.until = now]
    BY <1>3 DEF TopCancel, CancelObserved, CancelCall
  <2> QED
    BY <2>1, CancelTried DEF Busy
<1>4. CASE TopRead
  <2>1. UNCHANGED <<now, shown>> /\ sup.pc = "top" /\ ~CancelDue
    BY <1>4 DEF TopRead, Outside
  <2>2. CASE sup' = [sup EXCEPT !.pc = "handler", !.until = now]
    BY <2>1, <2>2, ToHandler
  <2>3. CASE Expires > now /\ sup' = [sup EXCEPT !.pc = "reading", !.until = Expires]
    <3>1. Expires \in Nat /\ now <= Expires
      BY <1>1, <2>3 DEF Expires
    <3>2. sup.identity # 0 => sup.cancelAt # 0 /\ sup.cancelAt < sup.stopAt
      BY <2>1 DEF WatchInv, Deadlines, Busy
    <3>3. sup.identity # 0 /\ sup.ownedLive /\ ~sup.cancelStarted => Expires <= sup.stopAt
      BY <1>1, <3>2 DEF Expires
    <3> HIDE DEF Expires
    <3> QED
      BY <2>1, <2>3, <3>1, <3>2, <3>3, ToCall
  <2> QED
    BY <1>4, <2>2, <2>3 DEF TopRead
<1>5. CASE ReadFails
  <2>1. UNCHANGED <<now, shown>> /\ sup' = [sup EXCEPT !.pc = "handler", !.until = now]
    BY <1>5 DEF ReadFails, Outside
  <2> QED
    BY <2>1, ToHandler
<1>6. CASE CreateOnce
  <2>1. /\ sup.pc = "creating" /\ sup' = [sup EXCEPT !.pc = "top", !.until = now]
        /\ UNCHANGED now /\ shown' \in Numbers \cup {0}
    BY <1>1, <1>6 DEF CreateOnce
  <2>2. /\ DOMAIN sup' = Fields /\ sup'.pc = "top" /\ sup'.until = now
        /\ sup'.identity = sup.identity
        /\ sup'.stopAt = sup.stopAt /\ sup'.cancelAt = sup.cancelAt
    BY <1>1, <2>1, MoveFacts
  <2>3. sup.identity = 0
    BY <2>1 DEF WatchInv, Endings
  <2> QED
    BY <1>1, <2>1, <2>2, <2>3 DEF WatchInv, WatchTyped, Deadlines, Endings, Busy
<1>7. CASE AfterCancel
  <2>1. UNCHANGED <<now, shown>> /\ sup.pc = "cancelled"
    BY <1>7 DEF AfterCancel, Outside
  <2>2. CASE sup' = [sup EXCEPT !.pc = "handler", !.until = now]
    BY <2>1, <2>2, ToHandler
  <2>3. CASE now < sup.stopAt /\ sup' = [sup EXCEPT !.pc = "pausing", !.until = Lesser(now + Pause, sup.stopAt)]
    <3> DEFINE u == Lesser(now + Pause, sup.stopAt)
    <3>1. u \in Nat /\ now <= u /\ u <= sup.stopAt
      BY <1>1, <2>3 DEF Lesser
    <3>2. sup.identity # 0 => sup.cancelAt # 0 /\ sup.cancelAt < sup.stopAt
      BY <2>1 DEF WatchInv, Deadlines, Busy
    <3>3. sup' = [sup EXCEPT !.pc = "pausing", !.until = u]
      BY <2>3
    <3> HIDE DEF u
    <3> QED
      BY <2>1, <3>1, <3>2, <3>3, ToCall
  <2>4. now < sup.stopAt \/ now >= sup.stopAt
    BY <1>1
  <2> QED
    BY <1>7, <2>2, <2>3, <2>4 DEF AfterCancel
<1>8. CASE Deliver
  <2>1. UNCHANGED <<now, shown>> /\ sup.pc = "delivering"
    BY <1>8 DEF Deliver
  <2>2. CASE sup' = [sup EXCEPT !.pc = "handler", !.until = now]
    BY <2>1, <2>2, ToHandler
  <2>3. CASE sup' = [sup EXCEPT !.pc = "pausing", !.delivered = TRUE,
                                !.until = Lesser(now + Pause, sup.cancelAt)]
    <3> DEFINE u == Lesser(now + Pause, sup.cancelAt)
    <3>1. now <= sup.cancelAt
      BY <2>1 DEF WatchInv, Deadlines, Busy
    <3>2. u \in Nat /\ now <= u /\ u <= sup.cancelAt
      BY <1>1, <3>1 DEF Lesser
    <3>3. sup.identity # 0 => sup.cancelAt # 0 /\ sup.cancelAt < sup.stopAt
      BY <2>1 DEF WatchInv, Deadlines, Busy
    <3>4. sup' = [sup EXCEPT !.pc = "pausing", !.delivered = TRUE, !.until = u]
      BY <2>3
    <3> HIDE DEF u
    <3>5. /\ DOMAIN sup' = Fields /\ sup'.pc = "pausing" /\ sup'.until = u
          /\ sup'.identity = sup.identity
          /\ sup'.stopAt = sup.stopAt /\ sup'.cancelAt = sup.cancelAt
      BY <1>1, <3>4 DEF Fields
    <3> QED
      BY <1>1, <2>1, <3>2, <3>3, <3>5 DEF WatchInv, WatchTyped, Deadlines, Endings, Busy
  <2> QED
    BY <1>8, <2>2, <2>3 DEF Deliver
<1>9. CASE EndPause
  <2>1. /\ UNCHANGED <<now, shown>> /\ sup.pc = "pausing" /\ now = sup.until
        /\ sup' = [sup EXCEPT !.pc = "top", !.until = now]
    BY <1>9 DEF EndPause, Outside
  <2>2. /\ sup.identity # 0 => sup.cancelAt # 0 /\ sup.cancelAt < sup.stopAt
        /\ sup.identity # 0 /\ sup.ownedLive /\ ~sup.cancelStarted => now <= sup.stopAt
    BY <2>1 DEF WatchInv, Deadlines, Busy
  <2>3. /\ DOMAIN sup' = Fields /\ sup'.pc = "top" /\ sup'.until = now
        /\ sup'.identity = sup.identity /\ sup'.cancelStarted = sup.cancelStarted
        /\ sup'.ownedLive = sup.ownedLive
        /\ sup'.stopAt = sup.stopAt /\ sup'.cancelAt = sup.cancelAt
    BY <1>1, <2>1, MoveFacts
  <2>4. UNCHANGED <<now, shown>>
    BY <2>1
  <2> QED
    BY <1>1, <2>2, <2>3, <2>4 DEF WatchInv, WatchTyped, Deadlines, Endings, Busy
<1>10. CASE Handler
  <2>1. UNCHANGED <<now, shown>> /\ sup.pc = "handler"
    BY <1>10 DEF Handler
  <2>2. CASE sup' = [sup EXCEPT !.pc = "raised", !.cancelStarted = TRUE]
    <3>1. /\ DOMAIN sup' = Fields /\ sup'.pc = "raised" /\ sup'.until = sup.until
          /\ sup'.stopAt = sup.stopAt /\ sup'.cancelAt = sup.cancelAt
      BY <1>1, <2>2 DEF Fields
    <3>2. sup'.cancelStarted
      BY <1>1, <2>2 DEF Fields
    <3> QED
      BY <1>1, <2>1, <3>1, <3>2 DEF WatchInv, WatchTyped, Deadlines, Endings, Busy
  <2>3. CASE /\ ~(sup.identity # 0 /\ sup.ownedLive /\ ~sup.cancelStarted)
             /\ sup' = [sup EXCEPT !.pc = "raised"]
    <3>1. /\ DOMAIN sup' = Fields /\ sup'.pc = "raised" /\ sup'.until = sup.until
          /\ sup'.stopAt = sup.stopAt /\ sup'.cancelAt = sup.cancelAt
          /\ sup'.identity = sup.identity /\ sup'.ownedLive = sup.ownedLive
          /\ sup'.cancelStarted = sup.cancelStarted
      BY <1>1, <2>3 DEF Fields
    <3> QED
      BY <1>1, <2>1, <2>3, <3>1 DEF WatchInv, WatchTyped, Deadlines, Endings, Busy
  <2> QED
    BY <1>10, <2>2, <2>3 DEF Handler
<1>11. CASE CrashWatch
  <2>1. UNCHANGED <<now, shown>> /\ sup' = [sup EXCEPT !.pc = "crashed"]
    BY <1>11 DEF CrashWatch, Outside
  <2>2. /\ DOMAIN sup' = Fields /\ sup'.pc = "crashed" /\ sup'.until = sup.until
        /\ sup'.stopAt = sup.stopAt /\ sup'.cancelAt = sup.cancelAt
    BY <1>1, <2>1 DEF Fields
  <2> QED
    BY <1>1, <2>1, <2>2 DEF WatchInv, WatchTyped, Deadlines, Endings, Busy
<1> QED
  BY <1>2, <1>3, <1>4, <1>5, <1>6, <1>7, <1>8, <1>9, <1>10, <1>11, ReadAbsentWatch, ReadJobWatch DEF WatchStep

LEMMA WatchNext == ReadInv /\ WatchInv /\ [HoNext]_hoVars => WatchInv'
<1> SUFFICES ASSUME ReadInv, WatchInv, [HoNext]_hoVars PROVE WatchInv'
  OBVIOUS
<1>1. shown \in Numbers \cup {0}
  BY DEF WatchInv, WatchTyped
<1>2. CASE UNCHANGED hoVars \/ DeleteHoldoutJob
  BY <1>1, <1>2, OthersWatch DEF hoVars, DeleteHoldoutJob
<1>3. ASSUME NEW j \in Numbers,
             \/ ExternalJob(j) \/ CancelTakesEffect(j) \/ WaitContext(j) \/ ListHoldout(j)
             \/ ClaimHoldout(j) \/ ReadFinal(j) \/ FinishHoldout(j) \/ PutHoldoutFailed(j) \/ JobDies(j)
             \/ \E passed \in BOOLEAN : CheckParity(j, passed)
      PROVE  WatchInv'
  <2>1. UNCHANGED <<now, sup>> /\ shown' \in Numbers \cup {0}
    BY <1>1, <1>3 DEF ExternalJob, CancelTakesEffect, WaitContext, ListHoldout, ClaimHoldout, ReadFinal,
                      FinishHoldout, PutHoldoutFailed, JobDies, CheckParity, WorkFrame
  <2> QED
    BY <2>1, OthersWatch
<1> QED
  BY <1>2, <1>3, ClockWatch, SupervisorWatch DEF HoNext

\* A live job the supervisor has seen is cancelled before the clock passes its
\* stop time, and before the supervisor raises (holdout_supervision.py,
\* watch_transformer_holdout.py): the safety half of SupervisionIsBounded.
THEOREM OwnedJobCancelled == HoSpec => []OwnedJobIsCancelled
<1>1. WatchInv => OwnedJobIsCancelled
  BY DEF WatchInv, WatchTyped, Deadlines, Endings, OwnedJobIsCancelled, Busy
<1> QED
  BY <1>1, WatchInit, WatchNext, ReadInvariant, PTL DEF HoSpec

--------------------------------------------------------------------------------
\* A worker in one of these has its INTENT under the prefix and has written no
\* marker yet.
Claiming == {"context", "run", "publish", "failing"}

Cited(p) == \E u \in verified : u.publication = p

TcShape ==
    /\ DOMAIN worker = Jobs /\ DOMAIN job = Locations /\ DOMAIN published = Jobs
    /\ DOMAIN prefix = Locations /\ DOMAIN pinned = {"confirmation", "comparison"}
    /\ \A l \in Locations : DOMAIN prefix[l] = {"intent", "context", "failed", "success"}

Priors ==
    /\ \A r \in requests :
        /\ At(r) \in Locations
        /\ r.slot = Inference => DOMAIN r.prior = Dependencies(Inference)
        /\ \A s \in DOMAIN r.prior : Cited(r.prior[s])
    /\ \A c \in {"confirmation", "comparison"} : pinned[c] # Absent =>
        \A s \in DOMAIN pinned[c].prior : Cited(pinned[c].prior[s])
    /\ pinned["confirmation"] # Absent =>
        DOMAIN pinned["confirmation"].prior = {Smoke} \cup Searches
    /\ pinned["comparison"] # Absent =>
        DOMAIN pinned["comparison"].prior = Dependencies(Inference)

\* What a worker has under its prefix, and in what it publishes.
WorkerInv(w) ==
    /\ "pc" \in DOMAIN worker[w]
    /\ worker[w].pc # "none" =>
        /\ {"pc", "request", "context"} \subseteq DOMAIN worker[w]
        /\ worker[w].request \in requests
    /\ worker[w].pc \in Claiming =>
        /\ prefix[At1(w)].intent = w /\ prefix[At1(w)].success = 0 /\ ~prefix[At1(w)].failed
    /\ worker[w].pc = "done" => prefix[At1(w)].success = w
    /\ worker[w].pc = "publish" =>
        (worker[w].request.slot \in Searches => worker[w].result.loss \in Losses)
    /\ published[w] # Absent =>
        /\ worker[w].pc \in {"done", "failed"}
        /\ published[w].request.slot \in Searches => published[w].result.loss \in Losses

PrefixInv(l) ==
    /\ prefix[l].intent = 0 => prefix[l].success = 0 /\ ~prefix[l].failed
    /\ prefix[l].success # 0 =>
        /\ ~prefix[l].failed /\ prefix[l].intent = prefix[l].success
        /\ prefix[l].success \in Jobs /\ published[prefix[l].success] # Absent

\* The provider's job of a name is that of a request of this slot.
JobInv(l) ==
    job[l] # 0 => job[l] \in Jobs /\ worker[job[l]].pc # "none" /\ At1(job[l]) = l

ResultsOf(prior) == [s \in DOMAIN prior |-> published[prior[s]].result]

\* The grid's results are those of its configurations, the model of this
\* configuration has the smallest loss, and the confirmations trained it.
WonBy(results, config) ==
    /\ \A s \in Searches : \E n \in Grid :
         /\ s = <<"search", n>>
         /\ results[s].config = n
         /\ (n = config => results[s].loss = BestLoss({results[t] : t \in Searches}))
    /\ \A s \in Confirmations : results[s].config = config

WinnerOf(v) ==
    LET p == published[v.publication]
        prior == p.request.prior
    IN  /\ v.publication \in Jobs /\ p # Absent
        /\ DOMAIN prior = Dependencies(Inference)
        /\ \A s \in DOMAIN prior :
             prior[s] \in Jobs /\ published[prior[s]] # Absent /\ Cited(prior[s])
        /\ WonBy(ResultsOf(prior), p.result.config)

VerifiedInv(v) == v.publication = v.job /\ (v.location[2] = Inference => WinnerOf(v))

TcInv ==
    /\ TcShape /\ Priors
    /\ \A w \in Jobs : WorkerInv(w)
    /\ \A l \in Locations : PrefixInv(l) /\ JobInv(l)
    /\ \A v \in verified : VerifiedInv(v)
--------------------------------------------------------------------------------
LEMMA LeastNat ==
    ASSUME NEW S \in SUBSET Nat, S # {}
    PROVE  \E m \in S : \A k \in S : m <= k
<1>1. PICK m \in S : \A k \in S : ~(<<k, m>> \in OpToRel(<, Nat))
  BY NatLessThanWellFounded, WFMin
<1>2. \A k \in S : ~(k < m)
  BY <1>1, Zenon DEF OpToRel
<1>3. m \in Nat /\ \A k \in S : k \in Nat
  OBVIOUS
<1>4. QED
  BY <1>2, <1>3

\* select_grid finds a trial whose loss is the smallest.
LEMMA GridSelected ==
    ASSUME NEW trials, trials # {},
           \A t \in trials : t.loss \in Nat /\ t.config \in Nat
    PROVE  /\ SelectGrid(trials) \in trials
           /\ SelectGrid(trials).loss = BestLoss(trials)
<1> DEFINE losses == {t.loss : t \in trials}
<1>1. losses \in SUBSET Nat /\ losses # {}
  OBVIOUS
<1>2. PICK b \in losses : \A l \in losses : b <= l
  <2> HIDE DEF losses
  <2> QED BY <1>1, LeastNat
<1> DEFINE ties == {t \in trials : t.loss = b}
           configs == {t.config : t \in ties}
<1>3. configs \in SUBSET Nat /\ configs # {}
  BY <1>2
<1>4. PICK c \in configs : \A d \in configs : c <= d
  <2> HIDE DEF configs, ties, losses
  <2> QED BY <1>3, LeastNat
<1>5. PICK t \in trials : t.loss = b /\ t.config = c
  BY <1>4
<1>6. ASSUME NEW u \in trials
      PROVE t.loss < u.loss \/ (t.loss = u.loss /\ t.config <= u.config)
  <2>1. b <= u.loss /\ b \in Nat /\ u.loss \in Nat
    BY <1>1, <1>2
  <2>2. CASE u.loss = b
    <3>1. u.config \in configs
      BY <2>2
    <3> HIDE DEF configs, ties
    <3> QED BY <1>4, <1>5, <2>2, <3>1
  <2>3. CASE u.loss # b
    BY <1>5, <2>1, <2>3
  <2> QED BY <2>2, <2>3
<1> HIDE DEF losses, ties, configs
<1>7. /\ SelectGrid(trials) \in trials
      /\ \A u \in trials :
           \/ SelectGrid(trials).loss < u.loss
           \/ SelectGrid(trials).loss = u.loss /\ SelectGrid(trials).config <= u.config
  BY <1>5, <1>6 DEF SelectGrid
<1> DEFINE s == SelectGrid(trials)
<1>8. s \in trials /\ \A u \in trials : s.loss <= u.loss
  <2> HIDE DEF s
  <2>1. s \in trials /\ \A u \in trials : s.loss < u.loss \/ s.loss = u.loss
    BY <1>7 DEF s
  <2> QED BY <2>1
<1> HIDE DEF s
<1>9. /\ BestLoss(trials) \in losses /\ \A u \in trials : BestLoss(trials) <= u.loss
  <2>1. s.loss \in losses
    BY <1>8 DEF losses
  <2> QED BY <1>8, <2>1 DEF BestLoss, losses
<1>10. PICK u \in trials : BestLoss(trials) = u.loss
  BY <1>9 DEF losses
<1>11. s.loss = BestLoss(trials)
  <2>1. s.loss <= BestLoss(trials) /\ BestLoss(trials) <= s.loss
    BY <1>8, <1>9, <1>10
  <2>2. s.loss \in Nat /\ BestLoss(trials) \in Nat
    BY <1>8, <1>10
  <2> QED BY <2>1, <2>2
<1> QED
  BY <1>8, <1>11 DEF s

\* What a step leaves of the evidence: publications stay as they were, and
\* nothing verified or prepared is withdrawn.
EvidenceStays ==
    /\ \A p \in Jobs : published[p] # Absent => published'[p] = published[p]
    /\ verified \subseteq verified' /\ requests \subseteq requests'

LEMMA Slots ==
    /\ Dependencies(Inference) = {Smoke} \cup Searches \cup Confirmations
    /\ Inference \notin {Smoke} \cup Searches \cup Confirmations
    /\ Smoke \notin Searches \cup Confirmations
    /\ Searches \cap Confirmations = {}
<1>1. Inference \notin {Smoke} \cup Searches \cup Confirmations
  BY DEF Inference, Smoke, Searches, Confirmations
<1>2. Smoke \notin Searches \cup Confirmations
  BY DEF Smoke, Searches, Confirmations
<1>3. Searches \cap Confirmations = {}
  BY DEF Searches, Confirmations
<1>4. Dependencies(Inference) = {Smoke} \cup Searches \cup Confirmations
  BY <1>1 DEF Dependencies
<1>5. QED
  BY <1>1, <1>2, <1>3, <1>4

\* What an inference cites lies under one of the campaigns' prefixes.
LEMMA DependencyLocated ==
    ASSUME NEW r, At(r) \in Locations, r.slot = Inference,
           NEW s \in Dependencies(Inference)
    PROVE  ArtifactPrefix(r.campaign, s) \in Locations
<1>1. s \in {Smoke} \cup Searches \cup Confirmations /\ s # Inference
  BY Slots
<1>2. s \in SlotNames
  BY <1>1 DEF SlotNames
<1>3. CASE s \in Confirmations
  BY <1>1, <1>2, <1>3 DEF ArtifactPrefix, Locations
<1>4. CASE s \notin Confirmations
  BY <1>1, <1>2, <1>4 DEF ArtifactPrefix, Locations
<1>5. QED
  BY <1>3, <1>4

LEMMA WinnerStays ==
    ASSUME NEW v, WinnerOf(v), EvidenceStays
    PROVE  WinnerOf(v)'
<1> DEFINE p == published[v.publication]
           prior == p.request.prior
<1>1. v.publication \in Jobs /\ p # Absent
  BY DEF WinnerOf
<1>2. published'[v.publication] = p
  BY <1>1 DEF EvidenceStays
<1>3. \A s \in DOMAIN prior :
        /\ prior[s] \in Jobs /\ published[prior[s]] # Absent /\ Cited(prior[s])
        /\ published'[prior[s]] = published[prior[s]]
  BY DEF WinnerOf, EvidenceStays
<1>4. \A s \in DOMAIN prior : \E u \in verified' : u.publication = prior[s]
  BY <1>3 DEF Cited, EvidenceStays
<1>5. [s \in DOMAIN prior |-> published'[prior[s]].result] = ResultsOf(prior)
  BY <1>3 DEF ResultsOf
<1>6. WonBy(ResultsOf(prior), p.result.config) /\ DOMAIN prior = Dependencies(Inference)
  BY DEF WinnerOf
<1> HIDE DEF prior
<1>7. WonBy([s \in DOMAIN prior |-> published'[prior[s]].result], p.result.config)
  BY <1>5, <1>6
<1>8. published'[v.publication].request.prior = prior
  BY <1>2 DEF prior
<1>9. \A s \in DOMAIN prior : prior[s] \in Jobs /\ published'[prior[s]] # Absent
  BY <1>3
<1> DEFINE results == [s \in DOMAIN prior |-> published'[prior[s]].result]
<1>10. ResultsOf(published[v.publication].request.prior)' = results
  BY <1>8 DEF ResultsOf
<1> HIDE DEF results
<1>11. WonBy(results, p.result.config)
  BY <1>7 DEF results
<1>12. WonBy(ResultsOf(published[v.publication].request.prior), published[v.publication].result.config)'
  <2>1. published'[v.publication].result.config = p.result.config
    BY <1>2
  <2> HIDE DEF p
  <2>2. WonBy(results, published'[v.publication].result.config)
    BY <1>11, <2>1
  <2> QED BY <1>10, <2>2 DEF WonBy, BestLoss
<1>13. QED
  <2>1. published'[v.publication] # Absent
    BY <1>1, <1>2
  <2> QED BY <1>1, <1>4, <1>6, <1>8, <1>9, <1>12, <2>1 DEF WinnerOf, Cited

\* The evidence half of the invariant is kept by any step that leaves the
\* requests, the pins and the verified slots alone.
LEMMA EvidenceKept ==
    ASSUME TcInv, EvidenceStays, requests' = requests, pinned' = pinned, verified' = verified
    PROVE  Priors' /\ \A v \in verified' : VerifiedInv(v)'
<1>1. Priors'
  BY DEF TcInv, Priors, Cited, At
<1>2. ASSUME NEW v \in verified PROVE VerifiedInv(v)'
  <2>1. VerifiedInv(v)
    BY DEF TcInv
  <2>2. CASE v.location[2] = Inference
    <3>1. WinnerOf(v)'
      BY <2>1, <2>2, WinnerStays DEF VerifiedInv
    <3> QED BY <2>1, <3>1 DEF VerifiedInv
  <2>3. CASE v.location[2] # Inference
    BY <2>1, <2>3 DEF VerifiedInv
  <2> QED BY <2>2, <2>3
<1>3. QED
  BY <1>1, <1>2
--------------------------------------------------------------------------------
\* A step of one worker, and what it stores under its prefix.
Advances(w, pc) ==
    /\ DOMAIN worker' = Jobs /\ \A v \in Jobs : v # w => worker'[v] = worker[v]
    /\ {"pc", "request", "context"} \subseteq DOMAIN worker'[w]
    /\ worker'[w].pc = pc /\ worker'[w].request = worker[w].request

StoresAt(l) ==
    /\ DOMAIN prefix' = Locations /\ \A k \in Locations : k # l => prefix'[k] = prefix[k]
    /\ DOMAIN prefix'[l] = {"intent", "context", "failed", "success"}

Same == requests' = requests /\ pinned' = pinned /\ verified' = verified

LEMMA GotoAdvances ==
    ASSUME TcInv, NEW w \in Jobs, worker[w].pc # "none", NEW pc, Goto(w, pc)
    PROVE  Advances(w, pc)
<1>1. DOMAIN worker = Jobs /\ {"pc", "request", "context"} \subseteq DOMAIN worker[w]
  BY DEF TcInv, TcShape, WorkerInv
<1>2. QED
  BY <1>1 DEF Goto, Advances

LEMMA WorkerLocated ==
    ASSUME TcInv, NEW w \in Jobs, worker[w].pc # "none"
    PROVE  At1(w) \in Locations /\ worker[w].request \in requests
<1>1. worker[w].request \in requests
  BY DEF TcInv, WorkerInv
<1>2. QED
  BY <1>1 DEF TcInv, Priors, At1

\* The worker moves and nothing is stored.
LEMMA MoveKeeps ==
    ASSUME TcInv, NEW w \in Jobs, NEW pc, Advances(w, pc), Same,
           job' = job, prefix' = prefix, published' = published,
           worker[w].pc \notin {"none", "done", "failed"}, pc \notin {"none", "done"},
           pc \in Claiming => worker[w].pc \in Claiming,
           pc = "publish" =>
             (worker[w].request.slot \in Searches => worker'[w].result.loss \in Losses)
    PROVE  TcInv'
<1>1. EvidenceStays
  BY DEF EvidenceStays, Same
<1>2. Priors' /\ \A v \in verified' : VerifiedInv(v)'
  BY <1>1, EvidenceKept DEF Same
<1>3. TcShape'
  BY DEF TcInv, TcShape, Advances, Same
<1>4. ASSUME NEW v \in Jobs PROVE WorkerInv(v)'
  <2>1. WorkerInv(v)
    BY DEF TcInv
  <2>2. CASE v # w
    <3>1. worker'[v] = worker[v]
      BY <2>2 DEF Advances
    <3> QED BY <2>1, <3>1 DEF WorkerInv, At1, At, Same
  <2>3. CASE v = w
    <3>1. At1(w)' = At1(w)
      BY DEF At1, At, Advances
    <3>2. published[w] = Absent
      BY <2>1, <2>3 DEF WorkerInv
    <3> QED BY <2>1, <2>3, <3>1, <3>2 DEF WorkerInv, Advances, Same
  <2> QED BY <2>2, <2>3
<1>5. ASSUME NEW l \in Locations PROVE PrefixInv(l)' /\ JobInv(l)'
  <2>1. PrefixInv(l) /\ JobInv(l)
    BY DEF TcInv
  <2>2. PrefixInv(l)'
    BY <2>1 DEF PrefixInv
  <2>3. JobInv(l)'
    BY <2>1 DEF JobInv, At1, At, Advances
  <2> QED BY <2>2, <2>3
<1>6. QED
  BY <1>2, <1>3, <1>4, <1>5 DEF TcInv

\* INTENT is stored: no other worker is past its claim of this prefix.
LEMMA ClaimKeeps ==
    ASSUME TcInv, NEW w \in Jobs, NEW pc, Advances(w, pc), Same,
           job' = job, published' = published,
           worker[w].pc = "intent", pc \in {"context", "failed"},
           prefix[At1(w)].intent = 0, StoresAt(At1(w)),
           prefix'[At1(w)].intent = w,
           prefix'[At1(w)].success = prefix[At1(w)].success,
           prefix'[At1(w)].failed = prefix[At1(w)].failed
    PROVE  TcInv'
<1>1. EvidenceStays
  BY DEF EvidenceStays, Same
<1>2. Priors' /\ \A v \in verified' : VerifiedInv(v)'
  BY <1>1, EvidenceKept DEF Same
<1>3. At1(w) \in Locations
  BY WorkerLocated
<1>4. prefix[At1(w)].success = 0 /\ ~prefix[At1(w)].failed
  BY <1>3 DEF TcInv, PrefixInv
<1>5. TcShape'
  BY DEF TcInv, TcShape, Advances, StoresAt, Same
<1>6. w # 0 /\ \A v \in Jobs : v # 0
  BY DEF Jobs
<1>7. ASSUME NEW v \in Jobs PROVE WorkerInv(v)'
  <2>1. WorkerInv(v)
    BY DEF TcInv
  <2>2. CASE v # w
    <3>1. worker'[v] = worker[v] /\ At1(v)' = At1(v)
      BY <2>2 DEF Advances, At1, At
    <3>2. CASE worker[v].pc \in Claiming \cup {"done"}
      <4>1. worker[v].pc # "none"
        BY <3>2 DEF Claiming
      <4>2. At1(v) \in Locations
        BY <4>1, WorkerLocated
      <4>3. At1(v) # At1(w)
        BY <1>4, <1>6, <2>1, <3>2 DEF WorkerInv
      <4>4. prefix'[At1(v)] = prefix[At1(v)]
        BY <4>2, <4>3 DEF StoresAt
      <4> QED BY <2>1, <3>1, <4>4 DEF WorkerInv, Same
    <3>3. CASE worker[v].pc \notin Claiming \cup {"done"}
      BY <2>1, <3>1, <3>3 DEF WorkerInv, Same, Claiming
    <3> QED BY <3>2, <3>3
  <2>3. CASE v = w
    <3>1. At1(w)' = At1(w)
      BY DEF At1, At, Advances
    <3>2. published[w] = Absent
      BY <2>1, <2>3 DEF WorkerInv
    <3> QED BY <1>4, <2>1, <2>3, <3>1, <3>2 DEF WorkerInv, Advances, Same, Claiming
  <2> QED BY <2>2, <2>3
<1>8. ASSUME NEW l \in Locations PROVE PrefixInv(l)' /\ JobInv(l)'
  <2>1. PrefixInv(l) /\ JobInv(l)
    BY DEF TcInv
  <2>2. PrefixInv(l)'
    <3>1. CASE l = At1(w)
      BY <1>4, <1>6, <3>1 DEF PrefixInv
    <3>2. CASE l # At1(w)
      BY <2>1, <3>2 DEF PrefixInv, StoresAt
    <3> QED BY <3>1, <3>2
  <2>3. JobInv(l)'
    BY <2>1 DEF JobInv, At1, At, Advances
  <2> QED BY <2>2, <2>3
<1>9. QED
  BY <1>2, <1>5, <1>7, <1>8 DEF TcInv

\* FAILED is stored by the worker whose INTENT holds the prefix.
LEMMA FailureKeeps ==
    ASSUME TcInv, NEW w \in Jobs, Advances(w, "failed"), Same,
           job' = job, published' = published, worker[w].pc = "failing",
           StoresAt(At1(w)), prefix'[At1(w)].intent = prefix[At1(w)].intent,
           prefix'[At1(w)].success = prefix[At1(w)].success
    PROVE  TcInv'
<1>1. EvidenceStays
  BY DEF EvidenceStays, Same
<1>2. Priors' /\ \A v \in verified' : VerifiedInv(v)'
  BY <1>1, EvidenceKept DEF Same
<1>3. At1(w) \in Locations
  BY WorkerLocated
<1>4. prefix[At1(w)].success = 0 /\ prefix[At1(w)].intent = w
  BY DEF TcInv, WorkerInv, Claiming
<1>5. TcShape'
  BY DEF TcInv, TcShape, Advances, StoresAt, Same
<1>6. w # 0 /\ \A v \in Jobs : v # 0
  BY DEF Jobs
<1>7. ASSUME NEW v \in Jobs PROVE WorkerInv(v)'
  <2>1. WorkerInv(v)
    BY DEF TcInv
  <2>2. CASE v # w
    <3>1. worker'[v] = worker[v] /\ At1(v)' = At1(v)
      BY <2>2 DEF Advances, At1, At
    <3>2. CASE worker[v].pc \in Claiming \cup {"done"}
      <4>1. worker[v].pc # "none"
        BY <3>2 DEF Claiming
      <4>2. At1(v) \in Locations
        BY <4>1, WorkerLocated
      <4>3. At1(v) # At1(w)
        BY <1>4, <1>6, <2>1, <2>2, <3>2 DEF WorkerInv
      <4>4. prefix'[At1(v)] = prefix[At1(v)]
        BY <4>2, <4>3 DEF StoresAt
      <4> QED BY <2>1, <3>1, <4>4 DEF WorkerInv, Same
    <3>3. CASE worker[v].pc \notin Claiming \cup {"done"}
      BY <2>1, <3>1, <3>3 DEF WorkerInv, Same, Claiming
    <3> QED BY <3>2, <3>3
  <2>3. CASE v = w
    <3>1. At1(w)' = At1(w)
      BY DEF At1, At, Advances
    <3>2. published[w] = Absent
      BY <2>1, <2>3 DEF WorkerInv
    <3> QED BY <2>1, <2>3, <3>1, <3>2 DEF WorkerInv, Advances, Same, Claiming
  <2> QED BY <2>2, <2>3
<1>8. ASSUME NEW l \in Locations PROVE PrefixInv(l)' /\ JobInv(l)'
  <2>1. PrefixInv(l) /\ JobInv(l)
    BY DEF TcInv
  <2>2. PrefixInv(l)'
    <3>1. CASE l = At1(w)
      BY <1>4, <1>6, <3>1 DEF PrefixInv
    <3>2. CASE l # At1(w)
      BY <2>1, <3>2 DEF PrefixInv, StoresAt
    <3> QED BY <3>1, <3>2
  <2>3. JobInv(l)'
    BY <2>1 DEF JobInv, At1, At, Advances
  <2> QED BY <2>2, <2>3
<1>9. QED
  BY <1>2, <1>5, <1>7, <1>8 DEF TcInv

\* SUCCESS is stored over an INTENT of the worker's own, with no other marker.
LEMMA PublicationKeeps ==
    ASSUME TcInv, NEW w \in Jobs, NEW pc, Advances(w, pc), Same, job' = job,
           worker[w].pc = "publish", pc \in {"done", "failed"},
           StoresAt(At1(w)), prefix'[At1(w)].intent = prefix[At1(w)].intent,
           prefix'[At1(w)].failed = prefix[At1(w)].failed, prefix'[At1(w)].success = w,
           DOMAIN published' = Jobs,
           \A v \in Jobs : v # w => published'[v] = published[v],
           published'[w] # Absent, published'[w].request = worker[w].request,
           published'[w].result = worker[w].result
    PROVE  TcInv'
<1>1. published[w] = Absent
  BY DEF TcInv, WorkerInv
<1>2. EvidenceStays
  BY <1>1 DEF EvidenceStays, Same
<1>3. Priors' /\ \A v \in verified' : VerifiedInv(v)'
  BY <1>2, EvidenceKept DEF Same
<1>4. At1(w) \in Locations
  BY WorkerLocated
<1>5. /\ prefix[At1(w)].success = 0 /\ prefix[At1(w)].intent = w
      /\ ~prefix[At1(w)].failed
      /\ worker[w].request.slot \in Searches => worker[w].result.loss \in Losses
  BY DEF TcInv, WorkerInv, Claiming
<1>6. TcShape'
  BY DEF TcInv, TcShape, Advances, StoresAt, Same
<1>7. w # 0 /\ \A v \in Jobs : v # 0
  BY DEF Jobs
<1>8. ASSUME NEW v \in Jobs PROVE WorkerInv(v)'
  <2>1. WorkerInv(v)
    BY DEF TcInv
  <2>2. CASE v # w
    <3>1. worker'[v] = worker[v] /\ At1(v)' = At1(v) /\ published'[v] = published[v]
      BY <2>2 DEF Advances, At1, At
    <3>2. CASE worker[v].pc \in Claiming \cup {"done"}
      <4>1. worker[v].pc # "none"
        BY <3>2 DEF Claiming
      <4>2. At1(v) \in Locations
        BY <4>1, WorkerLocated
      <4>3. At1(v) # At1(w)
        BY <1>5, <1>7, <2>1, <2>2, <3>2 DEF WorkerInv
      <4>4. prefix'[At1(v)] = prefix[At1(v)]
        BY <4>2, <4>3 DEF StoresAt
      <4> QED BY <2>1, <3>1, <4>4 DEF WorkerInv, Same
    <3>3. CASE worker[v].pc \notin Claiming \cup {"done"}
      BY <2>1, <3>1, <3>3 DEF WorkerInv, Same, Claiming
    <3> QED BY <3>2, <3>3
  <2>3. CASE v = w
    <3>1. At1(w)' = At1(w)
      BY DEF At1, At, Advances
    <3> QED BY <1>5, <2>1, <2>3, <3>1 DEF WorkerInv, Advances, Same, Claiming
  <2> QED BY <2>2, <2>3
<1>9. ASSUME NEW l \in Locations PROVE PrefixInv(l)' /\ JobInv(l)'
  <2>1. PrefixInv(l) /\ JobInv(l)
    BY DEF TcInv
  <2>2. PrefixInv(l)'
    <3>1. CASE l = At1(w)
      BY <1>5, <1>7, <3>1 DEF PrefixInv
    <3>2. CASE l # At1(w)
      <4>1. prefix'[l] = prefix[l]
        BY <3>2 DEF StoresAt
      <4>2. CASE prefix[l].success = 0
        BY <2>1, <4>1, <4>2 DEF PrefixInv
      <4>3. CASE prefix[l].success # 0
        <5>1. prefix[l].success \in Jobs /\ published[prefix[l].success] # Absent
          BY <2>1, <4>3 DEF PrefixInv
        <5>2. published'[prefix[l].success] # Absent
          BY <5>1
        <5> QED BY <2>1, <4>1, <5>1, <5>2 DEF PrefixInv
      <4> QED BY <4>2, <4>3
    <3> QED BY <3>1, <3>2
  <2>3. JobInv(l)'
    BY <2>1 DEF JobInv, At1, At, Advances
  <2> QED BY <2>2, <2>3
<1>10. QED
  BY <1>3, <1>6, <1>8, <1>9 DEF TcInv

\* A step that touches neither the outcomes nor the workers, such as the
\* attester's, keeps the invariant.
LEMMA OutcomesStay ==
    ASSUME TcInv, Same, job' = job, worker' = worker, published' = published,
           DOMAIN prefix' = Locations,
           \A l \in Locations :
             /\ DOMAIN prefix'[l] = {"intent", "context", "failed", "success"}
             /\ prefix'[l].intent = prefix[l].intent
             /\ prefix'[l].success = prefix[l].success
             /\ prefix'[l].failed = prefix[l].failed
    PROVE  TcInv'
<1>1. EvidenceStays
  BY DEF EvidenceStays, Same
<1>2. Priors' /\ \A v \in verified' : VerifiedInv(v)'
  BY <1>1, EvidenceKept DEF Same
<1>3. TcShape'
  BY DEF TcInv, TcShape, Same
<1>4. ASSUME NEW v \in Jobs PROVE WorkerInv(v)'
  <2>1. WorkerInv(v) /\ At1(v)' = At1(v)
    BY DEF TcInv, At1, At
  <2>2. CASE worker[v].pc = "none"
    BY <2>1, <2>2 DEF WorkerInv, Claiming, Same
  <2>3. CASE worker[v].pc # "none"
    <3>1. At1(v) \in Locations
      BY <2>3, WorkerLocated
    <3>2. /\ prefix'[At1(v)].intent = prefix[At1(v)].intent
          /\ prefix'[At1(v)].success = prefix[At1(v)].success
          /\ prefix'[At1(v)].failed = prefix[At1(v)].failed
      BY <3>1
    <3> QED BY <2>1, <3>2 DEF WorkerInv, Same
  <2> QED BY <2>2, <2>3
<1>5. ASSUME NEW l \in Locations PROVE PrefixInv(l)' /\ JobInv(l)'
  BY DEF TcInv, PrefixInv, JobInv, At1, At
<1>6. QED
  BY <1>2, <1>3, <1>4, <1>5 DEF TcInv

LEMMA StoreKeepsOthers ==
    ASSUME TcInv, NEW l \in Locations, NEW value,
           NEW field \in {"intent", "context", "failed", "success"}, Store(l, field, value)
    PROVE  /\ StoresAt(l) /\ prefix'[l][field] = value
           /\ \A f \in {"intent", "context", "failed", "success"} :
                f # field => prefix'[l][f] = prefix[l][f]
<1>1. DOMAIN prefix = Locations /\ DOMAIN prefix[l] = {"intent", "context", "failed", "success"}
  BY DEF TcInv, TcShape
<1>2. QED
  BY <1>1 DEF Store, StoresAt

LEMMA AttesterSteps ==
    ASSUME TcInv,
           \/ \E r \in requests : AttestJob(r)
           \/ \E l \in Locations : AttestIntent(l) \/ PublishContext(l) \/ AttestEnds(l)
    PROVE  TcInv'
<1>1. Same /\ job' = job /\ worker' = worker /\ published' = published
  BY DEF AttestJob, AttestIntent, PublishContext, AttestEnds, AttestFrame, Same
<1>2. CASE prefix' = prefix
  BY <1>1, <1>2, OutcomesStay DEF TcInv, TcShape
<1>3. CASE prefix' # prefix
  <2>1. PICK l \in Locations : PublishContext(l) /\ prefix' # prefix
    BY <1>3 DEF AttestJob, AttestIntent, AttestEnds
  <2>2. PICK c : Store(l, "context", c)
    BY <2>1 DEF PublishContext
  <2>3. /\ StoresAt(l) /\ prefix'[l].intent = prefix[l].intent
        /\ prefix'[l].success = prefix[l].success /\ prefix'[l].failed = prefix[l].failed
    BY <2>2, StoreKeepsOthers
  <2>4. DOMAIN prefix' = Locations
    BY <2>3 DEF StoresAt
  <2>5. \A k \in Locations :
             /\ DOMAIN prefix'[k] = {"intent", "context", "failed", "success"}
             /\ prefix'[k].intent = prefix[k].intent
             /\ prefix'[k].success = prefix[k].success
             /\ prefix'[k].failed = prefix[k].failed
    BY <2>3 DEF StoresAt, TcInv, TcShape
  <2> QED BY <1>1, <2>4, <2>5, OutcomesStay
<1>4. QED
  BY <1>2, <1>3

LEMMA WorkerSteps ==
    ASSUME TcInv, NEW w \in Jobs, WorkerStep(w)
    PROVE  TcInv'
<1>1. worker[w].pc # "none"
  BY DEF WorkerStep, ListPrefix, PutIntent, ReadContext, ContextExpires, RunSlot, RunFails,
         RunUncertain, Finish, FinishFails, PutFailed, Crash, Live, Ended
<1>2. At1(w) \in Locations
  BY <1>1, WorkerLocated
<1>3. ASSUME NEW pc, Goto(w, pc) PROVE Advances(w, pc)
  BY <1>1, <1>3, GotoAdvances
<1>4. CASE ListPrefix(w)
  <2>1. Same /\ job' = job /\ prefix' = prefix /\ published' = published
    BY <1>4 DEF ListPrefix, WorkerFrame, Same
  <2>2. PICK pc \in {"intent", "failed"} : Goto(w, pc)
    BY <1>4 DEF ListPrefix
  <2>3. worker[w].pc = "list" /\ Advances(w, pc)
    BY <1>3, <1>4, <2>2 DEF ListPrefix
  <2> QED BY <2>1, <2>2, <2>3, MoveKeeps DEF Claiming
<1>5. CASE ReadContext(w)
  <2>1. Same /\ job' = job /\ prefix' = prefix /\ published' = published
    BY <1>5 DEF ReadContext, WorkerFrame, Same
  <2>2. worker[w].pc = "context"
    BY <1>5 DEF ReadContext
  <2>3. PICK pc \in {"run", "failing"} : Advances(w, pc)
    <3>1. DOMAIN worker = Jobs /\ {"pc", "request", "context"} \subseteq DOMAIN worker[w]
      BY <1>1 DEF TcInv, TcShape, WorkerInv
    <3>2. PICK pc \in {"run", "failing"} :
            worker' = [worker EXCEPT ![w].pc = pc, ![w].context = prefix[At1(w)].context]
      BY <1>5 DEF ReadContext
    <3> QED BY <3>1, <3>2 DEF Advances
  <2> QED BY <2>1, <2>2, <2>3, MoveKeeps DEF Claiming
<1>6. CASE ContextExpires(w) \/ RunFails(w) \/ RunUncertain(w) \/ FinishFails(w)
  <2>1. Same /\ job' = job /\ prefix' = prefix /\ published' = published
    BY <1>6 DEF ContextExpires, RunFails, RunUncertain, FinishFails, WorkerFrame, Same
  <2>2. worker[w].pc \in {"context", "run", "publish"}
    BY <1>6 DEF ContextExpires, RunFails, RunUncertain, FinishFails
  <2>3. PICK pc \in {"failing", "failed"} : Goto(w, pc)
    BY <1>6 DEF ContextExpires, RunFails, RunUncertain, FinishFails
  <2>4. Advances(w, pc)
    BY <1>3, <2>3
  <2> QED BY <2>1, <2>2, <2>3, <2>4, MoveKeeps DEF Claiming
<1>7. CASE Crash(w)
  <2>1. Same /\ job' = job /\ prefix' = prefix /\ published' = published
    BY <1>7 DEF Crash, WorkerFrame, Same
  <2>2. worker[w].pc \notin {"none", "done", "failed"} /\ Advances(w, "dead")
    BY <1>3, <1>7 DEF Crash, Live, Ended
  <2> QED BY <2>1, <2>2, MoveKeeps DEF Claiming
<1>8. ASSUME NEW b \in BOOLEAN, PutIntent(w, b) PROVE TcInv'
  <2>1. Same /\ job' = job /\ published' = published /\ worker[w].pc = "intent"
    BY <1>8 DEF PutIntent, WorkerFrame, Same
  <2>2. CASE prefix' = prefix /\ Goto(w, "failed")
    <3>1. Advances(w, "failed")
      BY <1>3, <2>2
    <3> QED BY <2>1, <2>2, <3>1, MoveKeeps DEF Claiming
  <2>3. CASE ~(prefix' = prefix /\ Goto(w, "failed"))
    <3>1. prefix[At1(w)].intent = 0 /\ Store(At1(w), "intent", w)
      BY <1>8, <2>3 DEF PutIntent
    <3>2. PICK pc \in {"context", "failed"} : Goto(w, pc)
      BY <1>8 DEF PutIntent
    <3>3. Advances(w, pc)
      BY <1>3, <3>2
    <3>4. PICK l \in Locations : l = At1(w)
      BY <1>2
    <3>5. /\ StoresAt(l) /\ prefix'[l].intent = w
          /\ prefix'[l].success = prefix[l].success /\ prefix'[l].failed = prefix[l].failed
      BY <3>1, <3>4, StoreKeepsOthers
    <3> QED BY <2>1, <3>1, <3>3, <3>4, <3>5, ClaimKeeps
  <2> QED BY <2>2, <2>3
<1>9. ASSUME NEW b \in BOOLEAN, Finish(w, b) PROVE TcInv'
  <2>1. Same /\ job' = job /\ worker[w].pc = "publish"
    BY <1>9 DEF Finish, Same
  <2>2. PICK pc \in {"done", "failed"} : Goto(w, pc)
    BY <1>9 DEF Finish
  <2>3. Advances(w, pc)
    BY <1>3, <2>2
  <2>4. PICK l \in Locations : l = At1(w)
    BY <1>2
  <2>5. Store(l, "success", w)
    BY <1>9, <2>4 DEF Finish
  <2>6. /\ StoresAt(l) /\ prefix'[l].success = w
        /\ prefix'[l].intent = prefix[l].intent /\ prefix'[l].failed = prefix[l].failed
    BY <2>5, StoreKeepsOthers
  <2>7. DOMAIN published = Jobs
    BY DEF TcInv, TcShape
  <2> DEFINE rec == [request |-> worker[w].request, context |-> worker[w].context,
                     result |-> worker[w].result]
  <2>8. rec # Absent /\ rec.request = worker[w].request /\ rec.result = worker[w].result
    BY DEF Absent
  <2>9. published' = [published EXCEPT ![w] = rec]
    BY <1>9 DEF Finish
  <2> HIDE DEF rec
  <2>10. /\ DOMAIN published' = Jobs /\ published'[w] = rec
         /\ \A v \in Jobs : v # w => published'[v] = published[v]
    BY <2>7, <2>9
  <2> QED BY <2>1, <2>2, <2>3, <2>4, <2>6, <2>8, <2>10, PublicationKeeps
<1>10. ASSUME NEW loss \in Losses, RunSlot(w, loss) PROVE TcInv'
  <2>1. Same /\ job' = job /\ prefix' = prefix /\ published' = published
    BY <1>10 DEF RunSlot, WorkerFrame, Same
  <2>2. worker[w].pc = "run"
    BY <1>10 DEF RunSlot
  <2>3. CASE Goto(w, "failing")
    <3>1. Advances(w, "failing")
      BY <1>3, <2>3
    <3> QED BY <2>1, <2>2, <3>1, MoveKeeps DEF Claiming
  <2>4. CASE ~Goto(w, "failing")
    <3> DEFINE request == worker[w].request
    <3>1. PICK outcome :
            /\ worker' = [worker EXCEPT ![w] = [pc |-> "publish", request |-> request,
                            context |-> worker[w].context, result |-> outcome]]
            /\ (request.slot \notin {Smoke, Inference} => outcome.loss = loss)
      <4> DEFINE winner == SelectGrid(GridOf(request.prior))
                 trained == [config |-> TrialOf(request), loss |-> loss, stable |-> TRUE]
                 outcome == IF request.slot = Smoke
                           THEN [config |-> 0, loss |-> 0, stable |-> TRUE]
                           ELSE IF request.slot = Inference
                           THEN [config |-> winner.config, loss |-> winner.loss,
                                 stable |-> SeedStability(request.prior, winner)]
                           ELSE trained
      <4>1. worker' = [worker EXCEPT ![w] = [pc |-> "publish", request |-> request,
                         context |-> worker[w].context, result |-> outcome]]
        BY <1>10, <2>4 DEF RunSlot
      <4>2. request.slot \notin {Smoke, Inference} => outcome = trained
        BY Zenon
      <4>3. trained.loss = loss
        OBVIOUS
      <4> HIDE DEF trained, outcome
      <4> QED BY <4>1, <4>2, <4>3
    <3>2. DOMAIN worker = Jobs
      BY DEF TcInv, TcShape
    <3>3. Advances(w, "publish") /\ worker'[w].result = outcome
      BY <3>1, <3>2 DEF Advances
    <3>4. request.slot \in Searches => worker'[w].result.loss \in Losses
      BY <3>1, <3>3, Slots
    <3> QED BY <2>1, <2>2, <3>3, <3>4, MoveKeeps DEF Claiming
  <2> QED BY <2>3, <2>4
<1>11. CASE PutFailed(w)
  <2>1. Same /\ job' = job /\ published' = published /\ worker[w].pc = "failing"
    BY <1>11 DEF PutFailed, WorkerFrame, Same
  <2>2. Advances(w, "failed")
    BY <1>3, <1>11 DEF PutFailed
  <2>3. CASE prefix' = prefix
    BY <2>1, <2>2, <2>3, MoveKeeps DEF Claiming
  <2>4. CASE prefix' # prefix
    <3>1. PICK l \in Locations : l = At1(w)
      BY <1>2
    <3>2. Store(l, "failed", TRUE)
      BY <1>11, <2>4, <3>1 DEF PutFailed
    <3>3. /\ StoresAt(l) /\ prefix'[l].success = prefix[l].success
          /\ prefix'[l].intent = prefix[l].intent
      BY <3>2, StoreKeepsOthers
    <3> QED BY <2>1, <2>2, <3>1, <3>3, FailureKeeps
  <2> QED BY <2>3, <2>4
<1>12. QED
  BY <1>4, <1>5, <1>6, <1>7, <1>8, <1>9, <1>10, <1>11 DEF WorkerStep
--------------------------------------------------------------------------------
\* Preparing and pinning add requests and pins, and nothing else changes.
LEMMA PreparedKeeps ==
    ASSUME TcInv, requests \subseteq requests', verified' = verified,
           DOMAIN pinned' = {"confirmation", "comparison"}, Priors',
           job' = job, worker' = worker, prefix' = prefix, published' = published
    PROVE  TcInv'
<1>1. EvidenceStays
  BY DEF EvidenceStays
<1>2. TcShape'
  BY DEF TcInv, TcShape
<1>3. ASSUME NEW v \in verified PROVE VerifiedInv(v)'
  <2>1. VerifiedInv(v)
    BY DEF TcInv
  <2>2. CASE v.location[2] = Inference
    <3>1. WinnerOf(v)'
      BY <1>1, <2>1, <2>2, WinnerStays DEF VerifiedInv
    <3> QED BY <2>1, <3>1 DEF VerifiedInv
  <2>3. CASE v.location[2] # Inference
    BY <2>1, <2>3 DEF VerifiedInv
  <2> QED BY <2>2, <2>3
<1>4. \A w \in Jobs : WorkerInv(w)'
  BY DEF TcInv, WorkerInv, At1, At
<1>5. \A l \in Locations : PrefixInv(l)' /\ JobInv(l)'
  BY DEF TcInv, PrefixInv, JobInv, At1, At
<1>6. QED
  BY <1>2, <1>3, <1>4, <1>5 DEF TcInv

LEMMA VerifiedCited ==
    ASSUME NEW root, NEW l, VerifiedIn(root, l) # {}
    PROVE  Cited((CHOOSE v \in VerifiedIn(root, l) : TRUE).publication)
<1>1. (CHOOSE v \in VerifiedIn(root, l) : TRUE) \in VerifiedIn(root, l)
  OBVIOUS
<1>2. QED
  BY <1>1 DEF VerifiedIn, Cited

\* A request whose citations are all verified may join the others.
LEMMA RequestJoins ==
    ASSUME TcInv, NEW r, requests' = requests \cup {r}, verified' = verified, pinned' = pinned,
           At(r) \in Locations,
           r.slot = Inference => DOMAIN r.prior = Dependencies(Inference),
           \A s \in DOMAIN r.prior : Cited(r.prior[s])
    PROVE  Priors'
<1>1. \A p : Cited(p)' <=> Cited(p)
  BY DEF Cited
<1>2. Priors
  BY DEF TcInv
<1>3. \A q \in requests \cup {r} :
        /\ At(q) \in Locations
        /\ (q.slot = Inference => DOMAIN q.prior = Dependencies(Inference))
        /\ \A s \in DOMAIN q.prior : Cited(q.prior[s])
  BY <1>2 DEF Priors
<1>4. QED
  BY <1>2, <1>3 DEF Priors, Cited, At

LEMMA PrepareSteps ==
    ASSUME TcInv,
           \/ \E root \in Roots, slot \in SlotNames : Prepare(root, slot)
           \/ \E l \in Locations : PrepareLater(l[1], l[2]) /\ l[1] # "base"
    PROVE  TcInv'
<1>1. ASSUME NEW root \in Roots, NEW slot \in SlotNames, Prepare(root, slot)
      PROVE TcInv'
  <2> DEFINE prior == [s \in Dependencies(slot) |->
                         (CHOOSE v \in VerifiedIn(root, <<"base", s>>) : TRUE).publication]
             r == [campaign |-> "base", slot |-> slot, root |-> root, prior |-> prior]
  <2>1. requests' = requests \cup {r}
    BY <1>1 DEF Prepare
  <2>2. \A s \in DOMAIN prior : Cited(prior[s])
    <3> SUFFICES ASSUME NEW s \in Dependencies(slot) PROVE Cited(prior[s])
      OBVIOUS
    <3>1. VerifiedIn(root, <<"base", s>>) # {}
      BY <1>1 DEF Prepare
    <3>2. Cited((CHOOSE v \in VerifiedIn(root, <<"base", s>>) : TRUE).publication)
      BY <3>1, VerifiedCited
    <3> QED BY <3>2
  <2>3. DOMAIN prior = Dependencies(slot)
    OBVIOUS
  <2> HIDE DEF prior
  <2>4. At(r) \in Locations
    BY DEF At, Locations
  <2>5. r.slot = slot /\ r.prior = prior
    OBVIOUS
  <2> HIDE DEF r
  <2>6. verified' = verified /\ pinned' = pinned /\ job' = job /\ worker' = worker
        /\ prefix' = prefix /\ published' = published
    BY <1>1 DEF Prepare
  <2>7. r.slot = Inference => DOMAIN r.prior = Dependencies(Inference)
    BY <2>3, <2>5
  <2>8. \A s \in DOMAIN r.prior : Cited(r.prior[s])
    BY <2>2, <2>5
  <2>9. Priors'
    BY <2>1, <2>4, <2>6, <2>7, <2>8, RequestJoins
  <2> QED BY <2>1, <2>6, <2>9, PreparedKeeps DEF TcInv, TcShape
<1>2. ASSUME NEW l \in Locations, PrepareLater(l[1], l[2]), l[1] # "base"
      PROVE TcInv'
  <2> DEFINE pin == IF l[1] = "confirmation" THEN pinned.confirmation ELSE pinned.comparison
             r == [campaign |-> l[1], slot |-> l[2], root |-> pin.root, prior |-> pin.prior]
  <2>1. /\ requests' = requests \cup {r} /\ <<l[1], l[2]>> \in Locations /\ pin # Absent
        /\ verified' = verified /\ pinned' = pinned /\ job' = job /\ worker' = worker
        /\ prefix' = prefix /\ published' = published
    BY <1>2 DEF PrepareLater
  <2>2. \A s \in DOMAIN pin.prior : Cited(pin.prior[s])
    BY <2>1 DEF TcInv, Priors
  <2>3. l[2] = Inference => l[1] # "confirmation"
    <3>1. CASE l \in {<<"base", slot>> : slot \in SlotNames}
      BY <1>2, <3>1
    <3>2. CASE l \in {<<"confirmation", slot>> : slot \in Confirmations}
      BY <3>2, Slots
    <3>3. CASE l \in {<<c, Inference>> : c \in {"comparison", "comparison-r2"}}
      BY <3>3
    <3> QED BY <3>1, <3>2, <3>3 DEF Locations
  <2>4. l[2] = Inference => DOMAIN pin.prior = Dependencies(Inference)
    BY <2>1, <2>3 DEF TcInv, Priors
  <2> HIDE DEF pin
  <2>5. At(r) = <<l[1], l[2]>> /\ r.slot = l[2] /\ r.prior = pin.prior
    BY DEF At
  <2> HIDE DEF r
  <2>6. At(r) \in Locations
    BY <2>1, <2>5
  <2>7. r.slot = Inference => DOMAIN r.prior = Dependencies(Inference)
    BY <2>4, <2>5
  <2>8. \A s \in DOMAIN r.prior : Cited(r.prior[s])
    BY <2>2, <2>5
  <2>9. Priors'
    BY <2>1, <2>6, <2>7, <2>8, RequestJoins
  <2> QED BY <2>1, <2>9, PreparedKeeps DEF TcInv, TcShape
<1>3. QED
  BY <1>1, <1>2

LEMMA PinSteps ==
    ASSUME TcInv, PinConfirmed \/ \E root \in Roots : PinLegacy(root)
    PROVE  TcInv'
<1>1. /\ requests' = requests /\ verified' = verified /\ job' = job /\ worker' = worker
      /\ prefix' = prefix /\ published' = published
  BY DEF PinConfirmed, PinLegacy
<1>2. Priors /\ DOMAIN pinned = {"confirmation", "comparison"}
  BY DEF TcInv, TcShape
<1>3. ASSUME NEW root \in Roots, PinLegacy(root) PROVE TcInv'
  <2> DEFINE slots == {Smoke} \cup Searches
             prior == [s \in slots |->
                (CHOOSE v \in VerifiedIn(root, <<"base", s>>) : TRUE).publication]
             pin == [kind |-> "pin", root |-> root, prior |-> prior]
  <2>1. pinned' = [pinned EXCEPT !.confirmation = pin]
    BY <1>3 DEF PinLegacy
  <2>2. \A s \in slots : Cited(prior[s])
    <3> SUFFICES ASSUME NEW s \in slots PROVE Cited(prior[s])
      OBVIOUS
    <3>1. VerifiedIn(root, <<"base", s>>) # {}
      BY <1>3 DEF PinLegacy
    <3>2. Cited((CHOOSE v \in VerifiedIn(root, <<"base", s>>) : TRUE).publication)
      BY <3>1, VerifiedCited
    <3> QED BY <3>2
  <2>3. DOMAIN prior = {Smoke} \cup Searches /\ pin.prior = prior
    OBVIOUS
  <2> HIDE DEF pin, prior
  <2>4. DOMAIN pinned' = {"confirmation", "comparison"} /\ pinned'["confirmation"] = pin
        /\ pinned'["comparison"] = pinned["comparison"]
    BY <1>2, <2>1
  <2>5. Priors'
    BY <1>1, <1>2, <2>2, <2>3, <2>4 DEF Priors, Cited, At
  <2> QED BY <1>1, <2>4, <2>5, PreparedKeeps
<1>4. CASE PinConfirmed
  <2> DEFINE root == pinned.confirmation.root
             old == pinned.confirmation.prior
             prior == [s \in Dependencies(Inference) |->
                IF s \in Confirmations
                THEN (CHOOSE v \in VerifiedIn(root, <<"confirmation", s>>) : TRUE).publication
                ELSE old[s]]
             pin == [kind |-> "pin", root |-> root, prior |-> prior]
  <2>1. pinned' = [pinned EXCEPT !.comparison = pin] /\ pinned.confirmation # Absent
    BY <1>4 DEF PinConfirmed
  <2>2. \A s \in Dependencies(Inference) : Cited(prior[s])
    <3> SUFFICES ASSUME NEW s \in Dependencies(Inference) PROVE Cited(prior[s])
      OBVIOUS
    <3>1. CASE s \in Confirmations
      <4>1. VerifiedIn(root, <<"confirmation", s>>) # {}
        BY <1>4, <3>1 DEF PinConfirmed
      <4>2. Cited((CHOOSE v \in VerifiedIn(root, <<"confirmation", s>>) : TRUE).publication)
        <5> HIDE DEF root
        <5>1. PICK q : q = root
          OBVIOUS
        <5>2. VerifiedIn(q, <<"confirmation", s>>) # {}
          BY <4>1, <5>1
        <5>3. Cited((CHOOSE v \in VerifiedIn(q, <<"confirmation", s>>) : TRUE).publication)
          BY <5>2, VerifiedCited
        <5> QED BY <5>1, <5>3
      <4> QED BY <3>1, <4>2
    <3>2. CASE s \notin Confirmations
      <4>1. s \in {Smoke} \cup Searches
        BY <3>2, Slots
      <4>2. Cited(old[s])
        BY <1>2, <2>1, <4>1 DEF Priors
      <4> QED BY <3>2, <4>2
    <3> QED BY <3>1, <3>2
  <2>3. DOMAIN prior = Dependencies(Inference) /\ pin.prior = prior
    OBVIOUS
  <2> HIDE DEF pin, prior
  <2>4. DOMAIN pinned' = {"confirmation", "comparison"} /\ pinned'["comparison"] = pin
        /\ pinned'["confirmation"] = pinned["confirmation"]
    BY <1>2, <2>1
  <2>5. Priors'
    BY <1>1, <1>2, <2>2, <2>3, <2>4 DEF Priors, Cited, At
  <2> QED BY <1>1, <2>4, <2>5, PreparedKeeps
<1>5. QED
  BY <1>3, <1>4

LEMMA CreateSteps ==
    ASSUME TcInv, NEW r \in requests, NEW w \in Jobs, CreateJob(r, w)
    PROVE  TcInv'
<1>1. /\ Same /\ prefix' = prefix /\ published' = published /\ r \in requests
      /\ worker[w] = Idle /\ At(r) \in Locations
  BY DEF CreateJob, Same, TcInv, Priors
<1>2. DOMAIN worker = Jobs /\ DOMAIN job = Locations
  BY DEF TcInv, TcShape
<1> DEFINE new == [pc |-> "list", request |-> r, context |-> Absent]
<1>3. new.pc = "list" /\ new.request = r /\ DOMAIN new = {"pc", "request", "context"}
  OBVIOUS
<1>4. worker' = [worker EXCEPT ![w] = new] /\ job' = [job EXCEPT ![At(r)] = w]
  BY DEF CreateJob
<1> HIDE DEF new
<1>5. /\ DOMAIN worker' = Jobs /\ DOMAIN job' = Locations
      /\ worker'[w] = new /\ \A v \in Jobs : v # w => worker'[v] = worker[v]
      /\ job'[At(r)] = w /\ \A l \in Locations : l # At(r) => job'[l] = job[l]
  BY <1>1, <1>2, <1>4
<1>6. worker[w].pc = "none" /\ published[w] = Absent
  BY <1>1 DEF Idle, TcInv, WorkerInv
<1>7. EvidenceStays
  BY <1>1 DEF EvidenceStays, Same
<1>8. Priors' /\ \A v \in verified' : VerifiedInv(v)'
  BY <1>1, <1>7, EvidenceKept DEF Same
<1>9. TcShape'
  BY <1>1, <1>5 DEF TcInv, TcShape, Same
<1>10. ASSUME NEW v \in Jobs PROVE WorkerInv(v)'
  <2>1. WorkerInv(v)
    BY DEF TcInv
  <2>2. CASE v # w
    <3>1. worker'[v] = worker[v]
      BY <1>5, <2>2
    <3> QED BY <1>1, <2>1, <3>1 DEF WorkerInv, At1, At, Same
  <2>3. CASE v = w
    BY <1>1, <1>3, <1>5, <1>6, <2>3 DEF WorkerInv, Claiming, Same
  <2> QED BY <2>2, <2>3
<1>11. ASSUME NEW l \in Locations PROVE PrefixInv(l)' /\ JobInv(l)'
  <2>1. PrefixInv(l) /\ JobInv(l)
    BY DEF TcInv
  <2>2. PrefixInv(l)'
    BY <1>1, <2>1 DEF PrefixInv
  <2>3. JobInv(l)'
    <3>1. CASE l = At(r)
      <4>1. At1(w)' = At(r)
        BY <1>3, <1>5 DEF At1, At
      <4> QED BY <1>3, <1>5, <3>1, <4>1 DEF JobInv
    <3>2. CASE l # At(r)
      <4>1. job'[l] = job[l] /\ (job[l] # 0 => job[l] # w)
        BY <1>5, <1>6, <2>1, <3>2 DEF JobInv
      <4> QED BY <1>5, <2>1, <4>1 DEF JobInv, At1, At
    <3> QED BY <3>1, <3>2
  <2> QED BY <2>2, <2>3
<1>12. QED
  BY <1>8, <1>9, <1>10, <1>11 DEF TcInv

LEMMA DeleteSteps ==
    ASSUME TcInv, NEW k \in Locations, DeleteJob(k)
    PROVE  TcInv'
<1>1. Same /\ prefix' = prefix /\ published' = published /\ worker' = worker
  BY DEF DeleteJob, Same
<1>2. DOMAIN job' = Locations /\ \A l \in Locations : job'[l] \in {0, job[l]}
  BY DEF DeleteJob, TcInv, TcShape
<1>3. EvidenceStays
  BY <1>1 DEF EvidenceStays, Same
<1>4. Priors' /\ \A v \in verified' : VerifiedInv(v)'
  BY <1>1, <1>3, EvidenceKept DEF Same
<1>5. TcShape'
  BY <1>1, <1>2 DEF TcInv, TcShape, Same
<1>6. \A w \in Jobs : WorkerInv(w)'
  BY <1>1 DEF TcInv, WorkerInv, At1, At, Same
<1>7. ASSUME NEW l \in Locations PROVE PrefixInv(l)' /\ JobInv(l)'
  <2>1. PrefixInv(l) /\ JobInv(l)
    BY DEF TcInv
  <2> QED BY <1>1, <1>2, <2>1 DEF PrefixInv, JobInv, At1, At
<1>8. QED
  BY <1>4, <1>5, <1>6, <1>7 DEF TcInv

\* What collect checks of an inference: it recomputes the winner over cited
\* publications that are all stored and cited by a prepared request.
LEMMA CollectedWinner ==
    ASSUME TcInv, NEW r \in requests, NEW p \in Jobs, r.slot = Inference,
           published[p] # Absent, published[p].request = r, Collect(r, Inference, p)
    PROVE  WonBy(ResultsOf(r.prior), published[p].result.config)
           /\ \A s \in DOMAIN r.prior : r.prior[s] \in Jobs /\ published[r.prior[s]] # Absent
<1> DEFINE prior == r.prior
           results == ResultsOf(prior)
<1>1. DOMAIN prior = Dependencies(Inference) /\ At(r) \in Locations
  BY DEF TcInv, Priors
<1>2. ASSUME NEW s \in Dependencies(Inference)
      PROVE  /\ prior[s] \in Jobs /\ published[prior[s]] # Absent
             /\ published[prior[s]].request.slot = s
             /\ s \in Searches => <<"search", published[prior[s]].result.config>> = s
  <2>1. Publication(r, s, prior[s])
    BY DEF Collect
  <2>2. ArtifactPrefix(r.campaign, s) \in Locations
    BY <1>1, DependencyLocated
  <2>3. prior[s] # 0 /\ prefix[ArtifactPrefix(r.campaign, s)].success = prior[s]
    BY <2>1 DEF Publication
  <2>4. prior[s] \in Jobs /\ published[prior[s]] # Absent
    BY <2>2, <2>3 DEF TcInv, PrefixInv
  <2>5. published[prior[s]].request.slot = s
    BY <2>1 DEF Publication
  <2>6. s \in Searches => <<"search", published[prior[s]].result.config>> = s
    BY <2>1 DEF Publication
  <2> QED BY <2>4, <2>5, <2>6
<1>3. \A s \in Dependencies(Inference) : results[s] = published[prior[s]].result
  BY <1>1 DEF ResultsOf
<1>4. \A s \in Searches : /\ s \in Dependencies(Inference)
                          /\ s = <<"search", results[s].config>>
                          /\ results[s].config \in Grid /\ results[s].loss \in Losses
  <2> SUFFICES ASSUME NEW s \in Searches
               PROVE /\ s \in Dependencies(Inference)
                     /\ s = <<"search", results[s].config>>
                     /\ results[s].config \in Grid /\ results[s].loss \in Losses
    OBVIOUS
  <2>1. s \in Dependencies(Inference)
    BY Slots
  <2>2. s = <<"search", results[s].config>>
    BY <1>2, <1>3, <2>1
  <2>3. PICK n \in Grid : s = <<"search", n>>
    BY DEF Searches
  <2> HIDE DEF results, prior
  <2>4. results[s].config = n
    BY <2>2, <2>3
  <2>5. results[s].loss \in Losses
    BY <1>2, <1>3, <2>1 DEF TcInv, WorkerInv
  <2> QED BY <2>1, <2>2, <2>4, <2>5
<1> DEFINE trials == {results[s] : s \in Searches}
<1>5. GridOf(prior) = trials
  BY <1>3, <1>4 DEF GridOf
<1> HIDE DEF results
<1>6. trials # {} /\ \A t \in trials : t.loss \in Nat /\ t.config \in Nat
  <2>1. Searches # {}
    BY TransformerCampaignAssumption DEF Searches
  <2> QED BY <1>4, <2>1, TransformerCampaignAssumption
<1> HIDE DEF trials
<1>7. PICK t : t = SelectGrid(trials)
  OBVIOUS
<1>8. t \in trials /\ t.loss = BestLoss(trials)
  BY <1>6, <1>7, GridSelected
<1>9. ComparisonVerified(p)
  BY DEF Collect
<1>10. published[p].result.config = t.config /\ SeedsConfirm(prior, t)
  BY <1>5, <1>7, <1>9 DEF ComparisonVerified
<1>11. \A s \in Confirmations : results[s].config = t.config
  BY <1>3, <1>10, Slots DEF SeedsConfirm
<1>12. \A s \in Searches : \E n \in Grid :
         /\ s = <<"search", n>>
         /\ results[s].config = n
         /\ (n = t.config => results[s].loss = BestLoss(trials))
  <2> SUFFICES ASSUME NEW s \in Searches
               PROVE results[s].config = t.config => results[s].loss = BestLoss(trials)
    BY <1>4
  <2>1. PICK u \in Searches : t = results[u]
    BY <1>8 DEF trials
  <2>2. ASSUME results[s].config = t.config PROVE results[s].loss = BestLoss(trials)
    <3>1. s = <<"search", results[s].config>> /\ u = <<"search", results[u].config>>
      BY <1>4
    <3>2. s = u
      BY <2>1, <2>2, <3>1
    <3> QED BY <1>8, <2>1, <3>2
  <2> QED BY <2>2
<1>13. WonBy(results, t.config)
  BY <1>11, <1>12 DEF WonBy, trials
<1>14. QED
  BY <1>1, <1>2, <1>10, <1>13 DEF results

LEMMA CollectSteps ==
    ASSUME TcInv, NEW root \in Roots, NEW r \in requests, CollectSlot(root, r)
    PROVE  TcInv'
<1>1. /\ requests' = requests /\ pinned' = pinned /\ job' = job /\ worker' = worker
      /\ prefix' = prefix /\ published' = published
  BY DEF CollectSlot
<1>2. PICK l \in Locations : l = At(r)
  BY DEF TcInv, Priors
<1>3. PICK p : p = prefix[l].success
  OBVIOUS
<1> DEFINE new == [root |-> root, location |-> l, publication |-> p, job |-> job[l]]
<1>4. /\ verified' = verified \cup {new} /\ Collect(r, r.slot, p) /\ published[p].request = r
      /\ job[l] # 0 /\ worker[job[l]].pc = "done"
  BY <1>2, <1>3 DEF CollectSlot, JobCompleted
<1>5. p = job[l] /\ p \in Jobs /\ published[p] # Absent
  <2>1. job[l] \in Jobs /\ At1(job[l]) = l
    BY <1>4 DEF TcInv, JobInv
  <2>2. prefix[l].success = job[l]
    BY <1>4, <2>1 DEF TcInv, WorkerInv
  <2>3. published[prefix[l].success] # Absent
    BY <1>4, <2>2 DEF TcInv, PrefixInv
  <2> QED BY <1>3, <2>1, <2>2, <2>3
<1>6. EvidenceStays
  BY <1>1, <1>4 DEF EvidenceStays
<1>7. TcShape'
  BY <1>1 DEF TcInv, TcShape
<1>8. Priors'
  <2>1. \A q : Cited(q) => \E u \in verified' : u.publication = q
    BY <1>4 DEF Cited
  <2>2. Priors
    BY DEF TcInv
  <2> HIDE DEF new
  <2> QED BY <1>1, <2>1, <2>2 DEF Priors, Cited, At
<1>9. /\ new.location[2] = r.slot /\ new.publication = p /\ new.job = job[l]
  BY <1>2 DEF At
<1> HIDE DEF new
<1>10. PICK n : n = new
  OBVIOUS
<1>11. VerifiedInv(n)'
  <2>1. CASE r.slot # Inference
    BY <1>5, <1>9, <1>10, <2>1 DEF VerifiedInv
  <2>2. CASE r.slot = Inference
    <3>1. WonBy(ResultsOf(r.prior), published[p].result.config)
          /\ \A s \in DOMAIN r.prior : r.prior[s] \in Jobs /\ published[r.prior[s]] # Absent
      BY <1>4, <1>5, <2>2, CollectedWinner
    <3>2. DOMAIN r.prior = Dependencies(Inference) /\ \A s \in DOMAIN r.prior : Cited(r.prior[s])
      BY <2>2 DEF TcInv, Priors
    <3>3. WinnerOf(new)
      BY <1>4, <1>5, <1>9, <3>1, <3>2 DEF WinnerOf
    <3>4. WinnerOf(n)'
      BY <1>6, <1>10, <3>3, WinnerStays
    <3> QED BY <1>5, <1>9, <1>10, <3>4 DEF VerifiedInv
  <2> QED BY <2>1, <2>2
<1>12. ASSUME NEW v \in verified PROVE VerifiedInv(v)'
  <2>1. VerifiedInv(v)
    BY DEF TcInv
  <2>2. CASE v.location[2] = Inference
    <3>1. WinnerOf(v)'
      BY <1>6, <2>1, <2>2, WinnerStays DEF VerifiedInv
    <3> QED BY <2>1, <3>1 DEF VerifiedInv
  <2>3. CASE v.location[2] # Inference
    BY <2>1, <2>3 DEF VerifiedInv
  <2> QED BY <2>2, <2>3
<1>13. \A w \in Jobs : WorkerInv(w)'
  BY <1>1 DEF TcInv, WorkerInv, At1, At
<1>14. \A k \in Locations : PrefixInv(k)' /\ JobInv(k)'
  BY <1>1 DEF TcInv, PrefixInv, JobInv, At1, At
<1>15. QED
  BY <1>4, <1>7, <1>8, <1>10, <1>12, <1>13, <1>14, <1>11 DEF TcInv

LEMMA InitTc ==
    TcInit => TcInv
<1> SUFFICES ASSUME TcInit PROVE TcInv
  OBVIOUS
<1>1. TcShape
  BY DEF TcInit, TcShape, NoObjects
<1>2. Priors
  BY DEF TcInit, Priors
<1>3. \A w \in Jobs : WorkerInv(w)
  BY DEF TcInit, WorkerInv, Idle, Claiming
<1>4. \A l \in Locations : PrefixInv(l) /\ JobInv(l)
  BY DEF TcInit, PrefixInv, JobInv, NoObjects
<1>5. \A v \in verified : VerifiedInv(v)
  BY DEF TcInit
<1>6. QED
  BY <1>1, <1>2, <1>3, <1>4, <1>5 DEF TcInv

LEMMA NextTc ==
    TcInv /\ [TcNext]_tcVars => TcInv'
<1> SUFFICES ASSUME TcInv, [TcNext]_tcVars PROVE TcInv'
  OBVIOUS
<1>1. CASE UNCHANGED tcVars
  BY <1>1, OutcomesStay DEF tcVars, Same, TcInv, TcShape
<1>2. CASE TcNext
  <2>1. CASE \E root \in Roots, slot \in SlotNames : Prepare(root, slot)
    BY <2>1, PrepareSteps
  <2>2. CASE PinConfirmed \/ \E root \in Roots : PinLegacy(root)
    BY <2>2, PinSteps
  <2>3. CASE \E root \in Roots, r \in requests : CollectSlot(root, r)
    BY <2>3, CollectSteps
  <2>4. CASE \E l \in Locations : PrepareLater(l[1], l[2]) /\ l[1] # "base"
    BY <2>4, PrepareSteps
  <2>5. CASE \E r \in requests, w \in Jobs : CreateJob(r, w)
    BY <2>5, CreateSteps
  <2>6. CASE \/ \E r \in requests : AttestJob(r)
             \/ \E l \in Locations : AttestIntent(l) \/ PublishContext(l) \/ AttestEnds(l)
    BY <2>6, AttesterSteps
  <2>7. CASE \E l \in Locations : DeleteJob(l)
    BY <2>7, DeleteSteps
  <2>8. CASE \E w \in Jobs : WorkerStep(w)
    BY <2>8, WorkerSteps
  <2>9. QED
    BY <1>2, <2>1, <2>2, <2>3, <2>4, <2>5, <2>6, <2>7, <2>8 DEF TcNext
<1>3. QED
  BY <1>1, <1>2

(* In every behaviour of the campaign a prefix belongs to the worker whose *)
(* INTENT claimed it, until that worker stores the one outcome; what is    *)
(* cited was verified, and what is verified was written by the job its     *)
(* evidence names (research_storage.py claim and finish, the operator's    *)
(* prepare and collect).                                                   *)
THEOREM CampaignInvariant == TcSpec => []TcInv
  BY InitTc, NextTc, PTL DEF TcSpec

(* A verified result is its own job's, for any grid, seeds, losses, number *)
(* of evidence directories, jobs, lost answers, crashes and deletions: a   *)
(* slot has one outcome, the publication comes from the job the evidence   *)
(* names, and an inference applies the configuration of the smallest loss, *)
(* with every publication it cites verified (research_readback.py,         *)
(* transformer_research_operator.py collect).                              *)
THEOREM VerifiedOwn == TcSpec => []VerifiedResultsAreOwn
<1>1. TcInv => VerifiedResultsAreOwn
  <2> SUFFICES ASSUME TcInv PROVE VerifiedResultsAreOwn
    OBVIOUS
  <2>1. SlotHasOneOutcome
    BY DEF SlotHasOneOutcome, TcInv, PrefixInv
  <2>2. VerifiedByItsOwnJob
    BY DEF VerifiedByItsOwnJob, TcInv, VerifiedInv
  <2>3. ASSUME NEW v \in verified, v.location[2] = Inference
        PROVE LET p == published[v.publication]
                  prior == p.request.prior
              IN  /\ DOMAIN prior = Dependencies(Inference)
                  /\ \A s \in Searches : \E n \in Grid :
                       /\ s = <<"search", n>>
                       /\ published[prior[s]].result.config = n
                       /\ (n = p.result.config =>
                             published[prior[s]].result.loss = BestLoss(GridOf(prior)))
                  /\ \A s \in Confirmations : published[prior[s]].result.config = p.result.config
                  /\ \A s \in DOMAIN prior : \E u \in verified : u.publication = prior[s]
    <3> DEFINE p == published[v.publication]
               prior == p.request.prior
               results == ResultsOf(prior)
    <3>1. WinnerOf(v)
      BY <2>3 DEF TcInv, VerifiedInv
    <3>2. DOMAIN prior = Dependencies(Inference) /\ WonBy(results, p.result.config)
      BY <3>1 DEF WinnerOf
    <3>3. \A s \in DOMAIN prior : \E u \in verified : u.publication = prior[s]
      BY <3>1 DEF WinnerOf, Cited
    <3>4. \A s \in Searches \cup Confirmations : results[s] = published[prior[s]].result
      BY <3>2, Slots DEF ResultsOf
    <3>5. {results[t] : t \in Searches} = GridOf(prior)
      BY <3>4 DEF GridOf
    <3> HIDE DEF results, prior, p
    <3>6. /\ \A s \in Searches : \E n \in Grid :
               /\ s = <<"search", n>>
               /\ published[prior[s]].result.config = n
               /\ (n = p.result.config =>
                     published[prior[s]].result.loss = BestLoss(GridOf(prior)))
          /\ \A s \in Confirmations : published[prior[s]].result.config = p.result.config
      BY <3>2, <3>4, <3>5 DEF WonBy
    <3> QED BY <3>2, <3>3, <3>6 DEF p, prior
  <2>4. InferenceIsOfTheWinner
    BY <2>3 DEF InferenceIsOfTheWinner
  <2> QED BY <2>1, <2>2, <2>4 DEF VerifiedResultsAreOwn
<1>2. QED
  BY <1>1, CampaignInvariant, PTL
================================================================================
