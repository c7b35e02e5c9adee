------------------------- MODULE TransformerHoldout -------------------------
(***************************************************************************)
(* The one evaluation of the Transformer on the held-out day: the          *)
(* supervisor that creates the approved job, signs its context once and    *)
(* cancels it before its accounting bound                                  *)
(* (scripts/watch_transformer_holdout.py, holdout_supervision.py,          *)
(* holdout_delivery.py), and the job's worker, which may read the final    *)
(* inputs only behind the reference-parity gate (holdout_entrypoint.py,    *)
(* holdout_worker.py, holdout_storage.py, holdout_context.py).             *)
(*                                                                         *)
(* There is one approved request.  Time is a counter of ticks; every call  *)
(* of the supervisor returns, or raises, by its own timeout, so time never *)
(* passes the end of a call in progress.                                   *)
(***************************************************************************)
EXTENDS Naturals, FiniteSets

CONSTANTS
    Admission,      \* supervisor's wait for the job to appear
    CreateReserve,  \* part of it kept for observing
    Lifetime,       \* create_to_terminal_seconds
    CancelReserve,  \* part of it kept for cancelling
    Pause,          \* longest pause between observations
    MaxNamed,        \* bound on jobs of this name
    MaxUpsets,      \* bound on lost answers, errors, crashes, interference
    MaxTime         \* bound on the clock

ASSUME TransformerHoldoutAssumption ==
    /\ {Admission, CreateReserve, Lifetime, CancelReserve, Pause, MaxTime} \subseteq Nat \ {0}
    /\ CancelReserve < Lifetime /\ CreateReserve < Admission

VARIABLES
    now,
    files,      \* durable records of the execution directory
    sup,        \* the supervisor's process
    shown,        \* the job the provider shows under the name, or 0
    jobs,       \* [1..MaxJobs -> job]
    context,    \* the signed context object: the job it names, or 0
    result,     \* the result prefix
    finalReads, \* jobs that have read the final inputs
    hoFaults

hoVars == <<now, files, sup, shown, jobs, context, result, finalReads, hoFaults>>

Numbers == 1..MaxNamed
NoJob == [pc |-> "none", created |-> 0, cancel |-> FALSE]
Terminal == {"done", "failed", "cancelled"}
LiveJob(j) == jobs[j].pc \notin Terminal \cup {"none"}

NotStarted == [pc |-> "none", until |-> 0, identity |-> 0, delivered |-> FALSE,
               cancelStarted |-> FALSE, creationRequested |-> FALSE, ownedLive |-> FALSE,
               stopAt |-> 0, cancelAt |-> 0, submit |-> FALSE]

HoInit ==
    /\ now = 1 /\ files = {} /\ sup = NotStarted
    /\ shown = 0 /\ jobs = [j \in Numbers |-> NoJob]
    /\ context = 0 /\ result = [intent |-> 0, failed |-> FALSE, success |-> 0]
    /\ finalReads = {} /\ hoFaults = 0

HoFault == hoFaults < MaxUpsets /\ hoFaults' = hoFaults + 1
NoFault == UNCHANGED hoFaults

(***************************************************************************)
(* The supervisor.                                                         *)
(***************************************************************************)
Outside == UNCHANGED <<now, shown, jobs, context, result, finalReads>>
Lesser(a, b) == IF a <= b THEN a ELSE b

(* A directory whose attempt is retained is consumed.                      *)
DirectoryUnused == sup.pc \in {"none", "crashed", "raised"} /\ files = {}

(* run: approval and policies are checked, the attempt is recorded, and    *)
(* the admission window opens.                                             *)
StartWatch(submit) ==
    /\ DirectoryUnused /\ now + Admission + Lifetime <= MaxTime
    /\ files' = files \cup {"supervision-attempt"}
    /\ sup' = [NotStarted EXCEPT !.pc = "top", !.until = now, !.stopAt = now + Admission,
                                 !.submit = submit]
    /\ NoFault /\ Outside

(* expires: the end of the next observation.                               *)
Expires == IF sup.cancelStarted \/ sup.cancelAt = 0 THEN sup.stopAt ELSE sup.cancelAt

(* The accounting bound is near and the job is ours and live.              *)
CancelDue == sup.cancelAt # 0 /\ now >= sup.cancelAt /\ sup.ownedLive /\ ~sup.cancelStarted

(* cancel(identity): one asynchronous call, never repeated.  It may raise, *)
(* applied or not.                                                         *)
CancelCall(then) ==
    \/ /\ jobs' = [jobs EXCEPT ![sup.identity].cancel = TRUE] /\ NoFault
       /\ sup' = [sup EXCEPT !.cancelStarted = TRUE, !.pc = then, !.until = now]
    \/ /\ HoFault
       /\ sup' = [sup EXCEPT !.cancelStarted = TRUE, !.pc = "handler", !.until = now]
       /\ jobs' \in {jobs, [jobs EXCEPT ![sup.identity].cancel = TRUE]}

TopCancel ==
    /\ sup.pc = "top" /\ CancelDue
    /\ CancelCall("top")
    /\ UNCHANGED <<now, files, shown, context, result, finalReads>>

TopRead ==
    /\ sup.pc = "top" /\ ~CancelDue
    /\ sup' = IF Expires > now THEN [sup EXCEPT !.pc = "reading", !.until = Expires]
              ELSE [sup EXCEPT !.pc = "handler", !.until = now]
    /\ NoFault /\ UNCHANGED files /\ Outside

(* The provider does not answer within the budget of the read.             *)
ReadFails ==
    /\ sup.pc = "reading"
    /\ (now = sup.until /\ NoFault) \/ (now < sup.until /\ HoFault)
    /\ sup' = [sup EXCEPT !.pc = "handler", !.until = now]
    /\ UNCHANGED files /\ Outside

(* The job is absent: wait for it, or create it once within the window.    *)
ReadAbsent ==
    /\ sup.pc = "reading" /\ shown = 0
    /\ LET late == sup.identity # 0 \/ now >= sup.stopAt
           admits == sup.submit /\ ~sup.creationRequested
       IN  IF late \/ (admits /\ sup.stopAt <= now + CreateReserve)
           THEN sup' = [sup EXCEPT !.pc = "handler", !.until = now] /\ UNCHANGED files
           ELSE IF admits
           THEN /\ sup' = [sup EXCEPT !.pc = "creating", !.creationRequested = TRUE,
                                      !.until = sup.stopAt - CreateReserve]
                /\ files' = files \cup {"creation-attempt"}
           ELSE /\ sup' = [sup EXCEPT !.pc = "pausing", !.until = Lesser(now + 1, sup.stopAt)]
                /\ UNCHANGED files
    /\ NoFault /\ Outside

NewJob == [pc |-> "wait", created |-> now, cancel |-> FALSE]
Fresh(j) == j \in Numbers /\ jobs[j] = NoJob /\ \A i \in Numbers : i < j => jobs[i] # NoJob

(* create_once: whatever its outcome, the watcher goes on to observe.      *)
CreateOnce ==
    /\ sup.pc = "creating"
    /\ sup' = [sup EXCEPT !.pc = "top", !.until = now]
    /\ \/ \E j \in Numbers : /\ shown = 0 /\ Fresh(j)
                             /\ shown' = j /\ jobs' = [jobs EXCEPT ![j] = NewJob] /\ NoFault
       \/ (HoFault \/ (shown # 0 /\ NoFault)) /\ UNCHANGED <<shown, jobs>>
    /\ UNCHANGED <<now, files, context, result, finalReads>>

(* The job is there: its identity and its accounting are checked, then it  *)
(* is delivered its context, or cancelled, or has ended.                   *)
ReadJob ==
    /\ sup.pc = "reading" /\ shown # 0
    /\ LET created == jobs[shown].created
           seen == [sup EXCEPT !.identity = shown, !.ownedLive = LiveJob(shown)]
           bound == [seen EXCEPT !.stopAt = created + Lifetime,
                                 !.cancelAt = created + Lifetime - CancelReserve]
       IN  sup' =
            IF (sup.submit /\ ~sup.creationRequested) \/ (sup.identity # 0 /\ sup.identity # shown)
            THEN [sup EXCEPT !.pc = "handler", !.until = now]
            ELSE IF now > created + Lifetime THEN [seen EXCEPT !.pc = "handler", !.until = now]
            ELSE IF ~LiveJob(shown) THEN [bound EXCEPT !.pc = "returned", !.until = now]
            ELSE IF now >= bound.cancelAt
            THEN [bound EXCEPT !.pc = IF sup.cancelStarted THEN "cancelled" ELSE "cancelling",
                               !.until = now]
            ELSE IF ~sup.delivered THEN [bound EXCEPT !.pc = "delivering", !.until = bound.cancelAt]
            ELSE [bound EXCEPT !.pc = "pausing", !.until = Lesser(now + Pause, bound.cancelAt)]
    /\ NoFault /\ UNCHANGED files /\ Outside

CancelObserved ==
    /\ sup.pc = "cancelling" /\ CancelCall("cancelled")
    /\ UNCHANGED <<now, files, shown, context, result, finalReads>>

AfterCancel ==
    /\ sup.pc = "cancelled"
    /\ sup' = IF now >= sup.stopAt THEN [sup EXCEPT !.pc = "handler", !.until = now]
              ELSE [sup EXCEPT !.pc = "pausing", !.until = Lesser(now + Pause, sup.stopAt)]
    /\ NoFault /\ UNCHANGED files /\ Outside

(* deliver_context: a conditional put outside the result prefix.           *)
Deliver ==
    /\ sup.pc = "delivering"
    /\ UNCHANGED <<now, shown, jobs, result, finalReads>>
    /\ \/ /\ context = 0 /\ context' = sup.identity /\ NoFault
          /\ files' = files \cup {"context-receipt"}
          /\ sup' = [sup EXCEPT !.pc = "pausing", !.delivered = TRUE,
                                !.until = Lesser(now + Pause, sup.cancelAt)]
       \/ /\ HoFault \/ (context # 0 /\ NoFault)
          /\ context' \in IF context = 0 THEN {0, sup.identity} ELSE {context}
          /\ sup' = [sup EXCEPT !.pc = "handler", !.until = now] /\ UNCHANGED files

EndPause ==
    /\ sup.pc = "pausing" /\ now = sup.until
    /\ sup' = [sup EXCEPT !.pc = "top", !.until = now]
    /\ NoFault /\ UNCHANGED files /\ Outside

HandlerContinues ==
    /\ sup.pc = "handler" /\ sup' = [sup EXCEPT !.pc = "top"]
    /\ NoFault /\ UNCHANGED files /\ Outside

(* The except clause: a live job of ours is cancelled before the error is  *)
(* raised, unless a cancellation was already tried.                        *)
Handler ==
    /\ sup.pc = "handler"
    /\ IF sup.identity # 0 /\ sup.ownedLive /\ ~sup.cancelStarted
       THEN /\ sup' = [sup EXCEPT !.pc = "raised", !.cancelStarted = TRUE]
            /\ \/ jobs' = [jobs EXCEPT ![sup.identity].cancel = TRUE] /\ NoFault
               \/ UNCHANGED jobs /\ HoFault
       ELSE sup' = [sup EXCEPT !.pc = "raised"] /\ UNCHANGED jobs /\ NoFault
    /\ UNCHANGED <<now, files, shown, context, result, finalReads>>

CrashWatch ==
    /\ sup.pc \notin {"none", "crashed", "raised", "returned"} /\ HoFault
    /\ sup' = [sup EXCEPT !.pc = "crashed"]
    /\ UNCHANGED files /\ Outside

(***************************************************************************)
(* The provider and the operator's hands (external).                       *)
(***************************************************************************)
ExternalJob(j) ==
    /\ shown = 0 /\ Fresh(j) /\ HoFault
    /\ shown' = j /\ jobs' = [jobs EXCEPT ![j] = NewJob]
    /\ UNCHANGED <<now, files, sup, context, result, finalReads>>

DeleteHoldoutJob ==
    /\ shown # 0 /\ HoFault /\ shown' = 0
    /\ UNCHANGED <<now, files, sup, jobs, context, result, finalReads>>

CancelTakesEffect(j) ==
    /\ LiveJob(j) /\ jobs[j].cancel
    /\ jobs' = [jobs EXCEPT ![j].pc = "cancelled"]
    /\ NoFault /\ UNCHANGED <<now, files, sup, shown, context, result, finalReads>>

Watching == sup.pc \notin {"none", "crashed", "raised", "returned"}

Tick ==
    /\ now < MaxTime /\ (Watching => now < sup.until)
    /\ now' = now + 1
    /\ NoFault /\ UNCHANGED <<files, sup, shown, jobs, context, result, finalReads>>

(***************************************************************************)
(* The worker of a job.                                                    *)
(***************************************************************************)
Work(j, pc) == jobs' = [jobs EXCEPT ![j].pc = pc]
WorkFrame == UNCHANGED <<now, files, sup, shown, context>>

(* wait_context, verify_context: the signed context of this request.       *)
WaitContext(j) ==
    /\ jobs[j].pc = "wait" /\ context # 0 /\ Work(j, "claim")
    /\ NoFault /\ UNCHANGED <<result, finalReads>> /\ WorkFrame

Unclaimed == result = [intent |-> 0, failed |-> FALSE, success |-> 0]

(* claim: the prefix is listed ...                                         *)
ListHoldout(j) ==
    /\ jobs[j].pc = "claim" /\ Work(j, IF Unclaimed THEN "intent" ELSE "failed")
    /\ NoFault /\ UNCHANGED <<result, finalReads>> /\ WorkFrame

ClaimUnconditionally(j) ==
    /\ jobs[j].pc = "intent" /\ Work(j, "parity") /\ result' = [result EXCEPT !.intent = j]
    /\ NoFault /\ UNCHANGED finalReads /\ WorkFrame

(* ... and INTENT is put on the condition that there is none.              *)
ClaimHoldout(j) ==
    /\ jobs[j].pc = "intent"
    /\ \/ /\ result.intent = 0 /\ result' = [result EXCEPT !.intent = j] /\ Work(j, "parity")
          /\ NoFault
       \/ /\ result.intent # 0 /\ Work(j, "failed") /\ UNCHANGED result /\ NoFault
       \/ /\ result.intent = 0 /\ HoFault /\ Work(j, "failed")
          /\ result' \in {result, [result EXCEPT !.intent = j]}
    /\ UNCHANGED finalReads /\ WorkFrame

(* development_inputs, reference_parity: the saved logits are reproduced.  *)
CheckParity(j, passed) ==
    /\ jobs[j].pc = "parity"
    /\ IF passed THEN Work(j, "final") /\ NoFault ELSE Work(j, "failing") /\ HoFault
    /\ UNCHANGED <<result, finalReads>> /\ WorkFrame

(* final_inputs: the gate is required before the first final object.       *)
ReadFinal(j) ==
    /\ jobs[j].pc = "final" /\ Work(j, "publish")
    /\ finalReads' = finalReads \cup {j}
    /\ NoFault /\ UNCHANGED result /\ WorkFrame

(* holdout_inference and the comparison fail, or finish publishes SUCCESS  *)
(* last; an uncertain put leaves no further marker.                        *)
FinishHoldout(j) ==
    /\ jobs[j].pc = "publish"
    /\ \/ result' = [result EXCEPT !.success = j] /\ Work(j, "done") /\ NoFault
       \/ /\ HoFault /\ Work(j, "failed")
          /\ result' \in {result, [result EXCEPT !.success = j]}
       \/ HoFault /\ Work(j, "failing") /\ UNCHANGED result
    /\ UNCHANGED finalReads /\ WorkFrame

PutHoldoutFailed(j) ==
    /\ jobs[j].pc = "failing" /\ Work(j, "failed")
    /\ result' \in {result, [result EXCEPT !.failed = TRUE]}
    /\ NoFault /\ UNCHANGED finalReads /\ WorkFrame

(* The context never comes, or the container is killed.                    *)
JobDies(j) ==
    /\ LiveJob(j) /\ HoFault /\ Work(j, "failed")
    /\ UNCHANGED <<result, finalReads>> /\ WorkFrame

WatchStep ==
    \/ \E submit \in BOOLEAN : StartWatch(submit)
    \/ TopCancel \/ TopRead \/ ReadFails \/ ReadAbsent \/ CreateOnce \/ ReadJob
    \/ CancelObserved \/ AfterCancel \/ Deliver \/ EndPause \/ Handler

HoNext ==
    \/ WatchStep \/ CrashWatch \/ Tick \/ DeleteHoldoutJob
    \/ \E j \in Numbers :
        \/ ExternalJob(j) \/ CancelTakesEffect(j) \/ WaitContext(j) \/ ListHoldout(j)
        \/ ClaimHoldout(j) \/ ReadFinal(j) \/ FinishHoldout(j) \/ PutHoldoutFailed(j) \/ JobDies(j)
        \/ \E passed \in BOOLEAN : CheckParity(j, passed)

(* The supervisor's process runs and its calls return by their timeouts.   *)
HoSpec == HoInit /\ [][HoNext]_hoVars /\ WF_hoVars(WatchStep) /\ WF_hoVars(Tick)

(***************************************************************************)
(* Properties.                                                             *)
(***************************************************************************)
(* One reading of the held-out day.  At most one job ever reads the final  *)
(* inputs, although a deleted job may run on beside a second one of the    *)
(* same request, which accepts the same signed context; and no prefix      *)
(* holds both outcomes.                                                    *)
HeldOutDayReadOnce ==
    /\ Cardinality(finalReads) <= 1
    /\ finalReads \subseteq {result.intent}
    /\ result.success # 0 => result.success \in finalReads /\ ~result.failed

(* The supervisor never lets a live job it has seen outlive its bound: past*)
(* the job's stop time, and whenever the supervisor has given up, that job *)
(* has been cancelled once, or was seen to have ended.                     *)
OwnedJobIsCancelled ==
    /\ sup.pc # "crashed" /\ sup.identity # 0 /\ sup.ownedLive
    /\ now > sup.stopAt \/ sup.pc = "raised"
    => sup.cancelStarted \/ sup.pc = "handler"

(* Supervision of a job ends: the observation loop has no exit of its own  *)
(* but the terminal states and its deadlines.                              *)
SupervisionEnds == (sup.pc = "top") ~> (sup.pc \in {"raised", "returned", "crashed"})

(* Supervision of the held-out job ends, and no live job it has seen       *)
(* outlives its bound without having been cancelled                        *)
(* (holdout_supervision.py, watch_transformer_holdout.py).                 *)
SupervisionIsBounded == []OwnedJobIsCancelled /\ SupervisionEnds
=============================================================================
