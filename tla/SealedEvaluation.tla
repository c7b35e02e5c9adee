------------------------- MODULE SealedEvaluation -------------------------
(***************************************************************************)
(* The single final evaluation of a campaign (G8), which may look at the   *)
(* sealed test fold once: the replacement runner                           *)
(* (serverless/jobs/run_lightgbm_g8_replacement.py), the live run and its  *)
(* recovery (backend/app/ml/lightgbm/g8_live_recovery.py), the MLflow      *)
(* reservation and log-only recovery (g8_mlflow_recovery.py), the scored   *)
(* checkpoint (g8_scored_checkpoint.py) and the publication checkpoint     *)
(* (g8_publication_recovery.py).                                           *)
(*                                                                         *)
(* Every package names the same request: one remote intent key and one     *)
(* result prefix; each has its own durable filesystem and its own MLflow   *)
(* reservation.  The n-th scoring produces the artifacts n, so a digest is *)
(* that number, and 0 is a file that does not exist.  Executors are cloud  *)
(* jobs that run once; a recoverer is a slot for the recovery jobs an      *)
(* operator submits one after the other.                                   *)
(***************************************************************************)
EXTENDS Naturals, Sequences, FiniteSets

CONSTANTS
    Packages,     \* signed replacement packages of the one request
    Executors,    \* numbered in the order they are submitted
    Recoverers,
    LogItems,     \* what a run is logged with, 1..n in the order of writing
    Payload,      \* result objects other than SUCCESS
    MaxFaults     \* bound on crashes, lost answers and failing calls

ASSUME SealedEvaluationAssumption ==
    /\ Executors \cup Recoverers \subseteq Nat \ {0} /\ Executors \cap Recoverers = {}
    /\ LogItems \subseteq Nat /\ "SUCCESS" \notin Payload

Workers == Executors \cup Recoverers
ResultObjects == Payload \cup {"SUCCESS"}
Min1(S) == CHOOSE x \in S : \A y \in S : x <= y

VARIABLES
    fs,        \* the durable directory of a package
    worker,    \* [Workers -> pc, pkg, the artifacts in its workspace, the mount]
    remote,    \* the intent object of the request exists
    runs,      \* MLflow runs: [pkg, logged, finished]
    published, \* [ResultObjects -> digest]: the result prefix
    scorings,  \* how often the test fold has been scored
    package,   \* [Packages -> "signed", or "changed" since]
    mount,     \* identity of the durable mount
    faults

review == <<package, mount>>
sealVars == <<fs, worker, remote, runs, published, scorings, review, faults>>

EmptyRoot ==
    [dir |-> FALSE, lock |-> 0, intent |-> FALSE, run |-> 0, plan |-> 0,
     scored |-> 0, receipt |-> 0, publication |-> 0]

IdleWorker == [pc |-> "idle", pkg |-> 0, art |-> 0, mount |-> 0]
Over == [pc |-> "over", pkg |-> 0, art |-> 0, mount |-> 0]

SealInit ==
    /\ fs = [k \in Packages |-> EmptyRoot]
    /\ worker = [w \in Workers |-> IdleWorker]
    /\ remote = FALSE /\ runs = <<>>
    /\ published = [o \in ResultObjects |-> 0]
    /\ scorings = 0 /\ faults = 0
    /\ package = [k \in Packages |-> "signed"] /\ mount = 0

At(w, pc) == worker[w].pc = pc
Root(w) == fs[worker[w].pkg]
MayFail == faults < MaxFaults

(***************************************************************************)
(* How a worker's step ends: it goes on with its root changed, or the      *)
(* process ends and its lock with it.                                      *)
(***************************************************************************)
Continue(w, pc, root) ==
    /\ worker' = [worker EXCEPT ![w].pc = pc]
    /\ fs' = [fs EXCEPT ![worker[w].pkg] = root]
    /\ UNCHANGED review

End(w, root) ==
    /\ worker' = [worker EXCEPT ![w] = IF w \in Recoverers THEN IdleWorker ELSE Over]
    /\ fs' = [fs EXCEPT ![worker[w].pkg] =
                [root EXCEPT !.lock = IF root.lock = w THEN 0 ELSE root.lock]]
    /\ UNCHANGED review

(* A call raises, or its answer is lost after it took effect.              *)
Fault == MayFail /\ faults' = faults + 1
NoFault == UNCHANGED faults

WorkerCrash(w) ==
    /\ worker[w].pc \notin {"idle", "over"} /\ Fault
    /\ End(w, Root(w))
    /\ UNCHANGED <<remote, runs, published, scorings>>

(***************************************************************************)
(* The replacement runner, up to the lock.                                 *)
(***************************************************************************)
(* verify_package: plan, request, candidate, authorization, profile,       *)
(* lineage and the three readiness receipts are those that were signed,    *)
(* and nothing else is in the directory.                                   *)
VerifyPackage(k) == package[k] = "signed"

(* verify_mount: the mount is the one the process saw first.               *)
VerifyMount(w) == mount = worker[w].mount

(* main, with --execute or --recover.                                      *)
Launch(w, k) ==
    /\ At(w, "idle") /\ VerifyPackage(k)
    /\ \A v \in Executors : w \in Executors /\ v < w => ~At(v, "idle")
    /\ worker' = [worker EXCEPT ![w] =
                    [pc |-> "waiting", pkg |-> k, art |-> 0, mount |-> mount]]
    /\ UNCHANGED <<fs, remote, runs, published, scorings, review, faults>>

(* observed_context: the wait ends with the operator's signed read-back of *)
(* a job of this package and purpose, or at its deadline.  Package and     *)
(* mount are verified again before the first effect.                       *)
ObserveContext(w, signed) ==
    /\ At(w, "waiting")
    /\ IF signed /\ VerifyPackage(worker[w].pkg) /\ VerifyMount(w)
       THEN Continue(w, IF w \in Executors THEN "creating root" ELSE "locking", Root(w))
       ELSE End(w, Root(w))
    /\ UNCHANGED <<remote, runs, published, scorings, faults>>

(* While a job waits, a file of its package is altered or the durable      *)
(* mount is replaced.                                                      *)
ChangeStorage(w) ==
    /\ At(w, "waiting") /\ Fault
    /\ \/ package' = [package EXCEPT ![worker[w].pkg] = "changed"] /\ UNCHANGED mount
       \/ mount' = mount + 1 /\ UNCHANGED package
    /\ UNCHANGED <<fs, worker, remote, runs, published, scorings>>

(* execution_lock(create=True) makes the directory, and must be the one to *)
(* make it, ...                                                            *)
CreateRoot(w) ==
    /\ At(w, "creating root")
    /\ IF Root(w).dir THEN End(w, Root(w))
                      ELSE Continue(w, "locking", [Root(w) EXCEPT !.dir = TRUE])
    /\ UNCHANGED <<remote, runs, published, scorings, faults>>

(* ... then takes the lock without waiting for it.                         *)
TakeLock(w) ==
    /\ At(w, "locking")
    /\ IF Root(w).dir /\ Root(w).lock = 0
       THEN Continue(w, IF w \in Executors THEN "locked" ELSE "finishing",
                     [Root(w) EXCEPT !.lock = w])
       ELSE End(w, Root(w))
    /\ UNCHANGED <<remote, runs, published, scorings, faults>>

(***************************************************************************)
(* run_live: intent, reservation, access, scoring, checkpoint.             *)
(***************************************************************************)
PutIntentAlways(w) ==
    /\ At(w, "locked")
    /\ remote' = TRUE
    /\ NoFault /\ Continue(w, "intended", Root(w))
    /\ UNCHANGED <<runs, published, scorings>>

(* _require_empty_result: the intent is created only if it is not there. A *)
(* lost answer leaves the intent and ends the run.                         *)
PutIntent(w) ==
    /\ At(w, "locked")
    /\ remote' = TRUE
    /\ \/ ~remote /\ NoFault /\ Continue(w, "intended", Root(w))
       \/ remote /\ NoFault /\ End(w, Root(w))
       \/ Fault /\ End(w, Root(w))
    /\ UNCHANGED <<runs, published, scorings>>

Found(k) == {r \in 1..Len(runs) : runs[r].pkg = k}

NewRun(k) == [pkg |-> k, logged |-> [i \in LogItems |-> 0], finished |-> FALSE]

(* reserve_run before the POST: no run of the reservation exists, and no   *)
(* create was tried from this ledger.                                      *)
IntendRun(w) ==
    /\ At(w, "intended")
    /\ IF Found(worker[w].pkg) = {} /\ ~Root(w).intent
       THEN Continue(w, "creating run", [Root(w) EXCEPT !.intent = TRUE])
       ELSE End(w, Root(w))
    /\ UNCHANGED <<remote, runs, published, scorings, faults>>

(* One POST, never retried; whether a lost one was served is not known.    *)
CreateRun(w) ==
    /\ At(w, "creating run")
    /\ \E served \in BOOLEAN, answered \in BOOLEAN :
        /\ answered => served
        /\ runs' = IF served THEN Append(runs, NewRun(worker[w].pkg)) ELSE runs
        /\ IF answered THEN NoFault /\ Continue(w, "recording run", Root(w))
                       ELSE Fault /\ End(w, Root(w))
    /\ UNCHANGED <<remote, published, scorings>>

(* The run must be the only one its tag finds; its id is made durable      *)
(* before any final input is read.                                         *)
RecordRun(w) ==
    /\ At(w, "recording run")
    /\ IF Cardinality(Found(worker[w].pkg)) = 1
       THEN Continue(w, "reserved", [Root(w) EXCEPT !.run = Min1(Found(worker[w].pkg))])
       ELSE End(w, Root(w))
    /\ UNCHANGED <<remote, runs, published, scorings, faults>>

(* The candidate is downloaded and compared, the access is marked, the     *)
(* sealed release is downloaded and scored with the authorised candidate.  *)
ScoreTestFold(w) ==
    /\ At(w, "reserved")
    /\ scorings' = scorings + 1
    /\ \/ /\ NoFault /\ UNCHANGED <<fs, review>>
          /\ worker' = [worker EXCEPT ![w].pc = "scored", ![w].art = scorings']
       \/ Fault /\ End(w, Root(w))
    /\ UNCHANGED <<remote, runs, published>>

(* retain_scored_checkpoint: before any logging, for the recorded run; the *)
(* seal is renamed into place when everything it lists is on disk.         *)
SealScored(w) ==
    /\ At(w, "scored")
    /\ \/ /\ NoFault
          /\ IF Root(w).run # 0 /\ Root(w).plan = 0 /\ Root(w).scored = 0
             THEN Continue(w, "sealed", [Root(w) EXCEPT !.scored = worker[w].art])
             ELSE End(w, Root(w))
       \/ Fault /\ End(w, Root(w))
    /\ UNCHANGED <<remote, runs, published, scorings>>

(* LiveCheckpointLogger: the digest is retained apart from the seal.       *)
RetainReceipt(w) ==
    /\ At(w, "sealed")
    /\ Continue(w, "finishing", [Root(w) EXCEPT !.receipt = Root(w).scored])
    /\ UNCHANGED <<remote, runs, published, scorings, faults>>

(***************************************************************************)
(* finish_retained: the part a recovery shares with the live run.          *)
(***************************************************************************)
MyRun(w) == runs[Root(w).run]

RecoverableFresh(w) ==
    LET root == Root(w) IN
    /\ root.receipt # 0 /\ root.scored = root.receipt
    /\ root.plan = 0
    /\ root.run # 0 /\ Found(worker[w].pkg) = {root.run}

(* The receipt, the seal and the reservation agree; what the run already   *)
(* holds is what the plan says, all of it if the run is finished.          *)
Recoverable(w) ==
    LET root == Root(w) IN
    /\ root.receipt # 0 /\ root.scored = root.receipt
    /\ root.plan \in {0, root.receipt}
    /\ root.run # 0 /\ Found(worker[w].pkg) = {root.run}
    /\ \A i \in LogItems : MyRun(w).logged[i] \in
         (IF MyRun(w).finished THEN {root.receipt} ELSE {0, root.receipt})

BeginFinish(w) ==
    /\ At(w, "finishing")
    /\ IF Recoverable(w)
       THEN Continue(w, IF MyRun(w).finished THEN "logged" ELSE "logging",
                     [Root(w) EXCEPT !.plan = Root(w).receipt])
       ELSE End(w, Root(w))
    /\ UNCHANGED <<remote, runs, published, scorings, faults>>

Missing(w) == {i \in LogItems : MyRun(w).logged[i] = 0}

(* resume_verified_logging: one missing item after the other, a lost       *)
(* answer being left to the next recovery.                                 *)
LogItem(w) ==
    /\ At(w, "logging") /\ Missing(w) # {}
    /\ \E served \in BOOLEAN, answered \in BOOLEAN :
        /\ answered => served
        /\ runs' = IF served
                   THEN [runs EXCEPT ![Root(w).run].logged[Min1(Missing(w))] = Root(w).receipt]
                   ELSE runs
        /\ IF answered THEN NoFault /\ UNCHANGED <<worker, fs, review>>
                       ELSE Fault /\ End(w, Root(w))
    /\ UNCHANGED <<remote, published, scorings>>

(* Terminated only when the read-back is complete.                         *)
FinishRun(w) ==
    /\ At(w, "logging") /\ Missing(w) = {}
    /\ \E served \in BOOLEAN, answered \in BOOLEAN :
        /\ answered => served
        /\ runs' = IF served THEN [runs EXCEPT ![Root(w).run].finished = TRUE] ELSE runs
        /\ IF answered THEN NoFault /\ Continue(w, "logged", Root(w))
                       ELSE Fault /\ End(w, Root(w))
    /\ UNCHANGED <<remote, published, scorings>>

(* The result is rebuilt from a snapshot of the scored seal and retained   *)
(* under a directory of its own; the pointer to it is written last, and    *)
(* an existing one is used as it is.                                       *)
RetainPublication(w) ==
    /\ At(w, "logged")
    /\ \/ NoFault /\ Continue(w, "publishing",
             [Root(w) EXCEPT !.publication = IF @ = 0 THEN Root(w).scored ELSE @])
       \/ Fault /\ End(w, Root(w))
    /\ UNCHANGED <<remote, runs, published, scorings>>

ToPublish(w) == {o \in ResultObjects : published[o] = 0}

(* What resume_publication checks before it writes anything.               *)
Publishable(w) ==
    /\ Root(w).publication = Root(w).scored
    /\ remote
    /\ \A o \in ResultObjects : published[o] \in {0, Root(w).publication}
    /\ published["SUCCESS"] # 0 => ToPublish(w) = {}

(* A conditional put with SUCCESS last.  An answer that is lost is made up *)
(* for by a read-back; a put that was not served ends the run.             *)
PutResult(w, o) ==
    /\ At(w, "publishing") /\ Publishable(w) /\ o \in ToPublish(w)
    /\ o = "SUCCESS" => ToPublish(w) = {"SUCCESS"}
    /\ \/ /\ published' = [published EXCEPT ![o] = Root(w).publication]
          /\ NoFault /\ UNCHANGED <<worker, fs, review>>
       \/ /\ UNCHANGED published
          /\ Fault /\ End(w, Root(w))
    /\ UNCHANGED <<remote, runs, scorings>>

(* Everything reads back, or something in the way was found.               *)
EndPublication(w) ==
    /\ At(w, "publishing")
    /\ ~Publishable(w) \/ ToPublish(w) = {}
    /\ End(w, Root(w))
    /\ UNCHANGED <<remote, runs, published, scorings, faults>>

Step(w) ==
    \/ CreateRoot(w) \/ TakeLock(w) \/ PutIntent(w) \/ IntendRun(w) \/ CreateRun(w)
    \/ RecordRun(w) \/ ScoreTestFold(w) \/ SealScored(w) \/ RetainReceipt(w)
    \/ BeginFinish(w) \/ LogItem(w) \/ FinishRun(w) \/ RetainPublication(w)
    \/ \E o \in ResultObjects : PutResult(w, o)
    \/ EndPublication(w)

SealNext ==
    \/ \E w \in Workers :
         \/ \E k \in Packages : Launch(w, k)
         \/ \E signed \in BOOLEAN : ObserveContext(w, signed)
         \/ Step(w) \/ WorkerCrash(w) \/ ChangeStorage(w)

(* A running job goes on, and the operator keeps submitting recoveries and *)
(* signs their contexts.                                                   *)
SealFairness ==
    /\ \A w \in Workers : WF_sealVars(Step(w))
    /\ \A w \in Recoverers, k \in Packages : SF_sealVars(Launch(w, k))
    /\ \A w \in Recoverers, k \in Packages :
         SF_sealVars(worker[w].pkg = k /\ ObserveContext(w, TRUE))

SealSpec == SealInit /\ [][SealNext]_sealVars /\ SealFairness

(***************************************************************************)
(* Properties.                                                             *)
(***************************************************************************)
(* Whatever crashes, is lost or is submitted again, from whichever         *)
(* filesystem, the test fold is scored once (run_live,                     *)
(* _require_empty_result).                                                 *)
ScoredOnce == scorings <= 1

(* A published result is complete, is the sealed scoring, and is what the  *)
(* one finished MLflow run of its reservation holds (finish_retained).     *)
PublishedIsScored ==
    published["SUCCESS"] # 0 =>
        \E k \in Packages :
            LET root == fs[k] IN
            /\ root.scored # 0
            /\ \A o \in ResultObjects : published[o] = root.scored
            /\ Found(k) = {root.run} /\ runs[root.run].finished
            /\ \A i \in LogItems : runs[root.run].logged[i] = root.scored

(* A lost answer to the POST never leads to a second run of a reservation  *)
(* (reserve_run).                                                          *)
OneRunPerReservation == \A k \in Packages : Cardinality(Found(k)) <= 1

(* From the moment the digest of the scored checkpoint is retained, no     *)
(* finite number of faults keeps the result from being published, unless   *)
(* the signed package itself is altered (finish_retained).                 *)
RetainedIsPublished ==
    \A k \in Packages :
        fs[k].receipt # 0 ~> published["SUCCESS"] # 0 \/ package[k] = "changed"

(* One scoring, one result: the test fold is scored once, a reservation    *)
(* has one run, and what is published is that scoring (run_live,           *)
(* reserve_run, finish_retained).                                          *)
OneScoredResult == ScoredOnce /\ OneRunPerReservation /\ PublishedIsScored
=============================================================================
