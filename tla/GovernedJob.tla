---------------------------- MODULE GovernedJob ----------------------------
(***************************************************************************)
(* One governed training job, from the staged request to the G4 exit       *)
(* record: staging and the dry run an operator reviews, the submission     *)
(* with its intent, created and submission files (scripts/                 *)
(* submit_nebius_job.py), the job itself (backend/app/ml/lightgbm/         *)
(* cloud_runner.py, cloud_transport.py) and the monitor, the collection    *)
(* and the exit gates (scripts/lightgbm_wave1.py).                         *)
(*                                                                         *)
(* A request stands for its hash, its input and its result prefix.  Time   *)
(* is counted in polls; an evidence file is its record, written once.      *)
(***************************************************************************)
EXTENDS Naturals, Sequences, FiniteSets

CONSTANTS
    Requests,     \* requests, numbered in the order they are staged
    Paths,        \* --evidence-output paths, numbered in the order they are used
    Ceiling,      \* development jobs of the campaign (20 in the code)
    Watchdog,     \* the watchdog, in polls (900 s)
    MaxJobs, MaxClock   \* bounds

ASSUME GovernedJobAssumption ==
    /\ Ceiling \in Nat \ {0} /\ Watchdog \in Nat \ {0}
    /\ Requests \subseteq Nat \ {0} /\ Paths \subseteq Nat \ {0}

None == [kind |-> "none"]

VARIABLES
    clock,
    staged,      \* requests with verified staging evidence
    dryRuns,     \* dry-run evidence: [request, jobs]
    intent, created, submission,   \* the three files of a path
    op,          \* [Paths -> ...]: the submitting process
    job,         \* the platform's jobs, in order of creation
    prefix,      \* [Requests -> 0, or the job whose result is published]
    monitor, collection, exit      \* the evidence that follows

vars == <<clock, staged, dryRuns, intent, created, submission, op, job, prefix,
          monitor, collection, exit>>

Jobs == 1..Len(job)

\* What the platform may have created: the governed image on the governed
\* resources, or one of them changed.
Deployed == {"governed", "other image", "other resources"}

Idle == [pc |-> "idle", job |-> 0]
Stopped == [pc |-> "stopped", job |-> 0]

Init ==
    /\ clock = 0 /\ staged = {} /\ dryRuns = {}
    /\ intent = [p \in Paths |-> None] /\ created = [p \in Paths |-> None]
    /\ submission = [p \in Paths |-> None]
    /\ op = [p \in Paths |-> Idle]
    /\ job = <<>> /\ prefix = [r \in Requests |-> 0]
    /\ monitor = [p \in Paths |-> None] /\ collection = [p \in Paths |-> None]
    /\ exit = [p \in Paths |-> FALSE]

evidence == <<intent, created, submission, monitor, collection, exit>>

(* Only time since a job was created is ever measured.                     *)
Tick ==
    /\ clock < MaxClock /\ job # <<>>
    /\ clock' = clock + 1
    /\ UNCHANGED <<staged, dryRuns, op, job, prefix, evidence>>

(***************************************************************************)
(* Staging and review.                                                     *)
(***************************************************************************)
(* stage_fixture: evidence is written once the release reads back.         *)
StageRequest(r) ==
    /\ r \notin staged /\ \A q \in Requests : q < r => q \in staged
    /\ staged' = staged \cup {r}
    /\ UNCHANGED <<clock, dryRuns, op, job, prefix, evidence>>

(* The checks before any command is built: verified staging evidence, and  *)
(* a reconciled number of development jobs below the ceiling (given by the *)
(* operator, here the true one).  Image, resources and prefixes are the    *)
(* request's own.                                                          *)
LoadsRequest(r) == r \in staged

Governed(r) == LoadsRequest(r) /\ Len(job) < Ceiling

(* --dry-run: the reviewed command, written as evidence.                   *)
DryRun(r) ==
    /\ Governed(r)
    /\ dryRuns' = dryRuns \cup {[request |-> r, jobs |-> Len(job)]}
    /\ UNCHANGED <<clock, staged, op, job, prefix, evidence>>

(***************************************************************************)
(* Submission.                                                             *)
(***************************************************************************)
PathLooksFresh(p) == submission[p] = None /\ created[p] = None

(* No file of the path exists yet.                                         *)
PathIsFresh(p) == submission[p] = None /\ created[p] = None /\ intent[p] = None

(* The reviewed dry run is one that was written, for a staged request; the *)
(* count of jobs is compared with the reviewed one, not counted again.     *)
Reviewed(d) == d \in dryRuns /\ LoadsRequest(d.request) /\ d.jobs < Ceiling

(* The command is run, again perhaps, for an output path and a dry run     *)
(* that was reviewed; `recover` is the job it reads back instead of        *)
(* creating one, or 0.  The intent is on disk before the request leaves.   *)
Submit(p, d, recover) ==
    /\ op[p].pc \in {"idle", "stopped"}
    /\ PathIsFresh(p) /\ \A q \in Paths : q < p => intent[q] # None
    /\ Reviewed(d)
    /\ recover \in Jobs \cup {0}
    /\ intent' = [intent EXCEPT ![p] = [kind |-> "intent", dry |-> d, recover |-> recover]]
    /\ op' = [op EXCEPT ![p] = [pc |-> IF recover = 0 THEN "creating" ELSE "recovering", job |-> 0]]
    /\ UNCHANGED <<clock, staged, dryRuns, created, submission, job, prefix,
                   monitor, collection, exit>>

SubmissionRecord(p, j, status, at) ==
    [kind |-> "submission", submitted |-> status = "SUBMITTED", job |-> j, at |-> at,
     dry |-> intent[p].dry]

(* nebius ai job create.  The command may be killed by its 120 s limit or  *)
(* report an error, with the job created or not.  The created file is      *)
(* written before anything else is done with the id.                       *)
CreateJob(p) ==
    /\ op[p].pc = "creating"
    /\ Len(job) < MaxJobs
    /\ \E made \in BOOLEAN, image \in Deployed,
          answer \in {"id", "timeout", "error"} :
        /\ answer = "id" => made
        /\ made \/ image = "governed"
        /\ job' = IF made
                  THEN Append(job, [request |-> intent[p].dry.request, path |-> p, image |-> image,
                                    state |-> "queued", at |-> clock, done |-> 0])
                  ELSE job
        /\ CASE answer = "id" ->
                  /\ op' = [op EXCEPT ![p] = [pc |-> "verifying", job |-> Len(job) + 1]]
                  /\ created' = [created EXCEPT ![p] = [kind |-> "created", job |-> Len(job) + 1]]
                  /\ UNCHANGED submission
             [] answer = "timeout" ->
                  op' = [op EXCEPT ![p] = Stopped] /\ UNCHANGED <<created, submission>>
             [] answer = "error" ->
                  /\ op' = [op EXCEPT ![p] = Stopped]
                  /\ submission' = [submission EXCEPT ![p] =
                                      SubmissionRecord(p, 0, "SUBMISSION_FAILED", 0)]
                  /\ UNCHANGED created
    /\ UNCHANGED <<clock, staged, dryRuns, intent, prefix, monitor, collection, exit>>

(* _verify_recovered_job_readback: the read-back job must be the reviewed  *)
(* one in name, arguments, image, resources and environment.               *)
MatchesReview(p, j) ==
    job[j].request = intent[p].dry.request /\ job[j].image = "governed"

(* nebius ai job get instead of create: a job that does not match leaves   *)
(* the intent alone, a query that fails a SUBMISSION_FAILED record.        *)
RecoverJob(p) ==
    /\ op[p].pc = "recovering"
    /\ LET j == intent[p].recover IN
       \E answered \in BOOLEAN :
         IF answered /\ MatchesReview(p, j)
         THEN /\ op' = [op EXCEPT ![p] = [pc |-> "verifying", job |-> j]]
              /\ created' = [created EXCEPT ![p] = [kind |-> "created", job |-> j]]
              /\ UNCHANGED submission
         ELSE /\ op' = [op EXCEPT ![p] = Stopped]
              /\ submission' = IF answered THEN submission
                               ELSE [submission EXCEPT ![p] =
                                       SubmissionRecord(p, 0, "SUBMISSION_FAILED", 0)]
              /\ UNCHANGED created
    /\ UNCHANGED <<clock, staged, dryRuns, intent, job, prefix, monitor, collection, exit>>

Live(j) == job[j].state \in {"queued", "publishing"}

CancelledIn(j) == [job EXCEPT ![j].state = "cancelled"]

(* _verify_created_digest_job compares the id and the image only.          *)
CreatedDigest(j) == job[j].image # "other image"

(* The verification, then the submission file.  A recovered job was        *)
(* verified when it was read back and keeps the server's time.             *)
VerifySubmission(p) ==
    LET j == op[p].job
        recovered == intent[p].recover # 0
        at == IF recovered THEN job[j].at ELSE clock
    IN  /\ op[p].pc = "verifying"
        /\ op' = [op EXCEPT ![p] = Stopped]
        /\ \E readback \in BOOLEAN, cancelled \in BOOLEAN :
             LET accepted == recovered \/ (readback /\ CreatedDigest(j)) IN
             /\ recovered => readback
             /\ cancelled => ~accepted /\ Live(j)
             /\ submission' = [submission EXCEPT ![p] =
                  IF accepted THEN SubmissionRecord(p, j, "SUBMITTED", at)
                  ELSE SubmissionRecord(p, 0, "POST_SUBMISSION_VERIFICATION_FAILED", 0)]
             /\ job' = IF cancelled THEN CancelledIn(j) ELSE job
        /\ UNCHANGED <<clock, staged, dryRuns, intent, created, prefix, monitor, collection, exit>>

(* The submitting process is killed between two of its steps.              *)
Crash(p) ==
    /\ op[p].pc \in {"creating", "recovering", "verifying"}
    /\ op' = [op EXCEPT ![p] = Stopped]
    /\ UNCHANGED <<clock, staged, dryRuns, job, prefix, evidence>>

(***************************************************************************)
(* The job.                                                                *)
(***************************************************************************)
JobTo(j, state) == job' = [job EXCEPT ![j].state = state]

(* execute_wave1_s3 up to the end of training: the input release, the      *)
(* request's boundaries and the resources its environment names are        *)
(* verified, the development folds are loaded, model and calibration are   *)
(* trained; any of these may raise.  publish_s3_result then lists the      *)
(* prefix, ...                                                             *)
RunJob(j) ==
    /\ job[j].state = "queued"
    /\ \E raised \in BOOLEAN :
        JobTo(j, IF raised \/ prefix[job[j].request] # 0 THEN "failed" ELSE "publishing")
    /\ UNCHANGED <<clock, staged, dryRuns, op, prefix, evidence>>

(* ... then uploads, SUCCESS last; a failed run leaves FAILED, which no    *)
(* reader takes for a result.                                              *)
PublishResult(j) ==
    /\ job[j].state = "publishing"
    /\ \E ok \in BOOLEAN :
        /\ job' = [job EXCEPT ![j].state = IF ok THEN "completed" ELSE "failed", ![j].done = clock]
        /\ prefix' = IF ok THEN [prefix EXCEPT ![job[j].request] = j] ELSE prefix
    /\ UNCHANGED <<clock, staged, dryRuns, op, evidence>>

(***************************************************************************)
(* Monitoring and collection.                                              *)
(***************************************************************************)
Submitted(p) == submission[p] # None /\ submission[p].submitted

Elapsed(p, at) == IF at > submission[p].at THEN at - submission[p].at ELSE 0

PollStatusUnbounded(p, query, context, stamped) ==
    LET j == submission[p].job IN
    CASE ~query -> "STATUS_QUERY_FAILED"
      [] query /\ context /\ job[j].image # "governed" -> "RESOURCE_MISMATCH"
      [] query /\ job[j].state = "completed" -> "COMPLETED"
      [] query /\ job[j].state \in {"failed", "cancelled"} -> "FAILED"
      [] OTHER -> ""

(* The status one poll ends the loop of monitor_g4_job with, or "" to go   *)
(* on.  `stamped`: the platform reports when the job finished.             *)
PollStatus(p, query, context, stamped) ==
    LET j == submission[p].job
        spent == Elapsed(p, IF stamped THEN job[j].done ELSE clock)
    IN  CASE ~query -> "STATUS_QUERY_FAILED"
          [] query /\ context /\ job[j].image # "governed" -> "RESOURCE_MISMATCH"
          [] query /\ job[j].state = "completed" /\ ~context -> "RESOURCE_EVIDENCE_MISSING"
          [] query /\ job[j].state = "completed" /\ context /\ job[j].image = "governed" ->
               IF spent <= Watchdog THEN "COMPLETED" ELSE "WATCHDOG_BREACHED"
          [] query /\ job[j].state \in {"failed", "cancelled"} -> "FAILED"
          [] OTHER -> IF Elapsed(p, clock) >= Watchdog THEN "CANCEL" ELSE ""

(* One poll that ends the monitor; the others only sleep.  A cancellation  *)
(* may fail, and so may the retrieval of the logs.  Later steps tell       *)
(* COMPLETED from the other endings only.                                  *)
PollAnswered(p, query) ==
    /\ Submitted(p)
    /\ monitor[p] = None
    /\ \E context \in BOOLEAN, stamped \in BOOLEAN, logs \in BOOLEAN, refused \in BOOLEAN :
        LET j == submission[p].job
            status == PollStatus(p, query, context, stamped)
        IN  /\ status # ""
            /\ refused => status = "CANCEL"
            /\ logs => status = "COMPLETED"
            /\ job' = IF status = "CANCEL" /\ ~refused THEN CancelledIn(j) ELSE job
            /\ monitor' = [monitor EXCEPT ![p] =
                             [kind |-> "monitor", completed |-> status = "COMPLETED", logs |-> logs]]
    /\ UNCHANGED <<clock, staged, dryRuns, intent, created, submission, op, prefix, collection, exit>>

Poll(p) == \E query \in BOOLEAN : PollAnswered(p, query)

(* collect_s3_result and collect_result: the monitor of the submitted job  *)
(* says COMPLETED, and the downloaded result is of the submitted request.  *)
Collectable(p) ==
    /\ Submitted(p) /\ monitor[p] # None
    /\ monitor[p].completed

CollectResult(p) ==
    LET source == prefix[submission[p].dry.request] IN
    /\ collection[p] = None
    /\ Collectable(p)
    /\ source # 0
    /\ collection' = [collection EXCEPT ![p] =
                        [kind |-> "collection", source |-> source, request |-> job[source].request]]
    /\ UNCHANGED <<clock, staged, dryRuns, intent, created, submission, op, job, prefix, monitor, exit>>

(* create_g4_exit_record: the gates over the five evidence files, of one   *)
(* chain.                                                                  *)
ExitGates(p) ==
    LET d == submission[p].dry IN
    /\ d.request \in staged
    /\ d \in dryRuns
    /\ collection[p].request = d.request
    /\ monitor[p].completed /\ monitor[p].logs
    /\ d.jobs < Ceiling

CreateExitRecord(p) ==
    /\ ~exit[p]
    /\ Submitted(p) /\ monitor[p] # None /\ collection[p] # None
    /\ ExitGates(p)
    /\ exit' = [exit EXCEPT ![p] = TRUE]
    /\ UNCHANGED <<clock, staged, dryRuns, intent, created, submission, op, job, prefix,
                   monitor, collection>>

Next ==
    \/ Tick
    \/ \E r \in Requests : StageRequest(r) \/ DryRun(r)
    \/ \E p \in Paths :
         \/ \E d \in dryRuns, j \in 0..MaxJobs : Submit(p, d, j)
         \/ CreateJob(p) \/ RecoverJob(p) \/ VerifySubmission(p) \/ Crash(p)
         \/ Poll(p) \/ CollectResult(p) \/ CreateExitRecord(p)
    \/ \E j \in Jobs : RunJob(j) \/ PublishResult(j)

(* Time passes, and a monitor polls on: that a query is answered is all    *)
(* its end may depend on.                                                  *)
Fairness == WF_vars(Tick) /\ \A p \in Paths : WF_vars(PollAnswered(p, TRUE))

Spec == Init /\ [][Next]_vars /\ Fairness

(***************************************************************************)
(* Properties.                                                             *)
(***************************************************************************)
(* However often the command is killed and run again for an output path,   *)
(* and whatever became of its answer, the path has created one job at most *)
(* (submit_nebius_job.py, the create-intent receipt).                      *)
OneJobPerPath ==
    \A p \in Paths : Cardinality({j \in Jobs : job[j].path = p}) <= 1

(* A passed G4 exit names a job that ran the reviewed request on the       *)
(* governed image and resources and finished, and a result of a finished   *)
(* job of that request (create_g4_exit_record).                            *)
ExitIsEarned ==
    \A p \in Paths : exit[p] =>
        LET j == submission[p].job  src == collection[p].source IN
        /\ job[j].state = "completed" /\ job[src].state = "completed"
        /\ job[j].image = "governed"
        /\ {job[j].request, job[src].request} = {intent[p].dry.request}
        /\ job[j].done <= submission[p].at + Watchdog

(* Every submitted job gets its terminal monitor record, if need be by the *)
(* watchdog's cancellation (monitor_g4_job).  A job submitted too near the *)
(* end of the bounded clock is not counted.                                *)
MonitorEnds ==
    \A p \in Paths :
        (Submitted(p) /\ submission[p].at + Watchdog <= MaxClock) ~> monitor[p] # None

(* A governed path is submitted once over every crash and lost answer, and *)
(* its exit status is earned by the jobs it names (submit_nebius_job.py).  *)
SubmissionIsEarned == OneJobPerPath /\ ExitIsEarned
=============================================================================
