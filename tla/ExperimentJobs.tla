--------------------------- MODULE ExperimentJobs ---------------------------
(***************************************************************************)
(* Managed experiments of the FastAPI service: the manifest of one         *)
(* experiment (experiments/<id>/experiment.json), its job records          *)
(* (jobs.jsonl), its artifact directories and the requests of              *)
(* routes_experiments.py that change them through ExperimentManager and    *)
(* NebiusExperimentOrchestrator.                                           *)
(*                                                                         *)
(* The routes are synchronous, so FastAPI runs them on a thread pool, and  *)
(* no request takes a lock: a request reads the manifest, works, and saves *)
(* its copy.  One action is one stretch between two points where another   *)
(* request's write can matter.  Artifact contents, messages, timestamps,   *)
(* the history log and the evidence archive are left out; an artifact file *)
(* is a member of Files.                                                   *)
(***************************************************************************)
EXTENDS Naturals, Sequences, SequencesExt, FiniteSets

CONSTANTS
    Handlers,      \* request threads
    Files,         \* the files ARTIFACT_MAPPINGS expects of a batch
    Report,        \* the one of them the aggregator also writes
    Settings,      \* the deployments considered
    MaxJobs,       \* bound: job records created
    MaxRequests    \* bound: requests served, status polls aside

ASSUME ExperimentJobsAssumption ==
    /\ Report \in Files
    /\ Settings \subseteq [submit : BOOLEAN, status : BOOLEAN, artifacts : BOOLEAN,
                           uri : BOOLEAN, mounted : BOOLEAN]
    /\ MaxJobs \in Nat /\ MaxRequests \in Nat

VARIABLES
    settings,   \* command templates and output location configured
    manifest,   \* [exists, status, batch]: experiment.json
    jobs,       \* jobs.jsonl, in file order
    localDir,   \* files in local-batch, where a mounted cloud job writes too
    cloudDir,   \* files synced from the cloud prefix into cloud-batch
    layout,     \* files copied into the experiment's own artifact layout
    cloud,      \* what the platform knows of each job
    sent,       \* files each cloud job has written to the experiment's prefix
    confirmed,  \* jobs whose completion and artifact command refresh has seen
    deleted,    \* the experiment's directory has been removed
    req,        \* per thread: the request it is serving and what it has read
    created, served

vars == <<settings, manifest, jobs, localDir, cloudDir, layout, cloud, sent, confirmed,
          deleted, req, created, served>>
store == <<manifest, jobs, localDir, cloudDir, layout>>
platform == <<cloud, sent>>

JobIds == 1..MaxJobs
Idle == [op |-> "idle", snap |-> [exists |-> FALSE, status |-> "none", batch |-> 0],
         jobs |-> <<>>, at |-> 0, from |-> "none", back |-> FALSE]
Requests == {"manifest", "local", "normalize", "investigate", "aggregate", "render",
             "submit", "collect", "refresh"}
Bucket == UNION {sent[j] : j \in JobIds}

TypeOK ==
    /\ manifest.status \in {"manifest_generated", "submitted", "completed", "failed",
                            "cloud_artifacts_pending"}
    /\ manifest.batch \in 0..MaxJobs
    /\ jobs \in Seq([id : JobIds, backend : {"local", "nebius"},
                     status : {"queued", "running", "completed", "failed", "pending"}])
    /\ localDir \subseteq Files /\ cloudDir \subseteq Files /\ layout \subseteq Files
    /\ created \in 0..MaxJobs /\ served \in 0..MaxRequests

(* ExperimentManager.create: the manifest is saved with its directory. *)
Init ==
    /\ settings \in Settings
    /\ manifest = [exists |-> TRUE, status |-> "manifest_generated", batch |-> 0]
    /\ jobs = <<>> /\ localDir = {} /\ cloudDir = {} /\ layout = {}
    /\ cloud = [j \in JobIds |-> "none"] /\ sent = [j \in JobIds |-> {}]
    /\ confirmed = {} /\ deleted = FALSE
    /\ req = [h \in Handlers |-> Idle] /\ created = 0 /\ served = 0

Finish(h) == req' = [req EXCEPT ![h] = Idle]

(* repository.save writes the whole manifest and recreates its directory,  *)
(* so a request that outlives a deletion brings the experiment back.       *)
Save(m) == manifest' = [m EXCEPT !.exists = TRUE]

(* A request reads the manifest; an unknown experiment is a 404.  refresh  *)
(* reads the job records as well.                                          *)
Begin(h, op) ==
    /\ req[h] = Idle /\ manifest.exists
    /\ op = "refresh" \/ served < MaxRequests
    /\ req' = [req EXCEPT ![h] = [Idle EXCEPT !.op = op, !.snap = manifest,
                                  !.jobs = IF op = "refresh" THEN jobs ELSE <<>>]]
    /\ served' = IF op = "refresh" THEN served ELSE served + 1
    /\ UNCHANGED <<settings, store, platform, confirmed, deleted, created>>

(* The requests that save the copy of the manifest they read, and answer.  *)
Respond(h, status, files) ==
    /\ Save([req[h].snap EXCEPT !.status = status])
    /\ layout' = layout \cup files
    /\ Finish(h)
    /\ UNCHANGED <<settings, jobs, localDir, cloudDir, platform, confirmed, deleted, created,
                   served>>

GenerateManifest(h) == req[h].op = "manifest" /\ Respond(h, "manifest_generated", {})

RenderConfig(h) == req[h].op = "render" /\ Respond(h, req[h].snap.status, {})

NormalizeArtifacts(h) ==
    req[h].op = "normalize" /\ localDir # {} /\ Respond(h, req[h].snap.status, localDir)

RunInvestigations(h) ==
    req[h].op = "investigate" /\ layout \cup localDir # {} /\ Respond(h, req[h].snap.status, {})

(* aggregate_experiment writes the benchmark report of the layout itself.  *)
Aggregate(h) == req[h].op = "aggregate" /\ Respond(h, req[h].snap.status, {Report})

(* Without a batch directory, or without alerts, the request is refused.   *)
Refuse(h) ==
    /\ \/ req[h].op = "normalize" /\ localDir = {}
       \/ req[h].op = "investigate" /\ layout \cup localDir = {}
    /\ Finish(h)
    /\ UNCHANGED <<settings, store, platform, confirmed, deleted, created, served>>

(* run_local_smart_batch: a batch that exits 0 has written every file, one *)
(* that fails some of them; a timeout leaves the request with an error and *)
(* nothing saved.  A missing attack manifest was generated on the way,     *)
(* which saves and re-reads the experiment.                                *)
RunLocalBatch(h) ==
    /\ req[h].op = "local" /\ created < MaxJobs
    /\ created' = created + 1
    /\ \/ /\ localDir' = Files
          /\ req' = [req EXCEPT ![h].op = "localDone", ![h].at = created']
       \/ \E written \in SUBSET Files :
             /\ localDir' = localDir \cup written
             /\ \/ req' = [req EXCEPT ![h].op = "localFailed", ![h].at = created']
                \/ Finish(h)
    /\ UNCHANGED <<settings, manifest, jobs, cloudDir, layout, platform, confirmed, deleted, served>>

SaveLocalBatch(h) ==
    LET outcome == IF req[h].op = "localDone" THEN "completed" ELSE "failed"
    IN  /\ req[h].op \in {"localDone", "localFailed"}
        /\ layout' = IF outcome = "completed" THEN layout \cup localDir ELSE layout
        /\ jobs' = Append(jobs, [id |-> req[h].at, backend |-> "local", status |-> outcome])
        /\ Save([req[h].snap EXCEPT !.status = outcome, !.batch = req[h].at])
        /\ Finish(h)
        /\ UNCHANGED <<settings, localDir, cloudDir, platform, confirmed, deleted, created, served>>

(* submit and _submit_with_command: the command may be refused, time out   *)
(* after the platform took the job, or not be configured at all.           *)
SubmitJob(h) ==
    /\ req[h].op = "submit" /\ created < MaxJobs
    /\ created' = created + 1
    /\ \/ /\ settings.submit
          /\ jobs' = Append(jobs, [id |-> created', backend |-> "nebius", status |-> "queued"])
          /\ cloud' = [cloud EXCEPT ![created'] = "running"]
          /\ req' = [req EXCEPT ![h].op = "submitted", ![h].at = created']
       \/ /\ settings.submit
          /\ jobs' = Append(jobs, [id |-> created', backend |-> "nebius", status |-> "failed"])
          /\ cloud' \in {cloud, [cloud EXCEPT ![created'] = "running"]}
          /\ req' = [req EXCEPT ![h].op = "submitFailed", ![h].at = created']
       \/ /\ ~settings.submit
          /\ jobs' = Append(jobs, [id |-> created', backend |-> "nebius", status |-> "pending"])
          /\ req' = [req EXCEPT ![h].op = "submitted", ![h].at = created']
          /\ UNCHANGED cloud
    /\ UNCHANGED <<settings, manifest, localDir, cloudDir, layout, sent, confirmed, deleted, served>>

SaveSubmission(h) ==
    /\ req[h].op \in {"submitted", "submitFailed"}
    /\ Save([req[h].snap EXCEPT !.batch = req[h].at,
             !.status = IF req[h].op = "submitFailed" THEN "failed" ELSE "submitted"])
    /\ Finish(h)
    /\ UNCHANGED <<settings, jobs, localDir, cloudDir, layout, platform, confirmed, deleted,
                   created, served>>

(* _find_mounted_output_dir: the first candidate directory that holds any  *)
(* expected file.  The mounted job output is the local-batch directory.    *)
MountedOutput ==
    CASE localDir # {} -> "local"
      [] localDir = {} /\ cloudDir # {} -> "cloud"
      [] OTHER -> "none"

(* _sync_cloud_output_uri and the artifacts command copy what the prefix   *)
(* holds into cloud-batch; one that fails has already copied some of it.   *)
SyncOutput(h) ==
    \/ /\ cloudDir' = cloudDir \cup Bucket
       /\ req' = [req EXCEPT ![h].from = "cloud",
                     ![h].op = IF settings.artifacts /\ cloudDir' = {} THEN "outputPending"
                                                                      ELSE "normalizing"]
    \/ \E part \in SUBSET Bucket :
          /\ cloudDir' = cloudDir \cup part
          /\ req' = [req EXCEPT ![h].op = "outputPending"]

(* collect_artifacts, up to the directory it will copy: nothing is fetched *)
(* while a candidate directory is usable.                                  *)
LocateOutput(h) ==
    /\ req[h].op = "collect"
    /\ \/ /\ MountedOutput # "none"
          /\ req' = [req EXCEPT ![h].op = "normalizing", ![h].from = MountedOutput]
          /\ UNCHANGED cloudDir
       \/ MountedOutput = "none" /\ (settings.artifacts \/ settings.uri) /\ SyncOutput(h)
       \/ /\ MountedOutput = "none" /\ ~settings.artifacts /\ ~settings.uri
          /\ req' = [req EXCEPT ![h].op = "outputPending"] /\ UNCHANGED cloudDir
    /\ UNCHANGED <<settings, manifest, jobs, localDir, layout, platform, confirmed, deleted,
                   created, served>>

(* _mark_latest_cloud_job_completed: the newest queued or running record.  *)
MarkLatest(js) ==
    LET open == {i \in DOMAIN js : js[i].backend = "nebius" /\ js[i].status \in {"queued", "running"}}
    IN  IF open = {} THEN js
        ELSE [js EXCEPT ![CHOOSE i \in open : \A k \in open : k <= i].status = "completed"]

(* A collection made for refresh answers it: the job under refresh is      *)
(* completed if every file came, and stays running otherwise.              *)
Answer(h, collected) ==
    IF req[h].back
    THEN req' = [req EXCEPT ![h] = [Idle EXCEPT !.op = "refresh", !.at = req[h].at + 1,
                    !.jobs = [req[h].jobs EXCEPT ![req[h].at + 1].status =
                                 IF collected THEN "completed" ELSE "running"]]]
    ELSE Finish(h)

IsCollectedAny(files) == files # {}

IsCollected(files) == files = Files

(* collect_artifacts, from the copy to the response: normalize, save the   *)
(* status, and mark a job only when no expected file is missing.           *)
NormalizeOutput(h) ==
    LET source == IF req[h].from = "local" THEN localDir ELSE cloudDir
        collected == IsCollected(source)
    IN  /\ req[h].op = "normalizing"
        /\ layout' = layout \cup source
        /\ Save([req[h].snap EXCEPT
                 !.status = IF collected THEN "completed" ELSE "cloud_artifacts_pending"])
        /\ jobs' = IF collected THEN MarkLatest(jobs) ELSE jobs
        /\ Answer(h, collected)
        /\ UNCHANGED <<settings, localDir, cloudDir, platform, confirmed, deleted, created, served>>

(* _mark_artifacts_pending. *)
MarkPending(h) ==
    /\ req[h].op = "outputPending"
    /\ Save([req[h].snap EXCEPT !.status = "cloud_artifacts_pending"])
    /\ Answer(h, FALSE)
    /\ UNCHANGED <<settings, jobs, localDir, cloudDir, layout, platform, confirmed, deleted,
                   created, served>>

SetStatus(h, s) ==
    req' = [req EXCEPT ![h].jobs[req[h].at + 1].status = s, ![h].at = req[h].at + 1]

(* refresh, one record: only submitted jobs are asked about.  The status   *)
(* command may fail or say nothing new; the logs and artifacts commands    *)
(* are not guarded, so one that fails ends the request with every record   *)
(* of the experiment unrefreshed.                                          *)
RefreshJob(h) ==
    /\ req[h].op = "refresh" /\ req[h].at < Len(req[h].jobs)
    /\ LET job == req[h].jobs[req[h].at + 1]
           asked == job.backend = "nebius" /\ job.status \in {"queued", "running"}
                    /\ settings.status /\ manifest.exists
           answer == cloud[job.id]
       IN  \/ /\ req' = [req EXCEPT ![h].at = req[h].at + 1]   \* not asked, or no answer
              /\ UNCHANGED confirmed
           \/ /\ asked /\ answer # "none"
              /\ \/ /\ answer # "completed" /\ SetStatus(h, answer) /\ UNCHANGED confirmed
                 \/ /\ answer = "completed" /\ settings.artifacts
                    /\ SetStatus(h, "completed") /\ confirmed' = confirmed \cup {job.id}
                 \/ /\ answer = "completed" /\ ~settings.artifacts /\ settings.uri
                    /\ req' = [req EXCEPT ![h].op = "collect", ![h].snap = manifest,
                                          ![h].back = TRUE]
                    /\ UNCHANGED confirmed
                 \/ /\ answer = "completed" /\ ~settings.artifacts /\ ~settings.uri
                    /\ SetStatus(h, "running") /\ UNCHANGED confirmed
           \/ /\ asked /\ answer # "none"
              /\ Finish(h) /\ UNCHANGED confirmed               \* an unguarded command fails
    /\ UNCHANGED <<settings, store, platform, deleted, created, served>>

(* _write_jobs rewrites the whole file from the records read at the start. *)
WriteJobs(h) ==
    /\ req[h].op = "refresh" /\ req[h].at = Len(req[h].jobs)
    /\ jobs' = req[h].jobs
    /\ Finish(h)
    /\ UNCHANGED <<settings, manifest, localDir, cloudDir, layout, platform, confirmed, deleted,
                   created, served>>

(* repository.delete removes the experiment's directory. *)
Delete ==
    /\ manifest.exists /\ served < MaxRequests
    /\ manifest' = [manifest EXCEPT !.exists = FALSE]
    /\ jobs' = <<>> /\ localDir' = {} /\ cloudDir' = {} /\ layout' = {}
    /\ deleted' = TRUE /\ served' = served + 1
    /\ UNCHANGED <<settings, platform, confirmed, req, created>>

(* The batch job on the platform: run_batch_experiments writes its files   *)
(* one by one, to the mounted output or to the experiment's prefix, which  *)
(* every job of the experiment shares; only then does it complete.         *)
CloudWrite(j) ==
    /\ cloud[j] = "running"
    /\ \E f \in Files \ sent[j] :
          /\ sent' = [sent EXCEPT ![j] = @ \cup {f}]
          /\ localDir' = IF settings.mounted /\ manifest.exists THEN localDir \cup {f} ELSE localDir
    /\ UNCHANGED <<settings, manifest, jobs, cloudDir, layout, cloud, confirmed, deleted, req,
                   created, served>>

CloudEnd(j) ==
    /\ cloud[j] = "running"
    /\ \/ sent[j] = Files /\ cloud' = [cloud EXCEPT ![j] = "completed"]
       \/ cloud' = [cloud EXCEPT ![j] = "failed"]
    /\ UNCHANGED <<settings, store, sent, confirmed, deleted, req, created, served>>

Handle(h) ==
    \/ GenerateManifest(h) \/ RenderConfig(h) \/ NormalizeArtifacts(h)
    \/ RunInvestigations(h) \/ Aggregate(h) \/ Refuse(h)
    \/ RunLocalBatch(h) \/ SaveLocalBatch(h)
    \/ SubmitJob(h) \/ SaveSubmission(h)
    \/ LocateOutput(h) \/ NormalizeOutput(h) \/ MarkPending(h)
    \/ RefreshJob(h) \/ WriteJobs(h)

Next ==
    \/ \E h \in Handlers : Handle(h) \/ \E op \in Requests : Begin(h, op)
    \/ \E j \in JobIds : CloudWrite(j) \/ CloudEnd(j)
    \/ Delete

Spec == Init /\ [][Next]_vars

(***************************************************************************)
(* Properties                                                              *)
(***************************************************************************)

(* A cloud job's record says completed only with evidence: refresh saw the *)
(* platform report it completed and its artifact command succeed, or every *)
(* expected file is in the experiment's layout.  Requests interleave       *)
(* freely, but a deletion may take the files away from a record that a     *)
(* running refresh writes back.                                            *)
CompletedJobHasEvidence ==
    ~deleted =>
       \A i \in DOMAIN jobs :
          jobs[i].backend = "nebius" /\ jobs[i].status = "completed"
             => jobs[i].id \in confirmed \/ layout = Files

(* An experiment whose manifest says completed has every file of its       *)
(* artifact layout, whichever request wrote the manifest last.             *)
CompletedExperimentIsWhole ==
    manifest.status = "completed" /\ ~deleted => layout = Files

(* No answer of the platform, and no request that runs while another is    *)
(* being answered, makes a job or its experiment look collected before its *)
(* evidence is: a job the store calls completed was confirmed with its     *)
(* artifacts or has the whole layout, and a completed manifest means the   *)
(* whole layout, whoever wrote it last                                     *)
(* (NebiusExperimentOrchestrator.refresh).                                 *)
CompletedIsCollected == CompletedJobHasEvidence /\ CompletedExperimentIsWhole
=============================================================================
