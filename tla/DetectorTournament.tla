------------------------- MODULE DetectorTournament -------------------------
(***************************************************************************)
(* Detector tournaments of the FastAPI service (detector_tournament.py):   *)
(* a request queues one, a background task runs it on this machine or the  *)
(* cloud platform runs it as a job, clients poll refresh, and the metrics  *)
(* observer counts tournaments in flight and finished.                     *)
(*                                                                         *)
(* Routes run on a thread pool and take no lock around a record, so a      *)
(* refresh persists a copy of what it read before its commands ran.  The   *)
(* leaderboard, messages, durations and the evidence archive's own records *)
(* are left out; a result file is a member of Files.                       *)
(***************************************************************************)
EXTENDS Naturals, Sequences, SequencesExt, FiniteSets

CONSTANTS
    Tournaments,  \* tournament ids
    Cloud,        \* those requested in nebius mode
    Workloads,    \* bound: the sets of tournaments requested together
    Pollers,      \* threads serving refresh
    Files,        \* the files ARTIFACT_MAPPINGS expects of a job
    DedupLimit    \* _TERMINAL_METRIC_DEDUP_LIMIT

ASSUME DetectorTournamentAssumption ==
    /\ IsFiniteSet(Tournaments) /\ Cloud \subseteq Tournaments
    /\ Workloads \subseteq SUBSET Tournaments
    /\ DedupLimit \in Nat /\ DedupLimit >= Cardinality(Tournaments)

VARIABLES
    requested,  \* the tournaments of this workload
    record,     \* tournament.json of each tournament
    task,       \* its background task on this machine
    runnerBusy, \* _LOCAL_TOURNAMENT_LOCK
    job,        \* its job on the platform
    bucket,     \* files the job has written to the tournament's prefix
    synced,     \* files in its cloud-batch directory
    layout,     \* files copied into its artifact layout
    active,     \* _active_tournaments: those counted in flight
    terminal,   \* _terminal_tournaments, oldest first
    counted,    \* detector_tournament_runs_total, by tournament
    poll        \* what each poller has read and decided

vars == <<requested, record, task, runnerBusy, job, bucket, synced, layout, active, terminal,
          counted, poll>>
metrics == <<active, terminal, counted>>
platform == <<job, bucket>>

Active == {"queued", "running"}
Terminal == {"completed", "failed", "real_nebius_pending"}
Statuses == Active \cup Terminal \cup {"none"}
NoRecord == [status |-> "none", mode |-> "none"]
Record(s, m) == [status |-> s, mode |-> m]
NoPoll == [step |-> "idle", snap |-> NoRecord, next |-> "none"]

TypeOK ==
    /\ record \in [Tournaments -> [status : Statuses,
                                   mode : {"none", "local", "local_mock", "nebius_serverless_job"}]]
    /\ active \subseteq Tournaments /\ terminal \in Seq(Tournaments)
    /\ counted \in [Tournaments -> 0..2] /\ runnerBusy \in BOOLEAN

Init ==
    /\ requested \in Workloads
    /\ record = [t \in Tournaments |-> NoRecord]
    /\ task = [t \in Tournaments |-> "none"] /\ runnerBusy = FALSE
    /\ job = [t \in Tournaments |-> "none"]
    /\ bucket = [t \in Tournaments |-> {}]
    /\ synced = [t \in Tournaments |-> {}] /\ layout = [t \in Tournaments |-> {}]
    /\ active = {} /\ terminal = <<>> /\ counted = [t \in Tournaments |-> 0]
    /\ poll = [p \in Pollers |-> [t \in Tournaments |-> NoPoll]]

Evict(seq) == IF Len(seq) >= DedupLimit THEN Tail(seq) ELSE seq

EntersFlightAgain(t, status) == status \in Active /\ t \notin active

EntersFlight(t, status) == status \in Active /\ t \notin active /\ t \notin Range(terminal)

Counts(t, status) == status \in Terminal /\ t \notin Range(terminal)

(* observe_transition, under the observer's lock. *)
Observe(t, status) ==
    /\ active' = CASE EntersFlight(t, status) -> active \cup {t}
                   [] status \in Terminal -> active \ {t}
                   [] OTHER -> active
    /\ terminal' = IF Counts(t, status) THEN Append(Evict(terminal), t) ELSE terminal
    /\ counted' = IF Counts(t, status) THEN [counted EXCEPT ![t] = @ + 1] ELSE counted

Persist(t, r) == record' = [record EXCEPT ![t] = r]

(* What a submission leaves: a queued job, or a failed tournament though   *)
(* the platform may have taken the job before the command timed out.       *)
Submissions == {Record(s, "nebius_serverless_job") : s \in {"queued", "failed"}}

(* _mock_tournament_response is complete at once.                          *)
Mock == Record("completed", "local_mock")

(* queue_tournament: without a submit command a cloud request is a mock; a *)
(* local tournament leaves a background task.                              *)
Queue(t) ==
    /\ t \in requested /\ record[t] = NoRecord
    /\ \E r \in {Mock} \cup IF t \in Cloud THEN Submissions ELSE {Record("queued", "local")} :
          /\ Persist(t, r) /\ Observe(t, r.status)
          /\ task' = IF r = Record("queued", "local") THEN [task EXCEPT ![t] = "queued"] ELSE task
          /\ job' = IF r = Record("queued", "nebius_serverless_job")
                    THEN [job EXCEPT ![t] = "running"] ELSE job
    /\ UNCHANGED <<requested, runnerBusy, bucket, synced, layout, poll>>

(* _run_local_tournament: a runner that fails or times out yields a mock.  *)
RunnerResults == {Record("completed", "local"), Mock}

(* start_tournament runs a local tournament within the request.            *)
StartDirect(t) ==
    /\ t \in requested /\ record[t] = NoRecord /\ t \notin Cloud
    /\ \E r \in RunnerResults : Persist(t, r)
    /\ Observe(t, "completed")
    /\ UNCHANGED <<requested, task, runnerBusy, platform, synced, layout, poll>>

(* complete_queued_tournament, the background task.                        *)
BeginLocal(t) ==
    /\ task[t] = "queued"
    /\ Persist(t, Record("running", record[t].mode)) /\ Observe(t, "running")
    /\ task' = [task EXCEPT ![t] = "running"]
    /\ UNCHANGED <<requested, runnerBusy, platform, synced, layout, poll>>

(* The lock is tried, never waited for: a busy runner means a mock result. *)
FindRunnerBusy(t) ==
    /\ task[t] = "running" /\ runnerBusy
    /\ Persist(t, Mock) /\ Observe(t, "completed")
    /\ task' = [task EXCEPT ![t] = "done"]
    /\ UNCHANGED <<requested, runnerBusy, platform, synced, layout, poll>>

TakeRunner(t) ==
    /\ task[t] = "running" /\ ~runnerBusy
    /\ runnerBusy' = TRUE /\ task' = [task EXCEPT ![t] = "holding"]
    /\ UNCHANGED <<requested, record, platform, synced, layout, metrics, poll>>

FinishLocal(t) ==
    /\ task[t] = "holding"
    /\ \E r \in RunnerResults : Persist(t, r)
    /\ runnerBusy' = FALSE /\ task' = [task EXCEPT ![t] = "done"]
    /\ Observe(t, "completed")
    /\ UNCHANGED <<requested, platform, synced, layout, poll>>

RefreshableWhenQueued(r) == r.mode = "nebius_serverless_job" /\ r.status = "queued"

Refreshable(r) ==
    r.mode = "nebius_serverless_job" /\ r.status \notin {"failed", "real_nebius_pending"}

(* refresh_tournament reads the record; its commands run on that copy.     *)
RefreshRead(p, t) ==
    /\ poll[p][t].step = "idle" /\ \A u \in Tournaments : poll[p][u].step = "idle"
    /\ Refreshable(record[t])
    /\ poll' = [poll EXCEPT ![p][t] = [NoPoll EXCEPT !.step = "ask", !.snap = record[t]]]
    /\ UNCHANGED <<requested, record, task, runnerBusy, platform, synced, layout, metrics>>

(* A status command that fails persists the copy with its old status.      *)
StatusFails(p, t) ==
    /\ poll[p][t].step = "ask"
    /\ Persist(t, poll[p][t].snap)
    /\ poll' = [poll EXCEPT ![p][t] = NoPoll]
    /\ UNCHANGED <<requested, task, runnerBusy, platform, synced, layout, metrics>>

(* _parse_job_status: an answer without a known status keeps the old one.  *)
StatusAnswers(p, t) ==
    /\ poll[p][t].step = "ask"
    /\ \E s \in {job[t], poll[p][t].snap.status} :
          poll' = [poll EXCEPT ![p][t].next = s,
                               ![p][t].step = IF s = "completed" THEN "collect" ELSE "write"]
    /\ UNCHANGED <<requested, record, task, runnerBusy, platform, synced, layout, metrics>>

Collected(files) == files = Files

(* _collect_cloud_artifacts: a sync that fails has copied some files and   *)
(* fails the tournament; one that succeeds is normalized, and a missing    *)
(* file keeps the tournament running.                                      *)
Collect(p, t) ==
    /\ poll[p][t].step = "collect"
    /\ \/ \E part \in SUBSET bucket[t] :
             /\ synced' = [synced EXCEPT ![t] = @ \cup part]
             /\ poll' = [poll EXCEPT ![p][t].step = "write", ![p][t].next = "failed"]
             /\ UNCHANGED layout
       \/ /\ synced' = [synced EXCEPT ![t] = @ \cup bucket[t]]
          /\ layout' = [layout EXCEPT ![t] = @ \cup synced'[t]]
          /\ poll' = [poll EXCEPT ![p][t].step = "write",
                         ![p][t].next = IF Collected(synced'[t]) THEN "completed" ELSE "running"]
    /\ UNCHANGED <<requested, record, task, runnerBusy, platform, metrics>>

RefreshWrite(p, t) ==
    /\ poll[p][t].step = "write"
    /\ Persist(t, Record(poll[p][t].next, poll[p][t].snap.mode))
    /\ poll' = [poll EXCEPT ![p][t].step = "observe"]
    /\ UNCHANGED <<requested, task, runnerBusy, platform, synced, layout, metrics>>

RefreshObserve(p, t) ==
    /\ poll[p][t].step = "observe"
    /\ Observe(t, poll[p][t].next)
    /\ poll' = [poll EXCEPT ![p][t] = NoPoll]
    /\ UNCHANGED <<requested, record, task, runnerBusy, platform, synced, layout>>

(* The tournament job of the platform.  Its files may still be on their    *)
(* way to the prefix when the platform reports it completed: refresh waits *)
(* "for the remaining S3 artifacts".                                       *)
JobWrites(t) ==
    /\ job[t] \in {"running", "completed"}
    /\ \E f \in Files \ bucket[t] : bucket' = [bucket EXCEPT ![t] = @ \cup {f}]
    /\ UNCHANGED <<requested, record, task, runnerBusy, job, synced, layout, metrics, poll>>

JobEnds(t) ==
    /\ job[t] = "running"
    /\ \E s \in {"completed", "failed"} : job' = [job EXCEPT ![t] = s]
    /\ UNCHANGED <<requested, record, task, runnerBusy, bucket, synced, layout, metrics, poll>>

Local(t) == BeginLocal(t) \/ FindRunnerBusy(t) \/ TakeRunner(t) \/ FinishLocal(t)

Poll(p, t) ==
    \/ StatusFails(p, t) \/ StatusAnswers(p, t) \/ Collect(p, t)
    \/ RefreshWrite(p, t) \/ RefreshObserve(p, t)

Next ==
    \E t \in Tournaments :
       \/ Queue(t) \/ StartDirect(t) \/ Local(t) \/ JobWrites(t) \/ JobEnds(t)
       \/ \E p \in Pollers : RefreshRead(p, t) \/ Poll(p, t)

(* Background tasks and requests run to their end, jobs end, clients keep  *)
(* polling, and the status command answers with the job's status again and *)
(* again.                                                                  *)
Fairness ==
    /\ \A t \in Tournaments \ Cloud : WF_vars(Local(t))
    /\ \A t \in Cloud :
          /\ WF_vars(JobWrites(t) \/ JobEnds(t))
          /\ SF_vars(\E p \in Pollers : RefreshRead(p, t))
          /\ WF_vars(\E p \in Pollers : Poll(p, t))
          /\ SF_vars(\E p \in Pollers : StatusAnswers(p, t) /\ poll'[p][t].next = job[t])

Spec == Init /\ [][Next]_vars /\ Fairness

(***************************************************************************)
(* Properties                                                              *)
(***************************************************************************)

(* Once nothing is at work on a tournament whose record is terminal, the   *)
(* in-flight gauge no longer counts it, whatever refreshes raced before.   *)
FinishedIsNotInFlight ==
    \A t \in Tournaments :
       /\ record[t].status \in Terminal
       /\ \A p \in Pollers : poll[p][t].step = "idle"
       => t \notin active

(* A tournament is counted once, however many refreshes see it end.        *)
RunCountedOnce == \A t \in Tournaments : counted[t] <= 1

(* A cloud tournament is completed only with every expected file in its    *)
(* artifact layout, also when a refresh persists a copy it read earlier.   *)
CompletedHasArtifacts ==
    \A t \in Tournaments :
       record[t] = Record("completed", "nebius_serverless_job") => layout[t] = Files

(* A started tournament reaches a terminal record: on this machine through *)
(* its background task, on the platform through refreshes after its job.   *)
StartedTournamentEnds ==
    \A t \in Tournaments : record[t].status \in Active ~> record[t].status \in Terminal

(* Whatever requests, poller and cancellations interleave: a finished      *)
(* tournament is not in flight, a run is counted once, and a completed one *)
(* has its artifacts (detector_tournament.py).                             *)
TournamentIsConsistent == FinishedIsNotInFlight /\ RunCountedOnce /\ CompletedHasArtifacts
=============================================================================
