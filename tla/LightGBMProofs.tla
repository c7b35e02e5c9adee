---------------------------- MODULE LightGBMProofs -----------------------------
(***************************************************************************)
(* Proofs about the governed LightGBM jobs and the selection campaign they *)
(* serve.                                                                  *)
(*                                                                         *)
(* GovernedJob: an output path creates one job and a passed exit is earned *)
(* by the jobs it names, for every set of requests and paths, every        *)
(* ceiling and watchdog, any number of jobs and any length of time.        *)
(*                                                                         *)
(* ModelSelection: the model that reaches the final evaluation is the one  *)
(* the search selected and the confirmations bound, for every search,      *)
(* every repeat and every tolerance.                                       *)
(***************************************************************************)
EXTENDS GovernedJob, ModelSelection, FiniteSetTheorems, SequenceTheorems,
        WellFoundedInduction, TLAPS

States == {"queued", "publishing", "completed", "failed", "cancelled"}

JobRecords == [request : Requests, path : Paths, image : Deployed, state : States,
               at : Nat, done : Nat]

Active == {"creating", "recovering", "verifying"}

Typed ==
    /\ clock \in Nat
    /\ staged \subseteq Requests
    /\ \A d \in dryRuns : d.request \in Requests
    /\ job \in Seq(JobRecords) /\ \A j \in Jobs : job[j].done <= clock
    /\ prefix \in [Requests -> Nat] /\ exit \in [Paths -> BOOLEAN]
    /\ DOMAIN intent = Paths /\ DOMAIN created = Paths /\ DOMAIN submission = Paths
    /\ DOMAIN op = Paths /\ DOMAIN monitor = Paths /\ DOMAIN collection = Paths

\* A job is its path's only one; a published result is that of a finished job of
\* its request.
OneJob == \A i, j \in Jobs : job[i].path = job[j].path => i = j

Prefixes ==
    \A r \in Requests : prefix[r] # 0 =>
        /\ prefix[r] \in Jobs
        /\ job[prefix[r]].state = "completed" /\ job[prefix[r]].request = r

\* A path without an intent, or about to create, has no job.
Unused(p) == \A j \in Jobs : job[j].path # p

Submitting(p) ==
    /\ op[p].pc \in {"idle", "stopped"} \cup Active
    /\ op[p].pc \in Active => intent[p] # None /\ submission[p] = None
    /\ op[p].pc = "creating" => Unused(p)
    /\ op[p].pc = "recovering" => intent[p].recover \in Jobs
    /\ op[p].pc = "verifying" =>
        op[p].job \in Jobs /\ job[op[p].job].request = intent[p].dry.request

IntentFirst(p) ==
    /\ intent[p] # None => intent[p].dry.request \in Requests
    /\ intent[p] = None => op[p].pc \notin Active /\ submission[p] = None /\ Unused(p)

SubmittedJob(p) ==
    Submitted(p) =>
        /\ submission[p].job \in Jobs /\ submission[p].at \in Nat
        /\ submission[p].dry = intent[p].dry
        /\ job[submission[p].job].request = intent[p].dry.request

\* Each evidence file follows the one before it and says what was so.
Chain(p) ==
    /\ monitor[p] # None =>
        /\ Submitted(p)
        /\ monitor[p].completed =>
            /\ job[submission[p].job].state = "completed"
            /\ job[submission[p].job].image = "governed"
            /\ job[submission[p].job].done <= submission[p].at + Watchdog
    /\ collection[p] # None =>
        /\ monitor[p] # None
        /\ collection[p].source \in Jobs
        /\ job[collection[p].source].state = "completed"
        /\ job[collection[p].source].request = submission[p].dry.request
    /\ exit[p] => collection[p] # None /\ monitor[p].completed

PathInv(p) == IntentFirst(p) /\ Submitting(p) /\ SubmittedJob(p) /\ Chain(p)

JobInv == Typed /\ OneJob /\ Prefixes /\ \A p \in Paths : PathInv(p)
--------------------------------------------------------------------------------
(***************************************************************************)
(* What a step does to the jobs and to a path, as relations.               *)
(***************************************************************************)
\* Jobs keep what they were created as, and a finished job stays finished.
JobsGrow ==
    /\ job' \in Seq(JobRecords) /\ Len(job) <= Len(job')
    /\ \A j \in 1..Len(job) :
        /\ job'[j].request = job[j].request /\ job'[j].path = job[j].path
        /\ job'[j].image = job[j].image
        /\ job[j].state = "completed" => job'[j].state = "completed" /\ job'[j].done = job[j].done

JobsSame == JobsGrow /\ Len(job') = Len(job)

PathSame(p) ==
    /\ intent'[p] = intent[p] /\ submission'[p] = submission[p] /\ op'[p] = op[p]
    /\ monitor'[p] = monitor[p] /\ collection'[p] = collection[p] /\ exit'[p] = exit[p]

LEMMA JobTyped ==
    ASSUME Typed, NEW j \in Jobs
    PROVE  /\ job[j] \in JobRecords /\ job[j].request \in Requests
           /\ job[j].at \in Nat /\ job[j].done \in Nat /\ job[j].done <= clock
<1>1. job \in Seq(JobRecords) /\ j \in 1..Len(job)
  BY DEF Typed, Jobs
<1>2. job[j] \in JobRecords
  BY <1>1, ElementOfSeq
<1> QED
  BY <1>2 DEF JobRecords, Typed

LEMMA JobsUnchanged == ASSUME Typed, UNCHANGED job PROVE JobsSame
<1>1. job \in Seq(JobRecords) /\ Len(job) \in Nat
  BY DEF Typed
<1> QED
  BY <1>1 DEF JobsSame, JobsGrow

LEMMA JobsSameFacts ==
    ASSUME Typed, OneJob, JobsSame
    PROVE  OneJob' /\ \A p \in Paths : Unused(p) => Unused(p)'
BY DEF OneJob, JobsSame, JobsGrow, Unused, Jobs

LEMMA PrefixesStay ==
    ASSUME Typed, Prefixes, JobsGrow, UNCHANGED prefix
    PROVE  Prefixes'
<1> SUFFICES ASSUME NEW r \in Requests, prefix'[r] # 0
             PROVE  /\ prefix'[r] \in Jobs' /\ job'[prefix'[r]].state = "completed"
                    /\ job'[prefix'[r]].request = r
  BY DEF Prefixes
<1> DEFINE j == prefix[r]
<1>1. j \in 1..Len(job) /\ job[j].state = "completed" /\ job[j].request = r /\ prefix'[r] = j
  BY DEF Prefixes, Jobs
<1> HIDE DEF j
<1>2. job'[j].state = "completed" /\ job'[j].request = r
  BY <1>1 DEF JobsGrow
<1>3. Len(job) \in Nat /\ Len(job') \in Nat /\ Len(job) <= Len(job')
  BY DEF Typed, JobsGrow
<1>4. j \in 1..Len(job')
  BY <1>1, <1>3
<1> QED
  BY <1>1, <1>2, <1>4 DEF Jobs

LEMMA JobsInclude == ASSUME Typed, JobsGrow PROVE \A j \in Jobs : j \in Jobs'
<1>1. Len(job) \in Nat /\ Len(job') \in Nat /\ Len(job) <= Len(job')
  BY DEF Typed, JobsGrow
<1> QED
  BY <1>1 DEF Jobs

\* What a job is known to be after a step.
LEMMA JobKept ==
    ASSUME Typed, JobsGrow, NEW j \in Jobs
    PROVE  /\ j \in Jobs' /\ job'[j].request = job[j].request /\ job'[j].image = job[j].image
           /\ job[j].state = "completed" => job'[j].state = "completed" /\ job'[j].done = job[j].done
BY JobsInclude DEF JobsGrow, Jobs

LEMMA PathStays ==
    ASSUME Typed, NEW p \in Paths, PathInv(p), PathSame(p), JobsGrow, Unused(p) => Unused(p)'
    PROVE  PathInv(p)'
<1>1. IntentFirst(p)'
  BY DEF PathInv, IntentFirst, PathSame
<1>2. Submitting(p)'
  <2>1. op[p].pc = "recovering" => intent[p].recover \in Jobs'
    BY JobsInclude DEF PathInv, Submitting
  <2>2. op[p].pc = "verifying" =>
          op[p].job \in Jobs' /\ job'[op[p].job].request = intent[p].dry.request
    BY JobKept DEF PathInv, Submitting
  <2> QED
    BY <2>1, <2>2 DEF PathInv, Submitting, PathSame
<1>3. Submitted(p)' <=> Submitted(p)
  BY DEF Submitted, PathSame
<1>4. Submitted(p) => submission[p].job \in Jobs
  BY DEF PathInv, SubmittedJob
<1>5. Submitted(p) => /\ submission[p].job \in Jobs'
                      /\ job'[submission[p].job].request = job[submission[p].job].request
                      /\ job'[submission[p].job].image = job[submission[p].job].image
                      /\ job[submission[p].job].state = "completed" =>
                            /\ job'[submission[p].job].state = "completed"
                            /\ job'[submission[p].job].done = job[submission[p].job].done
  BY <1>4, JobKept
<1>6. SubmittedJob(p)'
  BY <1>3, <1>5 DEF PathInv, SubmittedJob, PathSame
<1>7. Chain(p)'
  <2>1. monitor[p] # None =>
          /\ Submitted(p)
          /\ monitor[p].completed =>
              /\ job'[submission[p].job].state = "completed"
              /\ job'[submission[p].job].image = "governed"
              /\ job'[submission[p].job].done <= submission[p].at + Watchdog
    BY <1>5 DEF PathInv, Chain
  <2>2. collection[p] # None =>
          /\ monitor[p] # None
          /\ collection[p].source \in Jobs'
          /\ job'[collection[p].source].state = "completed"
          /\ job'[collection[p].source].request = submission[p].dry.request
    BY JobKept DEF PathInv, Chain
  <2>3. exit[p] => collection[p] # None /\ monitor[p].completed
    BY DEF PathInv, Chain
  <2> QED
    BY <1>3, <2>1, <2>2, <2>3 DEF Chain, PathSame
<1> QED
  BY <1>1, <1>2, <1>6, <1>7 DEF PathInv

\* A step that changes no path and keeps the jobs.
LEMMA QuietStep ==
    ASSUME JobInv, Typed', JobsSame, Prefixes', \A p \in Paths : PathSame(p)
    PROVE  JobInv'
<1>1. Typed /\ OneJob /\ \A p \in Paths : PathInv(p)
  BY DEF JobInv
<1>2. OneJob' /\ (\A p \in Paths : Unused(p) => Unused(p)') /\ JobsGrow
  BY <1>1, JobsSameFacts DEF JobsSame
<1>3. ASSUME NEW p \in Paths PROVE PathInv(p)'
  BY <1>1, <1>2, <1>3, PathStays
<1> QED
  BY <1>2, <1>3 DEF JobInv

\* A step of one path that keeps the jobs.
LEMMA PathStep ==
    ASSUME JobInv, Typed', JobsSame, UNCHANGED prefix, NEW p \in Paths,
           \A q \in Paths \ {p} : PathSame(q), PathInv(p)'
    PROVE  JobInv'
<1>1. Typed /\ OneJob /\ Prefixes /\ \A q \in Paths : PathInv(q)
  BY DEF JobInv
<1>2. OneJob' /\ (\A q \in Paths : Unused(q) => Unused(q)') /\ JobsGrow
  BY <1>1, JobsSameFacts DEF JobsSame
<1>3. ASSUME NEW q \in Paths \ {p} PROVE PathInv(q)'
  BY <1>1, <1>2, <1>3, PathStays
<1>4. Prefixes'
  BY <1>1, <1>2, PrefixesStay
<1> QED
  BY <1>2, <1>3, <1>4 DEF JobInv

LEMMA TickJobs == ASSUME JobInv, Tick PROVE JobInv'
<1>1. clock' = clock + 1 /\ UNCHANGED <<staged, dryRuns, op, job, prefix, evidence>>
  BY DEF Tick
<1>2. Typed /\ Prefixes
  BY DEF JobInv
<1>3. clock' \in Nat /\ \A j \in Jobs : job[j].done <= clock'
  <2>1. \A j \in Jobs : job[j].done \in Nat
    BY <1>2, JobTyped
  <2> QED
    BY <1>1, <1>2, <2>1 DEF Typed
<1>4. Typed'
  BY <1>1, <1>2, <1>3 DEF Typed, Jobs, evidence
<1>5. JobsSame /\ \A p \in Paths : PathSame(p)
  BY <1>1, <1>2, JobsUnchanged DEF PathSame, evidence
<1>6. Prefixes'
  BY <1>1, <1>2 DEF Prefixes, Jobs
<1> QED
  BY <1>4, <1>5, <1>6, QuietStep

LEMMA StageJobs == ASSUME JobInv, NEW r \in Requests, StageRequest(r) \/ DryRun(r) PROVE JobInv'
<1>1. /\ UNCHANGED <<clock, op, job, prefix, evidence>>
      /\ staged' \subseteq staged \cup {r}
      /\ \A d \in dryRuns' : d \in dryRuns \/ d.request = r
  BY DEF StageRequest, DryRun
<1>2. Typed /\ Prefixes
  BY DEF JobInv
<1>3. Typed'
  BY <1>1, <1>2 DEF Typed, Jobs, evidence
<1>4. JobsSame /\ \A p \in Paths : PathSame(p)
  BY <1>1, <1>2, JobsUnchanged DEF PathSame, evidence
<1>5. Prefixes'
  BY <1>1, <1>2 DEF Prefixes, Jobs
<1> QED
  BY <1>3, <1>4, <1>5, QuietStep
--------------------------------------------------------------------------------
(***************************************************************************)
(* Submission.                                                             *)
(***************************************************************************)
\* The record that replaces one file of a path.
LEMMA SubmitJobs ==
    ASSUME JobInv, NEW p \in Paths, NEW d \in dryRuns, NEW n \in 0..MaxJobs, Submit(p, d, n)
    PROVE  JobInv'
<1> DEFINE new == [kind |-> "intent", dry |-> d, recover |-> n]
           first == [pc |-> IF n = 0 THEN "creating" ELSE "recovering", job |-> 0]
<1>1. /\ intent[p] = None /\ submission[p] = None /\ n \in Jobs \cup {0}
      /\ intent' = [intent EXCEPT ![p] = new] /\ op' = [op EXCEPT ![p] = first]
      /\ UNCHANGED <<clock, staged, dryRuns, created, submission, job, prefix, monitor, collection, exit>>
  BY DEF Submit, PathIsFresh
<1>2. new.dry = d /\ new.recover = n /\ new # None
  BY DEF None
<1>3. first.pc \in {"creating", "recovering"} /\ (first.pc = "recovering" => n # 0)
  OBVIOUS
<1> HIDE DEF new, first
<1>4. Typed /\ PathInv(p)
  BY DEF JobInv
<1>5. intent'[p] = new /\ op'[p] = first /\ submission'[p] = None
  BY <1>1, <1>4 DEF Typed
<1>6. \A q \in Paths \ {p} : PathSame(q)
  BY <1>1, <1>4 DEF PathSame, Typed
<1>7. Typed'
  BY <1>1, <1>4 DEF Typed, Jobs
<1>8. JobsSame /\ UNCHANGED prefix
  BY <1>1, <1>4, JobsUnchanged
<1>9. Unused(p)
  BY <1>1, <1>4 DEF PathInv, IntentFirst
<1>10. IntentFirst(p)'
  BY <1>2, <1>4, <1>5 DEF IntentFirst, Typed
<1>11. Submitting(p)'
  BY <1>1, <1>2, <1>3, <1>5, <1>9 DEF Submitting, Active, Unused, Jobs
<1>12. SubmittedJob(p)' /\ ~Submitted(p)'
  BY <1>5 DEF SubmittedJob, Submitted
<1>13. ~Submitted(p)
  BY <1>1 DEF Submitted
<1>14. Chain(p)'
  BY <1>1, <1>4, <1>13 DEF PathInv, Chain
<1>15. PathInv(p)'
  BY <1>10, <1>11, <1>12, <1>14 DEF PathInv
<1> QED
  BY <1>6, <1>7, <1>8, <1>15, PathStep

\* A path that has not been submitted has no later evidence.
LEMMA NotYetSubmitted ==
    ASSUME JobInv, NEW p \in Paths, submission[p] = None
    PROVE  monitor[p] = None /\ collection[p] = None /\ ~exit[p] /\ ~Submitted(p)
<1>1. ~Submitted(p)
  BY DEF Submitted
<1> QED
  BY <1>1 DEF JobInv, PathInv, Chain

\* The submitting process of a path ends; what it has written so far is an
\* unsuccessful submission or nothing.
LEMMA StoppedPath ==
    ASSUME JobInv, NEW p \in Paths, op[p].pc \in Active,
           op'[p] = Stopped, intent'[p] = intent[p], ~Submitted(p)',
           UNCHANGED <<monitor, collection, exit>>
    PROVE  PathInv(p)'
<1>1. PathInv(p) /\ intent[p] # None /\ submission[p] = None
  BY DEF JobInv, PathInv, Submitting
<1>2. monitor[p] = None /\ collection[p] = None /\ ~exit[p]
  BY <1>1, NotYetSubmitted
<1>3. op'[p].pc = "stopped" /\ "stopped" \notin Active
  BY DEF Stopped, Active
<1>4. IntentFirst(p)'
  BY <1>1 DEF PathInv, IntentFirst
<1>5. Submitting(p)'
  BY <1>3 DEF Submitting, Active
<1>6. SubmittedJob(p)'
  BY DEF SubmittedJob
<1>7. Chain(p)'
  BY <1>2 DEF Chain
<1> QED
  BY <1>4, <1>5, <1>6, <1>7 DEF PathInv

\* The process has the id of a job of its request.
LEMMA VerifyingPath ==
    ASSUME JobInv, NEW p \in Paths, op[p].pc \in Active,
           op'[p].pc = "verifying", op'[p].job \in Jobs', intent'[p] = intent[p],
           job'[op'[p].job].request = intent[p].dry.request,
           UNCHANGED <<submission, monitor, collection, exit>>
    PROVE  PathInv(p)'
<1>1. PathInv(p) /\ intent[p] # None /\ submission[p] = None
  BY DEF JobInv, PathInv, Submitting
<1>2. monitor[p] = None /\ collection[p] = None /\ ~exit[p] /\ ~Submitted(p)
  BY <1>1, NotYetSubmitted
<1>3. ~Submitted(p)'
  BY <1>1 DEF Submitted
<1>4. IntentFirst(p)'
  BY <1>1 DEF PathInv, IntentFirst
<1>5. Submitting(p)'
  BY <1>1 DEF Submitting, Active
<1>6. SubmittedJob(p)'
  BY <1>3 DEF SubmittedJob
<1>7. Chain(p)'
  BY <1>2 DEF Chain
<1> QED
  BY <1>4, <1>5, <1>6, <1>7 DEF PathInv

LEMMA CrashJobs == ASSUME JobInv, NEW p \in Paths, Crash(p) PROVE JobInv'
<1>1. /\ op[p].pc \in Active /\ op' = [op EXCEPT ![p] = Stopped]
      /\ UNCHANGED <<clock, staged, dryRuns, job, prefix, evidence>>
  BY DEF Crash, Active
<1>2. Typed
  BY DEF JobInv
<1>3. Typed'
  BY <1>1, <1>2 DEF Typed, Jobs, evidence
<1>4. JobsSame /\ JobsGrow /\ UNCHANGED prefix
  BY <1>1, <1>2, JobsUnchanged DEF JobsSame
<1>5. op'[p] = Stopped /\ \A q \in Paths \ {p} : PathSame(q)
  BY <1>1, <1>2 DEF PathSame, Typed, evidence
<1>6. submission[p] = None
  BY <1>1 DEF JobInv, PathInv, Submitting
<1>7. ~Submitted(p)' /\ intent'[p] = intent[p] /\ UNCHANGED <<monitor, collection, exit>>
  BY <1>1, <1>6 DEF Submitted, evidence
<1>8. PathInv(p)'
  BY <1>1, <1>4, <1>5, <1>7, StoppedPath
<1> QED
  BY <1>3, <1>4, <1>5, <1>8, PathStep

LEMMA RecordFields ==
    ASSUME NEW p, NEW j, NEW status, NEW at
    PROVE  /\ SubmissionRecord(p, j, status, at).kind = "submission"
           /\ SubmissionRecord(p, j, status, at) # None
           /\ SubmissionRecord(p, j, status, at).job = j
           /\ SubmissionRecord(p, j, status, at).at = at
           /\ SubmissionRecord(p, j, status, at).dry = intent[p].dry
           /\ SubmissionRecord(p, j, status, at).submitted <=> status = "SUBMITTED"
BY DEF SubmissionRecord, None

LEMMA RecoverJobs == ASSUME JobInv, NEW p \in Paths, RecoverJob(p) PROVE JobInv'
<1> DEFINE j == intent[p].recover
           failed == SubmissionRecord(p, 0, "SUBMISSION_FAILED", 0)
<1>1. /\ op[p].pc = "recovering" /\ op[p].pc \in Active
      /\ UNCHANGED <<clock, staged, dryRuns, intent, job, prefix, monitor, collection, exit>>
      /\ \/ /\ MatchesReview(p, j) /\ UNCHANGED submission
            /\ op' = [op EXCEPT ![p] = [pc |-> "verifying", job |-> j]]
            /\ created' = [created EXCEPT ![p] = [kind |-> "created", job |-> j]]
         \/ /\ op' = [op EXCEPT ![p] = Stopped] /\ UNCHANGED created
            /\ submission' \in {submission, [submission EXCEPT ![p] = failed]}
  BY DEF RecoverJob, Active
<1>2. Typed /\ submission[p] = None /\ j \in Jobs
  BY <1>1 DEF JobInv, PathInv, Submitting
<1>3. Typed'
  BY <1>1, <1>2 DEF Typed, Jobs
<1>4. JobsSame /\ JobsGrow /\ UNCHANGED prefix
  BY <1>1, <1>2, JobsUnchanged DEF JobsSame
<1>5. \A q \in Paths \ {p} : PathSame(q)
  BY <1>1, <1>2 DEF PathSame, Typed
<1>6. failed # None /\ ~failed.submitted
  BY RecordFields
<1> HIDE DEF j, failed
<1>7. CASE /\ MatchesReview(p, j) /\ UNCHANGED submission
           /\ op' = [op EXCEPT ![p] = [pc |-> "verifying", job |-> j]]
  <2>1. op'[p].pc = "verifying" /\ op'[p].job = j
    BY <1>2, <1>7 DEF Typed
  <2>2. j \in Jobs' /\ job'[j].request = intent[p].dry.request
    BY <1>1, <1>2, <1>7 DEF MatchesReview, Jobs
  <2>3. intent'[p] = intent[p] /\ UNCHANGED <<submission, monitor, collection, exit>>
    BY <1>1, <1>7
  <2>4. PathInv(p)'
    BY <1>1, <2>1, <2>2, <2>3, VerifyingPath
  <2> QED
    BY <1>3, <1>4, <1>5, <2>4, PathStep
<1>8. CASE /\ op' = [op EXCEPT ![p] = Stopped]
           /\ submission' \in {submission, [submission EXCEPT ![p] = failed]}
  <2>1. op'[p] = Stopped /\ submission'[p] \in {None, failed}
    BY <1>2, <1>8 DEF Typed
  <2>2. ~Submitted(p)'
    BY <1>6, <2>1 DEF Submitted
  <2>3. intent'[p] = intent[p] /\ UNCHANGED <<monitor, collection, exit>>
    BY <1>1
  <2>4. PathInv(p)'
    BY <1>1, <1>4, <2>1, <2>2, <2>3, StoppedPath
  <2> QED
    BY <1>3, <1>4, <1>5, <2>4, PathStep
<1> QED
  BY <1>1, <1>7, <1>8

\* The platform creates a job for a path that has none.
LEMMA JobAppended ==
    ASSUME Typed, OneJob, NEW new \in JobRecords, new.done <= clock, Unused(new.path),
           job' = Append(job, new), UNCHANGED clock
    PROVE  /\ JobsGrow /\ OneJob' /\ \A j \in Jobs' : job'[j].done <= clock'
           /\ Len(job) + 1 \in Jobs' /\ job'[Len(job) + 1] = new
           /\ \A q \in Paths : q # new.path /\ Unused(q) => Unused(q)'
<1>1. job \in Seq(JobRecords) /\ Len(job) \in Nat
  BY DEF Typed
<1>2. /\ job' \in Seq(JobRecords) /\ Len(job') = Len(job) + 1
      /\ job'[Len(job) + 1] = new /\ \A j \in 1..Len(job) : job'[j] = job[j]
  BY <1>1, AppendProperties
<1>3. JobsGrow
  BY <1>1, <1>2 DEF JobsGrow
<1>4. \A j \in Jobs' : j \in Jobs \/ j = Len(job) + 1
  BY <1>1, <1>2 DEF Jobs
<1>5. \A j \in Jobs : job'[j] = job[j] /\ j # Len(job) + 1
  BY <1>1, <1>2 DEF Jobs
<1>6. \A j \in Jobs' : job'[j].done <= clock'
  BY <1>2, <1>4, <1>5 DEF Typed
<1>7. OneJob'
  BY <1>2, <1>4, <1>5 DEF OneJob, Unused
<1>8. Len(job) + 1 \in Jobs'
  BY <1>1, <1>2 DEF Jobs
<1>9. \A q \in Paths : q # new.path /\ Unused(q) => Unused(q)'
  BY <1>2, <1>4, <1>5 DEF Unused
<1> QED
  BY <1>2, <1>3, <1>6, <1>7, <1>8, <1>9

LEMMA CreateJobs == ASSUME JobInv, NEW p \in Paths, CreateJob(p) PROVE JobInv'
<1>1. /\ op[p].pc = "creating" /\ op[p].pc \in Active
      /\ UNCHANGED <<clock, staged, dryRuns, intent, prefix, monitor, collection, exit>>
  BY DEF CreateJob, Active
<1>2. /\ Typed /\ OneJob /\ Prefixes /\ (\A q \in Paths : PathInv(q)) /\ Unused(p)
      /\ submission[p] = None /\ intent[p].dry.request \in Requests
  BY <1>1 DEF JobInv, PathInv, Submitting, IntentFirst
<1> DEFINE failed == SubmissionRecord(p, 0, "SUBMISSION_FAILED", 0)
           record(image) == [request |-> intent[p].dry.request, path |-> p, image |-> image,
                             state |-> "queued", at |-> clock, done |-> 0]
<1>3. PICK made \in BOOLEAN, image \in Deployed, answer \in {"id", "timeout", "error"} :
        /\ answer = "id" => made
        /\ job' = IF made THEN Append(job, record(image)) ELSE job
        /\ \/ /\ answer = "id"
              /\ op' = [op EXCEPT ![p] = [pc |-> "verifying", job |-> Len(job) + 1]]
              /\ created' = [created EXCEPT ![p] = [kind |-> "created", job |-> Len(job) + 1]]
              /\ UNCHANGED submission
           \/ /\ answer # "id" /\ op' = [op EXCEPT ![p] = Stopped] /\ UNCHANGED created
              /\ submission' \in {submission, [submission EXCEPT ![p] = failed]}
  BY DEF CreateJob
<1> DEFINE new == record(image)
<1>4. /\ new \in JobRecords /\ new.path = p /\ new.request = intent[p].dry.request /\ new.done <= clock
  BY <1>2 DEF Typed, JobRecords, States
<1>5. failed # None /\ ~failed.submitted
  BY RecordFields
<1>6. made => job' = Append(job, new)
  BY <1>3
<1>7. ~made => UNCHANGED job
  BY <1>3
<1> HIDE DEF new, failed, record
<1>8. /\ JobsGrow /\ OneJob' /\ \A j \in Jobs' : job'[j].done <= clock'
      /\ made => Len(job) + 1 \in Jobs' /\ job'[Len(job) + 1] = new
      /\ \A q \in Paths : q # p /\ Unused(q) => Unused(q)'
  <2>1. CASE made
    BY <1>1, <1>2, <1>4, <1>6, <2>1, JobAppended
  <2>2. CASE ~made
    <3>1. UNCHANGED job /\ UNCHANGED clock
      BY <1>1, <1>7, <2>2
    <3>2. JobsGrow /\ OneJob' /\ \A q \in Paths : Unused(q) => Unused(q)'
      BY <1>2, <3>1, JobsUnchanged, JobsSameFacts DEF JobsSame
    <3>3. \A j \in Jobs' : job'[j].done <= clock'
      BY <1>2, <3>1 DEF Typed, Jobs
    <3> QED
      BY <2>2, <3>2, <3>3
  <2> QED
    BY <2>1, <2>2
<1>9. DOMAIN op' = Paths /\ DOMAIN created' = Paths /\ DOMAIN submission' = Paths
  BY <1>2, <1>3 DEF Typed
<1>10. job' \in Seq(JobRecords)
  BY <1>8 DEF JobsGrow
<1>11. Typed'
  BY <1>1, <1>2, <1>8, <1>9, <1>10 DEF Typed
<1>12. \A q \in Paths \ {p} : PathSame(q)
  BY <1>1, <1>2, <1>3 DEF PathSame, Typed
<1>13. ASSUME NEW q \in Paths \ {p} PROVE PathInv(q)'
  BY <1>2, <1>8, <1>12, <1>13, PathStays
<1>14. Prefixes'
  BY <1>1, <1>2, <1>8, PrefixesStay
<1>15. PathInv(p)'
  <2>1. CASE /\ answer = "id" /\ UNCHANGED submission
             /\ op' = [op EXCEPT ![p] = [pc |-> "verifying", job |-> Len(job) + 1]]
    <3>1. op'[p].pc = "verifying" /\ op'[p].job = Len(job) + 1
      BY <1>2, <2>1 DEF Typed
    <3>2. Len(job) + 1 \in Jobs' /\ job'[Len(job) + 1].request = intent[p].dry.request
      BY <1>3, <1>4, <1>8, <2>1
    <3>3. intent'[p] = intent[p] /\ UNCHANGED <<submission, monitor, collection, exit>>
      BY <1>1, <2>1
    <3> QED
      BY <1>1, <3>1, <3>2, <3>3, VerifyingPath
  <2>2. CASE /\ op' = [op EXCEPT ![p] = Stopped]
             /\ submission' \in {submission, [submission EXCEPT ![p] = failed]}
    <3>1. op'[p] = Stopped /\ submission'[p] \in {None, failed}
      BY <1>2, <2>2 DEF Typed
    <3>2. ~Submitted(p)'
      BY <1>5, <3>1 DEF Submitted
    <3>3. intent'[p] = intent[p] /\ UNCHANGED <<monitor, collection, exit>>
      BY <1>1
    <3> QED
      BY <1>1, <3>1, <3>2, <3>3, StoppedPath
  <2> QED
    BY <1>3, <2>1, <2>2
<1> QED
  BY <1>8, <1>11, <1>13, <1>14, <1>15 DEF JobInv

\* A job that has not finished changes state.
LEMMA JobWritten ==
    ASSUME Typed, NEW j \in Jobs, job[j].state # "completed", NEW rec \in JobRecords,
           job' = [job EXCEPT ![j] = rec], UNCHANGED clock, rec.request = job[j].request,
           rec.path = job[j].path, rec.image = job[j].image, rec.done <= clock
    PROVE  JobsSame /\ job'[j] = rec /\ \A i \in Jobs' : job'[i].done <= clock'
<1>1. job \in Seq(JobRecords) /\ Len(job) \in Nat /\ j \in 1..Len(job)
  BY DEF Typed, Jobs
<1>2. /\ job' \in Seq(JobRecords) /\ Len(job') = Len(job) /\ job'[j] = rec
      /\ \A i \in 1..Len(job) : i # j => job'[i] = job[i]
  BY <1>1, ExceptSeq
<1>3. JobsSame
  BY <1>1, <1>2 DEF JobsSame, JobsGrow
<1>4. \A i \in Jobs' : i \in Jobs /\ (i = j \/ job'[i] = job[i])
  BY <1>2 DEF Jobs
<1>5. \A i \in Jobs' : job'[i].done <= clock'
  BY <1>2, <1>4 DEF Typed
<1> QED
  BY <1>2, <1>3, <1>5

LEMMA JobStateWritten ==
    ASSUME Typed, NEW j \in Jobs, job[j].state # "completed", NEW s \in States,
           job' = [job EXCEPT ![j].state = s], UNCHANGED clock
    PROVE  JobsSame /\ \A i \in Jobs' : job'[i].done <= clock'
<1> DEFINE old == job[j]
           rec == [old EXCEPT !.state = s]
<1>1. job' = [job EXCEPT ![j] = rec]
  OBVIOUS
<1>2. old \in JobRecords /\ old.done <= clock
  BY JobTyped
<1> HIDE DEF old
<1>3. /\ rec \in JobRecords /\ rec.request = old.request /\ rec.path = old.path
      /\ rec.image = old.image /\ rec.done = old.done
  BY <1>2 DEF JobRecords
<1> HIDE DEF rec
<1>4. /\ rec.request = job[j].request /\ rec.path = job[j].path
      /\ rec.image = job[j].image /\ rec.done <= clock
  BY <1>2, <1>3 DEF old
<1> QED
  BY <1>1, <1>3, <1>4, JobWritten

LEMMA VerifyJobs == ASSUME JobInv, NEW p \in Paths, VerifySubmission(p) PROVE JobInv'
<1> DEFINE j == op[p].job
           at == IF intent[p].recover # 0 THEN job[j].at ELSE clock
           passed == SubmissionRecord(p, j, "SUBMITTED", at)
           failed == SubmissionRecord(p, 0, "POST_SUBMISSION_VERIFICATION_FAILED", 0)
<1>1. /\ op[p].pc = "verifying" /\ op[p].pc \in Active /\ op' = [op EXCEPT ![p] = Stopped]
      /\ UNCHANGED <<clock, staged, dryRuns, intent, created, prefix, monitor, collection, exit>>
      /\ \/ submission' = [submission EXCEPT ![p] = passed] /\ UNCHANGED job
         \/ /\ submission' = [submission EXCEPT ![p] = failed]
            /\ UNCHANGED job \/ (Live(j) /\ job' = CancelledIn(j))
  BY DEF VerifySubmission, Active
<1>2. /\ Typed /\ submission[p] = None /\ j \in Jobs /\ intent[p] # None
      /\ job[j].request = intent[p].dry.request /\ PathInv(p)
  BY <1>1 DEF JobInv, PathInv, Submitting
<1>3. at \in Nat
  BY <1>2, JobTyped DEF Typed
<1>4. /\ passed # None /\ passed.submitted /\ passed.job = j /\ passed.at = at
      /\ passed.dry = intent[p].dry /\ failed # None /\ ~failed.submitted
  BY RecordFields
<1> HIDE DEF j, at, passed, failed
<1>5. /\ JobsSame /\ \A i \in Jobs' : job'[i].done <= clock'
  <2>1. CASE UNCHANGED job
    BY <1>1, <1>2, <2>1, JobsUnchanged DEF Typed, Jobs
  <2>2. CASE Live(j) /\ job' = CancelledIn(j)
    <3>1. job[j].state # "completed" /\ job' = [job EXCEPT ![j].state = "cancelled"]
      BY <2>2 DEF Live, CancelledIn
    <3>2. "cancelled" \in States /\ UNCHANGED clock
      BY <1>1 DEF States
    <3> QED
      BY <1>2, <3>1, <3>2, JobStateWritten
  <2> QED
    BY <1>1, <2>1, <2>2
<1>6. job' \in Seq(JobRecords) /\ JobsGrow
  BY <1>5 DEF JobsSame, JobsGrow
<1>7. Typed'
  BY <1>1, <1>2, <1>5, <1>6 DEF Typed
<1>8. \A q \in Paths \ {p} : PathSame(q)
  BY <1>1, <1>2 DEF PathSame, Typed
<1>9. UNCHANGED prefix /\ op'[p] = Stopped /\ submission'[p] \in {passed, failed} /\ intent'[p] = intent[p]
  BY <1>1, <1>2 DEF Typed
<1>10. CASE submission'[p] = failed
  <2>1. ~Submitted(p)'
    BY <1>4, <1>10 DEF Submitted
  <2>2. UNCHANGED <<monitor, collection, exit>>
    BY <1>1
  <2>3. PathInv(p)'
    BY <1>1, <1>9, <2>1, <2>2, StoppedPath
  <2> QED
    BY <1>5, <1>7, <1>8, <1>9, <2>3, PathStep
<1>11. CASE submission'[p] = passed
  <2>1. monitor[p] = None /\ collection[p] = None /\ ~exit[p]
    BY <1>2, NotYetSubmitted
  <2>2. op'[p].pc = "stopped" /\ "stopped" \notin Active
    BY <1>9 DEF Stopped, Active
  <2>3. IntentFirst(p)'
    BY <1>2, <1>9 DEF PathInv, IntentFirst
  <2>4. Submitting(p)'
    BY <2>2 DEF Submitting, Active
  <2>5. j \in Jobs' /\ job'[j].request = intent[p].dry.request
    BY <1>2, <1>6, JobKept
  <2>6. SubmittedJob(p)'
    BY <1>3, <1>4, <1>9, <1>11, <2>5 DEF SubmittedJob
  <2>7. Chain(p)'
    BY <1>1, <2>1 DEF Chain
  <2>8. PathInv(p)'
    BY <2>3, <2>4, <2>6, <2>7 DEF PathInv
  <2> QED
    BY <1>5, <1>7, <1>8, <1>9, <2>8, PathStep
<1> QED
  BY <1>9, <1>10, <1>11

--------------------------------------------------------------------------------
(***************************************************************************)
(* The job, its monitor, its collection and its exit.                      *)
(***************************************************************************)
LEMMA RunJobs == ASSUME JobInv, NEW j \in Jobs, RunJob(j) PROVE JobInv'
<1>1. /\ job[j].state = "queued" /\ UNCHANGED <<clock, staged, dryRuns, op, prefix, evidence>>
      /\ \E s \in {"failed", "publishing"} : job' = [job EXCEPT ![j].state = s]
  BY DEF RunJob, JobTo
<1>2. PICK s \in {"failed", "publishing"} : job' = [job EXCEPT ![j].state = s]
  BY <1>1
<1>3. Typed /\ Prefixes /\ s \in States /\ job[j].state # "completed" /\ UNCHANGED clock
  BY <1>1 DEF JobInv, States
<1>4. JobsSame /\ JobsGrow /\ (\A i \in Jobs' : job'[i].done <= clock') /\ job' \in Seq(JobRecords)
  BY <1>2, <1>3, JobStateWritten DEF JobsSame, JobsGrow
<1>5. Typed'
  BY <1>1, <1>3, <1>4 DEF Typed, evidence
<1>6. \A p \in Paths : PathSame(p)
  BY <1>1 DEF PathSame, evidence
<1>7. UNCHANGED prefix
  BY <1>1
<1>8. Prefixes'
  BY <1>3, <1>4, <1>7, PrefixesStay
<1> QED
  BY <1>4, <1>5, <1>6, <1>8, QuietStep

LEMMA PublishJobs == ASSUME JobInv, NEW j \in Jobs, PublishResult(j) PROVE JobInv'
<1>1. PICK ok \in BOOLEAN :
        /\ job' = [job EXCEPT ![j].state = IF ok THEN "completed" ELSE "failed", ![j].done = clock]
        /\ prefix' = IF ok THEN [prefix EXCEPT ![job[j].request] = j] ELSE prefix
  BY DEF PublishResult
<1>2. job[j].state = "publishing" /\ UNCHANGED <<clock, staged, dryRuns, op, evidence>>
  BY DEF PublishResult
<1>3. /\ Typed /\ Prefixes /\ job[j] \in JobRecords /\ job[j].request \in Requests
      /\ job[j].state # "completed" /\ clock \in Nat /\ UNCHANGED clock
  BY <1>2, JobTyped DEF JobInv, Typed
<1> DEFINE old == job[j]
           s == IF ok THEN "completed" ELSE "failed"
           rec == [old EXCEPT !.state = s, !.done = clock]
<1>4. job' = [job EXCEPT ![j] = rec]
  BY <1>1
<1>5. s \in States /\ (ok => s = "completed") /\ old \in JobRecords
  BY <1>3 DEF States
<1> HIDE DEF old, s
<1>6. /\ rec \in JobRecords /\ rec.request = old.request /\ rec.path = old.path
      /\ rec.image = old.image /\ rec.done = clock /\ rec.state = s
  BY <1>3, <1>5 DEF JobRecords
<1> HIDE DEF rec
<1>7. /\ rec.request = job[j].request /\ rec.path = job[j].path
      /\ rec.image = job[j].image /\ rec.done <= clock
  BY <1>3, <1>6 DEF old
<1>8. /\ JobsSame /\ job'[j] = rec /\ \A i \in Jobs' : job'[i].done <= clock'
  BY <1>3, <1>4, <1>6, <1>7, JobWritten
<1>9. JobsGrow /\ job' \in Seq(JobRecords) /\ j \in Jobs' /\ j \in Nat
  BY <1>3, <1>8, JobsInclude DEF JobsSame, JobsGrow, Jobs
<1>10. prefix' \in [Requests -> Nat]
  BY <1>1, <1>3, <1>9 DEF Typed
<1>11. Typed'
  BY <1>2, <1>3, <1>8, <1>9, <1>10 DEF Typed, evidence
<1>12. \A p \in Paths : PathSame(p)
  BY <1>2 DEF PathSame, evidence
<1>13. Prefixes'
  <2>1. CASE ~ok
    <3>1. UNCHANGED prefix
      BY <1>1, <2>1
    <3> QED
      BY <1>3, <1>9, <3>1, PrefixesStay
  <2>2. CASE ok
    <3>1. prefix' = [prefix EXCEPT ![job[j].request] = j]
      BY <1>1, <2>2
    <3>2. \A r \in Requests : prefix'[r] = IF r = job[j].request THEN j ELSE prefix[r]
      BY <1>3, <3>1 DEF Typed
    <3>3. job'[j].state = "completed" /\ job'[j].request = job[j].request
      BY <1>5, <1>6, <1>7, <1>8, <2>2
    <3>4. \A r \in Requests : prefix[r] # 0 =>
            /\ prefix[r] \in Jobs' /\ job'[prefix[r]].state = "completed"
            /\ job'[prefix[r]].request = r
      BY <1>3, <1>9, JobKept DEF Prefixes
    <3> QED
      BY <1>9, <3>2, <3>3, <3>4 DEF Prefixes
  <2> QED
    BY <2>1, <2>2
<1> QED
  BY <1>8, <1>11, <1>12, <1>13, QuietStep

\* A poll that reports COMPLETED saw a governed, finished job within its
\* watchdog, and one that cancels saw a job that had not finished.
LEMMA PollVerdict ==
    ASSUME JobInv, NEW p \in Paths, Submitted(p), NEW query \in BOOLEAN, NEW context \in BOOLEAN,
           NEW stamped \in BOOLEAN
    PROVE  LET j == submission[p].job
               status == PollStatus(p, query, context, stamped) IN
           /\ status = "COMPLETED" =>
                /\ job[j].state = "completed" /\ job[j].image = "governed"
                /\ job[j].done <= submission[p].at + Watchdog
           /\ status = "CANCEL" => job[j].state # "completed"
<1> DEFINE j == submission[p].job
           sAt == submission[p].at
           seen == IF stamped THEN job[j].done ELSE clock
           spent == Elapsed(p, seen)
           status == PollStatus(p, query, context, stamped)
<1>1. Typed /\ j \in Jobs /\ sAt \in Nat /\ clock \in Nat
  BY DEF JobInv, PathInv, SubmittedJob, Typed
<1>2. job[j].done \in Nat /\ job[j].done <= clock
  BY <1>1, JobTyped
<1>3. Watchdog \in Nat
  BY GovernedJobAssumption
<1>4. seen \in Nat /\ job[j].done <= seen
  BY <1>1, <1>2
<1>5. spent = IF seen > sAt THEN seen - sAt ELSE 0
  BY DEF Elapsed
<1>6. status =
        CASE ~query -> "STATUS_QUERY_FAILED"
          [] query /\ context /\ job[j].image # "governed" -> "RESOURCE_MISMATCH"
          [] query /\ job[j].state = "completed" /\ ~context -> "RESOURCE_EVIDENCE_MISSING"
          [] query /\ job[j].state = "completed" /\ context /\ job[j].image = "governed" ->
               IF spent <= Watchdog THEN "COMPLETED" ELSE "WATCHDOG_BREACHED"
          [] query /\ job[j].state \in {"failed", "cancelled"} -> "FAILED"
          [] OTHER -> IF Elapsed(p, clock) >= Watchdog THEN "CANCEL" ELSE ""
  BY DEF PollStatus
<1> HIDE DEF seen, spent, sAt, j, status
<1>7. status = "COMPLETED" =>
        job[j].state = "completed" /\ job[j].image = "governed" /\ spent <= Watchdog
  BY <1>6
<1>8. status = "CANCEL" => job[j].state # "completed"
  BY <1>6
<1>9. spent <= Watchdog => job[j].done <= sAt + Watchdog
  BY <1>1, <1>2, <1>3, <1>4, <1>5
<1> QED
  BY <1>7, <1>8, <1>9 DEF status, j, sAt

LEMMA PollJobs == ASSUME JobInv, NEW p \in Paths, Poll(p) PROVE JobInv'
<1>1. PICK query \in BOOLEAN : PollAnswered(p, query)
  BY DEF Poll
<1>2. /\ Submitted(p) /\ monitor[p] = None
      /\ UNCHANGED <<clock, staged, dryRuns, intent, created, submission, op, prefix, collection, exit>>
  BY <1>1 DEF PollAnswered
<1> DEFINE j == submission[p].job
<1>3. PICK context \in BOOLEAN, stamped \in BOOLEAN, logs \in BOOLEAN, refused \in BOOLEAN :
        LET status == PollStatus(p, query, context, stamped) IN
        /\ job' = IF status = "CANCEL" /\ ~refused THEN CancelledIn(j) ELSE job
        /\ monitor' = [monitor EXCEPT ![p] =
                         [kind |-> "monitor", completed |-> status = "COMPLETED", logs |-> logs]]
  BY <1>1 DEF PollAnswered
<1> DEFINE status == PollStatus(p, query, context, stamped)
           new == [kind |-> "monitor", completed |-> status = "COMPLETED", logs |-> logs]
<1>4. /\ status = "COMPLETED" =>
            /\ job[j].state = "completed" /\ job[j].image = "governed"
            /\ job[j].done <= submission[p].at + Watchdog
      /\ status = "CANCEL" => job[j].state # "completed"
  BY <1>2, PollVerdict
<1>5. new # None /\ (new.completed <=> status = "COMPLETED")
  BY DEF None
<1>6. monitor' = [monitor EXCEPT ![p] = new] /\ (UNCHANGED job \/ (status = "CANCEL" /\ job' = CancelledIn(j)))
  BY <1>3
<1> HIDE DEF new, status
<1>7. Typed /\ PathInv(p) /\ SubmittedJob(p) /\ j \in Jobs
  BY <1>2 DEF JobInv, PathInv, SubmittedJob
<1> HIDE DEF j
<1>8. JobsSame /\ \A i \in Jobs' : job'[i].done <= clock'
  <2>1. CASE UNCHANGED job
    BY <1>2, <1>7, <2>1, JobsUnchanged DEF Typed, Jobs
  <2>2. CASE status = "CANCEL" /\ job' = CancelledIn(j)
    <3>1. job[j].state # "completed" /\ job' = [job EXCEPT ![j].state = "cancelled"]
      BY <1>4, <2>2 DEF CancelledIn
    <3>2. "cancelled" \in States /\ UNCHANGED clock
      BY <1>2 DEF States
    <3> QED
      BY <1>7, <3>1, <3>2, JobStateWritten
  <2> QED
    BY <1>6, <2>1, <2>2
<1>9. JobsGrow /\ job' \in Seq(JobRecords)
  BY <1>8 DEF JobsSame, JobsGrow
<1>10. Typed'
  BY <1>2, <1>6, <1>7, <1>8, <1>9 DEF Typed
<1>11. monitor'[p] = new /\ \A q \in Paths \ {p} : PathSame(q)
  BY <1>2, <1>6, <1>7 DEF PathSame, Typed
<1>12. UNCHANGED prefix
  BY <1>2
<1>13. PathInv(p)'
  <2>1. OneJob /\ (Unused(p) => Unused(p)')
    BY <1>7, <1>8, JobsSameFacts DEF JobInv
  <2>2. IntentFirst(p)'
    BY <1>2, <1>7, <2>1 DEF PathInv, IntentFirst
  <2>3. /\ op[p].pc = "recovering" => intent[p].recover \in Jobs'
        /\ op[p].pc = "verifying" =>
             op[p].job \in Jobs' /\ job'[op[p].job].request = intent[p].dry.request
    BY <1>7, <1>9, JobKept DEF PathInv, Submitting
  <2>4. Submitting(p)'
    BY <1>2, <1>7, <2>1, <2>3 DEF PathInv, Submitting
  <2>5. /\ j \in Jobs' /\ job'[j].request = job[j].request /\ job'[j].image = job[j].image
        /\ job[j].state = "completed" => job'[j].state = "completed" /\ job'[j].done = job[j].done
    BY <1>7, <1>9, JobKept
  <2>6. SubmittedJob(p)'
    BY <1>2, <1>7, <2>5 DEF SubmittedJob, Submitted, j
  <2>7. new.completed =>
          /\ job'[j].state = "completed" /\ job'[j].image = "governed"
          /\ job'[j].done <= submission[p].at + Watchdog
    BY <1>4, <1>5, <2>5
  <2>8. collection[p] = None /\ ~exit[p] /\ UNCHANGED <<submission, collection, exit>>
    BY <1>2, <1>7 DEF PathInv, Chain
  <2>9. Submitted(p)'
    BY <1>2 DEF Submitted
  <2>10. Chain(p)'
    BY <1>11, <2>7, <2>8, <2>9 DEF Chain, j
  <2> QED
    BY <2>2, <2>4, <2>6, <2>10 DEF PathInv
<1> QED
  BY <1>8, <1>10, <1>11, <1>12, <1>13, PathStep

LEMMA CollectJobs == ASSUME JobInv, NEW p \in Paths, CollectResult(p) PROVE JobInv'
<1> DEFINE source == prefix[submission[p].dry.request]
           new == [kind |-> "collection", source |-> source, request |-> job[source].request]
<1>1. /\ collection[p] = None /\ Submitted(p) /\ monitor[p] # None /\ monitor[p].completed /\ source # 0
      /\ collection' = [collection EXCEPT ![p] = new]
      /\ UNCHANGED <<clock, staged, dryRuns, intent, created, submission, op, job, prefix, monitor, exit>>
  BY DEF CollectResult, Collectable
<1>2. new # None /\ new.source = source
  BY DEF None
<1>3. Typed /\ Prefixes /\ PathInv(p)
  BY DEF JobInv
<1>4. intent[p] # None
  BY <1>1, <1>3 DEF PathInv, IntentFirst, Submitted
<1>5. submission[p].dry.request \in Requests
  BY <1>1, <1>3, <1>4 DEF PathInv, IntentFirst, SubmittedJob
<1>6. source \in Jobs /\ job[source].state = "completed" /\ job[source].request = submission[p].dry.request
  BY <1>1, <1>3, <1>5 DEF Prefixes
<1> HIDE DEF new, source
<1>7. Typed'
  BY <1>1, <1>3 DEF Typed, Jobs
<1>8. collection'[p] = new /\ \A q \in Paths \ {p} : PathSame(q)
  BY <1>1, <1>3 DEF PathSame, Typed
<1>9. JobsSame /\ UNCHANGED prefix
  BY <1>1, <1>3, JobsUnchanged
<1>10. IntentFirst(p)' /\ Submitting(p)' /\ SubmittedJob(p)'
  BY <1>1, <1>3 DEF PathInv, IntentFirst, Submitting, SubmittedJob, Submitted, Unused, Jobs
<1>11. UNCHANGED <<job, monitor, submission, exit>>
  BY <1>1
<1>12. monitor[p] # None => /\ Submitted(p)
                            /\ monitor[p].completed =>
                                /\ job[submission[p].job].state = "completed"
                                /\ job[submission[p].job].image = "governed"
                                /\ job[submission[p].job].done <= submission[p].at + Watchdog
  BY <1>3 DEF PathInv, Chain
<1>13. Chain(p)'
  BY <1>1, <1>2, <1>6, <1>8, <1>11, <1>12 DEF Chain, Submitted, Jobs
<1>14. PathInv(p)'
  BY <1>10, <1>13 DEF PathInv
<1> QED
  BY <1>7, <1>8, <1>9, <1>14, PathStep

LEMMA ExitJobs == ASSUME JobInv, NEW p \in Paths, CreateExitRecord(p) PROVE JobInv'
<1>1. /\ collection[p] # None /\ monitor[p].completed
      /\ exit' = [exit EXCEPT ![p] = TRUE]
      /\ UNCHANGED <<clock, staged, dryRuns, intent, created, submission, op, job, prefix, monitor, collection>>
  BY DEF CreateExitRecord, ExitGates
<1>2. Typed /\ PathInv(p)
  BY DEF JobInv
<1>3. exit' \in [Paths -> BOOLEAN]
  BY <1>1, <1>2 DEF Typed
<1>4. Typed'
  BY <1>1, <1>2, <1>3 DEF Typed, Jobs
<1>5. \A q \in Paths \ {p} : PathSame(q)
  BY <1>1, <1>2 DEF PathSame, Typed
<1>6. JobsSame /\ UNCHANGED prefix
  BY <1>1, <1>2, JobsUnchanged
<1>7. IntentFirst(p)' /\ Submitting(p)' /\ SubmittedJob(p)'
  BY <1>1, <1>2 DEF PathInv, IntentFirst, Submitting, SubmittedJob, Submitted, Unused, Jobs
<1>8. UNCHANGED <<job, monitor, submission, collection>>
  BY <1>1
<1>9. Chain(p)'
  BY <1>1, <1>2, <1>8 DEF PathInv, Chain, Submitted, Jobs
<1>10. PathInv(p)'
  BY <1>7, <1>9 DEF PathInv
<1> QED
  BY <1>4, <1>5, <1>6, <1>10, PathStep

--------------------------------------------------------------------------------
LEMMA InitJobs == Init => JobInv
<1> SUFFICES ASSUME Init PROVE JobInv
  OBVIOUS
<1>1. /\ clock = 0 /\ staged = {} /\ dryRuns = {} /\ job = <<>>
      /\ prefix = [r \in Requests |-> 0] /\ exit = [p \in Paths |-> FALSE]
      /\ \A p \in Paths : /\ intent[p] = None /\ submission[p] = None /\ op[p] = Idle
                          /\ monitor[p] = None /\ collection[p] = None
      /\ DOMAIN intent = Paths /\ DOMAIN created = Paths /\ DOMAIN submission = Paths
      /\ DOMAIN op = Paths /\ DOMAIN monitor = Paths /\ DOMAIN collection = Paths
  BY DEF Init
<1>2. job \in Seq(JobRecords) /\ Jobs = {}
  BY <1>1 DEF Jobs
<1>3. prefix \in [Requests -> Nat] /\ exit \in [Paths -> BOOLEAN]
  BY <1>1
<1>4. Typed
  BY <1>1, <1>2, <1>3 DEF Typed
<1>5. OneJob /\ Prefixes
  BY <1>1, <1>2 DEF OneJob, Prefixes
<1>6. \A p \in Paths : op[p].pc = "idle" /\ ~exit[p]
  BY <1>1 DEF Idle
<1>7. \A p \in Paths : PathInv(p)
  BY <1>1, <1>2, <1>6
     DEF PathInv, IntentFirst, Submitting, SubmittedJob, Submitted, Chain, Unused, Active
<1> QED
  BY <1>4, <1>5, <1>7 DEF JobInv

LEMMA NextJobs == JobInv /\ [Next]_vars => JobInv'
<1> SUFFICES ASSUME JobInv, [Next]_vars PROVE JobInv'
  OBVIOUS
<1>1. CASE UNCHANGED vars
  BY <1>1 DEF vars, JobInv, Typed, OneJob, Prefixes, PathInv, IntentFirst, Submitting, SubmittedJob,
              Submitted, Chain, Unused, Jobs
<1>2. CASE Tick
  BY <1>2, TickJobs
<1>3. ASSUME NEW r \in Requests, StageRequest(r) \/ DryRun(r) PROVE JobInv'
  BY <1>3, StageJobs
<1>4. ASSUME NEW p \in Paths, NEW d \in dryRuns, NEW n \in 0..MaxJobs, Submit(p, d, n) PROVE JobInv'
  BY <1>4, SubmitJobs
<1>5. ASSUME NEW p \in Paths, CreateJob(p) \/ RecoverJob(p) \/ VerifySubmission(p) \/ Crash(p) PROVE JobInv'
  BY <1>5, CreateJobs, RecoverJobs, VerifyJobs, CrashJobs
<1>6. ASSUME NEW p \in Paths, Poll(p) \/ CollectResult(p) \/ CreateExitRecord(p) PROVE JobInv'
  BY <1>6, PollJobs, CollectJobs, ExitJobs
<1>7. ASSUME NEW j \in Jobs, RunJob(j) \/ PublishResult(j) PROVE JobInv'
  BY <1>7, RunJobs, PublishJobs
<1> QED
  BY <1>1, <1>2, <1>3, <1>4, <1>5, <1>6, <1>7 DEF Next

(* In every reachable state a path has one job at most, its evidence files *)
(* follow one another, and each says what is still so of the jobs it names *)
(* (submit_nebius_job.py, lightgbm_wave1.py).                              *)
THEOREM JobInvariant == Spec => []JobInv
BY InitJobs, NextJobs, PTL DEF Spec

LEMMA InvariantGivesEarned == JobInv => SubmissionIsEarned
<1> SUFFICES ASSUME JobInv PROVE SubmissionIsEarned
  OBVIOUS
<1>1. OneJobPerPath
  <2> SUFFICES ASSUME NEW p \in Paths PROVE Cardinality({j \in Jobs : job[j].path = p}) <= 1
    BY DEF OneJobPerPath
  <2> DEFINE S == {j \in Jobs : job[j].path = p}
  <2>1. \A i, j \in S : i = j
    BY DEF JobInv, OneJob
  <2> HIDE DEF S
  <2>2. Cardinality(S) <= 1
    <3>1. CASE S = {}
      BY <3>1, FS_EmptySet
    <3>2. CASE S # {}
      <4>1. PICK j \in S : TRUE
        BY <3>2
      <4>2. S = {j}
        BY <2>1, <4>1
      <4>3. Cardinality(S) = 1
        BY <4>2, FS_Singleton
      <4> QED
        BY <4>3
    <3> QED
      BY <3>1, <3>2
  <2> QED
    BY <2>2 DEF S
<1>2. ExitIsEarned
  <2> SUFFICES ASSUME NEW p \in Paths, exit[p]
               PROVE  LET j == submission[p].job  src == collection[p].source IN
                      /\ job[j].state = "completed" /\ job[src].state = "completed"
                      /\ job[j].image = "governed"
                      /\ {job[j].request, job[src].request} = {intent[p].dry.request}
                      /\ job[j].done <= submission[p].at + Watchdog
    BY DEF ExitIsEarned
  <2>1. SubmittedJob(p) /\ Chain(p)
    BY DEF JobInv, PathInv
  <2>2. collection[p] # None /\ monitor[p].completed /\ monitor[p] # None /\ Submitted(p)
    BY <2>1 DEF Chain
  <2>3. job[collection[p].source].request = intent[p].dry.request
    BY <2>1, <2>2 DEF Chain, SubmittedJob
  <2>4. job[submission[p].job].request = intent[p].dry.request
    BY <2>1, <2>2 DEF SubmittedJob
  <2> QED
    BY <2>1, <2>2, <2>3, <2>4 DEF Chain
<1> QED
  BY <1>1, <1>2 DEF SubmissionIsEarned

(* However often a submission is killed and run again, its path creates    *)
(* one job at most, and a passed exit names a governed job of the reviewed *)
(* request that finished within its watchdog, with a result of that        *)
(* request (submit_nebius_job.py, monitor_g4_job, create_g4_exit_record).  *)
THEOREM SubmissionEarned == Spec => []SubmissionIsEarned
BY JobInvariant, InvariantGivesEarned, PTL

--------------------------------------------------------------------------------
Records ==
    [kind : {"result"}, experiment : Experiments, seed : SeedTrials \cup {42},
     model : (Search \cup {0}) \X (SeedTrials \cup {42}) \X (0..1),
     key : Keys, worse : {{}, {"brier", "ece"}}]

SelTyped ==
    /\ repeat \in [Repeats -> Records \cup {Absent}]
    /\ result \in [Trials -> Records \cup {Absent}]
    /\ g5 \in Records \cup {Absent}

\* The whole search is in, and n is the best of it.
Chosen(n) ==
    /\ g5 # Absent /\ Collected = Search
    /\ n \in Search \cup {0} /\ BestOfSearch(n)

\* Every confirmation trial ran the experiment the plan has for the model n.
Confirmed(n) == \A t \in Seeded \cup Calibrations : Collects(t, ConfirmationExperiment(n, t))

\* The candidate is the best of the three calibrations.
BestCalibration(c) ==
    /\ c \in Calibrations
    /\ \A d \in Calibrations : ~Worsened(result[d]) => result[d].key >= result[c].key

Reported ==
    report # Absent =>
        /\ Chosen(report.model) /\ Confirmed(report.model) /\ BestCalibration(report.candidate)
        /\ report.passed => SeedsStable(report.model) /\ OneModel

Frozen ==
    freeze # Absent =>
        /\ report # Absent /\ report.passed
        /\ freeze.candidate = report.candidate
        /\ freeze.candidate = <<"calibration", "isotonic">>

\* Each later file names the candidate of the one before it.
Bound ==
    /\ authorization # Absent => freeze # Absent /\ authorization.candidate = freeze.candidate
    /\ preflight # Absent => freeze # Absent /\ preflight.candidate = freeze.candidate
    /\ \A t \in evaluated : preflight # Absent /\ t = preflight.candidate

SelInv ==
    /\ SelTyped
    /\ (selection # Absent => Chosen(selection.model))
    /\ Reported /\ Frozen /\ Bound

LEMMA LeastNat ==
    ASSUME NEW S \in SUBSET Nat, S # {}
    PROVE  \E m \in S : \A k \in S : m <= k
<1>1. PICK m \in S : \A k \in S : ~(<<k, m>> \in OpToRel(<, Nat))
  BY NatLessThanWellFounded, WFMin
<1>2. \A k \in S : ~(k < m)
  BY <1>1, Zenon DEF OpToRel
<1>3. m \in Nat /\ \A k \in S : k \in Nat
  OBVIOUS
<1>4. QED
  BY <1>2, <1>3

LEMMA SelectedModel ==
    ASSUME EligibleModels # {}, EligibleModels \subseteq Nat,
           \A n \in EligibleModels : SearchRecord(n).key \in Nat
    PROVE  /\ SelectModel \in EligibleModels
           /\ \A m \in EligibleModels :
                \/ SearchRecord(SelectModel).key < SearchRecord(m).key
                \/ /\ SearchRecord(SelectModel).key = SearchRecord(m).key
                   /\ SelectModel <= m
<1> DEFINE keys == {SearchRecord(n).key : n \in EligibleModels}
<1>1. keys \in SUBSET Nat /\ keys # {}
  OBVIOUS
<1>2. PICK k \in keys : \A l \in keys : k <= l
  <2> HIDE DEF keys
  <2> QED BY <1>1, LeastNat
<1> DEFINE ties == {n \in EligibleModels : SearchRecord(n).key = k}
<1>3. ties \in SUBSET Nat /\ ties # {}
  BY <1>2
<1>4. PICK n \in ties : \A m \in ties : n <= m
  <2> HIDE DEF ties, keys
  <2> QED BY <1>3, LeastNat
<1>5. \A m \in EligibleModels :
        \/ SearchRecord(n).key < SearchRecord(m).key
        \/ SearchRecord(n).key = SearchRecord(m).key /\ n <= m
  <2> SUFFICES ASSUME NEW m \in EligibleModels
      PROVE \/ SearchRecord(n).key < SearchRecord(m).key
            \/ SearchRecord(n).key = SearchRecord(m).key /\ n <= m
    OBVIOUS
  <2>1. k <= SearchRecord(m).key /\ k \in Nat /\ SearchRecord(m).key \in Nat
    BY <1>2, <1>1
  <2>2. SearchRecord(n).key = k /\ n \in EligibleModels
    BY <1>4
  <2>3. CASE SearchRecord(m).key = k
    BY <2>2, <2>3, <1>4
  <2>4. CASE SearchRecord(m).key # k
    BY <2>1, <2>2, <2>4
  <2> QED BY <2>3, <2>4
<1>6. n \in EligibleModels
  BY <1>4
<1> HIDE DEF ties, keys
<1> QED
  BY <1>5, <1>6 DEF SelectModel, Best

LEMMA MethodOrders == ASSUME NEW t \in Calibrations PROVE MethodOrder[t[2]] \in Nat
<1>1. PICK m \in Methods : t = <<"calibration", m>>
  BY DEF Calibrations
<1>2. t[2] \in Methods
  BY <1>1
<1>3. QED
  BY <1>2 DEF MethodOrder, Methods

LEMMA SelectedCalibration ==
    ASSUME EligibleCalibrations # {}, \A t \in EligibleCalibrations : result[t].key \in Nat
    PROVE  /\ SelectCalibration \in EligibleCalibrations
           /\ \A u \in EligibleCalibrations : result[SelectCalibration].key <= result[u].key
<1> DEFINE keys == {result[t].key : t \in EligibleCalibrations}
<1>1. keys \in SUBSET Nat /\ keys # {}
  OBVIOUS
<1>2. PICK k \in keys : \A l \in keys : k <= l
  <2> HIDE DEF keys
  <2> QED BY <1>1, LeastNat
<1> DEFINE ties == {t \in EligibleCalibrations : result[t].key = k}
           orders == {MethodOrder[t[2]] : t \in ties}
<1>3. orders \in SUBSET Nat /\ orders # {}
  <2>1. ties # {} BY <1>2
  <2>2. \A t \in ties : t \in Calibrations BY DEF EligibleCalibrations
  <2>3. \A t \in ties : MethodOrder[t[2]] \in Nat
    <3> HIDE DEF ties
    <3> QED BY <2>2, MethodOrders
  <2> HIDE DEF ties
  <2> QED BY <2>1, <2>3
<1>4. PICK o \in orders : \A p \in orders : o <= p
  <2> HIDE DEF orders, ties, keys
  <2> QED BY <1>3, LeastNat
<1>5. PICK t \in ties : o = MethodOrder[t[2]]
  BY <1>4
<1>6. \A u \in ties : MethodOrder[t[2]] <= MethodOrder[u[2]]
  <2> HIDE DEF ties
  <2> QED BY <1>4, <1>5
<1>7. t \in EligibleCalibrations /\ result[t].key = k
  BY <1>5
<1>8. \A u \in EligibleCalibrations :
        \/ result[t].key < result[u].key
        \/ result[t].key = result[u].key /\ MethodOrder[t[2]] <= MethodOrder[u[2]]
  <2> SUFFICES ASSUME NEW u \in EligibleCalibrations
      PROVE \/ result[t].key < result[u].key
            \/ result[t].key = result[u].key /\ MethodOrder[t[2]] <= MethodOrder[u[2]]
    OBVIOUS
  <2>1. k <= result[u].key /\ k \in Nat /\ result[u].key \in Nat
    BY <1>2, <1>1
  <2>2. CASE result[u].key = k
    <3>1. u \in ties BY <2>2
    <3> HIDE DEF ties
    <3> QED BY <1>7, <2>2, <1>6, <3>1
  <2>3. CASE result[u].key # k
    BY <2>1, <1>7, <2>3
  <2> QED BY <2>2, <2>3
<1> HIDE DEF ties, keys, orders
<1>9. /\ SelectCalibration \in EligibleCalibrations
      /\ \A u \in EligibleCalibrations :
           \/ result[SelectCalibration].key < result[u].key
           \/ /\ result[SelectCalibration].key = result[u].key
              /\ MethodOrder[SelectCalibration[2]] <= MethodOrder[u[2]]
  BY <1>7, <1>8 DEF SelectCalibration, Best
<1>10. QED
  BY <1>9

\* What any step may do to the files: they are written once.
FilesStay ==
    /\ (g5 # Absent => g5' = g5)
    /\ \A t \in Trials : result[t] # Absent => result'[t] = result[t]

LEMMA TrialSets ==
    /\ \A n \in Search : <<"search", n>> \in Trials
    /\ Seeded \cup Calibrations \subseteq Trials
  BY DEF Trials, SearchTrials

LEMMA CollectsPresent ==
    ASSUME NEW t, NEW e, Collects(t, e)
    PROVE  result[t] # Absent /\ result[t].experiment = e /\ result[t].seed = SeedOf(t)
  BY DEF Collects

LEMMA CollectsStays ==
    ASSUME FilesStay, NEW t \in Trials, NEW e, Collects(t, e)
    PROVE  Collects(t, e)' /\ result'[t] = result[t]
  BY DEF FilesStay, Collects, SeedOf

LEMMA ChosenStays ==
    ASSUME FilesStay, NEW n, Chosen(n)
    PROVE  Chosen(n)' /\ \A m \in Search \cup {0} : RecordOf(m)' = RecordOf(m)
<1>1. \A m \in Search : Collects(<<"search", m>>, SearchExperiment(m))
  BY DEF Chosen, Collected
<1>2. \A m \in Search : /\ Collects(<<"search", m>>, SearchExperiment(m))'
                        /\ result'[<<"search", m>>] = result[<<"search", m>>]
  <2> SUFFICES ASSUME NEW m \in Search
               PROVE  /\ Collects(<<"search", m>>, SearchExperiment(m))'
                      /\ result'[<<"search", m>>] = result[<<"search", m>>]
    OBVIOUS
  <2>1. <<"search", m>> \in Trials /\ Collects(<<"search", m>>, SearchExperiment(m))
    BY <1>1, TrialSets
  <2>2. QED BY <2>1, CollectsStays DEF SearchExperiment
<1>3. Collected' = Search
  BY <1>2 DEF Collected
<1>4. g5' = g5 /\ g5' # Absent
  BY DEF FilesStay, Chosen
<1>5. \A m \in Search \cup {0} : RecordOf(m)' = RecordOf(m)
  BY <1>2, <1>4 DEF RecordOf
<1>6. n \in Search \cup {0} /\ BestOfSearch(n)
  BY DEF Chosen
<1>7. BestOfSearch(n)'
  BY <1>5, <1>6 DEF BestOfSearch
<1>8. QED
  BY <1>3, <1>4, <1>5, <1>6, <1>7 DEF Chosen

LEMMA RecordFacts ==
    ASSUME SelTyped
    PROVE  /\ \A t \in Trials : result[t] # Absent => result[t] \in Records
           /\ \A n \in Search \cup {0} : SearchRecord(n) # Absent => SearchRecord(n) \in Records
           /\ \A r \in Records : r # Absent /\ r.key \in Nat
<1>1. \A r \in Records : r # Absent /\ r.key \in Nat
  <2> SUFFICES ASSUME NEW r \in Records PROVE r # Absent /\ r.key \in Nat
    OBVIOUS
  <2>1. r.kind = "result" /\ r.key \in Keys
    BY DEF Records
  <2>2. Absent.kind = "none"
    BY DEF Absent
  <2> QED
    BY <2>1, <2>2, ModelSelectionAssumption
<1>2. \A n \in Search : result[<<"search", n>>] \in Records \cup {Absent}
  BY TrialSets DEF SelTyped
<1> QED
  BY <1>1, <1>2 DEF SelTyped, SearchRecord

\* select_model over the whole search chooses its best record.
LEMMA SelectionIsBest ==
    ASSUME SelTyped, PlanVerified, Collected = Search, EligibleModels # {}
    PROVE  Chosen(SelectModel)
<1>1. \A n \in Search \cup {0} : SearchRecord(n) = RecordOf(n)
  BY DEF SearchRecord, RecordOf
<1>2. \A n \in Search \cup {0} : SearchRecord(n) # Absent
  <2>1. \A n \in Search : result[<<"search", n>>] # Absent
    BY CollectsPresent DEF Collected
  <2>2. QED BY <2>1 DEF SearchRecord, PlanVerified
<1>3. \A n \in Search \cup {0} : SearchRecord(n).key \in Nat
  BY <1>2, RecordFacts
<1>4. EligibleModels \subseteq Search \cup {0} /\ EligibleModels \subseteq Nat
  <2>1. Collected \subseteq Search
    BY DEF Collected
  <2>2. EligibleModels \subseteq Collected \cup {0}
    BY DEF EligibleModels
  <2>3. Search \cup {0} \subseteq Nat
    BY ModelSelectionAssumption
  <2> QED
    BY <2>1, <2>2, <2>3
<1>5. \A n \in EligibleModels : SearchRecord(n).key \in Nat
  BY <1>3, <1>4
<1>6. /\ SelectModel \in EligibleModels
      /\ \A m \in EligibleModels :
           \/ SearchRecord(SelectModel).key < SearchRecord(m).key
           \/ SearchRecord(SelectModel).key = SearchRecord(m).key /\ SelectModel <= m
  BY <1>4, <1>5, SelectedModel
<1> DEFINE n == SelectModel
<1>7. n \in Search \cup {0} /\ ~Worsened(RecordOf(n))
  <2>1. CalibrationEligible(SearchRecord(n)) /\ n \in Search \cup {0}
    BY <1>6, <1>4 DEF EligibleModels
  <2> QED BY <2>1, <1>1 DEF CalibrationEligible, Worsened
<1> HIDE DEF n
<1>8. ASSUME NEW m \in Search \cup {0}
      PROVE  /\ RecordOf(m) # Absent
             /\ ~Worsened(RecordOf(m)) =>
                  \/ RecordOf(m).key > RecordOf(n).key
                  \/ RecordOf(m).key = RecordOf(n).key /\ m >= n
  <2>1. RecordOf(m) # Absent
    BY <1>1, <1>2
  <2>2. ASSUME ~Worsened(RecordOf(m))
        PROVE \/ RecordOf(m).key > RecordOf(n).key
              \/ RecordOf(m).key = RecordOf(n).key /\ m >= n
    <3>1. m \in EligibleModels
      BY <2>2, <1>1 DEF EligibleModels, Worsened, CalibrationEligible
    <3>2. \/ RecordOf(n).key < RecordOf(m).key
          \/ RecordOf(n).key = RecordOf(m).key /\ n <= m
      BY <3>1, <1>6, <1>7, <1>1 DEF n
    <3>3. RecordOf(n).key \in Nat /\ RecordOf(m).key \in Nat /\ n \in Nat /\ m \in Nat
      BY <1>1, <1>3, <1>7, ModelSelectionAssumption
    <3> QED BY <3>2, <3>3
  <2> QED BY <2>1, <2>2
<1>9. BestOfSearch(n)
  BY <1>7, <1>8 DEF BestOfSearch
<1> QED
  BY <1>7, <1>9 DEF Chosen, PlanVerified, n

LEMMA ConfirmedStays ==
    ASSUME FilesStay, NEW n, Confirmed(n)
    PROVE  /\ Confirmed(n)'
           /\ \A t \in Seeded \cup Calibrations : result[t] # Absent /\ result'[t] = result[t]
<1>1. ASSUME NEW t \in Seeded \cup Calibrations
      PROVE  Collects(t, ConfirmationExperiment(n, t))' /\ result'[t] = result[t] /\ result[t] # Absent
  <2>1. Collects(t, ConfirmationExperiment(n, t)) /\ t \in Trials
    BY TrialSets DEF Confirmed
  <2>2. result[t] # Absent
    BY <2>1, CollectsPresent
  <2>3. Collects(t, ConfirmationExperiment(n, t))' /\ result'[t] = result[t]
    BY <2>1, CollectsStays DEF ConfirmationExperiment, SearchExperiment
  <2> QED BY <2>2, <2>3
<1> QED
  BY <1>1 DEF Confirmed

\* A step that keeps the files and writes no report keeps the one there is.
LEMMA ReportStays ==
    ASSUME FilesStay, Reported, report' = report
    PROVE  Reported'
<1> SUFFICES ASSUME report # Absent
             PROVE  /\ Chosen(report.model)' /\ Confirmed(report.model)'
                    /\ BestCalibration(report.candidate)'
                    /\ (report.passed => (SeedsStable(report.model) /\ OneModel)')
  BY DEF Reported
<1>1. /\ Chosen(report.model) /\ Confirmed(report.model) /\ BestCalibration(report.candidate)
      /\ (report.passed => SeedsStable(report.model) /\ OneModel)
  BY DEF Reported
<1>0. PICK n, c : n = report.model /\ c = report.candidate
  OBVIOUS
<1>2. Chosen(n) /\ Confirmed(n) /\ BestCalibration(c)
  BY <1>0, <1>1
<1>3. Chosen(n)' /\ RecordOf(n)' = RecordOf(n)
  BY <1>2, ChosenStays DEF Chosen
<1>4. /\ Confirmed(n)'
      /\ \A t \in Seeded \cup Calibrations : result'[t] = result[t]
  BY <1>2, ConfirmedStays
<1>5. BestCalibration(c)'
  BY <1>2, <1>4 DEF BestCalibration
<1>6. SearchRecord(n)' = SearchRecord(n)
  BY <1>3 DEF SearchRecord, RecordOf
<1>7. SeedsStable(n) => SeedsStable(n)'
  BY <1>4, <1>6 DEF SeedsStable
<1>8. OneModel => OneModel'
  BY <1>4 DEF OneModel
<1>9. report'.model = n /\ report'.candidate = c
  BY <1>0
<1>10. /\ Chosen(report.model)' /\ Confirmed(report.model)' /\ BestCalibration(report.candidate)'
       /\ (SeedsStable(n) => SeedsStable(report.model)')
  BY <1>3, <1>4, <1>5, <1>7, <1>9
<1> QED
  BY <1>0, <1>1, <1>8, <1>10
--------------------------------------------------------------------------------
\* The files after the report are untouched.
LaterFilesSame ==
    /\ freeze' = freeze /\ authorization' = authorization /\ preflight' = preflight
    /\ evaluated' = evaluated

LEMMA LaterStays ==
    ASSUME Frozen, Bound, LaterFilesSame, report # Absent => report' = report
    PROVE  Frozen' /\ Bound'
<1>1. Frozen'
  BY DEF Frozen, LaterFilesSame
<1>2. Bound'
  BY DEF Bound, LaterFilesSame
<1> QED
  BY <1>1, <1>2

LEMMA SelectionStays ==
    ASSUME FilesStay, selection # Absent => Chosen(selection.model), selection' = selection
    PROVE  (selection # Absent => Chosen(selection.model))'
<1> SUFFICES ASSUME selection # Absent PROVE Chosen(selection.model)'
  OBVIOUS
<1>1. PICK n : n = selection.model
  OBVIOUS
<1>2. Chosen(n)'
  BY <1>1, ChosenStays
<1> QED
  BY <1>1, <1>2

\* A step of the runs: some file is written that was absent.
LEMMA RunStep ==
    ASSUME SelInv, SelTyped', FilesStay, LaterFilesSame, report' = report, selection' = selection
    PROVE  SelInv'
<1>1. (selection # Absent => Chosen(selection.model))'
  BY SelectionStays DEF SelInv
<1>2. Reported'
  BY ReportStays DEF SelInv
<1>3. Frozen' /\ Bound'
  BY LaterStays DEF SelInv
<1> QED
  BY <1>1, <1>2, <1>3 DEF SelInv

LEMMA ResultIsRecord ==
    ASSUME NEW e \in Experiments, NEW seed \in SeedTrials \cup {42}, NEW o \in Outcomes,
           NEW drift \in 0..1
    PROVE  DevelopmentResult(e, seed, o, drift) \in Records
  BY DEF DevelopmentResult, Records, Experiments, Outcomes

LEMMA SeedsOfTrials == ASSUME NEW t \in Trials PROVE SeedOf(t) \in SeedTrials \cup {42}
  BY DEF SeedOf, Seeded

LEMMA RepeatSelected ==
    ASSUME SelInv, NEW b \in Repeats, NEW o \in Outcomes, NEW drift \in 0..1,
           RunRepeat(b, o, drift)
    PROVE  SelInv'
<1> DEFINE r == DevelopmentResult(SearchExperiment(0), 42, o, drift)
<1>1. r \in Records
  <2>1. SearchExperiment(0) \in Experiments
    BY DEF SearchExperiment, Experiments, Methods
  <2> QED BY <2>1, ResultIsRecord
<1>2. /\ repeat' = [repeat EXCEPT ![b] = r]
      /\ g5' = g5 /\ result' = result /\ report' = report /\ selection' = selection
      /\ LaterFilesSame
  BY DEF RunRepeat, LaterFilesSame
<1> HIDE DEF r
<1>3. SelTyped'
  BY <1>1, <1>2 DEF SelInv, SelTyped
<1>4. FilesStay
  BY <1>2 DEF FilesStay
<1> QED
  BY <1>2, <1>3, <1>4, RunStep

LEMMA ComparisonSelected == ASSUME SelInv, CompareG5 PROVE SelInv'
<1>1. g5' \in Records \cup {Absent}
  <2>1. (CHOOSE b \in Repeats : TRUE) \in Repeats
    BY ModelSelectionAssumption
  <2> QED BY <2>1 DEF CompareG5, SelInv, SelTyped
<1>2. SelTyped' /\ FilesStay /\ LaterFilesSame /\ report' = report /\ selection' = selection
  BY <1>1 DEF CompareG5, SelInv, SelTyped, FilesStay, LaterFilesSame
<1> QED
  BY <1>2, RunStep

LEMMA TrialSelected ==
    ASSUME SelInv, NEW t \in Trials, NEW e \in Experiments, NEW o \in Outcomes,
           NEW drift \in 0..1, RunTrial(t, e, o, drift)
    PROVE  SelInv'
<1> DEFINE r == DevelopmentResult(e, SeedOf(t), o, drift)
<1>1. r \in Records
  BY SeedsOfTrials, ResultIsRecord
<1>2. /\ result' = [result EXCEPT ![t] = r] /\ result[t] = Absent
      /\ g5' = g5 /\ repeat' = repeat /\ report' = report /\ selection' = selection
      /\ LaterFilesSame
  BY DEF RunTrial, LaterFilesSame
<1> HIDE DEF r
<1>3. SelTyped'
  BY <1>1, <1>2 DEF SelInv, SelTyped
<1>4. FilesStay
  BY <1>2 DEF FilesStay, SelInv, SelTyped
<1> QED
  BY <1>2, <1>3, <1>4, RunStep

LEMMA DerivationSelected == ASSUME SelInv, DeriveConfirmation PROVE SelInv'
<1>1. /\ g5' = g5 /\ result' = result /\ repeat' = repeat /\ report' = report
      /\ LaterFilesSame /\ selection'.model = SelectModel
  BY DEF DeriveConfirmation, LaterFilesSame
<1>2. SelTyped' /\ FilesStay
  BY <1>1 DEF SelInv, SelTyped, FilesStay
<1>3. Chosen(SelectModel)
  BY SelectionIsBest DEF DeriveConfirmation, SelInv
<1>4. PICK n : n = SelectModel
  OBVIOUS
<1>5. Chosen(n)'
  BY <1>2, <1>3, <1>4, ChosenStays
<1>6. Chosen(selection.model)'
  BY <1>1, <1>4, <1>5
<1>7. Reported' /\ Frozen' /\ Bound'
  BY <1>1, <1>2, ReportStays, LaterStays DEF SelInv
<1> QED
  BY <1>2, <1>6, <1>7 DEF SelInv

LEMMA CampaignSelected == ASSUME SelInv, CompleteCampaign PROVE SelInv'
<1>1. /\ g5' = g5 /\ result' = result /\ repeat' = repeat /\ selection' = selection
      /\ LaterFilesSame /\ report = Absent
      /\ report'.passed = (SeedsStable(SelectModel) /\ OneModel)
      /\ report'.model = SelectModel /\ report'.candidate = SelectCalibration
  BY DEF CompleteCampaign, LaterFilesSame
<1>2. SelTyped' /\ FilesStay
  BY <1>1 DEF SelInv, SelTyped, FilesStay
<1>3. PICK n, c : n = SelectModel /\ c = SelectCalibration
  OBVIOUS
<1>4. Chosen(n)
  BY <1>3, SelectionIsBest DEF CompleteCampaign, SelInv
<1>5. Confirmed(n)
  BY <1>3 DEF CompleteCampaign, Confirmed
<1>6. BestCalibration(c)
  <2>1. \A t \in Calibrations : result[t] # Absent /\ t \in Trials
    BY <1>5, CollectsPresent, TrialSets DEF Confirmed
  <2>2. \A t \in Calibrations : result[t].key \in Nat
    BY <2>1, RecordFacts DEF SelInv
  <2>3. EligibleCalibrations # {} /\ EligibleCalibrations \subseteq Calibrations
    BY DEF CompleteCampaign, EligibleCalibrations
  <2>4. /\ c \in EligibleCalibrations
        /\ \A u \in EligibleCalibrations : result[c].key <= result[u].key
    BY <1>3, <2>2, <2>3, SelectedCalibration
  <2>5. \A d \in Calibrations : ~Worsened(result[d]) => d \in EligibleCalibrations
    BY DEF Worsened, EligibleCalibrations, CalibrationEligible
  <2>6. \A d \in Calibrations : ~Worsened(result[d]) => result[d].key >= result[c].key
    BY <2>2, <2>3, <2>4, <2>5
  <2> QED BY <2>3, <2>4, <2>6 DEF BestCalibration
<1>7. Chosen(n)' /\ Confirmed(n)'
  BY <1>2, <1>4, <1>5, ChosenStays, ConfirmedStays
<1>8. BestCalibration(c)'
  BY <1>1, <1>6 DEF BestCalibration
<1>9. OneModel => OneModel'
  BY <1>1 DEF OneModel
<1>10. SeedsStable(n) => SeedsStable(n)'
  BY <1>1 DEF SeedsStable, SearchRecord
<1>11. report'.passed => SeedsStable(n)' /\ OneModel'
  BY <1>1, <1>3, <1>9, <1>10
<1>12. /\ Chosen(report.model)' /\ Confirmed(report.model)' /\ BestCalibration(report.candidate)'
       /\ (report'.passed => SeedsStable(report.model)' /\ OneModel')
  BY <1>1, <1>3, <1>7, <1>8, <1>11
<1>13. Reported'
  BY <1>12 DEF Reported
<1>14. Frozen' /\ Bound'
  BY <1>1, LaterStays DEF SelInv
<1>15. (selection # Absent => Chosen(selection.model))'
  BY <1>1, <1>2, SelectionStays DEF SelInv
<1> QED
  BY <1>2, <1>13, <1>14, <1>15 DEF SelInv

\* A step of G7 or G8 leaves the campaign alone.
LEMMA FinalStep ==
    ASSUME SelInv, UNCHANGED <<repeat, g5, result, selection, report>>, Frozen', Bound'
    PROVE  SelInv'
<1>1. SelTyped' /\ FilesStay
  BY DEF SelInv, SelTyped, FilesStay
<1>2. Reported' /\ (selection # Absent => Chosen(selection.model))'
  BY <1>1, ReportStays, SelectionStays DEF SelInv
<1> QED
  BY <1>1, <1>2 DEF SelInv

LEMMA FreezeSelected ==
    ASSUME SelInv, NEW t \in Trials, NEW at, CreateFreeze(t, at) PROVE SelInv'
<1>1. /\ freeze = Absent /\ report # Absent /\ report.passed
      /\ t = report.candidate /\ result[t].experiment.method = "isotonic"
      /\ freeze'.candidate = t
      /\ UNCHANGED <<repeat, g5, result, selection, report, authorization, preflight, evaluated>>
  BY DEF CreateFreeze, PassedReport
<1>2. t \in Calibrations /\ Confirmed(report.model)
  BY <1>1 DEF SelInv, Reported, BestCalibration
<1>3. PICK m \in Methods : t = <<"calibration", m>>
  BY <1>2 DEF Calibrations
<1>4. m = "isotonic"
  <2>1. result[t].experiment = ConfirmationExperiment(report.model, t)
    BY <1>2 DEF Confirmed, Collects
  <2>2. ConfirmationExperiment(report.model, t).method = m
    BY <1>2, <1>3 DEF ConfirmationExperiment
  <2> QED BY <1>1, <2>1, <2>2
<1>5. Frozen'
  BY <1>1, <1>3, <1>4 DEF Frozen
<1>6. Bound'
  BY <1>1 DEF SelInv, Bound
<1> QED
  BY <1>1, <1>5, <1>6, FinalStep

LEMMA AuthorizationSelected ==
    ASSUME SelInv, NEW t \in Trials, NEW at, Authorize(t, at) PROVE SelInv'
<1>1. /\ authorization = Absent /\ freeze # Absent /\ t = freeze.candidate
      /\ authorization'.candidate = t
      /\ UNCHANGED <<repeat, g5, result, selection, report, freeze, preflight, evaluated>>
  BY DEF Authorize
<1>2. Frozen' /\ Bound'
  BY <1>1 DEF SelInv, Frozen, Bound
<1> QED
  BY <1>1, <1>2, FinalStep

LEMMA PreflightSelected ==
    ASSUME SelInv, NEW p, NEW l, PreparePreflight(p, l) PROVE SelInv'
<1>1. /\ preflight = Absent /\ freeze # Absent
      /\ preflight'.candidate = freeze.candidate
      /\ UNCHANGED <<repeat, g5, result, selection, report, freeze, authorization, evaluated>>
  BY DEF PreparePreflight, AuthorizationBinds
<1>2. preflight' # Absent
  <2>1. preflight'.kind = "preflight" BY DEF PreparePreflight
  <2> QED BY <2>1 DEF Absent
<1>3. Frozen' /\ Bound'
  BY <1>1, <1>2 DEF SelInv, Frozen, Bound
<1> QED
  BY <1>1, <1>3, FinalStep

LEMMA EvaluationSelected ==
    ASSUME SelInv, NEW t \in Trials, Evaluate(t) PROVE SelInv'
<1>1. /\ preflight # Absent /\ preflight.candidate = t
      /\ evaluated' = evaluated \cup {t}
      /\ UNCHANGED <<repeat, g5, result, selection, report, freeze, authorization, preflight>>
  BY DEF Evaluate, MayEvaluate
<1>2. Frozen' /\ Bound'
  BY <1>1 DEF SelInv, Frozen, Bound
<1> QED
  BY <1>1, <1>2, FinalStep

LEMMA InitSelected == SelInit => SelInv
<1> SUFFICES ASSUME SelInit PROVE SelInv
  OBVIOUS
<1>1. SelTyped
  BY DEF SelInit, SelTyped
<1>2. (selection # Absent => Chosen(selection.model)) /\ Reported /\ Frozen /\ Bound
  BY DEF SelInit, Reported, Frozen, Bound
<1> QED
  BY <1>1, <1>2 DEF SelInv

LEMMA NextSelected == SelInv /\ [SelNext]_selVars => SelInv'
<1> SUFFICES ASSUME SelInv, [SelNext]_selVars PROVE SelInv'
  OBVIOUS
<1>1. CASE UNCHANGED selVars
  <2>1. Frozen' /\ Bound'
    BY <1>1 DEF selVars, SelInv, Frozen, Bound
  <2>2. UNCHANGED <<repeat, g5, result, selection, report>>
    BY <1>1 DEF selVars
  <2> QED BY <2>1, <2>2, FinalStep
<1>2. CASE \E b \in Repeats, o \in Outcomes, drift \in 0..1 : RunRepeat(b, o, drift)
  BY <1>2, RepeatSelected
<1>3. CASE CompareG5 \/ DeriveConfirmation \/ CompleteCampaign
  BY <1>3, ComparisonSelected, DerivationSelected, CampaignSelected
<1>4. CASE \E t \in Trials, e \in Experiments, o \in Outcomes, drift \in 0..1 :
             RunTrial(t, e, o, drift)
  BY <1>4, TrialSelected
<1>5. CASE \E t \in Trials, at \in Times : CreateFreeze(t, at) \/ Authorize(t, at)
  BY <1>5, FreezeSelected, AuthorizationSelected
<1>6. CASE \E publication, lineage \in Releases : PreparePreflight(publication, lineage)
  BY <1>6, PreflightSelected
<1>7. CASE \E t \in Trials : Evaluate(t)
  BY <1>7, EvaluationSelected
<1> QED
  BY <1>1, <1>2, <1>3, <1>4, <1>5, <1>6, <1>7 DEF SelNext

(* In every behaviour of the campaign each file binds the one before it:   *)
(* the selection and the report are of the best model of the whole search, *)
(* its confirmations ran the planned experiments, and the freeze, the      *)
(* authorization and the preflight name the report's candidate             *)
(* (g6_campaign.py, g7_candidate.py).                                      *)
THEOREM SelectionInvariant == SelSpec => []SelInv
  BY InitSelected, NextSelected, PTL DEF SelSpec

LEMMA InvariantGivesEvaluated == SelInv => EvaluatedIsSelected
<1> SUFFICES ASSUME SelInv, NEW t \in evaluated
             PROVE LET base == result[t].experiment.base IN
                /\ t = <<"calibration", "isotonic">>
                /\ BestOfSearch(base)
                /\ \A c \in Calibrations :
                     /\ result[c].model = result[t].model
                     /\ ~Worsened(result[c]) => result[c].key >= result[t].key
                /\ \A s \in Seeded :
                     /\ result[s].experiment.base = base
                     /\ RecordOf(base).key <= result[s].key + Tolerance
                     /\ result[s].key <= RecordOf(base).key + Tolerance
  BY DEF EvaluatedIsSelected
<1>1. /\ freeze # Absent /\ t = freeze.candidate
      /\ report # Absent /\ report.passed /\ t = report.candidate
      /\ t = <<"calibration", "isotonic">>
  BY DEF SelInv, Bound, Frozen
<1>2. /\ Chosen(report.model) /\ Confirmed(report.model) /\ BestCalibration(t)
      /\ SeedsStable(report.model) /\ OneModel
  BY <1>1 DEF SelInv, Reported
<1>3. t \in Calibrations
  BY <1>2 DEF BestCalibration
<1>4. \A s \in Seeded \cup Calibrations : result[s].experiment.base = report.model
  <2>1. \A s \in Seeded \cup Calibrations :
          result[s].experiment = ConfirmationExperiment(report.model, s)
    BY <1>2 DEF Confirmed, Collects
  <2>2. \A s : ConfirmationExperiment(report.model, s).base = report.model
    BY DEF ConfirmationExperiment
  <2> QED
    BY <2>1, <2>2
<1>5. BestOfSearch(report.model)
  BY <1>2 DEF Chosen
<1>6. \A c \in Calibrations :
        /\ result[c].model = result[t].model
        /\ ~Worsened(result[c]) => result[c].key >= result[t].key
  BY <1>2, <1>3 DEF OneModel, BestCalibration
<1>7. \A s \in Seeded :
        /\ RecordOf(report.model).key <= result[s].key + Tolerance
        /\ result[s].key <= RecordOf(report.model).key + Tolerance
  BY <1>2 DEF SeedsStable, SearchRecord, RecordOf
<1> QED
  BY <1>1, <1>3, <1>4, <1>5, <1>6, <1>7

(* Whatever the number of repeats, trials and seeds, and whatever results  *)
(* come in again before, between or after the comparisons: the recorded    *)
(* selection is the best of the collected search, and only a candidate     *)
(* that was selected, confirmed, calibrated and frozen is evaluated        *)
(* (g6_campaign.py derive_confirmation and complete_campaign,              *)
(* g7_candidate.py).                                                       *)
THEOREM SelectionBinds == SelSpec => []SelectionIsBinding
<1>1. SelInv => SelectionIsBinding
  BY InvariantGivesEvaluated DEF SelectionIsBinding, SelectionStands, SelInv, Chosen
<1> QED
  BY <1>1, SelectionInvariant, PTL
================================================================================
