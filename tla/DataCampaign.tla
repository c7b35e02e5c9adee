---------------------------- MODULE DataCampaign ----------------------------
(* From the public sample to frozen projections (backend/app/market_data).   *)
(*                                                                           *)
(* The sequential acquisition campaign of the public sample                  *)
(* (acquisition.py): one job per source file, in the frozen order, each job  *)
(* a bounded number of resumable HTTP requests.  A file is a sequence of     *)
(* Units; the version a unit was read from stands for its bytes.  The remote *)
(* file may be replaced between two requests, and the server may omit its    *)
(* validators (ETag, Last-Modified).                                         *)
(*                                                                           *)
(* From quarantined sources to frozen projections: preparation jobs that     *)
(* resume from checkpoints, the projection freeze that                       *)
(* re-verifies every checkpoint, and the publication of its two scopes.      *)
(* One trade date is followed in detail; every shard is one comparison       *)
(* (symbol, attack family, seed) in the frozen order.  A checkpoint prefix   *)
(* is absent, Partial (a publisher died or could not roll back) or complete. *)
(* The request of a run id is published once, so all checkpoints under it    *)
(* carry the same binding.                                                   *)
EXTENDS Naturals, Sequences, FiniteSets, FiniteSetsExt

CONSTANTS NSources,      \* files of the campaign
          Units,         \* declared length of a file
          MaxRequests,   \* MAX_RESUME_REQUESTS
          JobCap,        \* jobs the campaign may consume
          MaxVersion     \* bound: how often the remote file is replaced

ASSUME AcquisitionAssumption ==
    /\ NSources \in Nat \ {0} /\ Units \in Nat \ {0} /\ MaxRequests \in Nat \ {0}
    /\ JobCap \in Nat /\ MaxVersion \in Nat \ {0}

VARIABLES
    acq,          \* [ok, failed, jobs]: AcquisitionCampaignState
    download,     \* the running job's partial file and the validator it saw
    remote,       \* version the server serves now
    quarantine    \* [1..NSources -> published file, <<>> when absent]

acqVars == <<acq, download, remote, quarantine>>

Unknown == 0      \* a response without validators
Idle == [pc |-> "idle", part |-> <<>>, requests |-> 0, validator |-> Unknown]

AcqInit ==
    /\ acq = [ok |-> 0, failed |-> FALSE, jobs |-> 0]
    /\ download = Idle
    /\ remote = 1
    /\ quarantine = [s \in 1..NSources |-> <<>>]

\* next_filename: the next file in order, unless the campaign has stopped.
MayAcquire == ~acq.failed /\ acq.ok < NSources /\ acq.jobs < JobCap

\* record: a failure stops the campaign, a success extends the ordered prefix.
Record(succeeded) ==
    acq' = [ok |-> acq.ok + (IF succeeded THEN 1 ELSE 0),
            failed |-> ~succeeded,
            jobs |-> acq.jobs + 1]

StartDownload ==
    /\ download.pc = "idle" /\ MayAcquire
    /\ download' = [Idle EXCEPT !.pc = "download"]
    /\ UNCHANGED <<acq, remote, quarantine>>

FailJob ==
    /\ download' = Idle
    /\ Record(FALSE)
    /\ UNCHANGED <<remote, quarantine>>

\* A response is refused when a validator seen before does not come back.
ValidatorAccepted(v) == download.validator \in {Unknown, v}

\* One GET from the current offset.  The connection may break after any number
\* of units (the loop continues); a validator that changed fails the job.
Request ==
    /\ download.pc = "download"
    /\ Len(download.part) < Units
    /\ \/ download.requests >= MaxRequests /\ FailJob
       \/ /\ download.requests < MaxRequests
          /\ \E v \in {Unknown, remote} :
                \/ ~ValidatorAccepted(v) /\ FailJob
                \/ /\ ValidatorAccepted(v)
                   /\ \E n \in 0..(Units - Len(download.part)) :
                         download' = [download EXCEPT
                             !.part = @ \o [i \in 1..n |-> remote],
                             !.requests = @ + 1,
                             !.validator = v]
                   /\ UNCHANGED <<acq, remote, quarantine>>

GzipNotVerified(file) == TRUE

\* gzip integrity: a file spliced from two versions fails its checksum.
GzipIntact(file) == \A i \in DOMAIN file : file[i] = file[1]

\* Length and gzip verified, manifest written, quarantine published with
\* SUCCESS last; the publication itself may fail.
PublishSource ==
    /\ download.pc = "download"
    /\ Len(download.part) = Units
    /\ \/ /\ GzipIntact(download.part)
          /\ quarantine' = [quarantine EXCEPT ![acq.ok + 1] = download.part]
          /\ download' = Idle
          /\ Record(TRUE)
          /\ UNCHANGED remote
       \/ FailJob

\* The exchange replaces the file on its server.
RemoteReplaced ==
    /\ remote < MaxVersion
    /\ remote' = remote + 1
    /\ UNCHANGED <<acq, download, quarantine>>

AcqNext == StartDownload \/ Request \/ PublishSource \/ RemoteReplaced

Acquired == acq.ok = NSources

\* Every quarantined file is one version of the remote file, however often the
\* download was resumed while the file was being replaced, and the quarantined
\* files are exactly the ordered prefix the campaign has recorded.
SourcesAreWhole ==
    \A s \in 1..NSources :
        /\ (quarantine[s] # <<>>) <=> s <= acq.ok
        /\ quarantine[s] # <<>> => \E v \in 1..MaxVersion :
               quarantine[s] = [i \in 1..Units |-> v]

------------------------------------------------------------------------------
CONSTANTS PlanSymbols,     \* sequence: SYMBOLS
          PerSymbol,       \* comparisons per symbol: families times seeds
          Controls,        \* identities a control replay may come out with
          ShardSizes,      \* payload sizes of a comparison shard
          ShardMax,        \* publication_limits.comparison_max_bytes
          CampaignMax,     \* publication_limits.campaign_max_bytes
          MaxJobs,         \* bound: preparation jobs submitted
          Absent, Partial

ASSUME CampaignAssumption ==
    /\ PlanSymbols \in Seq(STRING) /\ PerSymbol \in Nat \ {0}
    /\ ShardSizes \subseteq Nat /\ ShardMax \in Nat /\ CampaignMax \in Nat
    /\ \A i, j \in DOMAIN PlanSymbols : PlanSymbols[i] = PlanSymbols[j] => i = j
    /\ Absent # Partial /\ Absent \notin Controls
    /\ \A c \in Controls, s \in ShardSizes, b \in BOOLEAN :
          [control |-> c, size |-> s, includesControl |-> b] \notin {Absent, Partial}

VARIABLES
    gate,        \* stages of the reviewed request: packaged, published, reviewed
    job,         \* the running preparation job
    jobs,        \* preparation jobs submitted so far
    normalized,  \* the normalized checkpoint
    checkpoint,  \* [Plan positions -> comparison checkpoint]
    result,      \* the prepared release: Absent, Partial or its manifest
    indexed,     \* MLflow preparation runs logged
    candidate,   \* projection candidate: Absent, Partial or its frozen root
    scope        \* [development, final -> Absent, Partial or the frozen root]

prepVars == <<gate, job, jobs, normalized, checkpoint, result, indexed, candidate, scope>>
vars == <<acqVars, prepVars>>

Positions == 1..(Len(PlanSymbols) * PerSymbol)
SymbolAt(i) == PlanSymbols[((i - 1) \div PerSymbol) + 1]
FirstOfSymbol(i) == (i - 1) % PerSymbol = 0

Complete(c) == c \notin {Absent, Partial}

NoJob == [pc |-> "none", canary |-> FALSE, next |-> 1, control |-> <<>>, new |-> 0,
          bytes |-> 0, refs |-> <<>>, pending |-> Absent]

Init ==
    /\ AcqInit
    /\ gate = 0
    /\ job = NoJob
    /\ jobs = 0
    /\ normalized = Absent
    /\ checkpoint = [i \in Positions |-> Absent]
    /\ result = Absent
    /\ indexed = 0
    /\ candidate = Absent
    /\ scope = [s \in {"development", "final"} |-> Absent]

----------------------------------------------------------------------------
(* The reviewed request: packaged, published, dry-run reviewed, submitted *)

PackageRequest ==
    /\ Acquired /\ gate = 0 /\ gate' = 1
    /\ UNCHANGED <<acqVars, job, jobs, normalized, checkpoint, result, indexed, candidate, scope>>

PublishRequest ==
    /\ gate = 1 /\ gate' = 2
    /\ UNCHANGED <<acqVars, job, jobs, normalized, checkpoint, result, indexed, candidate, scope>>

ReviewDryRun ==
    /\ gate = 2 /\ gate' = 3
    /\ UNCHANGED <<acqVars, job, jobs, normalized, checkpoint, result, indexed, candidate, scope>>

\* The submission gate re-checks publication and reviewed dry run; the same
\* evidence admits further submissions, with or without the canary limit.
SubmitJob(canary) ==
    /\ gate = 3 /\ job.pc = "none" /\ jobs < MaxJobs
    /\ job' = [NoJob EXCEPT !.pc = "normalize", !.canary = canary]
    /\ jobs' = jobs + 1
    /\ UNCHANGED <<acqVars, gate, normalized, checkpoint, result, indexed, candidate, scope>>

----------------------------------------------------------------------------
(* The preparation job *)

EndJob == job' = NoJob

OnlyJob == UNCHANGED <<acqVars, gate, jobs, normalized, checkpoint, result, indexed, candidate, scope>>

\* restore_normalized: absent means normalize; a complete checkpoint is reused;
\* a partial one fails the job.
RestoreNormalized ==
    /\ job.pc = "normalize"
    /\ \/ Complete(normalized) /\ job' = [job EXCEPT !.pc = "campaign"]
       \/ normalized = Partial /\ EndJob
    /\ OnlyJob

\* convert_itch_symbols and the start of the checkpoint's publication.
Normalize ==
    /\ job.pc = "normalize" /\ normalized = Absent
    /\ normalized' = Partial
    /\ job' = [job EXCEPT !.pc = "normalizing"]
    /\ UNCHANGED <<acqVars, gate, jobs, checkpoint, result, indexed, candidate, scope>>

NormalizedPublished ==
    /\ job.pc = "normalizing"
    /\ \/ normalized' = "normalized" /\ job' = [job EXCEPT !.pc = "campaign"]
       \/ normalized' \in {Absent, Partial} /\ EndJob      \* rolled back, or not
    /\ UNCHANGED <<acqVars, gate, jobs, checkpoint, result, indexed, candidate, scope>>

ControlOf(j, i) == IF SymbolAt(i) \in DOMAIN j.control THEN j.control[SymbolAt(i)] ELSE Absent

\* _accept_control_identity: the first control of a symbol is recorded, every
\* later one must equal it.
AcceptsControl(j, i, c) == ControlOf(j, i) \in {Absent, c}

WithControl(j, i, c) ==
    [s \in DOMAIN j.control \cup {SymbolAt(i)} |-> IF s = SymbolAt(i) THEN c ELSE j.control[s]]

WithinCampaign(bytes) == bytes <= CampaignMax

\* The shard at position i joins the job's manifest of shards.
TakeShard(j, i, rec) ==
    [j EXCEPT !.control = WithControl(j, i, rec.control), !.refs = Append(@, rec),
              !.bytes = @ + rec.size, !.next = i + 1]

\* A checkpoint found at the next position is verified and reused; anything
\* wrong with it, a partial prefix included, fails the job.
LoadShard ==
    LET i == job.next
        rec == checkpoint[i]
    IN  /\ job.pc = "campaign" /\ i \in Positions /\ rec # Absent
        /\ IF /\ Complete(rec)
              /\ AcceptsControl(job, i, rec.control)
              /\ WithinCampaign(job.bytes + rec.size)
           THEN job' = TakeShard(job, i, rec)
           ELSE EndJob
        /\ OnlyJob

\* The reviewed canary publishes one new comparison and stops without a result.
StopCanary ==
    /\ job.pc = "campaign" /\ job.next \in Positions /\ checkpoint[job.next] = Absent
    /\ job.canary /\ job.new >= 1
    /\ EndJob /\ OnlyJob

\* Export, determinism gate, control identity, features, payload limits, and
\* the start of the shard's publication (its prefix was listed empty).
ExportShard(c, size) ==
    LET i == job.next IN
    /\ job.pc = "campaign" /\ i \in Positions /\ checkpoint[i] = Absent
    /\ ~(job.canary /\ job.new >= 1)
    /\ IF AcceptsControl(job, i, c) /\ size <= ShardMax
       THEN /\ checkpoint' = [checkpoint EXCEPT ![i] = Partial]
            /\ job' = [job EXCEPT !.pc = "publishing",
                  !.pending = [control |-> c, size |-> size,
                               includesControl |-> ControlOf(job, i) = Absent]]
       ELSE EndJob /\ UNCHANGED checkpoint
    /\ UNCHANGED <<acqVars, gate, jobs, normalized, result, indexed, candidate, scope>>

\* SUCCESS is written; only then are the campaign's bytes checked.
ShardPublished ==
    LET i == job.next IN
    /\ job.pc = "publishing"
    /\ checkpoint' = [checkpoint EXCEPT ![i] = job.pending]
    /\ job' = IF WithinCampaign(job.bytes + job.pending.size)
              THEN [TakeShard(job, i, job.pending) EXCEPT !.pc = "campaign", !.new = @ + 1,
                                                          !.pending = Absent]
              ELSE NoJob
    /\ UNCHANGED <<acqVars, gate, jobs, normalized, result, indexed, candidate, scope>>

\* A put fails: the keys are deleted, or deleting fails as well.
ShardRolledBack ==
    /\ job.pc = "publishing"
    /\ \E s \in {Absent, Partial} : checkpoint' = [checkpoint EXCEPT ![job.next] = s]
    /\ EndJob
    /\ UNCHANGED <<acqVars, gate, jobs, normalized, result, indexed, candidate, scope>>

\* All comparisons are there: the manifest of shards is frozen locally and
\* indexed in MLflow before the release is published.
IndexPreparation ==
    /\ job.pc = "campaign" /\ job.next \notin Positions
    /\ \/ indexed' = indexed + 1 /\ job' = [job EXCEPT !.pc = "indexed"]
       \/ UNCHANGED indexed /\ EndJob
    /\ UNCHANGED <<acqVars, gate, jobs, normalized, checkpoint, result, candidate, scope>>

\* publish_s3_result: refused when the result prefix lists anything.
PublishResult ==
    /\ job.pc = "indexed"
    /\ \/ result # Absent /\ EndJob /\ UNCHANGED result
       \/ result = Absent /\ result' = Partial /\ job' = [job EXCEPT !.pc = "result"]
    /\ UNCHANGED <<acqVars, gate, jobs, normalized, checkpoint, indexed, candidate, scope>>

ResultPublished ==
    /\ job.pc = "result"
    /\ \/ result' = [shards |-> job.refs, bytes |-> job.bytes]
       \/ result' \in {Absent, Partial}
    /\ EndJob
    /\ UNCHANGED <<acqVars, gate, jobs, normalized, checkpoint, indexed, candidate, scope>>

\* The job's machine is lost: whatever it had begun to publish stays partial.
CrashJob ==
    /\ job.pc # "none"
    /\ EndJob /\ OnlyJob

----------------------------------------------------------------------------
(* The projection freeze and its publication *)

\* _verify_preparation and the checkpoint loop of _materialize_candidate: the
\* manifest lists exactly the planned shards, each still the one it names, the
\* control artifacts are in the first shard of each symbol and nowhere else,
\* and no run appears twice.
FreezeAccepts(prepared) ==
    /\ Len(prepared.shards) = Cardinality(Positions)
    /\ \A i \in Positions :
          /\ checkpoint[i] = prepared.shards[i]
          /\ checkpoint[i].includesControl = FirstOfSymbol(i)

FreezeProjections ==
    /\ Complete(result) /\ candidate = Absent
    /\ \/ FreezeAccepts(result) /\ candidate' \in {result.shards, Partial, Absent}
       \/ ~FreezeAccepts(result) /\ candidate' = Absent
    /\ UNCHANGED <<acqVars, gate, job, jobs, normalized, checkpoint, result, indexed, scope>>

\* verify_projection_candidate, then publish one scope into its own bucket.
PublishScope(s) ==
    /\ Complete(candidate) /\ scope[s] = Absent
    /\ \E c \in {candidate, Partial} : scope' = [scope EXCEPT ![s] = c]
    /\ UNCHANGED <<acqVars, gate, job, jobs, normalized, checkpoint, result, indexed, candidate>>

PrepNext ==
    \/ PackageRequest \/ PublishRequest \/ ReviewDryRun
    \/ \E canary \in BOOLEAN : SubmitJob(canary)
    \/ RestoreNormalized \/ Normalize \/ NormalizedPublished
    \/ LoadShard \/ StopCanary
    \/ \E c \in Controls, size \in ShardSizes : ExportShard(c, size)
    \/ ShardPublished \/ ShardRolledBack
    \/ IndexPreparation \/ PublishResult \/ ResultPublished
    \/ CrashJob
    \/ FreezeProjections
    \/ \E s \in DOMAIN scope : PublishScope(s)

Next ==
    \/ AcqNext /\ UNCHANGED prepVars
    \/ PrepNext

Spec == Init /\ [][Next]_vars

----------------------------------------------------------------------------
(* Properties *)

\* A prepared release is one the projection freeze accepts, after any number
\* of canaries, crashes and resumed jobs: the control artifacts of each symbol
\* are in its first comparison, no checkpoint changed since the manifest, and
\* (which the freeze does not re-check) all comparisons of a symbol share one
\* control replay.
PreparedReleaseFreezes ==
    Complete(result) =>
        /\ FreezeAccepts(result)
        /\ \A i, j \in Positions :
              SymbolAt(i) = SymbolAt(j) => result.shards[i].control = result.shards[j].control

\* The byte ceiling is checked after a shard is published, so the checkpoints
\* of all jobs together may exceed it, but by one shard at most, and a
\* prepared release never does.
CampaignBytesBounded ==
    LET Total(S) == MapThenSumSet(LAMBDA i : checkpoint[i].size, S)
    IN  /\ Total({i \in Positions : Complete(checkpoint[i])}) <= CampaignMax + ShardMax
        /\ Complete(result) => Total(Positions) = result.bytes /\ result.bytes <= CampaignMax

\* A complete checkpoint, once published, is never changed or removed by a
\* later job: resuming reuses it.
CheckpointsAreFinal ==
    [][/\ \A i \in Positions : Complete(checkpoint[i]) => checkpoint'[i] = checkpoint[i]
       /\ Complete(normalized) => normalized' = normalized
       /\ Complete(result) => result' = result]_vars

\* Through crashes, resumes and rejected shards, the campaign stands on whole
\* sources, a prepared release freezes, and the bytes on disk stay inside the
\* campaign's limit, and a published checkpoint is never changed
\* (market_data/acquisition.py, preparation.py).
CampaignIsSound ==
    /\ [](SourcesAreWhole /\ PreparedReleaseFreezes /\ CampaignBytesBounded)
    /\ CheckpointsAreFinal
=============================================================================
