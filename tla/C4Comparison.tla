---------------------------- MODULE C4Comparison ----------------------------
(***************************************************************************)
(* The comparison of a detector release with the rules on the held-out     *)
(* projection (ml/lightgbm/c4_replay_evidence.py, c4_evaluation.py).       *)
(* evaluate_c4_release verifies every artifact, joins the projection's     *)
(* observations with the predictions and the canonical replays event by    *)
(* event, and counts.  A process that verifies a published result keeps    *)
(* its last comparison and may answer with it again; a scoring process     *)
(* never does.  A digest is the content it was taken of: `frozen' is what  *)
(* the profile and the manifests name, `shard' what is on the disk.        *)
(* Ratios, calibration bins and the bootstrap are functions of the counts  *)
(* and left out.                                                           *)
(***************************************************************************)
EXTENDS Naturals, Sequences, FiniteSets, FiniteSetsExt

CONSTANTS
    Replays,      \* the replay domains (run ids) of the frozen projection
    CampaignOf,   \* the campaign of each domain, NoCampaign for a control
    NoCampaign,
    Events,       \* the canonical events of each domain
    ShardRows,    \* what the rows file of a shard may hold, per domain
    Profiles,     \* what a profile may bind: [rows, alerts] per domain, and the package
    Predictions,  \* what the manifests may name
    Manifests,    \* the predictions manifests a process is asked about
    Threshold,    \* the frozen operating threshold
    MaxCalls      \* bound on the calls of one process

ASSUME C4ComparisonAssumption ==
    /\ Replays # {} /\ IsFiniteSet(Replays)
    /\ DOMAIN CampaignOf = Replays /\ DOMAIN Events = Replays /\ DOMAIN ShardRows = Replays
    /\ \A f \in Profiles : \A d \in Replays : f.rows[d] \in ShardRows[d] /\ IsFiniteSet(f.alerts[d])
    /\ \A f \in Predictions : \A m \in Manifests : IsFiniteSet(f[m])
    /\ Threshold \in Nat /\ MaxCalls \in Nat

VARIABLES
    frozen,     \* what the profile binds
    table,      \* the prediction rows each manifest names
    shard,      \* per domain: the rows file as it is on the disk
    cache,      \* _VERIFIED_COMPARISON: key and result (and `altered'), or <<>>
    call,       \* the call under way
    comparisons,    \* what calls have returned
    calls

c4Vars == <<frozen, table, shard, cache, call, comparisons, calls>>

NoCounts == [tp |-> 0, fp |-> 0, fn |-> 0, tn |-> 0]
NothingCounted ==
    [model |-> NoCounts, rules |-> NoCounts, campaigns |-> {}, silent |-> {}, outside |-> 0]
NoCall == [phase |-> "idle"]

C4Init ==
    /\ frozen \in Profiles /\ table \in Predictions
    /\ shard = frozen.rows
    /\ cache = <<>> /\ call = NoCall /\ comparisons = {} /\ calls = 0

Refuse == call' = NoCall /\ UNCHANGED <<cache, comparisons>>

(***************************************************************************)
(* evaluate_c4_release, up to the choice between reuse and computation.    *)
(***************************************************************************)

\* verified_replay_paths: a checkpoint names its hybrid run and, where it
\* includes the control's artifacts, the control run; none twice.
RunsOf(checkpoint) == {checkpoint.hybrid} \cup checkpoint.control

VerifiedReplays(package) ==
    /\ \A c, e \in package : c # e => RunsOf(c) \cap RunsOf(e) = {}
    /\ UNION {RunsOf(c) : c \in package} = Replays

\* verify_tabular_projection rehashes the rows of every shard.
ProjectionVerifies == shard = frozen.rows

ProfileOnly(manifest) == <<"profile">>
Key(manifest) == <<"profile", manifest>>

\* The primary keys of the temporary tables.
UniquePredictions(rows) ==
    \A r, s \in rows : r # s => <<r.run, r.seq, r.ts>> # <<s.run, s.seq, s.ts>>

UniqueObservations(rows) == \A r, s \in rows : r # s => r.seq # s.seq

StartComparison(reuse, m) ==
    /\ call = NoCall /\ calls < MaxCalls /\ calls' = calls + 1
    /\ UNCHANGED <<frozen, table, shard, cache>>
    /\ \/ /\ ~(ProjectionVerifies /\ VerifiedReplays(frozen.package))
          /\ UNCHANGED <<call, comparisons>>
       \/ /\ ProjectionVerifies /\ VerifiedReplays(frozen.package)
          /\ reuse /\ cache # <<>> /\ cache[1] = Key(m)
          /\ comparisons' = comparisons \cup {[manifest |-> m, result |-> cache[2], altered |-> cache[3]]}
          /\ UNCHANGED call
       \/ /\ ProjectionVerifies /\ VerifiedReplays(frozen.package)
          /\ ~(reuse /\ cache # <<>> /\ cache[1] = Key(m))
          /\ call' = IF UniquePredictions(table[m])
                     THEN [phase |-> "open", reuse |-> reuse, manifest |-> m,
                           todo |-> Replays, unused |-> table[m], sum |-> NothingCounted,
                           altered |-> FALSE]
                     ELSE NoCall
          /\ UNCHANGED comparisons

(***************************************************************************)
(* paired_observations and the accumulator that consumes its rows.         *)
(***************************************************************************)

\* The rows of the shard are read again here, and not hashed again.
OpenShard ==
    LET d == CHOOSE e \in call.todo : TRUE IN
    /\ call.phase = "open" /\ call.todo # {}
    /\ IF UniqueObservations(shard[d])
       THEN /\ call' = [phase |-> "join", reuse |-> call.reuse, manifest |-> call.manifest,
                        todo |-> call.todo, unused |-> call.unused, sum |-> call.sum,
                        altered |-> call.altered,
                        at |-> 1, run |-> d, left |-> shard[d], retained |-> {},
                        positive |-> FALSE]
            /\ UNCHANGED <<cache, comparisons>>
       ELSE Refuse
    /\ UNCHANGED <<frozen, table, shard, calls>>

AddRow(counts, label, alert) ==
    [counts EXCEPT !.tp = @ + (IF label = 1 /\ alert THEN 1 ELSE 0),
                   !.fp = @ + (IF label = 0 /\ alert THEN 1 ELSE 0),
                   !.fn = @ + (IF label = 1 /\ ~alert THEN 1 ELSE 0),
                   !.tn = @ + (IF label = 0 /\ ~alert THEN 1 ELSE 0)]

\* campaigns.setdefault and the two |= of evaluate_c4_observations.
AddCampaign(campaigns, run, model, rules) ==
    LET known == {c \in campaigns : c.campaign = CampaignOf[run]}
    IN  (campaigns \ known) \cup
        {[campaign |-> CampaignOf[run], run |-> run,
          model |-> model \/ \E c \in known : c.model,
          rules |-> rules \/ \E c \in known : c.rules]}

\* What evaluate_c4_observations asks of one row; the label source comes
\* from the shard, the rest from the prediction.
RowAccepted(row, source, campaigns) ==
    /\ row.alert = (row.score >= Threshold)
    /\ source = (IF row.label = 1 THEN "synthetic_scenario" ELSE "research_control_assumption")
    /\ row.label = 1 =>
         /\ CampaignOf[row.run] # NoCampaign
         /\ \A c \in campaigns : c.campaign = CampaignOf[row.run] => c.run = row.run

Counted(sum, row, rules) ==
    [sum EXCEPT !.model = AddRow(@, row.label, row.alert),
                !.rules = AddRow(@, row.label, rules),
                !.campaigns = IF row.label = 1
                              THEN AddCampaign(@, row.run, row.alert, rules) ELSE @]

\* The observation of an event, if the shard has one: the canonical event
\* must be its snapshot, exactly one prediction must be its own, and what
\* prediction and shard say of it must agree.
JoinEvent ==
    /\ call.phase = "join" /\ call.at <= Len(Events[call.run])
    /\ LET event == Events[call.run][call.at]
           observed == {o \in call.left : o.seq = call.at}
           predicted == {r \in call.unused : r.run = call.run /\ r.seq = call.at /\ r.ts = event.ts}
       IN  IF observed = {}
           THEN call' = [call EXCEPT !.at = @ + 1] /\ UNCHANGED <<cache, comparisons>>
           ELSE \E o \in observed :
                  IF /\ event.snapshot /\ event.ts = o.ts /\ event.tick = o.tick
                     /\ \E r \in predicted :
                          /\ r.label = o.label /\ r.campaign = CampaignOf[call.run]
                          /\ RowAccepted(r, o.source, call.sum.campaigns)
                  THEN /\ \E r \in predicted :
                            call' = [call EXCEPT !.at = @ + 1, !.left = @ \ {o},
                                       !.unused = @ \ {r}, !.retained = @ \cup {event.tick},
                                       !.positive = @ \/ o.label = 1,
                                       !.sum = Counted(@, r, event.tick \in frozen.alerts[call.run])]
                       /\ UNCHANGED <<cache, comparisons>>
                  ELSE Refuse
    /\ UNCHANGED <<frozen, table, shard, calls>>

\* Every canonical event has been read: nothing of the shard may be left,
\* and the rules may have alerted at ticks of the replay only.
CloseShard ==
    /\ call.phase = "join" /\ call.at > Len(Events[call.run])
    /\ LET d == call.run
           ticks == {Events[d][i].tick : i \in DOMAIN Events[d]}
       IN  IF frozen.alerts[d] \subseteq ticks /\ call.left = {}
           THEN /\ call' = [phase |-> "open", reuse |-> call.reuse, manifest |-> call.manifest,
                            todo |-> call.todo \ {d}, unused |-> call.unused,
                            altered |-> call.altered,
                            sum |-> [call.sum EXCEPT
                                       !.outside = @ + Cardinality(frozen.alerts[d] \ call.retained),
                                       !.silent = @ \cup IF CampaignOf[d] # NoCampaign /\ ~call.positive
                                                         THEN {CampaignOf[d]} ELSE {}]]
                /\ UNCHANGED <<cache, comparisons>>
           ELSE Refuse
    /\ UNCHANGED <<frozen, table, shard, calls>>

\* No prediction is left and some observation was paired.  Only the result
\* of a verification is kept for the next one.
EndComparison ==
    /\ call.phase = "open" /\ call.todo = {}
    /\ IF call.unused = {} /\ call.sum.model # NoCounts
       THEN /\ comparisons' = comparisons \cup {[manifest |-> call.manifest, result |-> call.sum, altered |-> call.altered]}
            /\ cache' = IF call.reuse THEN <<Key(call.manifest), call.sum, call.altered>> ELSE cache
            /\ call' = NoCall
       ELSE Refuse
    /\ UNCHANGED <<frozen, table, shard, calls>>

\* The rows file of a shard is overwritten, or put back; `altered' remembers
\* that it happened during a call.
ShardChanges(d) ==
    /\ shard' \in {[shard EXCEPT ![d] = rows] : rows \in ShardRows[d]}
    /\ call' = IF call = NoCall THEN call ELSE [call EXCEPT !.altered = TRUE]
    /\ UNCHANGED <<frozen, table, cache, comparisons, calls>>

C4Next ==
    \/ \E reuse \in BOOLEAN, m \in Manifests : StartComparison(reuse, m)
    \/ \E d \in Replays : ShardChanges(d)
    \/ OpenShard \/ JoinEvent \/ CloseShard \/ EndComparison

C4Spec == C4Init /\ [][C4Next]_c4Vars

(***************************************************************************)
(* What a comparison says.                                                 *)
(***************************************************************************)

\* The counts by definition: a partition of the prediction rows.
TickOf(r) == Events[r.run][r.seq].tick
Confusion(rows, Alert(_)) ==
    [tp |-> Cardinality({r \in rows : r.label = 1 /\ Alert(r)}),
     fp |-> Cardinality({r \in rows : r.label = 0 /\ Alert(r)}),
     fn |-> Cardinality({r \in rows : r.label = 1 /\ ~Alert(r)}),
     tn |-> Cardinality({r \in rows : r.label = 0 /\ ~Alert(r)})]

Expected(rows) ==
    LET ByModel(r) == r.alert
        ByRules(r) == TickOf(r) \in frozen.alerts[r.run]
        Positive(d) == {r \in rows : r.run = d /\ r.label = 1}
        attacks == {d \in Replays : CampaignOf[d] # NoCampaign}
        silent == {d \in attacks : Positive(d) = {}}
    IN  [model |-> Confusion(rows, ByModel), rules |-> Confusion(rows, ByRules),
         campaigns |-> {[campaign |-> CampaignOf[d], run |-> d,
                         model |-> \E r \in Positive(d) : ByModel(r),
                         rules |-> \E r \in Positive(d) : ByRules(r)] : d \in attacks \ silent},
         silent |-> {CampaignOf[d] : d \in silent},
         outside |-> MapThenSumSet(
             LAMBDA d : Cardinality({t \in frozen.alerts[d] :
                            ~\E r \in rows : r.run = d /\ TickOf(r) = t}), Replays)]

\* The frozen observations and the predictions are in one-to-one
\* correspondence.
Paired(rows) ==
    \A d \in Replays :
        /\ Cardinality({r \in rows : r.run = d}) = Cardinality(frozen.rows[d])
        /\ \A o \in frozen.rows[d] :
             Cardinality({r \in rows : r.run = d /\ r.seq = o.seq /\ r.ts = o.ts
                                       /\ r.label = o.label}) = 1

\* What evaluate_c4_release returns, computed or reused
\* (c4_replay_evidence.py:348-350), counts each prediction of the manifest it
\* was asked about once, as the definition counts it, whatever happens to the
\* shards, which are read again, unhashed, after they were verified; and if
\* none of them changed meanwhile, the predictions are in one-to-one
\* correspondence with the frozen observations.
ComparisonIsExact ==
    \A a \in comparisons :
        /\ a.result = Expected(table[a.manifest])
        /\ a.altered \/ Paired(table[a.manifest])
=============================================================================
