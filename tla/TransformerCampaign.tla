------------------------ MODULE TransformerCampaign ------------------------
(***************************************************************************)
(* The development campaign of the Transformer: eight fixed slots (a smoke *)
(* job, four grid trials, two confirmation seeds, one inference), each one *)
(* GPU job that publishes under a write-once prefix, is attested by an     *)
(* operator's signed context, and is collected into local evidence before  *)
(* a later slot may cite it (backend/app/ml/transformer/research_*.py,     *)
(* scripts/transformer_research_operator.py).  Later campaigns repeat the  *)
(* confirmation and the inference under prefixes of their own, with the    *)
(* earlier publications pinned in the code                                 *)
(* (research_confirmation_contract.py, research_comparison_contract.py).   *)
(*                                                                         *)
(* A provider job, its one worker and the publication it may make share a  *)
(* number.  A request names the evidence directory (key, source, image) it *)
(* was prepared in and the publications it cites.  Losses are small        *)
(* numbers, and a grid configuration is its place in the tie-break order.  *)
(***************************************************************************)
EXTENDS Naturals, FiniteSets

CONSTANTS
    Grid,       \* configurations of the search (four in the code)
    Seeds,      \* confirmation seeds (two in the code)
    Losses,     \* values of the selection loss
    Tolerance,  \* largest loss range over the seeds
    Roots,      \* evidence directories operators work in
    MaxJobs,    \* bound on jobs ever created
    MaxLive,    \* bound on workers running at the same time
    MaxFaults   \* bound on lost answers, failures, crashes and deletions

ASSUME TransformerCampaignAssumption ==
    /\ Grid \subseteq Nat /\ Grid # {} /\ Losses \subseteq Nat /\ Losses # {}
    /\ Tolerance \in Nat /\ MaxJobs \in Nat /\ MaxLive \in Nat /\ MaxFaults \in Nat

Smoke == <<"smoke", 0>>
Searches == {<<"search", n>> : n \in Grid}
Confirmations == {<<"seed", s>> : s \in Seeds}
Inference == <<"inference", 0>>
SlotNames == {Smoke, Inference} \cup Searches \cup Confirmations

Dependencies(slot) ==
    CASE slot = Smoke -> {}
      [] slot \in Searches -> {Smoke}
      [] slot \in Confirmations -> {Smoke} \cup Searches
      [] slot = Inference -> {Smoke} \cup Searches \cup Confirmations

(* The prefixes of the four campaigns.                                     *)
Locations ==
    {<<"base", slot>> : slot \in SlotNames}
    \cup {<<"confirmation", slot>> : slot \in Confirmations}
    \cup {<<c, Inference>> : c \in {"comparison", "comparison-r2"}}

(* artifact_prefix: where a request of this campaign finds a slot.         *)
ArtifactPrefix(campaign, slot) ==
    IF campaign = "base" \/ slot \notin Confirmations \cup {Inference} THEN <<"base", slot>>
    ELSE IF slot = Inference THEN <<campaign, Inference>>
    ELSE <<"confirmation", slot>>

Absent == [kind |-> "none"]

VARIABLES
    requests,     \* prepared requests
    pinned,       \* [campaign -> publications fixed in the code]
    job,          \* [Locations -> the provider's job of that name, or 0]
    worker,       \* sequence-like function from job number to its worker
    prefix,       \* [Locations -> objects]
    published,    \* [job number -> its result.json once SUCCESS is stored]
    attester,     \* [Locations -> Absent or the running attester]
    verified,     \* verification.json files
    faults

tcVars == <<requests, pinned, job, worker, prefix, published, attester, verified, faults>>

Jobs == 1..MaxJobs
Idle == [pc |-> "none"]
Ended == {"none", "done", "failed", "dead"}
Live == {w \in Jobs : worker[w].pc \notin Ended}

NoObjects == [intent |-> 0, context |-> Absent, failed |-> FALSE, success |-> 0]

TcInit ==
    /\ requests = {} /\ verified = {} /\ faults = 0
    /\ pinned = [c \in {"confirmation", "comparison"} |-> Absent]
    /\ job = [l \in Locations |-> 0]
    /\ worker = [w \in Jobs |-> Idle]
    /\ prefix = [l \in Locations |-> NoObjects]
    /\ published = [w \in Jobs |-> Absent]
    /\ attester = [l \in Locations |-> Absent]

Fault(n) == faults + n <= MaxFaults /\ faults' = faults + n

(***************************************************************************)
(* Verification of a publication.                                          *)
(***************************************************************************)
BestLoss(trials) == CHOOSE l \in {t.loss : t \in trials} : \A t \in trials : l <= t.loss

(* select_grid over the verified trials: the smallest loss, then the       *)
(* smallest model.                                                         *)
SelectGrid(trials) ==
    CHOOSE t \in trials : \A u \in trials : 
        t.loss < u.loss \/ (t.loss = u.loss /\ t.config <= u.config)

GridOf(prior) == {published[prior[s]].result : s \in Searches}

(* seed_stability: the confirmations are of the winning configuration and  *)
(* the losses stay within a range.                                         *)
SeedsConfirm(prior, winner) == \A s \in Confirmations : published[prior[s]].result.config = winner.config
SeedStability(prior, winner) ==
    LET losses == {winner.loss} \cup {published[prior[s]].result.loss : s \in Confirmations}
    IN  \A a, b \in losses : a <= b + Tolerance

(* verify of an inference: it recomputes the winner and the stability.     *)
ComparisonVerified(p) ==
    LET prior == published[p].request.prior
        winner == SelectGrid(GridOf(prior))
    IN  /\ published[p].result.config = winner.config
        /\ SeedsConfirm(prior, winner)
        /\ published[p].result.stable = SeedStability(prior, winner)
        /\ published[p].request.campaign # "base" => SeedStability(prior, winner)

(* origin_matches: the earlier publications of a campaign are its own, or  *)
(* those of the pinned directory.                                          *)
OriginMatches(previous, current, slot) ==
    IF current.campaign = "base" \/ previous.campaign = current.campaign
    THEN previous.root = current.root
    ELSE previous.root = pinned.confirmation.root

(* read_publication and collect, of the publication p for a request.       *)
Publication(current, slot, p) ==
    LET at == ArtifactPrefix(current.campaign, slot)
    IN  /\ p # 0 /\ prefix[at].success = p
        /\ published[p].request.slot = slot
        /\ OriginMatches(published[p].request, current, slot)
        /\ published[p].context.request = published[p].request
        /\ slot \in Searches => <<"search", published[p].result.config>> = slot
        /\ slot = Smoke => published[p].result.config = 0

Collect(current, slot, p) ==
    /\ Publication(current, slot, p)
    /\ slot = Inference =>
         /\ \A s \in Dependencies(Inference) :
              Publication(published[p].request, s, published[p].request.prior[s])
         /\ ComparisonVerified(p)

(***************************************************************************)
(* The operator prepares, and later collects.                              *)
(***************************************************************************)
VerifiedIn(root, location) == {v \in verified : v.root = root /\ v.location = location}

(* prepare: every dependency is verified in this evidence directory, which *)
(* holds at most one request of a slot.                                    *)
Prepare(root, slot) ==
    /\ ~\E r \in requests : r.root = root /\ r.slot = slot /\ r.campaign = "base"
    /\ \A s \in Dependencies(slot) : VerifiedIn(root, <<"base", s>>) # {}
    /\ requests' = requests \cup {[campaign |-> "base", slot |-> slot, root |-> root,
         prior |-> [s \in Dependencies(slot) |->
                      (CHOOSE v \in VerifiedIn(root, <<"base", s>>) : TRUE).publication]]}
    /\ UNCHANGED <<pinned, job, worker, prefix, published, attester, verified, faults>>

(* The code of a later campaign fixes the publications it builds on.       *)
PinLegacy(root) ==
    LET slots == {Smoke} \cup Searches
    IN  /\ pinned.confirmation = Absent
        /\ \A s \in slots : VerifiedIn(root, <<"base", s>>) # {}
        /\ pinned' = [pinned EXCEPT !.confirmation =
             [kind |-> "pin", root |-> root, prior |-> [s \in slots |->
                (CHOOSE v \in VerifiedIn(root, <<"base", s>>) : TRUE).publication]]]
        /\ UNCHANGED <<requests, job, worker, prefix, published, attester, verified, faults>>

PinConfirmed ==
    LET root == pinned.confirmation.root
        old == pinned.confirmation.prior
    IN  /\ pinned.confirmation # Absent /\ pinned.comparison = Absent
        /\ \A s \in Confirmations : VerifiedIn(root, <<"confirmation", s>>) # {}
        /\ pinned' = [pinned EXCEPT !.comparison =
             [kind |-> "pin", root |-> root, prior |-> [s \in Dependencies(Inference) |->
                IF s \in Confirmations
                THEN (CHOOSE v \in VerifiedIn(root, <<"confirmation", s>>) : TRUE).publication
                ELSE old[s]]]]
        /\ UNCHANGED <<requests, job, worker, prefix, published, attester, verified, faults>>

(* transformer_confirmation_prepare, transformer_comparison_prepare: the   *)
(* same signing key, the pinned publications, and for a comparison seeds   *)
(* that agree.  The second comparison replaces a cancelled first one.      *)
PrepareLater(campaign, slot) ==
    LET pin == IF campaign = "confirmation" THEN pinned.confirmation ELSE pinned.comparison
    IN  /\ <<campaign, slot>> \in Locations /\ pin # Absent
        /\ ~\E r \in requests : r.campaign = campaign /\ r.slot = slot
        /\ slot = Inference => SeedStability(pin.prior, SelectGrid(GridOf(pin.prior)))
        /\ campaign = "comparison-r2" =>
             \E w \in Jobs : /\ worker[w].pc = "dead"
                             /\ worker[w].request.campaign = "comparison"
        /\ requests' = requests \cup {[campaign |-> campaign, slot |-> slot,
             root |-> pin.root, prior |-> pin.prior]}
        /\ UNCHANGED <<pinned, job, worker, prefix, published, attester, verified, faults>>

At(request) == <<request.campaign, request.slot>>

(* External: a job of a free name, by hand or again after a deletion.      *)
CreateJob(request, w) ==
    /\ request \in requests /\ job[At(request)] = 0
    /\ worker[w] = Idle /\ \A v \in Jobs : v < w => worker[v] # Idle
    /\ Cardinality(Live) < MaxLive
    /\ job' = [job EXCEPT ![At(request)] = w]
    /\ worker' = [worker EXCEPT ![w] = [pc |-> "list", request |-> request, context |-> Absent]]
    /\ UNCHANGED <<requests, pinned, prefix, published, attester, verified, faults>>

DeleteJob(l) ==
    /\ job[l] # 0 /\ Fault(1)
    /\ job' = [job EXCEPT ![l] = 0]
    /\ UNCHANGED <<requests, pinned, worker, prefix, published, attester, verified>>

CollectsAnyState(root, l, request) == job[l] # 0

(* The terminal provider job of the slot, which must have completed.       *)
JobCompleted(root, l, request) == job[l] # 0 /\ worker[job[l]].pc = "done"

CollectSlot(root, request) ==
    LET l == At(request)
        p == prefix[l].success
    IN  /\ request.root = root /\ VerifiedIn(root, l) = {}
        /\ JobCompleted(root, l, request)
        /\ Collect(request, request.slot, p)
        /\ published[p].request = request
        /\ published[p].context.job = job[l]
        /\ verified' = verified \cup {[root |-> root, location |-> l, publication |-> p,
                                       job |-> job[l]]}
        /\ UNCHANGED <<requests, pinned, job, worker, prefix, published, attester, faults>>

(***************************************************************************)
(* The worker.  Every conditional put either is acknowledged, or raises    *)
(* PublicationUncertain, stored or not, and that ends the worker with no   *)
(* further marker.                                                         *)
(***************************************************************************)
At1(w) == At(worker[w].request)
Goto(w, pc) == worker' = [worker EXCEPT ![w].pc = pc]
Store(l, field, value) == prefix' = [prefix EXCEPT ![l][field] = value]

WorkerFrame == UNCHANGED <<requests, pinned, job, published, attester, verified>>

(* claim lists the prefix ...                                              *)
ListPrefix(w) ==
    /\ worker[w].pc = "list"
    /\ IF prefix[At1(w)] = NoObjects THEN Goto(w, "intent") ELSE Goto(w, "failed")
    /\ UNCHANGED <<prefix, faults>> /\ WorkerFrame

(* ... and puts INTENT.                                                    *)
PutIntent(w, answered) ==
    /\ worker[w].pc = "intent"
    /\ IF prefix[At1(w)].intent # 0
       THEN /\ Goto(w, "failed") /\ answered /\ UNCHANGED <<prefix, faults>>
       ELSE \/ /\ Store(At1(w), "intent", w)
               /\ IF answered THEN Goto(w, "context") /\ UNCHANGED faults
                  ELSE Goto(w, "failed") /\ Fault(1)
            \/ /\ ~answered /\ Goto(w, "failed") /\ Fault(1) /\ UNCHANGED prefix
    /\ WorkerFrame

(* wait: the signed context must bind this request; it names a job.        *)
ReadContext(w) ==
    /\ worker[w].pc = "context" /\ prefix[At1(w)].context # Absent
    /\ worker' = [worker EXCEPT ![w].pc =
                    IF prefix[At1(w)].context.request = worker[w].request THEN "run" ELSE "failing",
                                ![w].context = prefix[At1(w)].context]
    /\ UNCHANGED <<prefix, faults>> /\ WorkerFrame

ContextExpires(w) ==
    /\ worker[w].pc = "context" /\ Fault(1) /\ Goto(w, "failing")
    /\ UNCHANGED prefix /\ WorkerFrame

(* The configuration of the trial this slot trains.                        *)
TrialOf(request) ==
    IF request.slot \in Searches THEN request.slot[2]
    ELSE SelectGrid(GridOf(request.prior)).config

(* dependencies, inputs, gpu: every cited publication is collected, then   *)
(* research_run.run trains, or applies the winner's checkpoint.            *)
RunSlot(w, loss) ==
    LET request == worker[w].request
        winner == SelectGrid(GridOf(request.prior))
        result == IF request.slot = Smoke THEN [config |-> 0, loss |-> 0, stable |-> TRUE]
                  ELSE IF request.slot = Inference
                  THEN [config |-> winner.config, loss |-> winner.loss,
                        stable |-> SeedStability(request.prior, winner)]
                  ELSE [config |-> TrialOf(request), loss |-> loss, stable |-> TRUE]
    IN  /\ worker[w].pc = "run"
        /\ request.slot \in {Smoke, Inference} => loss = BestLoss({[loss |-> l] : l \in Losses})
        /\ IF /\ \A s \in DOMAIN request.prior : Collect(request, s, request.prior[s])
              /\ request.slot = Inference => SeedsConfirm(request.prior, winner)
              /\ request.slot = Inference /\ request.campaign # "base" => result.stable
           THEN worker' = [worker EXCEPT ![w] = [pc |-> "publish", request |-> request,
                                                 context |-> worker[w].context, result |-> result]]
           ELSE Goto(w, "failing")
        /\ UNCHANGED <<prefix, faults>> /\ WorkerFrame

RunFails(w) ==
    /\ worker[w].pc = "run" /\ Fault(1) /\ Goto(w, "failing")
    /\ UNCHANGED prefix /\ WorkerFrame

(* An artifact of the run is published uncertainly.                        *)
RunUncertain(w) ==
    /\ worker[w].pc = "run" /\ Fault(1) /\ Goto(w, "failed")
    /\ UNCHANGED prefix /\ WorkerFrame

(* finish: result, checksums, and SUCCESS last.  A lost answer, or the     *)
(* deadline that has passed, ends the process with an error all the same.  *)
Finish(w, answered) ==
    /\ worker[w].pc = "publish"
    /\ IF answered THEN Goto(w, "done") /\ UNCHANGED faults ELSE Goto(w, "failed") /\ Fault(1)
    /\ Store(At1(w), "success", w)
    /\ published' = [published EXCEPT ![w] =
         [request |-> worker[w].request, context |-> worker[w].context, result |-> worker[w].result]]
    /\ UNCHANGED <<requests, pinned, job, attester, verified>>

FinishFails(w) ==
    /\ worker[w].pc = "publish" /\ Fault(1) /\ Goto(w, "failed")
    /\ UNCHANGED prefix /\ WorkerFrame

(* Any other failure writes FAILED, if it can, and never over a publication. *)
PutFailed(w) ==
    /\ worker[w].pc = "failing" /\ Goto(w, "failed")
    /\ \/ Store(At1(w), "failed", TRUE) /\ UNCHANGED faults
       \/ UNCHANGED prefix /\ Fault(1)
    /\ WorkerFrame

(* The container is killed.                                                *)
Crash(w) ==
    /\ w \in Live /\ Fault(1) /\ Goto(w, "dead")
    /\ UNCHANGED prefix /\ WorkerFrame

(***************************************************************************)
(* The attester.                                                           *)
(***************************************************************************)
AttestFrame == UNCHANGED <<requests, pinned, job, worker, published, verified>>

(* provider_read and provider_validation: a live job of this name.         *)
AttestJob(request) ==
    LET l == At(request)
    IN  /\ request \in requests /\ attester[l] = Absent
        /\ job[l] \in Live /\ prefix[l].context = Absent
        /\ attester' = [attester EXCEPT ![l] =
             [kind |-> "attester", request |-> request, job |-> job[l], pc |-> "intent"]]
        /\ UNCHANGED <<prefix, faults>> /\ AttestFrame

(* intent_read, intent_validation, provider_recheck: the worker's request  *)
(* is this one and the job of that name is still the same live job.        *)
AttestIntent(l) ==
    /\ attester[l] # Absent /\ attester[l].pc = "intent" /\ prefix[l].intent # 0
    /\ attester' = [attester EXCEPT ![l] =
         IF /\ worker[prefix[l].intent].request = attester[l].request
            /\ job[l] = attester[l].job /\ job[l] \in Live
         THEN [attester[l] EXCEPT !.pc = "publish"] ELSE Absent]
    /\ UNCHANGED <<prefix, faults>> /\ AttestFrame

(* context_publish, acknowledged or not.                                   *)
PublishContext(l) ==
    /\ attester[l] # Absent /\ attester[l].pc = "publish"
    /\ attester' = [attester EXCEPT ![l] = Absent]
    /\ IF prefix[l].context = Absent
       THEN Store(l, "context", [request |-> attester[l].request, job |-> attester[l].job])
       ELSE UNCHANGED prefix
    /\ UNCHANGED faults /\ AttestFrame

AttestEnds(l) ==
    /\ attester[l] # Absent /\ Fault(1)
    /\ attester' = [attester EXCEPT ![l] = Absent]
    /\ UNCHANGED prefix /\ AttestFrame

WorkerStep(w) ==
    \/ ListPrefix(w) \/ ReadContext(w) \/ ContextExpires(w)
    \/ \E b \in BOOLEAN : PutIntent(w, b) \/ Finish(w, b)
    \/ \E loss \in Losses : RunSlot(w, loss)
    \/ RunFails(w) \/ RunUncertain(w) \/ FinishFails(w) \/ PutFailed(w) \/ Crash(w)

TcNext ==
    \/ \E root \in Roots : \/ \E slot \in SlotNames : Prepare(root, slot)
                           \/ PinLegacy(root)
                           \/ \E r \in requests : CollectSlot(root, r)
    \/ PinConfirmed
    \/ \E l \in Locations : PrepareLater(l[1], l[2]) /\ l[1] # "base"
    \/ \E r \in requests : AttestJob(r) \/ \E w \in Jobs : CreateJob(r, w)
    \/ \E l \in Locations : DeleteJob(l) \/ AttestIntent(l) \/ PublishContext(l) \/ AttestEnds(l)
    \/ \E w \in Jobs : WorkerStep(w)

TcSpec == TcInit /\ [][TcNext]_tcVars

(***************************************************************************)
(* Properties.                                                             *)
(***************************************************************************)
(* A slot has one outcome.  Whatever answers are lost and however jobs are *)
(* deleted and created again, no prefix holds both SUCCESS and FAILED, and *)
(* what is published was published by the worker whose INTENT claimed it.  *)
SlotHasOneOutcome ==
    \A l \in Locations :
        prefix[l].success # 0 => ~prefix[l].failed /\ prefix[l].intent = prefix[l].success

(* The evidence is the job's own.  The signed context names the job the    *)
(* provider showed under the slot's name, which need not be the one whose  *)
(* worker claimed the prefix; a collected slot was written by the very job *)
(* its evidence names.                                                     *)
VerifiedByItsOwnJob == \A v \in verified : v.publication = v.job

(* A verified inference is of the configuration with the smallest loss of  *)
(* the whole grid, every confirmation it cites trained that configuration, *)
(* and every publication it cites was itself verified.                     *)
InferenceIsOfTheWinner ==
    \A v \in verified : v.location[2] = Inference =>
        LET p == published[v.publication]
            prior == p.request.prior
        IN  /\ DOMAIN prior = Dependencies(Inference)
            /\ \A s \in Searches : \E n \in Grid :
                 /\ s = <<"search", n>>
                 /\ published[prior[s]].result.config = n
                 /\ n = p.result.config => published[prior[s]].result.loss = BestLoss(GridOf(prior))
            /\ \A s \in Confirmations : published[prior[s]].result.config = p.result.config
            /\ \A s \in DOMAIN prior : \E u \in verified : u.publication = prior[s]

(* A verified result is its own job's: a slot has one outcome, its         *)
(* publication comes from the job that was verified, and inference runs    *)
(* with the model the comparison chose (research_readback.py,              *)
(* transformer_comparison_prepare.py).                                     *)
VerifiedResultsAreOwn == SlotHasOneOutcome /\ VerifiedByItsOwnJob /\ InferenceIsOfTheWinner
=============================================================================
