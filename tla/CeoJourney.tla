----------------------------- MODULE CeoJourney -----------------------------
(***************************************************************************)
(* The prepared research journey of the demo (app.ceo_journey,             *)
(* app.ceo_journey_evidence, app.ceo_journey_store) over the saved         *)
(* predictions of app.research.  A signed-in subject captures an alert,    *)
(* has it explained, and saves the two as one record.  Each of the three   *)
(* artifacts of an identifier is a write-once file: its bytes are staged   *)
(* in a partial file and published by an exclusive hard link, under a      *)
(* store-wide lock that is tried and never waited for.                     *)
(*                                                                         *)
(* Requests run on their own threads, and the process may die between any  *)
(* two steps.  Dying between the link and the unlink leaves a file with    *)
(* two links, which every later read and every later write refuses.        *)
(*                                                                         *)
(* A score is the decision it gives against its frozen threshold, and a    *)
(* timestamp is the request that took it.                                  *)
(***************************************************************************)
EXTENDS Integers, Sequences, FiniteSets

CONSTANTS
    Askers,         \* the request threads
    Predictions,    \* the saved rows: [target, run, transformer, lightgbm]
    Lookback,       \* rows kept before an alert (16)
    WindowRows,     \* rows of the prepared window (64)
    StoreFiles,     \* MAX_FILES
    MaxCaptures     \* bound: identifiers

Detectors == {"transformer", "lightgbm"}
Identifiers == 1..MaxCaptures
ArtifactKinds == {"snapshot", "explanation", "saved"}
NoArtifact == [links |-> 0]
Unanswered == [status |-> "none"]
Refusal == [status |-> "refused"]

ASSUME JourneyAssumption ==
    /\ Lookback \in Nat \ {0} /\ WindowRows \in Nat \ {0}
    /\ StoreFiles \in Nat \ {0} /\ MaxCaptures \in Nat \ {0}
    /\ Len(Predictions) \in Nat /\ DOMAIN Predictions = 1..Len(Predictions)
    /\ \A i \in DOMAIN Predictions : \A d \in Detectors : Predictions[i][d] \in BOOLEAN

VARIABLES
    custody,    \* whether the published predictions still match their pins
    files,      \* identifier and kind -> the file: its value and its link count
    orphans,    \* partial files that no request will remove
    flock,      \* the request that holds .writes.lock
    asks,       \* the requests
    captures    \* identifiers handed out

journeyVars == <<custody, files, orphans, flock, asks, captures>>

-----------------------------------------------------------------------------
(* The saved predictions and the prepared window.                          *)

\* SavedCampaign.grouped: the source positions of one run, in order.
PositionsOf(run) == {i \in DOMAIN Predictions : Predictions[i].run = run}

RowsBefore(run, i) == {j \in PositionsOf(run) : j < i}

Grouped(run) ==
    [k \in 1..Cardinality(PositionsOf(run)) |->
        CHOOSE i \in PositionsOf(run) : Cardinality(RowsBefore(run, i)) = k - 1]

\* prepared: the window around the first Transformer alert of the campaign, if
\* there is one.
HasAlert == \E i \in DOMAIN Predictions : Predictions[i].transformer

Prepared ==
    LET first == CHOOSE i \in DOMAIN Predictions :
                    /\ Predictions[i].transformer
                    /\ \A j \in 1..(i - 1) : ~Predictions[j].transformer
        group == Grouped(Predictions[first].run)
        index == CHOOSE k \in DOMAIN group : group[k] = first
        offset == IF index - 1 > Lookback THEN index - 1 - Lookback ELSE 0
    IN  [run |-> Predictions[first].run, offset |-> offset,
         limit |-> IF Len(group) - offset < WindowRows
                   THEN Len(group) - offset ELSE WindowRows]

\* SavedCampaign.page: the window's rows with their ordinals in the session.
Page(window) ==
    LET rows == SubSeq(Grouped(window.run), window.offset + 1,
                       window.offset + window.limit)
    IN  [k \in DOMAIN rows |->
            [ordinal |-> window.offset + k - 1, source |-> rows[k],
             target |-> Predictions[rows[k]].target,
             scores |-> [d \in Detectors |-> Predictions[rows[k]][d]]]]

\* capture keeps the rows just before the alert, as far as the window goes.
ContextOf(page, k) ==
    SubSeq(page, IF k > Lookback THEN k - Lookback ELSE 1, k - 1)

SnapshotOf(id, detector, k) ==
    LET page == Page(Prepared)
    IN  [id |-> id, detector |-> detector, row |-> page[k],
         context |-> ContextOf(page, k)]

\* verify_snapshot: the row is an alert and its context ends just before it.
SnapshotHolds(snapshot, id) ==
    /\ snapshot.id = id
    /\ snapshot.row.scores[snapshot.detector]
    /\ Len(snapshot.context) <= Lookback
    /\ \A i \in DOMAIN snapshot.context :
        /\ snapshot.context[i].ordinal =
               snapshot.row.ordinal - Len(snapshot.context) + i - 1
        /\ snapshot.context[i].source < snapshot.row.source

\* verify_explanation: the explanation is of this very snapshot.
ExplanationHolds(explanation, snapshot) == explanation.input = snapshot

-----------------------------------------------------------------------------
(* The store.                                                              *)

ReadableFile(id, kind) == files[<<id, kind>>].links = 1

\* Entries write_budget counts: artifacts, partial files left behind, and the
\* one being staged.
StagedFiles == Cardinality({r \in Askers : asks[r].pc \in {"staged", "linked"}})

StoredFiles ==
    Cardinality({f \in DOMAIN files : files[f].links > 0}) + orphans + StagedFiles

\* write_budget refuses a full store and one holding a file with two links.
BudgetOpen ==
    /\ \A f \in DOMAIN files : files[f].links < 2
    /\ StoredFiles < StoreFiles

RecordHolds(value, id) ==
    /\ SnapshotHolds(value.snapshot, id)
    /\ ExplanationHolds(value.explanation, value.snapshot)

\* What a request answers when it finds the stored value of its artifact.
Accepts(ask, value) ==
    CASE ask.op = "capture" -> value = ask.value /\ SnapshotHolds(value, ask.id)
      [] ask.op = "explain" -> ExplanationHolds(value, ask.snapshot)
      [] ask.op = "save"    -> /\ RecordHolds(value, ask.id)
                               /\ value.snapshot = ask.snapshot
                               /\ value.explanation = ask.explanation
      [] OTHER              -> RecordHolds(value, ask.id)

KindOf(op) ==
    CASE op = "capture" -> "snapshot" [] op = "explain" -> "explanation" [] OTHER -> "saved"

\* existing, then the checks of the operation.
AnswerFrom(ask) ==
    LET file == files[<<ask.id, KindOf(ask.op)>>]
    IN  IF file.links = 1 /\ Accepts(ask, file.value)
        THEN [status |-> "ok", value |-> file.value] ELSE Refusal

IdleAsk == [pc |-> "idle", reply |-> Unanswered]
Replied(ask, reply) == [ask EXCEPT !.pc = "idle", !.reply = reply]

\* A request that has begun: what it will write, and what it read for that.
Opened(op, id, value, snapshot, explanation) ==
    [pc |-> "look", op |-> op, id |-> id, value |-> value, snapshot |-> snapshot,
     explanation |-> explanation, reply |-> Unanswered]

JourneyInit ==
    /\ custody = TRUE
    /\ files = [f \in Identifiers \X ArtifactKinds |-> NoArtifact]
    /\ orphans = 0
    /\ flock = {}
    /\ asks = [r \in Askers |-> IdleAsk]
    /\ captures = 0

-----------------------------------------------------------------------------
(* Requests.                                                               *)

\* The published predictions change under the running service.
ChangeCustody ==
    /\ custody /\ custody' = FALSE
    /\ UNCHANGED <<files, orphans, flock, asks, captures>>

\* capture: load the pinned campaign, select the alert, name the snapshot.
Capture(r, detector, target) ==
    LET page == IF HasAlert THEN Page(Prepared) ELSE <<>>
        chosen == {k \in DOMAIN page : page[k].target = target /\ page[k].scores[detector]}
    IN  /\ asks[r].pc = "idle" /\ captures < MaxCaptures
        /\ \/ /\ custody /\ chosen # {}
              /\ LET id == captures + 1
                     value == SnapshotOf(id, detector, CHOOSE k \in chosen : TRUE)
                     ask == Opened("capture", id, value, NoArtifact, NoArtifact)
                 IN  /\ captures' = id
                     /\ asks' = [asks EXCEPT ![r] =
                            IF SnapshotHolds(value, id)
                            THEN [ask EXCEPT !.pc = "write"] ELSE Replied(ask, Refusal)]
           \/ /\ ~custody \/ chosen = {}
              /\ asks' = [asks EXCEPT ![r] = [IdleAsk EXCEPT !.reply = Refusal]]
              /\ UNCHANGED captures
        /\ UNCHANGED <<custody, files, orphans, flock>>

\* explain: the snapshot must be readable and hold; the explanation quotes it.
Explain(r, id) ==
    /\ asks[r].pc = "idle"
    /\ asks' = [asks EXCEPT ![r] =
        IF ReadableFile(id, "snapshot") /\ SnapshotHolds(files[<<id, "snapshot">>].value, id)
        THEN LET snapshot == files[<<id, "snapshot">>].value
             IN  Opened("explain", id, [input |-> snapshot, by |-> r], snapshot, NoArtifact)
        ELSE [IdleAsk EXCEPT !.reply = Refusal]]
    /\ UNCHANGED <<custody, files, orphans, flock, captures>>

\* save: the snapshot and its explanation must be readable and agree.
SaveRecord(r, id) ==
    /\ asks[r].pc = "idle"
    /\ asks' = [asks EXCEPT ![r] =
        IF /\ ReadableFile(id, "snapshot") /\ ReadableFile(id, "explanation")
           /\ SnapshotHolds(files[<<id, "snapshot">>].value, id)
           /\ ExplanationHolds(files[<<id, "explanation">>].value, files[<<id, "snapshot">>].value)
        THEN LET snapshot == files[<<id, "snapshot">>].value
                 explanation == files[<<id, "explanation">>].value
             IN  Opened("save", id, [snapshot |-> snapshot, explanation |-> explanation, by |-> r],
                        snapshot, explanation)
        ELSE [IdleAsk EXCEPT !.reply = Refusal]]
    /\ UNCHANGED <<custody, files, orphans, flock, captures>>

\* record, listing and export: answer from the saved file alone.
Reopen(r, id) ==
    /\ asks[r].pc = "idle"
    /\ LET ask == Opened("reopen", id, NoArtifact, NoArtifact, NoArtifact)
       IN  asks' = [asks EXCEPT ![r] = Replied(ask, AnswerFrom(ask))]
    /\ UNCHANGED <<custody, files, orphans, flock, captures>>

\* explain and save look for the artifact first; write looks again.
LookUp(r) ==
    /\ asks[r].pc \in {"look", "write"}
    /\ asks' = [asks EXCEPT ![r] =
        IF files[<<asks[r].id, KindOf(asks[r].op)>>].links > 0
        THEN Replied(asks[r], AnswerFrom(asks[r]))
        ELSE [asks[r] EXCEPT !.pc = IF asks[r].pc = "look" THEN "write" ELSE "lock"]]
    /\ UNCHANGED <<custody, files, orphans, flock, captures>>

\* write_budget: take the lock or refuse, count the store, stage the bytes.
Stage(r) ==
    /\ asks[r].pc = "lock"
    /\ IF flock = {} /\ BudgetOpen
       THEN /\ flock' = {r}
            /\ asks' = [asks EXCEPT ![r].pc = "staged"]
       ELSE /\ asks' = [asks EXCEPT ![r] = Replied(asks[r], Refusal)]
            /\ UNCHANGED flock
    /\ UNCHANGED <<custody, files, orphans, captures>>

\* The staged bytes cannot be made durable: the partial file stays.
SyncFails(r) ==
    /\ asks[r].pc = "staged"
    /\ orphans' = orphans + 1 /\ flock' = {}
    /\ asks' = [asks EXCEPT ![r] = Replied(asks[r], Refusal)]
    /\ UNCHANGED <<custody, files, captures>>

\* os.link publishes the bytes unless the name is already taken.
LinkReplacing(r) ==
    /\ asks[r].pc = "staged"
    /\ files' = [files EXCEPT ![<<asks[r].id, KindOf(asks[r].op)>>] =
                    [links |-> 2, value |-> asks[r].value]]
    /\ asks' = [asks EXCEPT ![r].pc = "linked"]
    /\ UNCHANGED <<custody, orphans, flock, captures>>

LinkExclusively(r) ==
    LET name == <<asks[r].id, KindOf(asks[r].op)>>
    IN  /\ asks[r].pc = "staged"
        /\ files' = IF files[name].links = 0
                    THEN [files EXCEPT ![name] = [links |-> 2, value |-> asks[r].value]]
                    ELSE files
        /\ asks' = [asks EXCEPT ![r].pc = "linked"]
        /\ UNCHANGED <<custody, orphans, flock, captures>>

\* The partial name goes, the lock is released, and the artifact is read back.
Publish(r) ==
    LET name == <<asks[r].id, KindOf(asks[r].op)>>
    IN  /\ asks[r].pc = "linked"
        /\ files' = [files EXCEPT ![name].links = 1]
        /\ flock' = {}
        /\ asks' = [asks EXCEPT ![r].pc = "reread"]
        /\ UNCHANGED <<custody, orphans, captures>>

ReadBack(r) ==
    /\ asks[r].pc = "reread"
    /\ asks' = [asks EXCEPT ![r] = Replied(asks[r], AnswerFrom(asks[r]))]
    /\ UNCHANGED <<custody, files, orphans, flock, captures>>

\* The process dies: requests and the lock go, partial files and links stay.
JourneyCrash ==
    /\ \E r \in Askers : asks[r].pc # "idle"
    /\ orphans' = orphans + StagedFiles
    /\ flock' = {}
    /\ asks' = [r \in Askers |-> IF asks[r].pc = "idle" THEN asks[r] ELSE IdleAsk]
    /\ UNCHANGED <<custody, files, captures>>

JourneyNext ==
    \/ ChangeCustody \/ JourneyCrash
    \/ \E r \in Askers :
        \/ \E d \in Detectors : \E i \in DOMAIN Predictions : Capture(r, d, Predictions[i].target)
        \/ \E id \in Identifiers : Explain(r, id) \/ SaveRecord(r, id) \/ Reopen(r, id)
        \/ LookUp(r) \/ Stage(r) \/ SyncFails(r)
        \/ LinkExclusively(r) \/ Publish(r) \/ ReadBack(r)

JourneySpec == JourneyInit /\ [][JourneyNext]_journeyVars

-----------------------------------------------------------------------------
(* What the journey promises.                                              *)

\* The context of a snapshot is the rows of the same run right before the
\* alert, as many as the look-back allows and the window holds.
ContextIsExact(snapshot) ==
    LET n == Len(snapshot.context)
        k == snapshot.row.ordinal
        group == Grouped(Prepared.run)
    IN  /\ n = IF k - Prepared.offset < Lookback THEN k - Prepared.offset ELSE Lookback
        /\ snapshot.row.source = group[k + 1]
        /\ \A i \in 1..n : snapshot.context[i].source = group[k - n + i]

\* Whatever order requests run in and wherever the process dies, an answer
\* given is the artifact stored for good: two requests that race to explain or
\* save an alert give the same answer, and a saved record joins the one stored
\* snapshot, whose context is exact, to the one stored explanation of it.  The
\* partial files of dead requests count towards the store's limit, which only
\* the second name of a file being published may pass
\* (JourneyStore.write, CEOJourney.save).
JourneyIsOneStory ==
    /\ \A r \in Askers :
        (asks[r].pc = "idle" /\ asks[r].reply.status = "ok") =>
            LET value == asks[r].reply.value
                id == asks[r].id
            IN  /\ files[<<id, KindOf(asks[r].op)>>].value = value
                /\ asks[r].op = "capture" => ContextIsExact(value)
                /\ asks[r].op = "explain" => value.input = files[<<id, "snapshot">>].value
                /\ asks[r].op \in {"save", "reopen"} =>
                    /\ value.snapshot = files[<<id, "snapshot">>].value
                    /\ value.explanation = files[<<id, "explanation">>].value
                    /\ value.explanation.input = value.snapshot
    /\ StoredFiles <= StoreFiles + Cardinality({f \in DOMAIN files : files[f].links = 2})
=============================================================================
