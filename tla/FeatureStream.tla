---------------------------- MODULE FeatureStream ----------------------------
(***************************************************************************)
(* The feature pipeline (features/pipeline.py, streaming.py, io.py): one   *)
(* pass over the canonical events that keeps only a rolling window of what *)
(* it saw and gives a row at every simulation snapshot, and the three files*)
(* a run writes (features, quality report, metadata).                      *)
(*                                                                         *)
(* A row is the facts its statistics are computed from; the arithmetic of  *)
(* the statistics is left out.  `history` is what the pipeline does not    *)
(* keep: every event it was given.                                         *)
(***************************************************************************)
EXTENDS Integers, Sequences, FiniteSets, FiniteSetsExt

CONSTANTS
    Orders, PriceKeys,            \* order ids, (side, price) keys
    ShortWindow, LongWindow,
    RapidCancel, Replenishment, BurstGap,
    MaxEvents, MaxClock,          \* bounds on the stream
    Writers                       \* processes that write a run's files

VARIABLES
    history,      \* Seq of events
    facts,        \* _event_facts
    snapshots,    \* _snapshot_facts
    errors,       \* _semantic_errors
    birth,        \* _order_birth_ns: set of [order, time]
    lastCancel,   \* _last_cancel_ns: set of [key, time]
    lastMessage,  \* _last_message_ns
    row,          \* the last row given
    files,        \* [features, quality, metadata -> run or NoRun]
    fileLock,     \* the lock directory's owner, or free
    writer        \* [Writers -> [pc, overwrite]]

streamVars == <<history, facts, snapshots, errors, birth, lastCancel, lastMessage, row>>
fileVars == <<files, fileLock, writer>>
featureVars == <<streamVars, fileVars>>

Free == "free"
NoRun == "no run"
NoFeatureRow == [at |-> -1, short |-> {}, long |-> {}, snapsShort |-> {}, snapsLong |-> {}, valid |-> TRUE]
Never == -1

(* validate_windows lets Replenishment be equal to LongWindow; the property*)
(* below is about the smaller values.                                      *)
ASSUME FeatureAssumption ==
    /\ {ShortWindow, LongWindow, MaxEvents, MaxClock} \subseteq Nat
    /\ 0 < ShortWindow /\ ShortWindow < LongWindow
    /\ RapidCancel \in 0..LongWindow /\ BurstGap \in 0..LongWindow
    /\ Replenishment \in 0..(LongWindow - 1)
    /\ Writers \cap {Free, NoRun} = {}

FeatureInit ==
    /\ history = <<>> /\ facts = {} /\ snapshots = {} /\ errors = {}
    /\ birth = {} /\ lastCancel = {} /\ lastMessage = Never /\ row = NoFeatureRow
    /\ files = [features |-> NoRun, quality |-> NoRun, metadata |-> NoRun]
    /\ fileLock = Free /\ writer = [w \in Writers |-> [pc |-> "idle", overwrite |-> FALSE]]

Now == IF history = <<>> THEN 0 ELSE history[Len(history)].time

(* _events_within and _snapshots_within.                                   *)
Within(kept, now, window) == {f \in kept : f.time > now - window}

(* _validate_next_event: sequence numbers are contiguous and times do not  *)
(* regress.                                                                *)
Arrives(e) ==
    /\ Len(history) < MaxEvents /\ e.time \in Now..MaxClock
    /\ history' = Append(history, e)

(* _price_key and the replenishment tests of _observe_event.               *)
Replenishes(e) ==
    /\ e.kind = "add" \/ (e.kind = "modify" /\ e.grows)
    /\ \E c \in lastCancel : c.key = e.key /\ e.time - c.time <= Replenishment

RapidlyCancels(e) ==
    e.kind = "cancel" /\ \E b \in birth : b.order = e.order /\ e.time - b.time <= RapidCancel

Bursts(e) == lastMessage # Never /\ e.time - lastMessage <= BurstGap

Fact(e) ==
    [seq |-> Len(history) + 1, time |-> e.time, kind |-> e.kind, rapid |-> RapidlyCancels(e),
     replenishes |-> Replenishes(e), burst |-> Bursts(e)]

(* What an event does to the orders' births: an add writes it, a cancel or *)
(* a complete execution takes it away.                                     *)
BirthsAfter(e) ==
    LET others == {b \in birth : b.order # e.order}
    IN  CASE e.kind = "add" -> others \cup {[order |-> e.order, time |-> e.time]}
          [] e.kind = "cancel" \/ (e.kind = "execute" /\ e.complete) -> others
          [] OTHER -> birth

CancelsAfter(e) ==
    IF e.kind = "cancel"
    THEN {c \in lastCancel : c.key # e.key} \cup {[key |-> e.key, time |-> e.time]}
    ELSE lastCancel

CancelsEvictedEarly(cancels, now) == Within(cancels, now, ShortWindow)

(* _evict, for the last cancels: those the long window has passed.         *)
CancelsKept(cancels, now) == Within(cancels, now, LongWindow)

(* _event_semantic_errors and _book_errors: what is wrong with one event.  *)
Faults(e) == IF e.bad THEN {[seq |-> Len(history) + 1, time |-> e.time]} ELSE {}

(* _observe_event, trailing _evict included.                               *)
ObserveEvent(e) ==
    /\ Arrives(e)
    /\ errors' = Within(errors \cup Faults(e), e.time, LongWindow)
    /\ facts' = Within(facts \cup {Fact(e)}, e.time, LongWindow)
    /\ snapshots' = Within(snapshots, e.time, LongWindow)
    /\ birth' = BirthsAfter(e) /\ lastCancel' = CancelsKept(CancelsAfter(e), e.time)
    /\ lastMessage' = e.time
    /\ UNCHANGED <<row, fileVars>>

(* _observe_historical_snapshot: no row, only its errors.                  *)
HistoricalSnapshot(e) ==
    /\ Arrives(e)
    /\ errors' = Within(errors \cup Faults(e), e.time, LongWindow)
    /\ facts' = Within(facts, e.time, LongWindow)
    /\ snapshots' = Within(snapshots, e.time, LongWindow)
    /\ lastCancel' = CancelsKept(lastCancel, e.time)
    /\ UNCHANGED <<birth, lastMessage, row, fileVars>>

(* The features of a row: the events and snapshots of both windows that    *)
(* its statistics are taken over, and whether the row is usable.           *)
FeaturesOf(e, seen, kept, wrong) ==
    [at |-> Len(history) + 1, short |-> Within(seen, e.time, ShortWindow), long |-> seen,
     snapsShort |-> Within(kept, e.time, ShortWindow), snapsLong |-> kept,
     valid |-> ~e.bad /\ wrong = {}]

(* _snapshot_row: the row, from what the eviction leaves.                  *)
SnapshotRow(e) ==
    LET kept == Within(snapshots \cup {[seq |-> Len(history) + 1, time |-> e.time]}, e.time, LongWindow)
        wrong == Within(errors, e.time, LongWindow)
    IN  /\ Arrives(e)
        /\ facts' = Within(facts, e.time, LongWindow)
        /\ errors' = wrong /\ snapshots' = kept
        /\ lastCancel' = CancelsKept(lastCancel, e.time)
        /\ row' = FeaturesOf(e, facts', kept, wrong)
        /\ UNCHANGED <<birth, lastMessage, fileVars>>

Observe ==
    \E t \in 0..MaxClock, bad \in BOOLEAN :
      \/ \E o \in Orders, k \in PriceKeys, kind \in {"add", "cancel"} :
           ObserveEvent([kind |-> kind, order |-> o, key |-> k, time |-> t, bad |-> bad])
      \/ \E o \in Orders, c \in BOOLEAN :
           ObserveEvent([kind |-> "execute", order |-> o, complete |-> c, time |-> t, bad |-> bad])
      \/ \E o \in Orders, k \in PriceKeys, g \in BOOLEAN :
           ObserveEvent([kind |-> "modify", order |-> o, key |-> k, grows |-> g, time |-> t, bad |-> bad])
      \/ HistoricalSnapshot([kind |-> "historical", time |-> t, bad |-> bad])
      \/ SnapshotRow([kind |-> "snapshot", time |-> t, bad |-> bad])

(***************************************************************************)
(* Writing a run: the lock is a directory, the files are replaced one by   *)
(* one from temporaries, the metadata last.                                *)
(***************************************************************************)
MoveTo(w, pc) == writer' = [writer EXCEPT ![w].pc = pc]

BeginWrite(w, overwrite) ==
    /\ writer[w].pc = "idle" /\ fileLock = Free
    /\ fileLock' = w /\ writer' = [writer EXCEPT ![w] = [pc |-> "check", overwrite |-> overwrite]]
    /\ UNCHANGED <<files, streamVars>>

(* The targets are looked at once, before anything is written.             *)
CheckTargets(w) ==
    /\ writer[w].pc = "check"
    /\ IF ~writer[w].overwrite /\ \E n \in DOMAIN files : files[n] # NoRun
       THEN MoveTo(w, "idle") /\ fileLock' = Free
       ELSE MoveTo(w, "features") /\ UNCHANGED fileLock
    /\ UNCHANGED <<files, streamVars>>

(* The three os.replace, in the order of the code.                         *)
ReplaceFile(w) ==
    /\ writer[w].pc \in {"features", "quality", "metadata"}
    /\ files' = [files EXCEPT ![writer[w].pc] = w]
    /\ IF writer[w].pc = "metadata" THEN MoveTo(w, "done") /\ fileLock' = Free
       ELSE MoveTo(w, IF writer[w].pc = "features" THEN "quality" ELSE "metadata") /\ UNCHANGED fileLock
    /\ UNCHANGED streamVars

(* An exception: the temporaries and the lock go, what was replaced stays. *)
WriteFails(w) ==
    /\ writer[w].pc \in {"features", "quality", "metadata"}
    /\ MoveTo(w, "done") /\ fileLock' = Free
    /\ UNCHANGED <<files, streamVars>>

(* The process dies: the lock directory stays, and nobody writes again.    *)
WriterDies(w) ==
    /\ writer[w].pc \in {"check", "features", "quality", "metadata"}
    /\ MoveTo(w, "dead")
    /\ UNCHANGED <<files, fileLock, streamVars>>

WriteFiles ==
    \E w \in Writers :
      (\E o \in BOOLEAN : BeginWrite(w, o)) \/ CheckTargets(w) \/ ReplaceFile(w) \/ WriteFails(w) \/ WriterDies(w)

FeatureNext == Observe \/ WriteFiles

FeatureSpec == FeatureInit /\ [][FeatureNext]_featureVars

(***************************************************************************)
(* Properties.  What the row should be, from the whole history.            *)
(***************************************************************************)
MessageKinds == {"add", "cancel", "execute", "modify"}

TrueFact(i) ==
    LET e == history[i]
        before(P(_)) == {j \in 1..(i - 1) : P(history[j])}
        of(h) == h.kind \in {"add", "cancel", "execute"} /\ h.order = e.order
                   /\ (h.kind = "execute" => h.complete)
        cancels(h) == h.kind = "cancel" /\ h.key = e.key
        message(h) == h.kind \in MessageKinds
    IN  [seq |-> i, time |-> e.time, kind |-> e.kind,
         rapid |-> /\ e.kind = "cancel" /\ before(of) # {}
                   /\ history[Max(before(of))].kind = "add"
                   /\ e.time - history[Max(before(of))].time <= RapidCancel,
         replenishes |-> /\ e.kind = "add" \/ (e.kind = "modify" /\ e.grows)
                         /\ before(cancels) # {}
                         /\ e.time - history[Max(before(cancels))].time <= Replenishment,
         burst |-> before(message) # {} /\ e.time - history[Max(before(message))].time <= BurstGap]

InLast(i, at, window) == i <= at /\ history[i].time > history[at].time - window

TrueFacts(at, window) ==
    {TrueFact(i) : i \in {j \in DOMAIN history : InLast(j, at, window) /\ history[j].kind \in MessageKinds}}

TrueSnapshots(at, window) ==
    {[seq |-> i, time |-> history[i].time] :
       i \in {j \in DOMAIN history : InLast(j, at, window) /\ history[j].kind = "snapshot"}}

(* A row computed from the rolling state is the row of the whole history:  *)
(* nothing the windows still cover was evicted (an order's birth, a cancel *)
(* that a new order replenishes, an error that makes the row invalid), and *)
(* nothing older or later is in it.                                        *)
RowIsOfItsHistory ==
    row.at > 0 =>
      /\ row.short = TrueFacts(row.at, ShortWindow) /\ row.long = TrueFacts(row.at, LongWindow)
      /\ row.snapsShort = TrueSnapshots(row.at, ShortWindow)
      /\ row.snapsLong = TrueSnapshots(row.at, LongWindow)
      /\ row.valid <=> ~\E i \in 1..row.at :
           /\ InLast(i, row.at, LongWindow) /\ history[i].bad
           /\ history[i].kind = "snapshot" => i = row.at

(* The metadata never vouches for a mixture: when its features are its     *)
(* own run's, so is its quality report, whatever writers overwrite, fail   *)
(* or die between the three replacements.                                  *)
MetadataSealsTheRun ==
    files.metadata # NoRun /\ files.features = files.metadata => files.quality = files.metadata

(* Every feature row is the row of its whole history, and the metadata     *)
(* never vouches for a mixture of two runs, whatever writers overlap       *)
(* (generate_features.py, features/pipeline.py, streaming.py).             *)
FeaturesAreSealed == RowIsOfItsHistory /\ MetadataSealsTheRun
=============================================================================
