--------------------------- MODULE ReplayComparison ---------------------------
(***************************************************************************)
(* A control replay and a hybrid replay of the same recording, compared    *)
(* and exported: the validation of the pair                                *)
(* (evaluation/hybrid_validation.py), the export of its event streams      *)
(* (market_data/replay_export.py) and the signed bundle of the comparison  *)
(* (scripts/run_historical_replay_comparison.py).                          *)
(*                                                                         *)
(* The kernel that replays is external: it reports whatever synthetic      *)
(* events it likes, and the book of the hybrid replay differs from the     *)
(* control's at a tick exactly when synthetic quantity rests at its end.   *)
(***************************************************************************)
EXTENDS Integers, Sequences, FiniteSets

CONSTANTS
    Labelled, Stray,          \* order ids of the attack's label; others
    Quantities, MaxTick, MaxSynthetic,
    StreamLength, PageLimit,  \* events of a stream, rows of a page
    Writers                   \* runs that write into one bundle directory, in turn

ASSUME ReplayComparisonAssumption ==
    /\ Labelled \cap Stray = {} /\ Quantities \subseteq Nat
    /\ MaxTick \in Nat /\ MaxSynthetic \in Nat
    /\ StreamLength \in Nat /\ PageLimit \in Nat \ {0}

Ids == Labelled \cup Stray

VARIABLES
    tick,        \* the tick the replay is in
    label,       \* the labelled window: [start, end]
    log,         \* synthetic events: [kind, id, quantity, tick]
    resting,     \* [Ids -> quantity that rests in the hybrid book]
    differs,     \* ticks at whose end the two books differ
    report,      \* what the kernel says of the pair: [source, schedule, repeat]
    verdict,     \* "none", "pass" or "fail"
    streams,     \* canonical streams the control plane still holds
    export,      \* [pc, cursor, control, hybrid]: the export under way
    bundle,      \* [file -> the run that wrote it, or NoRun]
    writer       \* [Writers -> [pc, signed]]

attackVars == <<tick, label, log, resting, differs, report, verdict>>
exportVars == <<streams, export>>
bundleVars == <<bundle, writer>>
comparisonVars == <<attackVars, exportVars, bundleVars>>

NoRun == [run |-> "none", signed |-> FALSE]

(***************************************************************************)
(* The kernel (external): synthetic events and ticks.                      *)
(***************************************************************************)
Emit(kind, id, q) ==
    /\ verdict = "none" /\ Len(log) < MaxSynthetic
    /\ log' = Append(log, [kind |-> kind, id |-> id, quantity |-> q, tick |-> tick])
    /\ resting' = [resting EXCEPT ![id] = CASE kind \in {"add", "modify"} -> q
                                            [] kind = "cancel" -> 0
                                            [] OTHER -> IF @ > q THEN @ - q ELSE 0]
    /\ UNCHANGED <<tick, label, differs, report, verdict, exportVars, bundleVars>>

EndTick ==
    /\ verdict = "none" /\ tick <= MaxTick
    /\ tick' = tick + 1
    /\ differs' = IF \E i \in Ids : resting[i] > 0 THEN differs \cup {tick} ELSE differs
    /\ UNCHANGED <<label, log, resting, report, verdict, exportVars, bundleVars>>

(***************************************************************************)
(* build_hybrid_validation.                                                *)
(***************************************************************************)
Ticks == 1..MaxTick
During == {t \in Ticks : label.start <= t /\ t <= label.end}
BeforeOnly == {t \in Ticks : t < label.start}

(* The ticks before and after the causal neighbourhood.                    *)
Outside == {t \in Ticks : t < label.start \/ t > label.end}

(* _synthetic_lifecycle: the active quantity of each order after the first *)
(* n events, a quantity below 0 for an order in error.                     *)
Inactive == 0
Broken == -1

Applied(active, e) ==
    IF active = Broken \/ (e.kind = "execute" /\ e.id \notin Labelled) THEN active
    ELSE CASE e.kind = "add" -> IF active > 0 THEN Broken ELSE e.quantity
           [] e.kind = "modify" -> IF active = Inactive THEN Broken ELSE e.quantity
           [] e.kind = "cancel" -> IF active = Inactive THEN Broken ELSE Inactive
           [] OTHER -> IF e.quantity > active THEN Broken ELSE active - e.quantity

Lifecycle[n \in 0..MaxSynthetic] ==
    IF n = 0 THEN [i \in Ids |-> Inactive]
    ELSE [Lifecycle[n - 1] EXCEPT ![log[n].id] = Applied(@, log[n])]

(* An execution counts only for labelled orders; every labelled order was  *)
(* added and no other.                                                     *)
ValidLifecycle ==
    LET added == {log[n].id : n \in {m \in DOMAIN log : log[m].kind = "add"}}
        last == Lifecycle[Len(log)]
    IN  added = Labelled /\ \A i \in Ids : last[i] # Broken

(* _compare_phase: the books agree at every tick.                          *)
ExactBooks(ticks) == ticks \cap differs = {}

OutsideEquivalent == Outside # {} /\ ExactBooks(Outside)

IntendedImpact == During # {} /\ (~ExactBooks(During) \/ \E n \in DOMAIN log : log[n].tick \in During)

AttackLocalised == log # <<>> /\ \A n \in DOMAIN log : log[n].tick \in During

BuildHybridValidation ==
    /\ verdict = "none" /\ tick = MaxTick + 1
    /\ verdict' = IF /\ report.source /\ report.schedule /\ report.repeat
                     /\ OutsideEquivalent /\ IntendedImpact /\ ValidLifecycle /\ AttackLocalised
                  THEN "pass" ELSE "fail"
    /\ UNCHANGED <<tick, label, log, resting, differs, report, exportVars, bundleVars>>

AttackNext ==
    \/ tick <= MaxTick /\ \E k \in {"add", "modify", "execute"}, i \in Ids, q \in Quantities : Emit(k, i, q)
    \/ tick <= MaxTick /\ \E i \in Ids : Emit("cancel", i, 0)
    \/ EndTick \/ BuildHybridValidation

(***************************************************************************)
(* export_replay_comparison: the comparison leaves four streams behind,    *)
(* two of which are exported; all are released, whatever happens.          *)
(***************************************************************************)
StreamsOfComparison == {"control", "hybrid", "control_repeat", "hybrid_repeat"}

RequestComparison(deterministic) ==
    /\ export.pc = "idle"
    /\ streams' = StreamsOfComparison
    /\ export' = [export EXCEPT !.pc = IF deterministic THEN "control" ELSE "release",
                                !.failed = ~deterministic, !.left = StreamsOfComparison]
    /\ UNCHANGED <<attackVars, bundleVars>>

(* _iter_stream_pages, _write_stream_artifacts: the next page of the       *)
(* stream being exported, if the request is answered.                      *)
NextPage ==
    /\ export.pc \in {"control", "hybrid"} /\ export.pc \in streams
    /\ LET upto == IF export.cursor + PageLimit > StreamLength THEN StreamLength ELSE export.cursor + PageLimit
           rows == export[export.pc] \cup (export.cursor + 1)..upto
       IN  export' = IF upto < StreamLength
                     THEN [export EXCEPT !.cursor = upto, ![export.pc] = rows]
                     ELSE [export EXCEPT !.cursor = 0, ![export.pc] = rows,
                             !.pc = IF @ = "control" THEN "hybrid" ELSE "release"]
    /\ UNCHANGED <<streams, attackVars, bundleVars>>

PageFails ==
    /\ export.pc \in {"control", "hybrid"}
    /\ export' = [export EXCEPT !.pc = "release", !.failed = TRUE]
    /\ UNCHANGED <<streams, attackVars, bundleVars>>

NamedStreams == {"control", "hybrid"}

ReleaseNamed(s) ==
    /\ export.pc = "release" /\ s \in export.left \cap NamedStreams
    /\ streams' = streams \ {s}
    /\ export' = [export EXCEPT !.left = @ \ {s},
                    !.pc = IF export.left \cap NamedStreams = {s} THEN (IF export.failed THEN "failed" ELSE "done") ELSE @]
    /\ UNCHANGED <<attackVars, bundleVars>>

(* _release_comparison_streams: one stream after another.                  *)
ReleaseStream(s) ==
    /\ export.pc = "release" /\ s \in export.left
    /\ streams' = streams \ {s}
    /\ export' = [export EXCEPT !.left = @ \ {s},
                    !.pc = IF export.left = {s} THEN (IF export.failed THEN "failed" ELSE "done") ELSE @]
    /\ UNCHANGED <<attackVars, bundleVars>>

ReleaseFails ==
    /\ export.pc = "release"
    /\ export' = [export EXCEPT !.pc = "failed", !.failed = TRUE]
    /\ UNCHANGED <<streams, attackVars, bundleVars>>

ExportNext ==
    \/ \E d \in BOOLEAN : RequestComparison(d)
    \/ NextPage \/ PageFails \/ ReleaseFails
    \/ \E s \in StreamsOfComparison : ReleaseStream(s)

(***************************************************************************)
(* write_bundle: old files removed, then each file written in place; the   *)
(* manifest lists what is on disk.  Runs take turns, and may die.          *)
(***************************************************************************)
Reports == {"control", "hybrid", "comparison", "validation"}
KeyFiles == {"key", "signature_metadata"}
BundleFiles == Reports \cup KeyFiles \cup {"manifest", "signature", "checksums"}

Order(signed) ==
    <<"control", "hybrid", "comparison", "validation">>
      \o (IF signed THEN <<"key", "signature_metadata", "manifest", "signature">> ELSE <<"manifest">>)
      \o <<"checksums">>

WriteBundle(w, signed) ==
    /\ writer[w].pc = 0 /\ \A v \in Writers : writer[v].pc <= 0
    /\ bundle' = [f \in BundleFiles |-> NoRun]
    /\ writer' = [writer EXCEPT ![w] = [pc |-> 1, signed |-> signed]]
    /\ UNCHANGED <<attackVars, exportVars>>

WriteFile(w) ==
    LET order == Order(writer[w].signed)
    IN  /\ writer[w].pc > 0
        /\ bundle' = [bundle EXCEPT ![order[writer[w].pc]] = [run |-> w, signed |-> writer[w].signed]]
        /\ writer' = [writer EXCEPT ![w].pc = IF @ = Len(order) THEN -1 ELSE @ + 1]
        /\ UNCHANGED <<attackVars, exportVars>>

WriterDies(w) ==
    /\ writer[w].pc > 0
    /\ writer' = [writer EXCEPT ![w].pc = -1]
    /\ UNCHANGED <<bundle, attackVars, exportVars>>

(* verify_bundle_signature                                                 *)
BundleVerifies ==
    LET seal == bundle["manifest"]
    IN  /\ seal # NoRun /\ seal.signed /\ bundle["signature"] = seal
        /\ \A f \in Reports \cup KeyFiles : bundle[f] = seal

BundleNext ==
    \E w \in Writers : (\E s \in BOOLEAN : WriteBundle(w, s)) \/ WriteFile(w) \/ WriterDies(w)

(***************************************************************************)
(* The specification.                                                      *)
(***************************************************************************)
ComparisonInit ==
    /\ tick = 1 /\ log = <<>> /\ resting = [i \in Ids |-> 0] /\ differs = {} /\ verdict = "none"
    /\ label \in [start : Ticks, end : Ticks] /\ label.start <= label.end
    /\ report \in [source : BOOLEAN, schedule : BOOLEAN, repeat : BOOLEAN]
    /\ streams = {} /\ export = [pc |-> "idle", cursor |-> 0, control |-> {}, hybrid |-> {},
                                 left |-> {}, failed |-> FALSE]
    /\ bundle = [f \in BundleFiles |-> NoRun]
    /\ writer = [w \in Writers |-> [pc |-> 0, signed |-> FALSE]]

ComparisonNext == AttackNext \/ ExportNext \/ BundleNext

ComparisonSpec == ComparisonInit /\ [][ComparisonNext]_comparisonVars

(***************************************************************************)
(* Properties.                                                             *)
(***************************************************************************)
Rests(i, t) ==   \* the quantity of an order after the events up to tick t
    LET upto == {n \in DOMAIN log : log[n].tick <= t}
    IN  Lifecycle[Cardinality(upto)][i]

(* A pair that passes the validation holds an attack that stayed inside    *)
(* its label: at the end of no tick outside the window does an order of    *)
(* the attack rest, so one that outlives the window can only do so in a    *)
(* replay that ends with it; no order is over-filled; and nothing that is  *)
(* not labelled was ever put into the book.                                *)
AcceptedAttackIsContained ==
    verdict = "pass" =>
      /\ \A i \in Ids, t \in Outside : Rests(i, t) = Inactive
      /\ label.end < MaxTick => \A i \in Ids : resting[i] = 0
      /\ \A i \in Ids : resting[i] = Lifecycle[Len(log)][i]
      /\ \A i \in Stray : resting[i] = 0

(* An export that succeeds holds every event of both streams and leaves no *)
(* stream of its comparison on the control plane; a signed bundle that     *)
(* verifies is one run's, whatever died before it.                         *)
ExportIsWhole ==
    /\ export.pc = "done" => /\ export.control = 1..StreamLength /\ export.hybrid = 1..StreamLength
                             /\ streams = {}
    /\ BundleVerifies => \A f \in Reports \cup {"signature"} : bundle[f] = bundle["manifest"]
===============================================================================
