-------------------------- MODULE GovernedBenchmark --------------------------
(***************************************************************************)
(* The governed benchmark: the chronological split of the corpus           *)
(* (corpus/splits.py), the clean windows that reviewers verified and the   *)
(* scoring of one replay's alerts against them (corpus/governance.py,      *)
(* evaluation/governed_metrics.py, scripts/evaluate_governed_benchmark.py),*)
(* and the release of the results (evaluation/release.py).                 *)
(*                                                                         *)
(* The three parts share no state: SplitNext, ScoreNext and ReleaseNext    *)
(* can be run on their own.  Dates are their rank in the calendar, fold    *)
(* fractions are in tenths, a window's times are small numbers.            *)
(***************************************************************************)
EXTENDS Integers, FiniteSets, FiniteSetsExt

CONSTANTS
    Sessions, MaxDate,            \* sessions of the corpus and their dates
    Embargoes, Fractions,         \* embargo date groups, <<train, validation, test>>
    Campaigns,                    \* the hybrid replays of one session, numbered from 1
    AttackOf,                     \* [Campaigns -> set of [start, end, benefit]]
    CausalOf,                     \* [Campaigns -> [start, end]]
    Detectors, MaxInstant, MaxAlerts, MaxWindows,
    Horizon, Dedup,               \* purge_alert_horizon_ns, alert_deduplication_window_ns
    Releases                      \* runs that publish into one directory

ASSUME BenchmarkAssumption ==
    /\ Embargoes \subseteq Nat /\ Horizon \in Nat /\ Dedup \in Nat
    /\ \A f \in Fractions : f[1] + f[2] + f[3] = 10

VARIABLES
    corpus,      \* [date, stream, embargo, fractions], or NoCorpus
    split,       \* [status, fold: Sessions -> fold]
    replay,      \* the replay scored: Control or a campaign
    windows,     \* verified clean windows: [start, end, proved]
    alerts,      \* the alerts of the replay: [detector, time]
    published,   \* [file -> run or NoRelease]
    publisher    \* [Releases -> [pc, signed, files left]]

splitVars == <<corpus, split>>
scoreVars == <<replay, windows, alerts>>
releaseVars == <<published, publisher>>
benchmarkVars == <<splitVars, scoreVars, releaseVars>>

NoCorpus == [date |-> <<>>]
NoSplit == [status |-> "none", fold |-> <<>>]
Control == 0
NoBenefit == -1
NoRelease == [run |-> "none", signed |-> FALSE]
Folds == {"train", "validation", "test"}

(***************************************************************************)
(* The corpus and its split.                                               *)
(***************************************************************************)
Calendars == {d \in [Sessions -> 1..MaxDate] : \A s, t \in Sessions : s < t => d[s] <= d[t]}

(* build_corpus_manifest: sessions of any dates, numbered in the order of  *)
(* the calendar; two of them may hold the same recorded stream.            *)
BuildCorpus(date, twins, embargo, fractions) ==
    /\ Cardinality(twins) \in {0, 2}
    /\ corpus' = [date |-> date, stream |-> [s \in Sessions |-> IF s \in twins THEN 0 ELSE s],
                  embargo |-> embargo, fractions |-> fractions]
    /\ UNCHANGED <<split, scoreVars, releaseVars>>

(* _fractional_counts: one date for each fold, the rest by the largest     *)
(* remainder.                                                              *)
FractionalCounts(total, fractions) ==
    LET rest(i) == (fractions[i] * (total - 3)) % 10
        floor(i) == (fractions[i] * (total - 3)) \div 10
        leftover == (total - 3) - (floor(1) + floor(2) + floor(3))
        rank(i) == Cardinality({j \in 1..3 : rest(j) > rest(i) \/ (rest(j) = rest(i) /\ j < i)})
        count(i) == 1 + floor(i) + (IF rank(i) < leftover THEN 1 ELSE 0)
    IN  <<count(1), count(2), count(3)>>

CorpusDates == {corpus.date[s] : s \in Sessions}

Allocatable == Cardinality(CorpusDates) - 2 * corpus.embargo

RankOf(d) == Cardinality({e \in CorpusDates : e <= d})

PartitionWithoutEmbargo ==
    LET n == FractionalCounts(Allocatable, corpus.fractions)
        foldOf(k) == CASE k <= n[1] -> "train" [] k > n[1] /\ k <= n[1] + n[2] -> "validation"
                       [] OTHER -> "test"
    IN  [s \in Sessions |-> foldOf(RankOf(corpus.date[s]))]

(* The deterministic partition of the dates, with an embargo at each       *)
(* boundary.                                                               *)
Partition ==
    LET n == FractionalCounts(Allocatable, corpus.fractions)
        validation == n[1] + corpus.embargo
        test == validation + n[2] + corpus.embargo
        foldOf(k) == CASE k <= n[1] -> "train"
                       [] k > validation /\ k <= validation + n[2] -> "validation"
                       [] k > test -> "test"
                       [] OTHER -> "embargo"
    IN  [s \in Sessions |-> foldOf(RankOf(corpus.date[s]))]

(* generate_split_manifest; also a manifest from elsewhere, in which a     *)
(* session is in another fold.                                             *)
ProposeSplit ==
    /\ corpus # NoCorpus /\ split.status = "none"
    /\ \/ Allocatable < 3 /\ split' = [split EXCEPT !.status = "refused"]
       \/ Allocatable >= 3 /\ split' = [status |-> "proposed", fold |-> Partition]
       \/ \E s \in Sessions, f \in Folds \cup {"embargo"} :
            Allocatable >= 3 /\ split' = [status |-> "proposed", fold |-> [Partition EXCEPT ![s] = f]]
    /\ UNCHANGED <<corpus, scoreVars, releaseVars>>

(* validate_split_manifest: no control stream is in two folds, and the     *)
(* assignment is the partition.                                            *)
ValidSplit ==
    /\ \A s, t \in Sessions : /\ corpus.stream[s] = corpus.stream[t]
                              /\ split.fold[s] \in Folds /\ split.fold[t] \in Folds
                              => split.fold[s] = split.fold[t]
    /\ split.fold = Partition

ValidateSplit ==
    /\ split.status = "proposed"
    /\ split' = [split EXCEPT !.status = IF ValidSplit THEN "accepted" ELSE "refused"]
    /\ UNCHANGED <<corpus, scoreVars, releaseVars>>

SplitNext ==
    \/ corpus = NoCorpus /\ \E date \in Calendars, twins \in SUBSET Sessions, e \in Embargoes, f \in Fractions :
         BuildCorpus(date, twins, e, f)
    \/ ProposeSplit \/ ValidateSplit

(***************************************************************************)
(* Clean windows.  A window is half open.                                  *)
(***************************************************************************)
Instants == 0..MaxInstant

(* validate_adjudications: the supervised windows of one replay domain do  *)
(* not overlap.                                                            *)
Disjoint(w, others) == \A v \in others : w.end <= v.start \/ v.end <= w.start

(* The evidence that a control window may be used in hybrid replays names  *)
(* one campaign, whose causal neighbourhood must not meet the window.      *)
EquivalentOutside(w, c) == w.end <= CausalOf[c].start \/ w.start > CausalOf[c].end

VerifyControlWindow(start, end) ==
    LET w == [start |-> start, end |-> end, proved |-> Control]
    IN  /\ start < end /\ Cardinality(windows) < MaxWindows
        /\ Disjoint(w, {v \in windows : v.proved = Control})
        /\ windows' = windows \cup {w} /\ alerts = {}
        /\ UNCHANGED <<replay, alerts, splitVars, releaseVars>>

TransferWindow(w, c) ==
    /\ w \in windows /\ w.proved = Control /\ EquivalentOutside(w, c)
    /\ Disjoint(w, {v \in windows : v.proved # Control}) /\ Cardinality(windows) < MaxWindows
    /\ windows' = windows \cup {[w EXCEPT !.proved = c]} /\ alerts = {}
    /\ UNCHANGED <<replay, alerts, splitVars, releaseVars>>

(* The clean windows of a replay: the original ones for the control, every *)
(* transferred one for a hybrid replay.                                    *)
CleanWindows ==
    {w \in windows : IF replay = Control THEN w.proved = Control ELSE w.proved # Control}

Attacks == IF replay = Control THEN {} ELSE AttackOf[replay]

(* _validate_non_overlapping_windows: here the ends are inclusive.         *)
EvaluableUnit ==
    LET all == {<<w.start, w.end>> : w \in CleanWindows \cup Attacks}
    IN  \A u, v \in all : u # v => u[2] < v[1] \/ v[2] < u[1]

(***************************************************************************)
(* Scoring (evaluate_governed_session).                                    *)
(***************************************************************************)
Reached(x) == {a \in Attacks : a.start <= x.time /\ x.time <= a.end + Horizon}

(* An alert that reaches attacks is counted for the one that began last,   *)
(* any other for the clean window it is in, if it is in one.               *)
NearestAttack(x) == CHOOSE a \in Reached(x) : \A b \in Reached(x) : b.start <= a.start

AttackAlerts(a) == {x \in alerts : Reached(x) # {} /\ NearestAttack(x) = a}

CleanAlerts(w) == {x \in alerts : Reached(x) = {} /\ w.start <= x.time /\ x.time < w.end}

(* _cluster_alerts, by the alerts that begin a cluster: those with no      *)
(* alert of the same detector less than Dedup before.                      *)
Clusters(found) ==
    {x \in found : ~\E y \in found : y.detector = x.detector /\ y.time < x.time
                                     /\ x.time - y.time <= Dedup}

(* The clusters are sorted by time before the first one is looked at.      *)
FirstAlert(found) == Min({x.time : x \in Clusters(found)})

BeforeBenefit(a) ==
    /\ a.benefit # NoBenefit /\ AttackAlerts(a) # {}
    /\ FirstAlert(AttackAlerts(a)) <= a.benefit

Components ==
    LET detected == {a \in Attacks : AttackAlerts(a) # {}}
        alarmed == {w \in CleanWindows : CleanAlerts(w) # {}}
        raw(S, found(_)) == MapThenSumSet(LAMBDA e : Cardinality(found(e)), S)
        clustered(S, found(_)) == MapThenSumSet(LAMBDA e : Cardinality(Clusters(found(e))), S)
    IN  [truePositive |-> Cardinality(detected),
         falseNegative |-> Cardinality(Attacks) - Cardinality(detected),
         falsePositive |-> Cardinality(alarmed),
         trueNegative |-> Cardinality(CleanWindows) - Cardinality(alarmed),
         beforeBenefit |-> Cardinality({a \in Attacks : BeforeBenefit(a)}),
         rawFalse |-> raw(CleanWindows, CleanAlerts),
         rawAlerts |-> raw(Attacks, AttackAlerts) + raw(CleanWindows, CleanAlerts),
         clusters |-> clustered(Attacks, AttackAlerts) + clustered(CleanWindows, CleanAlerts)]

RaiseAlert(d, t) ==
    /\ EvaluableUnit /\ Cardinality(alerts) < MaxAlerts
    /\ [detector |-> d, time |-> t] \notin alerts
    /\ alerts' = alerts \cup {[detector |-> d, time |-> t]}
    /\ UNCHANGED <<replay, windows, splitVars, releaseVars>>

ScoreNext ==
    \/ \E s, e \in Instants : VerifyControlWindow(s, e)
    \/ \E w \in windows, c \in Campaigns : TransferWindow(w, c)
    \/ \E d \in Detectors, t \in Instants : RaiseAlert(d, t)

(***************************************************************************)
(* The release: files staged apart, then moved one by one.                 *)
(***************************************************************************)
(* The files the manifest lists with their digests.                        *)
Inventory == {"results", "sessions", "report", "validation", "key"}

ReleaseFiles == Inventory \cup {"manifest", "checksums", "signature", "sessions"}

(* The order of the moves: the reports, then what vouches for them.        *)
MoveOrder(signed) ==
    <<{"results", "sessions", "report", "validation"} \cup (IF signed THEN {"key"} ELSE {}),
      {"manifest"}, {"checksums"}, IF signed THEN {"signature"} ELSE {}>>

BeginRelease(r, signed, overwrite) ==
    /\ publisher[r].pc = 0
    /\ publisher' = [publisher EXCEPT ![r] =
         IF ~overwrite /\ \E f \in ReleaseFiles : published[f] # NoRelease
         THEN [@ EXCEPT !.pc = 5]
         ELSE [pc |-> 1, signed |-> signed, left |-> MoveOrder(signed)[1]]]
    /\ UNCHANGED <<published, splitVars, scoreVars>>

MoveFile(r) ==
    /\ publisher[r].pc \in 1..4
    /\ IF publisher[r].left = {}
       THEN /\ publisher' = [publisher EXCEPT ![r].pc = @ + 1,
                   ![r].left = IF publisher[r].pc = 4 THEN {}
                               ELSE MoveOrder(publisher[r].signed)[publisher[r].pc + 1]]
            /\ UNCHANGED published
       ELSE \E f \in publisher[r].left :
            /\ published' = [published EXCEPT ![f] = [run |-> r, signed |-> publisher[r].signed]]
            /\ publisher' = [publisher EXCEPT ![r].left = @ \ {f}]
    /\ UNCHANGED <<splitVars, scoreVars>>

(* The process ends or fails between two moves.                            *)
AbandonRelease(r) ==
    /\ publisher[r].pc \in 1..4
    /\ publisher' = [publisher EXCEPT ![r].pc = 5, ![r].left = {}]
    /\ UNCHANGED <<published, splitVars, scoreVars>>

ReleaseNext ==
    \E r \in Releases :
      (\E s, o \in BOOLEAN : BeginRelease(r, s, o)) \/ MoveFile(r) \/ AbandonRelease(r)

(* verify_governed_benchmark_release: the manifest's own digests, and its  *)
(* signature, which only the run that made the manifest can give.          *)
ReleaseVerifies ==
    LET seal == published["manifest"]
    IN  /\ seal # NoRelease /\ seal.signed
        /\ \A f \in Inventory : published[f] = seal
        /\ published["signature"] = seal

(***************************************************************************)
(* The specification.                                                      *)
(***************************************************************************)
BenchmarkInit ==
    /\ corpus = NoCorpus
    /\ split = NoSplit
    /\ replay \in Campaigns \cup {Control} /\ windows = {} /\ alerts = {}
    /\ published = [f \in ReleaseFiles |-> NoRelease]
    /\ publisher = [r \in Releases |-> [pc |-> 0, signed |-> FALSE, left |-> {}]]

BenchmarkNext == SplitNext \/ ScoreNext \/ ReleaseNext

BenchmarkSpec == BenchmarkInit /\ [][BenchmarkNext]_benchmarkVars

(***************************************************************************)
(* Properties.                                                             *)
(***************************************************************************)
FoldRank(f) == CASE f = "train" -> 1 [] f = "validation" -> 2 [] OTHER -> 3

(* Every split that is accepted has three folds in calendar order, with at *)
(* least the embargoed number of date groups unused between two of them,   *)
(* and no recorded stream in two folds.                                    *)
FoldsAreSeparated ==
    split.status = "accepted" =>
      LET fold == split.fold
      IN  /\ \A f \in Folds : \E s \in Sessions : fold[s] = f
          /\ \A s, t \in Sessions :
               fold[s] \in Folds /\ fold[t] \in Folds /\ FoldRank(fold[s]) < FoldRank(fold[t]) =>
                 /\ corpus.stream[s] # corpus.stream[t]
                 /\ corpus.date[s] < corpus.date[t]
                 /\ Cardinality({d \in CorpusDates : corpus.date[s] < d /\ d < corpus.date[t]
                      /\ \A u \in Sessions : corpus.date[u] = d => fold[u] \notin {fold[s], fold[t]}})
                      >= corpus.embargo

(* One more alert never makes a detector look worse on attacks or better   *)
(* on clean windows: detections, detections before the benefit, alarmed    *)
(* clean windows and raw alerts can only grow.                             *)
AlertsOnlyAdd ==
    [][windows' = windows =>
         LET before == Components
             after == Components'
         IN  /\ before.truePositive <= after.truePositive
             /\ before.beforeBenefit <= after.beforeBenefit
             /\ before.falsePositive <= after.falsePositive
             /\ before.rawAlerts <= after.rawAlerts
             /\ after.clusters <= after.rawAlerts]_scoreVars

(* A release that verifies is one run's: its reports, its manifest and its *)
(* signature, whoever else has written into the directory.                 *)
VerifiedReleaseIsOneRun ==
    ReleaseVerifies =>
      \A f \in {"results", "sessions", "report", "validation", "key", "signature"} :
        published[f] = published["manifest"]

(* The benchmark is sound: no session leaks between folds, a verified      *)
(* release is one run's, and one more alert never makes a detector look    *)
(* better on clean windows or worse on attacks                             *)
(* (corpus/splits.py, corpus/governance.py, evaluation/governed_metrics.py,*)
(* evaluation/release.py).                                                 *)
BenchmarkIsSound == [](FoldsAreSeparated /\ VerifiedReleaseIsOneRun) /\ AlertsOnlyAdd
=============================================================================
