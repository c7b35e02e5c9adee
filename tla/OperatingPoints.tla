--------------------------- MODULE OperatingPoints ---------------------------
(***************************************************************************)
(* What calibrate_validation_predictions computes from the validation rows *)
(* (backend/app/ml/lightgbm/scoring.py) and train_binary_attack_model from *)
(* the training rows (training.py): the per-family masks, assembled batch  *)
(* by batch while the rows stream past, the three operating points and the *)
(* sample weights.  Probabilities and metrics are exact fractions.         *)
(***************************************************************************)
EXTENDS Integers, Sequences, FiniteSets, FiniteSetsExt, SequencesExt

CONSTANTS
    Levels,     \* calibrated probabilities, as ranks
    Families,   \* attack families
    Sessions,   \* base sessions
    MaxRows,    \* bound: validation rows
    BatchSize   \* rows per batch

ASSUME BatchSizeAssumption == BatchSize \in Nat \ {0}

VARIABLES
    rows,       \* the fold: [level, family or "none", session]
    at,         \* rows already scored
    lengths,    \* rows of each batch so far
    masks,      \* [family -> sequence of masks, one per batch]
    points      \* the selected operating points

pointVars == <<rows, at, lengths, masks, points>>

Label(row) == IF row.family = "none" THEN 0 ELSE 1
RowKinds == [level : Levels, family : Families \cup {"none"}, session : Sessions]

\* Both classes occur: _build_fold and _validate_probability_labels.
Governed(s) == {Label(s[i]) : i \in DOMAIN s} = {0, 1}

Undecided == [mode \in {"high_precision", "balanced", "high_recall"} |-> 0]

PointsInit ==
    /\ rows \in {s \in BoundedSeq(RowKinds, MaxRows) : Governed(s)}
    /\ at = 0
    /\ lengths = <<>>
    /\ masks = << >>
    /\ points = Undecided

\* A family first seen in this batch is absent from every earlier one.
Backfill(family) ==
    IF family \in DOMAIN masks
    THEN masks[family]
    ELSE [b \in DOMAIN lengths |-> [i \in 1..lengths[b] |-> FALSE]]

ScoreBatch ==
    /\ at < Len(rows)
    /\ LET size == Min({BatchSize, Len(rows) - at})
           batch == SubSeq(rows, at + 1, at + size)
           seen == {batch[i].family : i \in 1..size} \ {"none"}
       IN  /\ at' = at + size
           /\ lengths' = Append(lengths, size)
           /\ masks' = [f \in DOMAIN masks \cup seen |->
                            Append(Backfill(f),
                                   [i \in 1..size |-> batch[i].family = f])]
    /\ UNCHANGED <<rows, points>>

(***************************************************************************)
(* select_operating_points: one candidate per distinct probability, in a   *)
(* single pass over the rows sorted by falling probability.                *)
(***************************************************************************)
Sorted == SortSeq(rows, LAMBDA x, y : x.level > y.level)

\* A candidate per row, as if no two probabilities were equal.
EveryRow == DOMAIN Sorted

\* The last row of every run of equal probabilities.
Cuts ==
    {i \in DOMAIN Sorted :
        i = Len(Sorted) \/ Sorted[i].level # Sorted[i + 1].level}

Positives == Cardinality({i \in DOMAIN rows : Label(rows[i]) = 1})

\* A candidate: its threshold, and its metrics as true positives of what.
Candidate(cut) ==
    [threshold |-> Sorted[cut].level,
     hits |-> Cardinality({i \in 1..cut : Label(Sorted[i]) = 1}),
     predicted |-> cut]

Candidates == {Candidate(cut) : cut \in Cuts}

\* Fractions, compared by cross multiplication.
Precision(c) == <<c.hits, c.predicted>>
Recall(c) == <<c.hits, Positives>>
F1(c) == <<2 * c.hits, c.predicted + Positives>>
Less(x, y) == x[1] * y[2] < y[1] * x[2]
Same(x, y) == x[1] * y[2] = y[1] * x[2]

\* Lexicographic order on a key of fractions, then the threshold.
Beats(c, d, key(_)) ==
    LET x == key(c)
        y == key(d)
        decide == {i \in 1..3 : ~Same(x[i], y[i])}
    IN  IF decide = {} THEN c.threshold > d.threshold
        ELSE Less(y[Min(decide)], x[Min(decide)])

Best(S, key(_)) == CHOOSE c \in S : \A d \in S \ {c} : Beats(c, d, key)

HighPrecision(c) == <<Recall(c), Precision(c), F1(c)>>
Balanced(c) == <<F1(c), Precision(c), Recall(c)>>
HighRecall(c) == <<Precision(c), Recall(c), F1(c)>>

PrecisionFloor == <<2, 3>>
RecallFloor == <<2, 3>>

AboveFloor(S, metric(_), floor) == {c \in S : ~Less(metric(c), floor)}

\* An unattainable floor ends the calibration with an error.
SelectPoints ==
    LET precise == AboveFloor(Candidates, Precision, PrecisionFloor)
        sensitive == AboveFloor(Candidates, Recall, RecallFloor)
    IN  /\ at = Len(rows)
        /\ points = Undecided
        /\ precise # {}
        /\ sensitive # {}
        /\ points' = [high_precision |-> Best(precise, HighPrecision).threshold,
                      balanced |-> Best(Candidates, Balanced).threshold,
                      high_recall |-> Best(sensitive, HighRecall).threshold]
        /\ UNCHANGED <<rows, at, lengths, masks>>

PointsNext == ScoreBatch \/ SelectPoints
PointsSpec == PointsInit /\ [][PointsNext]_pointVars

(***************************************************************************)
(* calculate_training_class_weights times the session factor: the weight   *)
(* of row i, as a fraction.                                                *)
(***************************************************************************)
Peers(i) == {j \in DOMAIN rows : Label(rows[j]) = Label(rows[i])}
ClassWeight(i) == <<Len(rows), 2 * Cardinality(Peers(i))>>
SessionFactor(i) ==
    <<Cardinality(Peers(i)),
      Cardinality({rows[j].session : j \in Peers(i)})
        * Cardinality({j \in Peers(i) : rows[j].session = rows[i].session})>>
SampleWeight(i) ==
    <<ClassWeight(i)[1] * SessionFactor(i)[1],
      ClassWeight(i)[2] * SessionFactor(i)[2]>>

-----------------------------------------------------------------------------
(***************************************************************************)
(* Properties.                                                             *)
(***************************************************************************)
\* What alerting at or above a threshold does to the rows, from scratch.
Outcome(threshold) ==
    LET alerts == {i \in DOMAIN rows : rows[i].level >= threshold}
    IN  [threshold |-> threshold, predicted |-> Cardinality(alerts),
         hits |-> Cardinality({i \in alerts : Label(rows[i]) = 1})]

\* The operating points chosen in one pass over sorted rows are what a search
\* over every possible threshold, each applied to all rows anew, cannot beat:
\* ties in probability never split a threshold's rows, the floors hold for the
\* frozen threshold, and every mode's objective is maximal under its floor.
OperatingPointsAreOptimal ==
    points # Undecided =>
        LET hp == Outcome(points["high_precision"])
            bal == Outcome(points["balanced"])
            hr == Outcome(points["high_recall"])
            all == {o \in {Outcome(l) : l \in Levels} : o.predicted > 0}
        IN  /\ ~Less(Precision(hp), PrecisionFloor)
            /\ ~Less(Recall(hr), RecallFloor)
            /\ \A o \in all :
                /\ ~Less(F1(bal), F1(o))
                /\ Less(Precision(o), PrecisionFloor) \/ ~Less(Recall(hp), Recall(o))
                /\ Less(Recall(o), RecallFloor) \/ ~Less(Precision(hr), Precision(o))

\* Concatenated, the mask chunks of a family line up with the rows: as long
\* as the fold, true exactly at that family's rows, whenever it first appeared
\* and wherever the batches were cut; and every family seen has one.
MasksAlignWithRows ==
    at = Len(rows) =>
        /\ DOMAIN masks = {rows[i].family : i \in DOMAIN rows} \ {"none"}
        /\ \A f \in DOMAIN masks :
            FlattenSeq(masks[f]) = [i \in DOMAIN rows |-> rows[i].family = f]

\* Weighting gives both classes the same total, and within a class every base
\* session the same share, however unevenly the rows are spread.
WeightsBalance ==
    LET scale == Len(rows) * Len(rows) * Len(rows) * 24
        share(S) == FoldSet(LAMBDA i, n :
            n + (scale * SampleWeight(i)[1]) \div SampleWeight(i)[2], 0, S)
        of(l, s) == {i \in DOMAIN rows : Label(rows[i]) = l /\ rows[i].session = s}
        inClass(l) == {i \in DOMAIN rows : Label(rows[i]) = l}
    IN  /\ share(inClass(0)) = share(inClass(1))
        /\ \A l \in {0, 1}, s, u \in Sessions :
            of(l, s) # {} /\ of(l, u) # {} => share(of(l, s)) = share(of(l, u))

\* All that calibration and weighting derive from a fold is exact.
DerivedFromRows == OperatingPointsAreOptimal /\ MasksAlignWithRows /\ WeightsBalance
=============================================================================
