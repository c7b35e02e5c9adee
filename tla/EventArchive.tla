----------------------------- MODULE EventArchive -----------------------------
(***************************************************************************)
(* The segmented canonical event archive of the control plane              *)
(* (CanonicalEventArchive.java), as operators on the files of one stream.  *)
(*                                                                         *)
(* A stream's files map a segment index to the lines of that JSONL file; a *)
(* segment outside the domain does not exist.  A line is the sequence      *)
(* number of its event, or Torn: bytes that do not parse, left when a      *)
(* write stopped inside a row.  Row contents are left out.                 *)
(***************************************************************************)
EXTENDS Integers, Sequences, FiniteSets

CONSTANT SegmentEvents   \* events per segment file

ASSUME SegmentAssumption == SegmentEvents \in Nat \ {0}

Torn == 0

\* Mutant: sequences counted from 0.
SegmentFromZero(sequence) == sequence \div SegmentEvents

SegmentOf(sequence) == (sequence - 1) \div SegmentEvents

Lines(files, segment) ==
  IF segment \in DOMAIN files THEN files[segment] ELSE <<>>

\* The first n rows are one SegmentBatch: as many as stay in the segment of the
\* first row.
IsBatch(rows, n) ==
  /\ n \in DOMAIN rows
  /\ \A i \in 1..n : SegmentOf(rows[i]) = SegmentOf(rows[1])
  /\ n + 1 \in DOMAIN rows => SegmentOf(rows[n + 1]) # SegmentOf(rows[1])

\* Appending bytes: a row that follows a torn fragment ends up on its line.
AppendLines(lines, added) ==
  IF lines # <<>> /\ lines[Len(lines)] = Torn /\ added # <<>>
  THEN lines \o Tail(added)
  ELSE lines \o added

WriteRows(files, segment, added) ==
  [k \in DOMAIN files \cup {segment} |->
     IF k = segment THEN AppendLines(Lines(files, segment), added) ELSE files[k]]

(***************************************************************************)
(* readAfter: scans the segments from the one that holds the row after the *)
(* cursor to the first that does not exist, skips rows up to the cursor,   *)
(* leaves a segment at a row beyond the manifest, stops at the page limit. *)
(* A line that does not parse fails the whole page.                        *)
(***************************************************************************)
\* Mutant: the first row after the cursor is skipped.
ScanLineSkipping(acc, line, latest, after, limit) ==
  IF acc.failed \/ acc.left \/ Len(acc.rows) = limit THEN acc
  ELSE IF line = Torn THEN [acc EXCEPT !.failed = TRUE]
  ELSE IF line > latest THEN [acc EXCEPT !.left = TRUE]
  ELSE IF line > after + 1 THEN [acc EXCEPT !.rows = Append(@, line)]
  ELSE acc

ScanLine(acc, line, latest, after, limit) ==
  IF acc.failed \/ acc.left \/ Len(acc.rows) = limit THEN acc
  ELSE IF line = Torn THEN [acc EXCEPT !.failed = TRUE]
  ELSE IF line > latest THEN [acc EXCEPT !.left = TRUE]
  ELSE IF line > after THEN [acc EXCEPT !.rows = Append(@, line)]
  ELSE acc

ScanSegment(acc, lines, latest, after, limit) ==
  LET scan[i \in 0..Len(lines)] ==
        IF i = 0 THEN [acc EXCEPT !.left = FALSE]
        ELSE ScanLine(scan[i - 1], lines[i], latest, after, limit)
  IN  scan[Len(lines)]

ReadAfter(files, latest, after, limit) ==
  LET first == SegmentOf(after + 1)
      present == {k \in DOMAIN files : \A j \in first..k : j \in DOMAIN files}
      read[k \in (first - 1)..(first + Cardinality(DOMAIN files))] ==
        IF k < first THEN [rows |-> <<>>, left |-> FALSE, failed |-> FALSE]
        ELSE IF k \in present
             THEN ScanSegment(read[k - 1], files[k], latest, after, limit)
             ELSE read[k - 1]
  IN  read[first + Cardinality(DOMAIN files)]
=============================================================================
