----------------------------- MODULE ReleaseProofs -----------------------------
(***************************************************************************)
(* Proofs about what is released and published.                            *)
(*                                                                         *)
(* ReleaseStore: the release prefix, for every number of publishers and    *)
(* readers, every inventory and every publication mode: the invariants of  *)
(* publication and reading, and the refinement of ReleasePrefix.           *)
(*                                                                         *)
(* SealedEvaluation: the sealed test fold is scored once and a published   *)
(* result is that scoring, for every number of packages, executors and     *)
(* recoverers, every log plan and payload, and every number of faults. The *)
(* argument rests on the remote intent alone: it is created once, so one   *)
(* executor ever passes it, and while that one has not sealed its scoring  *)
(* no other root holds anything. The lock of a root is not needed.         *)
(*                                                                         *)
(* ReplayComparison: an export of a comparison is whole, for every length  *)
(* of the streams and of a page, and a validated attack is contained, for  *)
(* every set of orders, every quantity, every length of the replay and of  *)
(* the log.                                                                *)
(***************************************************************************)
EXTENDS ReleaseStore, SealedEvaluation, ReplayComparison, SequenceTheorems,
        FiniteSetTheorems, WellFoundedInduction, TLAPS

(***************************************************************************)
(* What a publisher may still do.  A settled one puts no object any more.  *)
(***************************************************************************)
Settled(p) ==
    \/ pub[p].pc \in {"cleanup", "done", "failed", "dead"}
    \/ pub[p].pc = "verify" /\ pub[p].done = Len(Upload[p])

Progress ==
    \A p \in Publishers :
        /\ pub[p].pc \in {"preflight", "reserved", "final"} => pub[p].done = 0
        /\ pub[p].pc \in {"put", "verify"} => pub[p].done <= Len(Upload[p])

\* The marker of p is put last.
MarkerLast == \A p \in Publishers, m \in Markers : store[m] = p => Settled(p)

\* The history knows the releases that are complete now.
WholeIsKnown == \A p \in Publishers, m \in Markers : Whole(store, p, m) => p \in everWhole

\* With conditional creation nobody takes away what p has put ...
PutStays ==
    Conditional =>
        \A p \in Publishers : pub[p].pc \in {"put", "verify"} =>
            /\ \A i \in 1..Len(Upload[p]) : i <= pub[p].done => store[Upload[p][i]] = p
            /\ pub[p].pc = "verify" => store[NextKey(p)] = p

\* ... because a rollback deletes each key once, and only keys of its own,
OwnedIsMine ==
    Conditional =>
        \A p \in Publishers :
            /\ IsInjective(pub[p].owned)
            /\ \A i \in DOMAIN pub[p].owned : store[pub[p].owned[i]] = p

NotYetOwned ==
    mode = "intent" =>
        \A p \in Publishers : pub[p].pc = "verify" => NextKey(p) \notin Range(pub[p].owned)

\* ... so a marker of p in the store says that the release was complete.
MarkerMeansWhole ==
    Conditional => \A p \in Publishers, m \in Markers : store[m] = p => p \in everWhole

\* Only the holder of the intent is between reservation and final data.
ReservedOnce ==
    /\ finalReads \in {0, 1}
    /\ intent = None => finalReads = 0
    /\ \A p \in Publishers : pub[p].pc = "reserved" => intent = p /\ finalReads = 0

\* An inspecting reader still has a foreign member before it, unless the
\* release was complete once: its publisher will not put the member again.
InspectionPending ==
    \A r \in Readers : reader[r].pc = "members" =>
        /\ reader[r].todo # <<>>
        /\ reader[r].kind # "download"
        /\ reader[r].kind = "inspect" =>
            /\ reader[r].release \in Publishers
            /\ Settled(reader[r].release)
            /\ \/ reader[r].release \in everWhole
               \/ \E i \in DOMAIN reader[r].todo : store[reader[r].todo[i]] # reader[r].release

\* A copying reader that has passed the marker has copied from a release that
\* was complete once.
CopyPending ==
    \A r \in Readers : reader[r].pc = "sync" =>
        /\ reader[r].todo # <<>>
        /\ reader[r].kind = "download"
        /\ Conditional /\ "SUCCESS" \in reader[r].keys \ Range(reader[r].todo) =>
               reader[r].release \in everWhole

KindOfState ==
    \A r \in Readers : reader[r].pc = "marker" => reader[r].kind # "download"

StoreInv ==
    /\ TypeOK /\ Progress /\ MarkerLast /\ WholeIsKnown
    /\ PutStays /\ OwnedIsMine /\ NotYetOwned /\ MarkerMeansWhole
    /\ PublishedReleaseIsFinal /\ ReservedOnce
    /\ KindOfState /\ InspectionPending /\ CopyPending /\ AcceptedReleaseWasWhole

-------------------------------------------------------------------------------
(***************************************************************************)
(* Sequences of keys.                                                      *)
(***************************************************************************)
\* A sequence is its head and its tail.
LEMMA TailFacts ==
    ASSUME NEW S, NEW s \in Seq(S), s # <<>>
    PROVE  /\ Head(s) \in S /\ Tail(s) \in Seq(S)
           /\ DOMAIN s = 1..Len(s) /\ Len(s) \in Nat \ {0} /\ s[1] = Head(s)
           /\ \A i \in DOMAIN s : s[i] \in S
           /\ Len(s) = 1 <=> Tail(s) = <<>>
           /\ \A i \in DOMAIN s : i = 1 \/ (i - 1 \in DOMAIN Tail(s) /\ Tail(s)[i - 1] = s[i])
           /\ \A i \in DOMAIN Tail(s) : i + 1 \in DOMAIN s /\ Tail(s)[i] = s[i + 1]
<1>1. /\ Head(s) \in S /\ Tail(s) \in Seq(S) /\ Len(Tail(s)) = Len(s) - 1
      /\ \A i \in 1..Len(Tail(s)) : Tail(s)[i] = s[i + 1]
  BY HeadTailProperties
<1>2. /\ DOMAIN s = 1..Len(s) /\ Len(s) \in Nat \ {0} /\ s \in [1..Len(s) -> S]
  BY LenProperties, EmptySeq
<1>3. DOMAIN Tail(s) = 1..Len(Tail(s))
  BY <1>1, LenProperties
<1>4. Len(s) = 1 <=> Tail(s) = <<>>
  <2>1. Len(<<>>) = 0 /\ \A t \in Seq(S) : t # <<>> => Len(t) \in Nat \ {0}
    BY EmptySeq
  <2>2. ASSUME Tail(s) = <<>> PROVE Len(s) = 1
    <3> DEFINE t == Tail(s)
    <3>1. Len(t) = 0 /\ Len(t) = Len(s) - 1 /\ Len(s) \in Nat
      BY <1>1, <1>2, <2>1, <2>2
    <3> HIDE DEF t
    <3> QED
      BY <3>1
  <2>3. ASSUME Tail(s) # <<>> PROVE Len(s) # 1
    BY <1>1, <1>2, <2>1, <2>3
  <2> QED
    BY <2>2, <2>3
<1>5. s[1] = Head(s)
  BY <1>2
<1> QED
  BY <1>1, <1>2, <1>3, <1>4, <1>5

\* The elements of a tail are those of the sequence, but for the head.
LEMMA TailRange ==
    ASSUME NEW S, NEW s \in Seq(S), s # <<>>
    PROVE  /\ Range(s) = {Head(s)} \cup Range(Tail(s))
           /\ IsInjective(s) => IsInjective(Tail(s)) /\ Head(s) \notin Range(Tail(s))
<1>1. Range(s) = {Head(s)} \cup Range(Tail(s))
  <2> DEFINE t == Tail(s)
  <2>1. ASSUME NEW i \in DOMAIN s PROVE s[i] \in {Head(s)} \cup Range(t)
    BY TailFacts DEF Range
  <2>2. ASSUME NEW i \in DOMAIN t PROVE t[i] \in Range(s)
    BY TailFacts DEF Range
  <2>3. Head(s) \in Range(s)
    BY TailFacts DEF Range
  <2>4. Range(s) \subseteq {Head(s)} \cup Range(t)
    BY <2>1 DEF Range
  <2>5. Range(t) \subseteq Range(s)
    BY <2>2 DEF Range
  <2> QED
    BY <2>3, <2>4, <2>5
<1>2. ASSUME IsInjective(s)
      PROVE  IsInjective(Tail(s)) /\ Head(s) \notin Range(Tail(s))
  <2>1. \A a, b \in DOMAIN s : s[a] = s[b] => a = b
    BY <1>2 DEF IsInjective
  <2>2. DOMAIN Tail(s) \subseteq Nat \ {0}
    <3>1. Tail(s) \in Seq(S)
      BY TailFacts
    <3> QED
      BY <3>1, LenProperties
  <2>3. ASSUME NEW a \in DOMAIN Tail(s), NEW b \in DOMAIN Tail(s), Tail(s)[a] = Tail(s)[b]
        PROVE  a = b
    <3>1. a + 1 \in DOMAIN s /\ b + 1 \in DOMAIN s /\ s[a + 1] = s[b + 1]
      BY <2>3, TailFacts
    <3> QED
      BY <3>1, <2>1, <2>2
  <2>4. ASSUME NEW a \in DOMAIN Tail(s), Tail(s)[a] = Head(s)
        PROVE  FALSE
    <3>1. a + 1 \in DOMAIN s /\ 1 \in DOMAIN s /\ s[a + 1] = s[1]
      BY <2>4, TailFacts
    <3> QED
      BY <3>1, <2>1, <2>2
  <2> QED
    BY <2>3, <2>4 DEF IsInjective, Range
<1> QED
  BY <1>1, <1>2

\* A new element at the end.
LEMMA AppendFacts ==
    ASSUME NEW S, NEW s \in Seq(S), NEW e \in S
    PROVE  /\ Append(s, e) \in Seq(S)
           /\ Range(Append(s, e)) = Range(s) \cup {e}
           /\ IsInjective(s) /\ e \notin Range(s) => IsInjective(Append(s, e))
<1>1. /\ Append(s, e) \in Seq(S) /\ Len(Append(s, e)) = Len(s) + 1
      /\ \A i \in 1..Len(s) : Append(s, e)[i] = s[i]
      /\ Append(s, e)[Len(s) + 1] = e
  BY AppendProperties
<1>2. DOMAIN s = 1..Len(s) /\ Len(s) \in Nat /\ DOMAIN Append(s, e) = 1..(Len(s) + 1)
  BY <1>1, LenProperties
<1>3. Range(Append(s, e)) = Range(s) \cup {e}
  BY <1>1, <1>2 DEF Range
<1>4. ASSUME IsInjective(s), e \notin Range(s)
      PROVE  IsInjective(Append(s, e))
  <2>1. \A i \in 1..Len(s) : Append(s, e)[i] # e
    BY <1>1, <1>2, <1>4 DEF Range
  <2>2. \A a, b \in 1..Len(s) : Append(s, e)[a] = Append(s, e)[b] => a = b
    BY <1>1, <1>2, <1>4 DEF IsInjective
  <2> QED
    BY <1>1, <1>2, <2>1, <2>2 DEF IsInjective
<1> QED
  BY <1>1, <1>3, <1>4

\* Two sequences one after the other.
LEMMA ConcatRange ==
    ASSUME NEW S, NEW s \in Seq(S), NEW t \in Seq(S)
    PROVE  s \o t \in Seq(S) /\ Range(s \o t) = Range(s) \cup Range(t)
BY ConcatProperties, RangeConcatenation

\* Every finite set has an enumeration without repetitions, so the copy of a
\* prefix visits exactly the keys that were listed.
LEMMA EnumerationCovers ==
    ASSUME NEW S, IsFiniteSet(S)
    PROVE  SetToSeq(S) \in Seq(S) /\ Range(SetToSeq(S)) = S
<1> DEFINE n == Cardinality(S)
           f == SetToSeq(S)
<1>1. n \in Nat /\ ExistsBijection(1..n, S)
  BY FS_CardinalityType
<1>2. PICK g \in Bijection(1..n, S) : TRUE
  BY <1>1 DEF ExistsBijection
<1>3. g \in [1..n -> S] /\ IsInjective(g)
  BY <1>2 DEF Bijection, Injection, IsInjective
<1>4. f \in [1..n -> S] /\ IsInjective(f)
  BY <1>3 DEF SetToSeq
<1>5. f \in Seq(S)
  BY <1>1, <1>4, SeqDef
<1>6. f \in Injection(1..n, S)
  BY <1>4 DEF Injection, IsInjective
<1>7. IsFiniteSet(1..n) /\ Cardinality(1..n) = n
  BY <1>1, FS_Interval
<1>8. f \in Surjection(1..n, S)
  BY <1>6, <1>7, FS_Injection
<1>9. Range(f) = S
  BY <1>8 DEF Surjection, Range
<1> QED
  BY <1>5, <1>9

-------------------------------------------------------------------------------
(***************************************************************************)
(* Inventories.                                                            *)
(***************************************************************************)
LEMMA UploadFacts ==
    ASSUME NEW p \in Publishers
    PROVE  /\ Upload[p] \in Seq(Files) /\ Upload[p] \in Seq(Objects)
           /\ Len(Upload[p]) \in Nat /\ DOMAIN Upload[p] = 1..Len(Upload[p])
           /\ \A i \in 1..Len(Upload[p]) : Upload[p][i] \in FilesOf(p) /\ Upload[p][i] \in Files
           /\ \A f \in FilesOf(p) : \E i \in 1..Len(Upload[p]) : Upload[p][i] = f
           /\ FilesOf(p) \subseteq Files /\ Checksums \in FilesOf(p) /\ Selected \in FilesOf(p)
           /\ p # None
<1>1. Upload[p] \in Seq(Files) /\ p # None
  BY ConstantsAssumption
<1>2. Upload[p] \in Seq(Objects)
  BY <1>1, SeqMonotonic DEF Objects
<1>3. Len(Upload[p]) \in Nat /\ DOMAIN Upload[p] = 1..Len(Upload[p]) /\ Upload[p] \in [1..Len(Upload[p]) -> Files]
  BY <1>1, LenProperties
<1>4. Checksums \in FilesOf(p) /\ Selected \in FilesOf(p)
  BY ConstantsAssumption DEF FilesOf
<1> QED
  BY <1>1, <1>2, <1>3, <1>4 DEF FilesOf, Range

\* The order in which p's objects are put: its files, then the marker.
LEMMA NextKeyFacts ==
    ASSUME TypeOK, NEW p \in Publishers
    PROVE  /\ NextKey(p) \in Objects
           /\ pub[p].done < Len(Upload[p]) =>
                NextKey(p) = Upload[p][pub[p].done + 1] /\ NextKey(p) \in FilesOf(p)
           /\ pub[p].done >= Len(Upload[p]) => NextKey(p) = pub[p].marker
           /\ NextKey(p) \in Markers <=> pub[p].done >= Len(Upload[p])
           /\ pub[p].done \in Nat /\ pub[p].marker \in Markers
<1>1. pub[p].done \in Nat /\ pub[p].marker \in Markers
  BY DEF TypeOK
<1>2. CASE pub[p].done < Len(Upload[p])
  <2>1. pub[p].done + 1 \in 1..Len(Upload[p])
    BY <1>1, <1>2, UploadFacts
  <2>2. NextKey(p) = Upload[p][pub[p].done + 1]
    BY <1>2 DEF NextKey
  <2>3. NextKey(p) \in FilesOf(p) /\ NextKey(p) \in Files
    BY <2>1, <2>2, UploadFacts
  <2> QED
    BY <1>1, <1>2, <2>2, <2>3, UploadFacts, ConstantsAssumption DEF Objects
<1>3. CASE pub[p].done >= Len(Upload[p])
  <2>1. NextKey(p) = pub[p].marker
    BY <1>1, <1>3, UploadFacts DEF NextKey
  <2> QED
    BY <1>1, <1>3, <2>1, UploadFacts DEF Objects
<1> QED
  BY <1>1, <1>2, <1>3, UploadFacts

\* An inspection compares every member of the inventory.
LEMMA InspectionCovers ==
    ASSUME NEW p \in Publishers
    PROVE  /\ InspectChecks(p) \in Seq(Objects) /\ InspectChecks(p) # <<>>
           /\ \A f \in FilesOf(p) : \E i \in DOMAIN InspectChecks(p) : InspectChecks(p)[i] = f
<1> DEFINE u == Upload[p]
           c == ChecksumsAt(p)
           first == SubSeq(u, 1, c - 1)
           second == SubSeq(u, c + 1, Len(u))
           kept == RemoveAt(u, c)
<1>1. c \in 1..Len(u) /\ u[c] = Checksums
  BY UploadFacts DEF ChecksumsAt
<1>2. Len(u) \in Nat /\ c \in Nat /\ \A i \in 1..Len(u) : u[i] \in Objects
  BY <1>1, UploadFacts DEF Objects
<1>3. /\ first \in Seq(Objects) /\ Len(first) = c - 1
      /\ \A i \in 1..(c - 1) : first[i] = u[i]
  <2>1. \A i \in 1..(c - 1) : u[i] \in Objects
    BY <1>1, <1>2
  <2>2. /\ first \in Seq(Objects)
        /\ Len(first) = IF 1 <= c - 1 THEN (c - 1) - 1 + 1 ELSE 0
        /\ \A i \in 1..((c - 1) - 1 + 1) : first[i] = u[1 + i - 1]
    BY <1>1, <1>2, <2>1, SubSeqProperties
  <2> QED
    BY <1>1, <1>2, <2>2
<1>4. /\ second \in Seq(Objects) /\ Len(second) = Len(u) - c
      /\ \A i \in 1..(Len(u) - c) : second[i] = u[c + i]
  <2>1. \A i \in (c + 1)..Len(u) : u[i] \in Objects
    BY <1>1, <1>2
  <2>2. /\ second \in Seq(Objects)
        /\ Len(second) = IF c + 1 <= Len(u) THEN Len(u) - (c + 1) + 1 ELSE 0
        /\ \A i \in 1..(Len(u) - (c + 1) + 1) : second[i] = u[(c + 1) + i - 1]
    BY <1>1, <1>2, <2>1, SubSeqProperties
  <2>3. Len(u) - (c + 1) + 1 = Len(u) - c /\ \A i \in Int : (c + 1) + i - 1 = c + i
    BY <1>1, <1>2
  <2>4. Len(second) = Len(u) - c
    BY <1>1, <1>2, <2>2
  <2>5. ASSUME NEW i \in 1..(Len(u) - c) PROVE second[i] = u[c + i]
    <3>1. i \in 1..(Len(u) - (c + 1) + 1) /\ (c + 1) + i - 1 = c + i
      BY <1>1, <1>2
    <3> HIDE DEF second
    <3> QED
      BY <2>2, <3>1
  <2> QED
    BY <2>2, <2>4, <2>5
<1>5. kept \in Seq(Objects) /\ Range(kept) = Range(first) \cup Range(second)
  BY <1>3, <1>4, ConcatProperties, RangeConcatenation, ZenonT(60) DEF RemoveAt
<1> DEFINE head == <<Checksums>>
           last == <<Selected>>
<1>6. head \in Seq(Objects) /\ last \in Seq(Objects)
  BY ConstantsAssumption DEF Objects
<1>7. /\ InspectChecks(p) \in Seq(Objects)
      /\ Range(InspectChecks(p)) = (Range(head) \cup Range(kept)) \cup Range(last)
  <2>1. InspectChecks(p) = (head \o kept) \o last
    BY DEF InspectChecks
  <2> HIDE DEF head, kept, last
  <2> DEFINE pair == head \o kept
  <2>2. pair \in Seq(Objects) /\ Range(pair) = Range(head) \cup Range(kept)
    BY <1>5, <1>6, ConcatRange
  <2>3. InspectChecks(p) = pair \o last
    BY <2>1
  <2> HIDE DEF pair
  <2>4. pair \o last \in Seq(Objects) /\ Range(pair \o last) = Range(pair) \cup Range(last)
    BY <1>6, <2>2, ConcatRange
  <2> QED
    BY <2>2, <2>3, <2>4
<1>8. Checksums \in Range(head)
  BY DEF Range
<1>9. ASSUME NEW f \in FilesOf(p) PROVE f \in Range(InspectChecks(p))
  <2>1. PICK i \in 1..Len(u) : u[i] = f
    BY UploadFacts
  <2>2. CASE i = c
    BY <1>1, <1>7, <1>8, <2>1, <2>2
  <2>3. CASE i < c
    <3>1. i \in 1..(c - 1) /\ i \in DOMAIN first
      BY <1>1, <1>2, <1>3, <2>1, <2>3, LenProperties
    <3> QED
      BY <1>3, <1>5, <1>7, <2>1, <3>1 DEF Range
  <2>4. CASE i > c
    <3> HIDE DEF second
    <3>a. i - c \in 1..(Len(u) - c) /\ c + (i - c) = i
      BY <1>1, <1>2, <2>1, <2>4
    <3>b. DOMAIN second = 1..(Len(u) - c)
      BY <1>4, LenProperties
    <3>1. i - c \in 1..(Len(u) - c) /\ c + (i - c) = i /\ i - c \in DOMAIN second
      BY <3>a, <3>b
    <3>2. second[i - c] = f
      BY <1>4, <2>1, <3>1
    <3> QED
      BY <1>5, <1>7, <3>1, <3>2 DEF Range
  <2> QED
    BY <1>1, <1>2, <2>1, <2>2, <2>3, <2>4
<1>10. InspectChecks(p) # <<>>
  <2>1. Checksums \in Range(InspectChecks(p))
    BY <1>7, <1>8
  <2>2. Range(<<>>) = {}
    BY DEF Range
  <2> QED
    BY <2>1, <2>2
<1> QED
  BY <1>7, <1>9, <1>10 DEF Range

-------------------------------------------------------------------------------
(***************************************************************************)
(* The steps of publishers.  A step of p leaves the other publications     *)
(* alone.                                                                  *)
(***************************************************************************)
OnlyPub(p) == \A q \in Publishers : q # p => pub'[q] = pub[q]

\* The invariants about publishers, without the reservation.
PublisherInv ==
    /\ Progress /\ MarkerLast /\ WholeIsKnown /\ PutStays /\ OwnedIsMine /\ NotYetOwned
    /\ MarkerMeansWhole /\ PublishedReleaseIsFinal

ReaderInv == KindOfState /\ InspectionPending /\ CopyPending /\ AcceptedReleaseWasWhole

\* Readers do not notice a step after which no settled publisher has put
\* anything.
LEMMA ReaderFrame ==
    ASSUME TypeOK, ReaderInv, UNCHANGED <<mode, reader>>, everWhole \subseteq everWhole',
           \A q \in Publishers : Settled(q) => Settled(q)',
           \A q \in Publishers, k \in Objects : Settled(q) /\ store[k] # q => store'[k] # q
    PROVE  ReaderInv'
<1>1. KindOfState'
  BY DEF ReaderInv, KindOfState
<1>2. InspectionPending'
  <2> SUFFICES ASSUME NEW r \in Readers, reader[r].pc = "members"
               PROVE  /\ reader[r].todo # <<>>
                      /\ reader[r].kind # "download"
                      /\ reader[r].kind = "inspect" =>
                          /\ reader[r].release \in Publishers
                          /\ Settled(reader[r].release)'
                          /\ \/ reader[r].release \in everWhole'
                             \/ \E i \in DOMAIN reader[r].todo : store'[reader[r].todo[i]] # reader[r].release
    BY DEF InspectionPending, Settled
  <2>1. \A i \in DOMAIN reader[r].todo : reader[r].todo[i] \in Objects
    <3>1. reader[r].todo \in Seq(Objects)
      BY DEF TypeOK
    <3> QED
      BY <3>1, LenProperties
  <2> QED
    BY <2>1 DEF ReaderInv, InspectionPending
<1>3. CopyPending'
  BY DEF ReaderInv, CopyPending, Conditional
<1>4. AcceptedReleaseWasWhole'
  BY DEF ReaderInv, AcceptedReleaseWasWhole, Conditional
<1> QED
  BY <1>1, <1>2, <1>3, <1>4 DEF ReaderInv

\* A step of p that touches no object: before its publication, or when it gives
\* up.
LEMMA QuietStep ==
    ASSUME TypeOK, PublisherInv, NEW p \in Publishers, OnlyPub(p),
           UNCHANGED <<store, mode, everWhole>>,
           pub'[p].done = pub[p].done,
           pub'[p].pc \in {"reserved", "final", "put", "cleanup", "failed", "dead"},
           \/ pub[p].pc \in {"preflight", "reserved", "final"}
           \/ pub'[p].pc \in {"cleanup", "failed", "dead"} /\ pub[p].pc \notin {"done", "failed", "dead"},
           Conditional => /\ IsInjective(pub'[p].owned)
                          /\ \A i \in DOMAIN pub'[p].owned : store[pub'[p].owned[i]] = p
    PROVE  PublisherInv' /\ \A q \in Publishers : Settled(q) => Settled(q)'
<1>1. Progress'
  <2> SUFFICES ASSUME NEW q \in Publishers
               PROVE  /\ pub'[q].pc \in {"preflight", "reserved", "final"} => pub'[q].done = 0
                      /\ pub'[q].pc \in {"put", "verify"} => pub'[q].done <= Len(Upload[q])
    BY DEF Progress
  <2>1. CASE q # p
    BY <2>1 DEF OnlyPub, PublisherInv, Progress
  <2>2. CASE q = p
    BY <2>2, UploadFacts DEF PublisherInv, Progress
  <2> QED
    BY <2>1, <2>2
<1>2. \A q \in Publishers : Settled(q) => Settled(q)'
  BY DEF Settled, OnlyPub
<1>3. MarkerLast'
  BY <1>2 DEF PublisherInv, MarkerLast
<1>4. WholeIsKnown' /\ MarkerMeansWhole'
  BY DEF PublisherInv, WholeIsKnown, MarkerMeansWhole, Conditional, Whole
<1>5. \A q \in Publishers : q # p => NextKey(q)' = NextKey(q)
  BY DEF NextKey, OnlyPub
<1>6. PutStays'
  <2> SUFFICES ASSUME Conditional, NEW q \in Publishers, pub'[q].pc \in {"put", "verify"}
               PROVE  /\ \A i \in 1..Len(Upload[q]) : i <= pub'[q].done => store[Upload[q][i]] = q
                      /\ pub'[q].pc = "verify" => store[NextKey(q)'] = q
    BY DEF PutStays, Conditional
  <2>1. CASE q # p
    BY <1>5, <2>1 DEF OnlyPub, PublisherInv, PutStays
  <2>2. CASE q = p
    <3>1. pub'[q].done = 0
      BY <2>2 DEF PublisherInv, Progress
    <3> QED
      BY <2>2, <3>1, UploadFacts
  <2> QED
    BY <2>1, <2>2
<1>7. OwnedIsMine'
  <2> SUFFICES ASSUME Conditional, NEW q \in Publishers
               PROVE  /\ IsInjective(pub'[q].owned)
                      /\ \A i \in DOMAIN pub'[q].owned : store[pub'[q].owned[i]] = q
    BY DEF OwnedIsMine, Conditional
  <2>1. CASE q # p
    BY <2>1 DEF PublisherInv, OwnedIsMine, OnlyPub
  <2>2. CASE q = p
    BY <2>2
  <2> QED
    BY <2>1, <2>2
<1>8. NotYetOwned'
  BY <1>5 DEF PublisherInv, NotYetOwned, OnlyPub
<1>9. PublishedReleaseIsFinal'
  BY DEF PublisherInv, PublishedReleaseIsFinal, Conditional, Whole, OnlyPub
<1> QED
  BY <1>1, <1>2, <1>3, <1>4, <1>6, <1>7, <1>8, <1>9 DEF PublisherInv

\* A put of p that takes effect.
LEMMA CreateStep ==
    ASSUME TypeOK, PublisherInv, NEW p \in Publishers, OnlyPub(p), UNCHANGED mode,
           pub[p].pc = "put", pub'[p].pc \in {"verify", "cleanup"},
           pub'[p].done = pub[p].done, pub'[p].marker = pub[p].marker,
           ~Blocked(NextKey(p)), SetStore([store EXCEPT ![NextKey(p)] = p]),
           Conditional => \/ pub'[p].owned = pub[p].owned
                          \/ mode # "intent" /\ pub'[p].owned = Append(pub[p].owned, NextKey(p))
    PROVE  /\ PublisherInv'
           /\ \A q \in Publishers : Settled(q) => Settled(q)'
           /\ \A q \in Publishers, k \in Objects : Settled(q) /\ store[k] # q => store'[k] # q
<1> DEFINE key == NextKey(p)
<1>1. /\ key \in Objects /\ pub[p].done \in Nat /\ pub[p].done <= Len(Upload[p])
      /\ key \in Markers <=> pub[p].done >= Len(Upload[p])
  BY NextKeyFacts DEF PublisherInv, Progress
<1>2. /\ \A k \in Objects : store'[k] = IF k = key THEN p ELSE store[k]
      /\ \A q \in Publishers, m \in Markers : Whole(store', q, m) => q \in everWhole'
      /\ everWhole \subseteq everWhole'
  BY <1>1 DEF SetStore, TypeOK
<1>3. \A q \in Publishers : q # p => NextKey(q)' = NextKey(q)
  BY DEF NextKey, OnlyPub
<1>4. NextKey(p)' = key
  BY DEF NextKey
<1>5. Conditional => store[key] = None
  BY DEF Blocked
<1>6. \A q \in Publishers : q # None
  BY UploadFacts
<1> HIDE DEF key
<1>7. ~Settled(p)
  BY DEF Settled
<1>8. \A q \in Publishers : Settled(q) => Settled(q)'
  BY <1>7 DEF Settled, OnlyPub
<1>9. \A q \in Publishers, k \in Objects : Settled(q) /\ store[k] # q => store'[k] # q
  BY <1>2, <1>7
<1>10. Conditional => \A q \in Publishers, k \in Objects : store[k] = q => store'[k] = q
  BY <1>2, <1>5, <1>6
<1>11. Markers \subseteq Objects /\ \A q \in Publishers : FilesOf(q) \subseteq Objects
  BY UploadFacts DEF Objects
<1>12. Progress'
  <2> SUFFICES ASSUME NEW q \in Publishers
               PROVE  /\ pub'[q].pc \in {"preflight", "reserved", "final"} => pub'[q].done = 0
                      /\ pub'[q].pc \in {"put", "verify"} => pub'[q].done <= Len(Upload[q])
    BY DEF Progress
  <2>1. CASE q # p
    BY <2>1 DEF OnlyPub, PublisherInv, Progress
  <2>2. CASE q = p
    BY <1>1, <2>2
  <2> QED
    BY <2>1, <2>2
<1>13. MarkerLast'
  <2> SUFFICES ASSUME NEW q \in Publishers, NEW m \in Markers, store'[m] = q
               PROVE  Settled(q)'
    BY DEF MarkerLast
  <2>1. CASE m = key
    <3>1. q = p /\ pub[p].done = Len(Upload[p])
      BY <1>1, <1>2, <1>11, <2>1, UploadFacts
    <3> QED
      BY <3>1 DEF Settled
  <2>2. CASE m # key
    BY <1>2, <1>8, <1>11, <2>2 DEF PublisherInv, MarkerLast
  <2> QED
    BY <2>1, <2>2
<1>14. WholeIsKnown'
  BY <1>2 DEF WholeIsKnown
<1>15. Conditional => \A i \in 1..Len(Upload[p]) : i <= pub[p].done => store'[Upload[p][i]] = p
  BY <1>10, <1>11, UploadFacts DEF PublisherInv, PutStays
<1>16. PutStays'
  <2> SUFFICES ASSUME Conditional, NEW q \in Publishers, pub'[q].pc \in {"put", "verify"}
               PROVE  /\ \A i \in 1..Len(Upload[q]) : i <= pub'[q].done => store'[Upload[q][i]] = q
                      /\ pub'[q].pc = "verify" => store'[NextKey(q)'] = q
    BY DEF PutStays, Conditional
  <2>1. CASE q # p
    <3>1. /\ \A i \in 1..Len(Upload[q]) : i <= pub[q].done => store[Upload[q][i]] = q
          /\ pub[q].pc = "verify" => store[NextKey(q)] = q
      BY <2>1 DEF PublisherInv, PutStays, OnlyPub
    <3>2. NextKey(q) \in Objects /\ \A i \in 1..Len(Upload[q]) : Upload[q][i] \in Objects
      BY <1>11, NextKeyFacts, UploadFacts
    <3>3. pub'[q] = pub[q] /\ NextKey(q)' = NextKey(q)
      BY <1>3, <2>1 DEF OnlyPub
    <3> QED
      BY <1>10, <3>1, <3>2, <3>3
  <2>2. CASE q = p
    BY <1>1, <1>2, <1>4, <1>15, <2>2
  <2> QED
    BY <2>1, <2>2
<1>17. ASSUME Conditional, NEW q \in Publishers
       PROVE  /\ IsInjective(pub[q].owned) /\ pub[q].owned \in Seq(Objects)
              /\ \A k \in Range(pub[q].owned) : k \in Objects /\ store[k] = q /\ store'[k] = q
              /\ key \notin Range(pub[q].owned)
  <2>1. pub[q].owned \in Seq(Objects)
    BY DEF TypeOK
  <2>2. Range(pub[q].owned) \subseteq Objects
    BY <2>1, RangeOfSeq
  <2>3. IsInjective(pub[q].owned) /\ \A k \in Range(pub[q].owned) : store[k] = q
    BY <1>17 DEF PublisherInv, OwnedIsMine, Range
  <2> QED
    BY <1>5, <1>6, <1>10, <1>17, <2>1, <2>2, <2>3
<1>18. OwnedIsMine'
  <2> SUFFICES ASSUME Conditional, NEW q \in Publishers
               PROVE  /\ IsInjective(pub'[q].owned)
                      /\ \A k \in Range(pub'[q].owned) : store'[k] = q
    BY DEF OwnedIsMine, Conditional, Range
  <2>1. CASE pub'[q].owned = pub[q].owned
    BY <1>17, <2>1
  <2>2. CASE q = p /\ pub'[q].owned = Append(pub[q].owned, key)
    <3>1. IsInjective(pub'[q].owned) /\ Range(pub'[q].owned) = Range(pub[q].owned) \cup {key}
      BY <1>1, <1>17, <2>2, AppendFacts
    <3> QED
      BY <1>1, <1>2, <1>17, <2>2, <3>1
  <2> QED
    BY <2>1, <2>2 DEF OnlyPub, key
<1>19. NotYetOwned'
  <2> SUFFICES ASSUME mode = "intent", NEW q \in Publishers, pub'[q].pc = "verify"
               PROVE  NextKey(q)' \notin Range(pub'[q].owned)
    BY DEF NotYetOwned
  <2>1. CASE q # p
    BY <1>3, <2>1 DEF PublisherInv, NotYetOwned, OnlyPub
  <2>2. CASE q = p
    <3>1. Conditional
      BY DEF Conditional
    <3> QED
      BY <1>4, <1>17, <2>2, <3>1
  <2> QED
    BY <2>1, <2>2
<1>20. MarkerMeansWhole'
  <2> SUFFICES ASSUME Conditional, NEW q \in Publishers, NEW m \in Markers, store'[m] = q
               PROVE  q \in everWhole'
    BY DEF MarkerMeansWhole, Conditional
  <2>1. CASE m = key
    <3>1. q = p /\ pub[p].done = Len(Upload[p])
      BY <1>1, <1>2, <1>11, <2>1, UploadFacts
    <3>2. \A f \in FilesOf(p) : store'[f] = p
      BY <1>15, <3>1, UploadFacts
    <3>3. Whole(store', p, m)
      BY <3>1, <3>2 DEF Whole
    <3> QED
      BY <1>2, <3>1, <3>3
  <2>2. CASE m # key
    BY <1>2, <1>11, <2>2 DEF PublisherInv, MarkerMeansWhole
  <2> QED
    BY <2>1, <2>2
<1>21. PublishedReleaseIsFinal'
  <2> SUFFICES ASSUME Conditional, NEW q \in Publishers, pub'[q].pc = "done"
               PROVE  Whole(store', q, pub'[q].marker)
    BY DEF PublishedReleaseIsFinal, Conditional
  <2>1. pub'[q] = pub[q] /\ pub[q].marker \in Markers
    BY DEF OnlyPub, TypeOK
  <2>2. Whole(store, q, pub[q].marker)
    BY <2>1 DEF PublisherInv, PublishedReleaseIsFinal
  <2> QED
    BY <1>10, <1>11, <2>1, <2>2 DEF Whole
<1> QED
  BY <1>8, <1>9, <1>12, <1>13, <1>14, <1>16, <1>18, <1>19, <1>20, <1>21 DEF PublisherInv

\* A read-back of p that finds what it put.
LEMMA ConfirmStep ==
    ASSUME TypeOK, PublisherInv, NEW p \in Publishers, OnlyPub(p),
           UNCHANGED <<store, mode, everWhole>>,
           pub[p].pc = "verify", store[NextKey(p)] = p,
           pub'[p].pc = IF NextKey(p) \in Markers THEN "done" ELSE "put",
           pub'[p].done = pub[p].done + 1, pub'[p].marker = pub[p].marker,
           pub'[p].owned = IF mode = "intent" THEN Append(pub[p].owned, NextKey(p)) ELSE pub[p].owned
    PROVE  PublisherInv' /\ \A q \in Publishers : Settled(q) => Settled(q)'
<1> DEFINE key == NextKey(p)
<1>1. /\ key \in Objects /\ pub[p].done \in Nat /\ pub[p].done <= Len(Upload[p])
      /\ key \in Markers <=> pub[p].done = Len(Upload[p])
      /\ pub[p].done < Len(Upload[p]) => key = Upload[p][pub[p].done + 1]
      /\ pub[p].done = Len(Upload[p]) => key = pub[p].marker
      /\ Len(Upload[p]) \in Nat
  BY NextKeyFacts, UploadFacts DEF PublisherInv, Progress
<1>2. \A q \in Publishers : q # p => NextKey(q)' = NextKey(q)
  BY DEF NextKey, OnlyPub
<1> HIDE DEF key
<1>3. \A q \in Publishers : Settled(q) => Settled(q)'
  BY <1>1 DEF Settled, OnlyPub, key
<1>4. Progress'
  <2> SUFFICES ASSUME NEW q \in Publishers
               PROVE  /\ pub'[q].pc \in {"preflight", "reserved", "final"} => pub'[q].done = 0
                      /\ pub'[q].pc \in {"put", "verify"} => pub'[q].done <= Len(Upload[q])
    BY DEF Progress
  <2>1. CASE q # p
    BY <2>1 DEF OnlyPub, PublisherInv, Progress
  <2>2. CASE q = p
    BY <1>1, <2>2 DEF key
  <2> QED
    BY <2>1, <2>2
<1>5. MarkerLast'
  BY <1>3 DEF PublisherInv, MarkerLast
<1>6. WholeIsKnown' /\ MarkerMeansWhole'
  BY DEF PublisherInv, WholeIsKnown, MarkerMeansWhole, Conditional, Whole
<1>7. ASSUME Conditional
      PROVE  \A i \in 1..Len(Upload[p]) : i <= pub'[p].done => store[Upload[p][i]] = p
  <2> SUFFICES ASSUME NEW i \in 1..Len(Upload[p]), i <= pub[p].done + 1
               PROVE  store[Upload[p][i]] = p
    OBVIOUS
  <2>1. CASE i <= pub[p].done
    BY <1>7, <2>1 DEF PublisherInv, PutStays
  <2>2. CASE i = pub[p].done + 1
    BY <1>1, <2>2 DEF key
  <2> QED
    BY <1>1, <2>1, <2>2
<1>8. PutStays'
  <2> SUFFICES ASSUME Conditional, NEW q \in Publishers, pub'[q].pc \in {"put", "verify"}
               PROVE  /\ \A i \in 1..Len(Upload[q]) : i <= pub'[q].done => store[Upload[q][i]] = q
                      /\ pub'[q].pc = "verify" => store[NextKey(q)'] = q
    BY DEF PutStays, Conditional
  <2>1. CASE q # p
    BY <1>2, <2>1 DEF PublisherInv, PutStays, OnlyPub
  <2>2. CASE q = p
    BY <1>7, <2>2
  <2> QED
    BY <2>1, <2>2
<1>9. OwnedIsMine'
  <2> SUFFICES ASSUME Conditional, NEW q \in Publishers
               PROVE  /\ IsInjective(pub'[q].owned)
                      /\ \A k \in Range(pub'[q].owned) : store[k] = q
    BY DEF OwnedIsMine, Conditional, Range
  <2>1. IsInjective(pub[q].owned) /\ \A k \in Range(pub[q].owned) : store[k] = q
    BY DEF PublisherInv, OwnedIsMine, Range
  <2>2. CASE pub'[q].owned = pub[q].owned
    BY <2>1, <2>2
  <2>3. CASE q = p /\ mode = "intent" /\ pub'[q].owned = Append(pub[q].owned, key)
    <3>1. key \notin Range(pub[p].owned) /\ pub[p].owned \in Seq(Objects)
      BY <2>3 DEF PublisherInv, NotYetOwned, TypeOK, key
    <3> DEFINE w == pub[p].owned
    <3>a. w \in Seq(Objects) /\ key \in Objects /\ IsInjective(w) /\ key \notin Range(w)
      BY <1>1, <2>1, <2>3, <3>1
    <3> HIDE DEF w
    <3>b. IsInjective(Append(w, key)) /\ Range(Append(w, key)) = Range(w) \cup {key}
      BY <3>a, AppendFacts
    <3>2. IsInjective(pub'[q].owned) /\ Range(pub'[q].owned) = Range(pub[q].owned) \cup {key}
      BY <2>3, <3>b DEF w
    <3> QED
      BY <2>1, <2>3, <3>2 DEF key
  <2> QED
    BY <2>2, <2>3 DEF OnlyPub, key
<1>10. NotYetOwned'
  BY <1>2 DEF PublisherInv, NotYetOwned, OnlyPub
<1>11. PublishedReleaseIsFinal'
  <2> SUFFICES ASSUME Conditional, NEW q \in Publishers, pub'[q].pc = "done"
               PROVE  Whole(store, q, pub'[q].marker)
    BY DEF PublishedReleaseIsFinal, Conditional, Whole
  <2>1. CASE q # p
    BY <2>1 DEF PublisherInv, PublishedReleaseIsFinal, OnlyPub
  <2>2. CASE q = p
    <3>1. key \in Markers
      BY <2>2 DEF key
    <3>2. pub[p].done = Len(Upload[p]) /\ key = pub[p].marker
      BY <1>1, <3>1
    <3>a. \A i \in 1..Len(Upload[p]) : i <= pub'[p].done
      BY <1>1, <3>2
    <3>3. \A f \in FilesOf(p) : store[f] = p
      BY <1>7, <3>a, UploadFacts
    <3> QED
      BY <2>2, <3>2, <3>3 DEF Whole, key
  <2> QED
    BY <2>1, <2>2
<1> QED
  BY <1>3, <1>4, <1>5, <1>6, <1>8, <1>9, <1>10, <1>11 DEF PublisherInv

\* A rollback of p that deletes the first of the keys it owns.
LEMMA DeleteStep ==
    ASSUME TypeOK, PublisherInv, NEW p \in Publishers, OnlyPub(p), UNCHANGED mode,
           pub[p].pc = "cleanup", pub'[p].pc = "cleanup", pub[p].owned # <<>>,
           SetStore([store EXCEPT ![Head(pub[p].owned)] = None]),
           pub'[p].done = pub[p].done, pub'[p].marker = pub[p].marker,
           pub'[p].owned = Tail(pub[p].owned)
    PROVE  /\ PublisherInv'
           /\ \A q \in Publishers : Settled(q) => Settled(q)'
           /\ \A q \in Publishers, k \in Objects : Settled(q) /\ store[k] # q => store'[k] # q
<1> DEFINE key == Head(pub[p].owned)
<1>1. pub[p].owned \in Seq(Objects) /\ key \in Objects /\ key \in Range(pub[p].owned)
  <2>1. pub[p].owned \in Seq(Objects)
    BY DEF TypeOK
  <2> QED
    BY <2>1, TailFacts, TailRange
<1>2. \A q \in Publishers : q # None
  BY UploadFacts
<1>3. /\ \A k \in Objects : store'[k] = IF k = key THEN None ELSE store[k]
      /\ \A q \in Publishers, m \in Markers : Whole(store', q, m) => q \in everWhole'
      /\ everWhole \subseteq everWhole'
  BY <1>1 DEF SetStore, TypeOK
<1>4. \A q \in Publishers : NextKey(q)' = NextKey(q)
  BY DEF NextKey, OnlyPub
<1>5. Conditional => store[key] = p
  BY <1>1 DEF PublisherInv, OwnedIsMine, Range
<1> HIDE DEF key
<1>6. \A q \in Publishers : Settled(q) => Settled(q)'
  BY DEF Settled, OnlyPub
<1>7. \A q \in Publishers, k \in Objects : store[k] # q => store'[k] # q
  BY <1>2, <1>3
<1>8. Conditional => \A q \in Publishers, k \in Objects : q # p /\ store[k] = q => store'[k] = q
  BY <1>3, <1>5
<1>9. Markers \subseteq Objects /\ \A q \in Publishers : FilesOf(q) \subseteq Objects
  BY UploadFacts DEF Objects
<1>10. Progress'
  <2> SUFFICES ASSUME NEW q \in Publishers
               PROVE  /\ pub'[q].pc \in {"preflight", "reserved", "final"} => pub'[q].done = 0
                      /\ pub'[q].pc \in {"put", "verify"} => pub'[q].done <= Len(Upload[q])
    BY DEF Progress
  <2> QED
    BY DEF OnlyPub, PublisherInv, Progress
<1>11. MarkerLast' /\ MarkerMeansWhole'
  BY <1>3, <1>6, <1>7, <1>9 DEF PublisherInv, MarkerLast, MarkerMeansWhole, Conditional
<1>12. WholeIsKnown'
  BY <1>3 DEF WholeIsKnown
<1>13. PutStays'
  <2> SUFFICES ASSUME Conditional, NEW q \in Publishers, pub'[q].pc \in {"put", "verify"}
               PROVE  /\ \A i \in 1..Len(Upload[q]) : i <= pub'[q].done => store'[Upload[q][i]] = q
                      /\ pub'[q].pc = "verify" => store'[NextKey(q)'] = q
    BY DEF PutStays, Conditional
  <2>1. q # p /\ pub'[q] = pub[q]
    BY DEF OnlyPub
  <2>2. /\ \A i \in 1..Len(Upload[q]) : i <= pub[q].done => store[Upload[q][i]] = q
        /\ pub[q].pc = "verify" => store[NextKey(q)] = q
    BY <2>1 DEF PublisherInv, PutStays
  <2>3. NextKey(q) \in Objects /\ \A i \in 1..Len(Upload[q]) : Upload[q][i] \in Objects
    BY <1>9, NextKeyFacts, UploadFacts
  <2> QED
    BY <1>4, <1>8, <2>1, <2>2, <2>3
<1>14. OwnedIsMine'
  <2> SUFFICES ASSUME Conditional, NEW q \in Publishers
               PROVE  /\ IsInjective(pub'[q].owned)
                      /\ \A k \in Range(pub'[q].owned) : store'[k] = q
    BY DEF OwnedIsMine, Conditional, Range
  <2>1. /\ IsInjective(pub[q].owned) /\ \A k \in Range(pub[q].owned) : store[k] = q
        /\ Range(pub[q].owned) \subseteq Objects
    <3>1. pub[q].owned \in Seq(Objects)
      BY DEF TypeOK
    <3> QED
      BY <3>1, RangeOfSeq DEF PublisherInv, OwnedIsMine, Range
  <2>2. CASE q # p
    BY <1>8, <2>1, <2>2 DEF OnlyPub
  <2>3. CASE q = p
    <3>1. /\ IsInjective(pub'[p].owned) /\ key \notin Range(pub'[p].owned)
          /\ Range(pub'[p].owned) \subseteq Range(pub[p].owned)
      BY <1>1, <2>1, <2>3, TailRange DEF key
    <3> QED
      BY <1>3, <2>1, <2>3, <3>1
  <2> QED
    BY <2>2, <2>3
<1>15. NotYetOwned'
  BY <1>4 DEF PublisherInv, NotYetOwned, OnlyPub
<1>16. PublishedReleaseIsFinal'
  <2> SUFFICES ASSUME Conditional, NEW q \in Publishers, pub'[q].pc = "done"
               PROVE  Whole(store', q, pub'[q].marker)
    BY DEF PublishedReleaseIsFinal, Conditional
  <2>1. q # p /\ pub'[q] = pub[q] /\ pub[q].marker \in Markers
    BY DEF OnlyPub, TypeOK
  <2>2. Whole(store, q, pub[q].marker)
    BY <2>1 DEF PublisherInv, PublishedReleaseIsFinal
  <2> QED
    BY <1>8, <1>9, <2>1, <2>2 DEF Whole
<1> QED
  BY <1>6, <1>7, <1>10, <1>11, <1>12, <1>13, <1>14, <1>15, <1>16 DEF PublisherInv

-------------------------------------------------------------------------------
(***************************************************************************)
(* The actions.                                                            *)
(***************************************************************************)
PubRecords == [pc : PubStates, marker : Markers, done : Nat, owned : Seq(Objects)]

ReaderRecords == [kind : Kinds, pc : ReaderStates, keys : SUBSET Objects,
                  release : Publishers \cup {None}, todo : Seq(Objects)]

\* One record of pub is replaced, the others stay.
LEMMA PubReplace ==
    ASSUME pub \in [Publishers -> PubRecords], NEW p \in Publishers, NEW rec \in PubRecords,
           pub' = [pub EXCEPT ![p] = rec]
    PROVE  pub' \in [Publishers -> PubRecords] /\ OnlyPub(p) /\ pub'[p] = rec
BY DEF OnlyPub

\* The forms of update the actions use.
LEMMA PubUpdate ==
    ASSUME pub \in [Publishers -> PubRecords], NEW p \in Publishers
    PROVE  /\ \A c \in PubStates :
                pub' = [pub EXCEPT ![p].pc = c] =>
                  /\ pub' \in [Publishers -> PubRecords] /\ OnlyPub(p)
                  /\ pub'[p].pc = c /\ pub'[p].marker = pub[p].marker
                  /\ pub'[p].done = pub[p].done /\ pub'[p].owned = pub[p].owned
           /\ \A c \in PubStates, m \in Markers :
                pub' = [pub EXCEPT ![p].pc = c, ![p].marker = m] =>
                  /\ pub' \in [Publishers -> PubRecords] /\ OnlyPub(p)
                  /\ pub'[p].pc = c /\ pub'[p].marker = m
                  /\ pub'[p].done = pub[p].done /\ pub'[p].owned = pub[p].owned
           /\ \A c \in PubStates, w \in Seq(Objects) :
                pub' = [pub EXCEPT ![p].pc = c, ![p].owned = w] =>
                  /\ pub' \in [Publishers -> PubRecords] /\ OnlyPub(p)
                  /\ pub'[p].pc = c /\ pub'[p].marker = pub[p].marker
                  /\ pub'[p].done = pub[p].done /\ pub'[p].owned = w
           /\ \A c \in PubStates, d \in Nat, w \in Seq(Objects) :
                pub' = [pub EXCEPT ![p].pc = c, ![p].done = d, ![p].owned = w] =>
                  /\ pub' \in [Publishers -> PubRecords] /\ OnlyPub(p)
                  /\ pub'[p].pc = c /\ pub'[p].marker = pub[p].marker
                  /\ pub'[p].done = d /\ pub'[p].owned = w
           /\ \A w \in Seq(Objects) :
                pub' = [pub EXCEPT ![p].owned = w] =>
                  /\ pub' \in [Publishers -> PubRecords] /\ OnlyPub(p)
                  /\ pub'[p].pc = pub[p].pc /\ pub'[p].marker = pub[p].marker
                  /\ pub'[p].done = pub[p].done /\ pub'[p].owned = w
<1>1. pub[p] \in PubRecords
  OBVIOUS
<1>2. /\ pub[p].pc \in PubStates /\ pub[p].marker \in Markers
      /\ pub[p].done \in Nat /\ pub[p].owned \in Seq(Objects)
  BY <1>1 DEF PubRecords
<1>3. ASSUME NEW rec \in PubRecords, pub' = [pub EXCEPT ![p] = rec]
      PROVE  pub' \in [Publishers -> PubRecords] /\ OnlyPub(p) /\ pub'[p] = rec
  BY <1>3, PubReplace
<1>4. ASSUME NEW c \in PubStates,
             pub' = [pub EXCEPT ![p].pc = c]
      PROVE  /\ pub' \in [Publishers -> PubRecords] /\ OnlyPub(p)
             /\ pub'[p].pc = c /\ pub'[p].marker = pub[p].marker
             /\ pub'[p].done = pub[p].done /\ pub'[p].owned = pub[p].owned
  <2> DEFINE rec == [pub[p] EXCEPT !.pc = c]
  <2>1. /\ rec \in PubRecords
        /\ rec.pc = c /\ rec.marker = pub[p].marker /\ rec.done = pub[p].done /\ rec.owned = pub[p].owned
    BY <1>1, <1>2 DEF PubRecords
  <2>2. pub' = [pub EXCEPT ![p] = rec]
    BY <1>4
  <2> HIDE DEF rec
  <2> QED
    BY <1>3, <2>1, <2>2
<1>5. ASSUME NEW c \in PubStates, NEW m \in Markers,
             pub' = [pub EXCEPT ![p].pc = c, ![p].marker = m]
      PROVE  /\ pub' \in [Publishers -> PubRecords] /\ OnlyPub(p)
             /\ pub'[p].pc = c /\ pub'[p].marker = m
             /\ pub'[p].done = pub[p].done /\ pub'[p].owned = pub[p].owned
  <2> DEFINE rec == [pub[p] EXCEPT !.pc = c, !.marker = m]
  <2>1. /\ rec \in PubRecords
        /\ rec.pc = c /\ rec.marker = m /\ rec.done = pub[p].done /\ rec.owned = pub[p].owned
    BY <1>1, <1>2 DEF PubRecords
  <2>2. pub' = [pub EXCEPT ![p] = rec]
    BY <1>5
  <2> HIDE DEF rec
  <2> QED
    BY <1>3, <2>1, <2>2
<1>6. ASSUME NEW c \in PubStates, NEW w \in Seq(Objects),
             pub' = [pub EXCEPT ![p].pc = c, ![p].owned = w]
      PROVE  /\ pub' \in [Publishers -> PubRecords] /\ OnlyPub(p)
             /\ pub'[p].pc = c /\ pub'[p].marker = pub[p].marker
             /\ pub'[p].done = pub[p].done /\ pub'[p].owned = w
  <2> DEFINE rec == [pub[p] EXCEPT !.pc = c, !.owned = w]
  <2>1. /\ rec \in PubRecords
        /\ rec.pc = c /\ rec.marker = pub[p].marker /\ rec.done = pub[p].done /\ rec.owned = w
    BY <1>1, <1>2 DEF PubRecords
  <2>2. pub' = [pub EXCEPT ![p] = rec]
    BY <1>6
  <2> HIDE DEF rec
  <2> QED
    BY <1>3, <2>1, <2>2
<1>7. ASSUME NEW c \in PubStates, NEW d \in Nat, NEW w \in Seq(Objects),
             pub' = [pub EXCEPT ![p].pc = c, ![p].done = d, ![p].owned = w]
      PROVE  /\ pub' \in [Publishers -> PubRecords] /\ OnlyPub(p)
             /\ pub'[p].pc = c /\ pub'[p].marker = pub[p].marker
             /\ pub'[p].done = d /\ pub'[p].owned = w
  <2> DEFINE rec == [pub[p] EXCEPT !.pc = c, !.done = d, !.owned = w]
  <2>1. /\ rec \in PubRecords
        /\ rec.pc = c /\ rec.marker = pub[p].marker /\ rec.done = d /\ rec.owned = w
    BY <1>1, <1>2 DEF PubRecords
  <2>2. pub' = [pub EXCEPT ![p] = rec]
    BY <1>7
  <2> HIDE DEF rec
  <2> QED
    BY <1>3, <2>1, <2>2
<1>8. ASSUME NEW w \in Seq(Objects),
             pub' = [pub EXCEPT ![p].owned = w]
      PROVE  /\ pub' \in [Publishers -> PubRecords] /\ OnlyPub(p)
             /\ pub'[p].pc = pub[p].pc /\ pub'[p].marker = pub[p].marker
             /\ pub'[p].done = pub[p].done /\ pub'[p].owned = w
  <2> DEFINE rec == [pub[p] EXCEPT !.owned = w]
  <2>1. /\ rec \in PubRecords
        /\ rec.pc = pub[p].pc /\ rec.marker = pub[p].marker /\ rec.done = pub[p].done /\ rec.owned = w
    BY <1>1, <1>2 DEF PubRecords
  <2>2. pub' = [pub EXCEPT ![p] = rec]
    BY <1>8
  <2> HIDE DEF rec
  <2> QED
    BY <1>3, <2>1, <2>2
<1> QED
  BY <1>4, <1>5, <1>6, <1>7, <1>8

\* What the list of owned keys becomes, in each mode.
LEMMA OwnsFacts ==
    ASSUME TypeOK, NEW p \in Publishers, NEW key \in Objects, NEW moments \in SUBSET {"before", "created", "verified"}
    PROVE  /\ Owns(p, key, moments) \in Seq(Objects)
           /\ mode = "listed" => Owns(p, key, moments) =
                IF "before" \in moments THEN Append(pub[p].owned, key) ELSE pub[p].owned
           /\ mode = "g8" => Owns(p, key, moments) =
                IF "created" \in moments THEN Append(pub[p].owned, key) ELSE pub[p].owned
           /\ mode = "intent" => Owns(p, key, moments) =
                IF "verified" \in moments THEN Append(pub[p].owned, key) ELSE pub[p].owned
           /\ mode \in {"listed", "g8", "intent"}
<1>1. mode \in {"listed", "g8", "intent"} /\ pub[p].owned \in Seq(Objects)
  BY DEF TypeOK, Modes
<1>2. Append(pub[p].owned, key) \in Seq(Objects)
  BY <1>1, AppendFacts
<1> QED
  BY <1>1, <1>2 DEF Owns

\* Steps before the publication, and the end of the process.
LEMMA BeforePublication ==
    ASSUME StoreInv, NEW p \in Publishers,
           \/ RefuseRequest(p) \/ TakeIntent(p) \/ AccessFinal(p) \/ Execute(p)
           \/ BeginPublication(p) \/ Crash(p)
    PROVE  StoreInv'
<1> USE DEF StoreInv
<1>1. /\ pub[p] \in PubRecords /\ UNCHANGED <<store, mode, everWhole, reader>>
      /\ DOMAIN pub = Publishers
  BY DEF TypeOK, PubRecords, RefuseRequest, TakeIntent, AccessFinal, Execute, BeginPublication, Crash
<1> DEFINE Early == {"preflight", "reserved", "final"}
           Effect == /\ pub' \in [Publishers -> PubRecords] /\ OnlyPub(p)
                     /\ pub'[p].done = pub[p].done /\ pub'[p].owned = pub[p].owned
                     /\ pub'[p].pc \in {"reserved", "final", "put", "failed", "dead"}
                     /\ \/ pub[p].pc \in Early
                        \/ pub'[p].pc = "dead" /\ pub[p].pc \notin {"done", "failed", "dead"}
                     /\ pub'[p].pc = "reserved" => TakeIntent(p)
<1>2. pub \in [Publishers -> PubRecords]
  BY DEF TypeOK, PubRecords
<1>3. ASSUME NEW c \in {"reserved", "final", "put", "failed", "dead"}, NEW m \in Markers,
             \/ pub' = [pub EXCEPT ![p].pc = c]
             \/ pub' = [pub EXCEPT ![p].pc = c, ![p].marker = m]
      PROVE  /\ pub' \in [Publishers -> PubRecords] /\ OnlyPub(p)
             /\ pub'[p].done = pub[p].done /\ pub'[p].owned = pub[p].owned
             /\ pub'[p].pc = c
  <2>1. c \in PubStates
    BY DEF PubStates
  <2>2. CASE pub' = [pub EXCEPT ![p].pc = c]
    BY <1>2, <2>1, <2>2, PubUpdate
  <2>3. CASE pub' = [pub EXCEPT ![p].pc = c, ![p].marker = m]
    BY <1>2, <2>1, <2>3, PubUpdate
  <2> QED
    BY <1>3, <2>2, <2>3
<1>4. Effect
  <2>1. CASE RefuseRequest(p)
    BY <1>3, <2>1 DEF RefuseRequest, Advance, Markers
  <2>2. CASE TakeIntent(p)
    BY <1>3, <2>2 DEF TakeIntent, Advance, Markers
  <2>3. CASE AccessFinal(p)
    BY <1>3, <2>3 DEF AccessFinal, Advance, Markers
  <2>4. CASE Execute(p)
    BY <1>3, <2>4 DEF Execute, Advance, Markers
  <2>5. CASE BeginPublication(p)
    BY <1>3, <2>5 DEF BeginPublication, Advance, Markers
  <2>6. CASE Crash(p)
    BY <1>3, <2>6 DEF Crash, Advance, Markers
  <2> QED
    BY <2>1, <2>2, <2>3, <2>4, <2>5, <2>6
<1>5. PublisherInv' /\ \A q \in Publishers : Settled(q) => Settled(q)'
  <2>1. PublisherInv
    BY DEF PublisherInv
  <2>2. Conditional => /\ IsInjective(pub'[p].owned)
                       /\ \A i \in DOMAIN pub'[p].owned : store[pub'[p].owned[i]] = p
    BY <1>4 DEF OwnedIsMine
  <2> QED
    BY <1>1, <1>4, <2>1, <2>2, QuietStep
<1>6. ReservedOnce' /\ intent' \in Publishers \cup {None} /\ finalReads' \in Nat
  <2>1. CASE TakeIntent(p)
    <3>1. UNCHANGED finalReads /\ pub[p].pc = "preflight"
      BY <2>1 DEF TakeIntent
    <3>2. CASE intent = None /\ intent' = p
      <4>1. \A q \in Publishers : q # p => pub[q].pc # "reserved"
        BY <3>2, UploadFacts DEF ReservedOnce
      <4> QED
        BY <1>4, <3>1, <3>2, <4>1, UploadFacts DEF ReservedOnce, TypeOK, OnlyPub
    <3>3. CASE UNCHANGED intent /\ pub'[p].pc # "reserved"
      BY <1>4, <3>1, <3>3 DEF ReservedOnce, TypeOK, OnlyPub
    <3>4. \/ intent = None /\ intent' = p
          \/ UNCHANGED intent /\ pub' = [pub EXCEPT ![p].pc = "failed"]
      BY <2>1 DEF TakeIntent, Advance
    <3>5. pub' = [pub EXCEPT ![p].pc = "failed"] => pub'[p].pc # "reserved"
      BY <1>3 DEF Markers
    <3> QED
      BY <3>2, <3>3, <3>4, <3>5
  <2>2. CASE AccessFinal(p)
    <3>1. UNCHANGED intent /\ intent = p /\ finalReads = 0 /\ p # None
      BY <2>2, UploadFacts DEF AccessFinal, ReservedOnce
    <3>2. finalReads' \in {0, 1} /\ pub'[p].pc # "reserved"
      <4>1. CASE UNCHANGED finalReads /\ Advance(p, "failed")
        BY <1>3, <3>1, <4>1 DEF Advance, Markers
      <4>2. CASE finalReads' = finalReads + 1 /\ pub' = [pub EXCEPT ![p].pc = "final"]
        BY <1>3, <3>1, <4>2 DEF Markers
      <4> QED
        BY <2>2, <4>1, <4>2 DEF AccessFinal
    <3>3. \A q \in Publishers : pub'[q].pc # "reserved"
      BY <1>4, <3>1, <3>2 DEF ReservedOnce, OnlyPub
    <3> QED
      BY <3>1, <3>2, <3>3 DEF ReservedOnce, TypeOK
  <2>3. CASE ~TakeIntent(p) /\ ~AccessFinal(p)
    <3>1. UNCHANGED <<intent, finalReads>>
      BY <2>3 DEF RefuseRequest, Execute, BeginPublication, Crash
    <3> QED
      BY <1>4, <2>3, <3>1 DEF ReservedOnce, TypeOK, OnlyPub
  <2> QED
    BY <2>1, <2>2, <2>3
<1>7. TypeOK'
  <2>1. \A q \in Publishers : pub'[q].done <= Len(Upload[q]) + 1
    BY <1>4 DEF OnlyPub, TypeOK
  <2> QED
    BY <1>1, <1>4, <1>6, <2>1 DEF TypeOK, PubRecords
<1>8. ReaderInv'
  BY <1>1, <1>5, ReaderFrame DEF ReaderInv
<1> QED
  BY <1>5, <1>6, <1>7, <1>8 DEF PublisherInv, ReaderInv

\* A step of a publication, put together.
LEMMA PublicationStep ==
    ASSUME StoreInv, NEW p \in Publishers, pub' \in [Publishers -> PubRecords], OnlyPub(p),
           UNCHANGED <<intent, mode, reader, finalReads>>,
           store' \in [Objects -> Publishers \cup {None}],
           everWhole \subseteq everWhole', everWhole' \subseteq Publishers,
           pub'[p].done <= Len(Upload[p]) + 1, pub'[p].pc # "reserved",
           PublisherInv', \A q \in Publishers : Settled(q) => Settled(q)',
           \A q \in Publishers, k \in Objects : Settled(q) /\ store[k] # q => store'[k] # q
    PROVE  StoreInv'
<1> USE DEF StoreInv
<1>1. TypeOK'
  <2>1. \A q \in Publishers : pub'[q].done <= Len(Upload[q]) + 1
    BY DEF OnlyPub, TypeOK
  <2> QED
    BY <2>1 DEF TypeOK, PubRecords
<1>2. ReservedOnce'
  BY DEF ReservedOnce, OnlyPub
<1>3. ReaderInv'
  BY ReaderFrame DEF ReaderInv
<1> QED
  BY <1>1, <1>2, <1>3 DEF PublisherInv, ReaderInv

\* What SetStore leaves behind.
LEMMA SetStoreFacts ==
    ASSUME TypeOK, NEW key \in Objects, NEW v \in Publishers \cup {None},
           SetStore([store EXCEPT ![key] = v])
    PROVE  /\ store' \in [Objects -> Publishers \cup {None}]
           /\ everWhole \subseteq everWhole' /\ everWhole' \subseteq Publishers
BY DEF TypeOK, SetStore

LEMMA PutObjectStep ==
    ASSUME StoreInv, NEW p \in Publishers, PutObject(p)
    PROVE  StoreInv'
<1> DEFINE key == NextKey(p)
           early == Owns(p, key, {"before"})
           late == Owns(p, key, {"before", "created"})
<1>1. TypeOK /\ PublisherInv /\ pub \in [Publishers -> PubRecords]
  BY DEF StoreInv, PublisherInv, TypeOK, PubRecords
<1>2. /\ key \in Objects /\ pub[p].done \in Nat /\ pub[p].done <= Len(Upload[p]) + 1
      /\ "verify" \in PubStates /\ "cleanup" \in PubStates
  BY <1>1, NextKeyFacts DEF TypeOK, PubStates
<1>3. /\ early \in Seq(Objects) /\ late \in Seq(Objects)
      /\ Conditional => early = pub[p].owned
      /\ Conditional => late = pub[p].owned \/ (mode # "intent" /\ late = Append(pub[p].owned, key))
  BY <1>1, <1>2, OwnsFacts DEF Conditional
<1>4. pub[p].pc = "put" /\ UNCHANGED <<intent, mode, reader, finalReads>>
  BY DEF PutObject
<1>5. CASE /\ ~Blocked(key)
           /\ SetStore([store EXCEPT ![key] = p])
           /\ pub' = [pub EXCEPT ![p].pc = "verify", ![p].owned = late]
  <2> HIDE DEF late, key
  <2>1. /\ pub' \in [Publishers -> PubRecords] /\ OnlyPub(p)
        /\ pub'[p].pc = "verify" /\ pub'[p].marker = pub[p].marker
        /\ pub'[p].done = pub[p].done /\ pub'[p].owned = late
    <3>1. late \in Seq(Objects)
      BY <1>3
    <3> DEFINE rec == [pub[p] EXCEPT !.pc = "verify", !.owned = late]
    <3>2. pub' = [pub EXCEPT ![p] = rec]
      BY <1>5
    <3>3. /\ rec \in PubRecords /\ rec.pc = "verify" /\ rec.marker = pub[p].marker
          /\ rec.done = pub[p].done /\ rec.owned = late
      BY <1>1, <1>2, <3>1 DEF PubRecords
    <3> HIDE DEF rec
    <3> QED
      BY <1>1, <3>2, <3>3, PubReplace
  <2>2. /\ PublisherInv'
        /\ \A q \in Publishers : Settled(q) => Settled(q)'
        /\ \A q \in Publishers, k \in Objects : Settled(q) /\ store[k] # q => store'[k] # q
    BY <1>1, <1>3, <1>4, <1>5, <2>1, CreateStep DEF key
  <2>3. /\ store' \in [Objects -> Publishers \cup {None}]
        /\ everWhole \subseteq everWhole' /\ everWhole' \subseteq Publishers
    BY <1>1, <1>2, <1>5, SetStoreFacts
  <2> QED
    BY <1>2, <1>4, <2>1, <2>2, <2>3, PublicationStep
<1>6. CASE /\ ~Blocked(key)
           /\ SetStore([store EXCEPT ![key] = p])
           /\ pub' = [pub EXCEPT ![p].pc = "cleanup", ![p].owned = early]
  <2> HIDE DEF early, key
  <2>1. /\ pub' \in [Publishers -> PubRecords] /\ OnlyPub(p)
        /\ pub'[p].pc = "cleanup" /\ pub'[p].marker = pub[p].marker
        /\ pub'[p].done = pub[p].done /\ pub'[p].owned = early
    <3>1. early \in Seq(Objects)
      BY <1>3
    <3> DEFINE rec == [pub[p] EXCEPT !.pc = "cleanup", !.owned = early]
    <3>2. pub' = [pub EXCEPT ![p] = rec]
      BY <1>6
    <3>3. /\ rec \in PubRecords /\ rec.pc = "cleanup" /\ rec.marker = pub[p].marker
          /\ rec.done = pub[p].done /\ rec.owned = early
      BY <1>1, <1>2, <3>1 DEF PubRecords
    <3> HIDE DEF rec
    <3> QED
      BY <1>1, <3>2, <3>3, PubReplace
  <2>2. /\ PublisherInv'
        /\ \A q \in Publishers : Settled(q) => Settled(q)'
        /\ \A q \in Publishers, k \in Objects : Settled(q) /\ store[k] # q => store'[k] # q
    BY <1>1, <1>3, <1>4, <1>6, <2>1, CreateStep DEF key
  <2>3. /\ store' \in [Objects -> Publishers \cup {None}]
        /\ everWhole \subseteq everWhole' /\ everWhole' \subseteq Publishers
    BY <1>1, <1>2, <1>6, SetStoreFacts
  <2> QED
    BY <1>2, <1>4, <2>1, <2>2, <2>3, PublicationStep
<1>7. CASE /\ pub' = [pub EXCEPT ![p].pc = "cleanup", ![p].owned = early]
           /\ UNCHANGED <<store, everWhole>>
  <2> HIDE DEF early, key
  <2>1. /\ pub' \in [Publishers -> PubRecords] /\ OnlyPub(p)
        /\ pub'[p].pc = "cleanup" /\ pub'[p].marker = pub[p].marker
        /\ pub'[p].done = pub[p].done /\ pub'[p].owned = early
    <3>1. early \in Seq(Objects)
      BY <1>3
    <3> DEFINE rec == [pub[p] EXCEPT !.pc = "cleanup", !.owned = early]
    <3>2. pub' = [pub EXCEPT ![p] = rec]
      BY <1>7
    <3>3. /\ rec \in PubRecords /\ rec.pc = "cleanup" /\ rec.marker = pub[p].marker
          /\ rec.done = pub[p].done /\ rec.owned = early
      BY <1>1, <1>2, <3>1 DEF PubRecords
    <3> HIDE DEF rec
    <3> QED
      BY <1>1, <3>2, <3>3, PubReplace
  <2>2. Conditional => /\ IsInjective(pub'[p].owned)
                       /\ \A i \in DOMAIN pub'[p].owned : store[pub'[p].owned[i]] = p
    BY <1>1, <1>3, <2>1 DEF PublisherInv, OwnedIsMine
  <2>3. PublisherInv' /\ \A q \in Publishers : Settled(q) => Settled(q)'
    BY <1>1, <1>4, <1>7, <2>1, <2>2, QuietStep
  <2> QED
    BY <1>1, <1>2, <1>4, <1>7, <2>1, <2>3, PublicationStep DEF TypeOK
<1> QED
  BY <1>5, <1>6, <1>7 DEF PutObject

LEMMA VerifyObjectStep ==
    ASSUME StoreInv, NEW p \in Publishers, VerifyObject(p)
    PROVE  StoreInv'
<1> DEFINE key == NextKey(p)
           kept == Owns(p, key, {"verified"})
           next == IF key \in Markers THEN "done" ELSE "put"
           count == pub[p].done + 1
<1>1. TypeOK /\ PublisherInv /\ pub \in [Publishers -> PubRecords]
  BY DEF StoreInv, PublisherInv, TypeOK, PubRecords
<1>2. /\ key \in Objects /\ pub[p].done \in Nat /\ count \in Nat
      /\ next \in PubStates /\ "cleanup" \in PubStates
  BY <1>1, NextKeyFacts DEF TypeOK, PubStates
<1>3. /\ kept \in Seq(Objects)
      /\ kept = IF mode = "intent" THEN Append(pub[p].owned, key) ELSE pub[p].owned
  BY <1>1, <1>2, OwnsFacts
<1>4. pub[p].pc = "verify" /\ UNCHANGED <<store, intent, mode, reader, everWhole, finalReads>>
  BY DEF VerifyObject
<1>5. pub[p].done <= Len(Upload[p]) /\ Len(Upload[p]) \in Nat
  BY <1>1, <1>4, UploadFacts DEF PublisherInv, Progress
<1>6. /\ store' \in [Objects -> Publishers \cup {None}]
      /\ everWhole \subseteq everWhole' /\ everWhole' \subseteq Publishers
      /\ \A q \in Publishers, k \in Objects : Settled(q) /\ store[k] # q => store'[k] # q
  BY <1>1, <1>4 DEF TypeOK
<1>7. CASE /\ store[key] = p
           /\ pub' = [pub EXCEPT ![p].pc = next, ![p].done = count, ![p].owned = kept]
  <2>1. /\ pub' \in [Publishers -> PubRecords] /\ OnlyPub(p)
        /\ pub'[p].pc = next /\ pub'[p].marker = pub[p].marker
        /\ pub'[p].done = count /\ pub'[p].owned = kept
    <3>1. kept \in Seq(Objects) /\ next \in PubStates /\ count \in Nat
      BY <1>2, <1>3
    <3> DEFINE rec == [pub[p] EXCEPT !.pc = next, !.done = count, !.owned = kept]
    <3>2. pub' = [pub EXCEPT ![p] = rec]
      BY <1>7
    <3> HIDE DEF kept, key, next, count
    <3>3. /\ rec \in PubRecords /\ rec.pc = next /\ rec.marker = pub[p].marker
          /\ rec.done = count /\ rec.owned = kept
      BY <1>1, <3>1 DEF PubRecords
    <3> HIDE DEF rec
    <3> QED
      BY <1>1, <3>2, <3>3, PubReplace
  <2>2. PublisherInv' /\ \A q \in Publishers : Settled(q) => Settled(q)'
    <3> HIDE DEF kept
    <3> QED
      BY <1>1, <1>3, <1>4, <1>7, <2>1, ConfirmStep
  <2>3. pub'[p].done <= Len(Upload[p]) + 1 /\ pub'[p].pc # "reserved"
    BY <1>2, <1>5, <2>1
  <2> QED
    BY <1>4, <1>6, <2>1, <2>2, <2>3, PublicationStep
<1>8. CASE pub' = [pub EXCEPT ![p].pc = "cleanup"]
  <2>1. /\ pub' \in [Publishers -> PubRecords] /\ OnlyPub(p)
        /\ pub'[p].pc = "cleanup" /\ pub'[p].marker = pub[p].marker
        /\ pub'[p].done = pub[p].done /\ pub'[p].owned = pub[p].owned
    BY <1>1, <1>2, <1>8, PubUpdate
  <2>2. Conditional => /\ IsInjective(pub'[p].owned)
                       /\ \A i \in DOMAIN pub'[p].owned : store[pub'[p].owned[i]] = p
    BY <1>1, <2>1 DEF PublisherInv, OwnedIsMine
  <2>3. PublisherInv' /\ \A q \in Publishers : Settled(q) => Settled(q)'
    BY <1>1, <1>4, <2>1, <2>2, QuietStep
  <2>4. pub'[p].done <= Len(Upload[p]) + 1 /\ pub'[p].pc # "reserved"
    BY <1>2, <1>5, <2>1
  <2> QED
    BY <1>4, <1>6, <2>1, <2>3, <2>4, PublicationStep
<1> QED
  BY <1>7, <1>8 DEF VerifyObject, Advance

LEMMA CleanupStep ==
    ASSUME StoreInv, NEW p \in Publishers, Cleanup(p)
    PROVE  StoreInv'
<1> DEFINE rest == Tail(pub[p].owned)
<1>1. TypeOK /\ PublisherInv /\ pub \in [Publishers -> PubRecords]
  BY DEF StoreInv, PublisherInv, TypeOK, PubRecords
<1>2. /\ pub[p].done <= Len(Upload[p]) + 1 /\ pub[p].owned \in Seq(Objects)
      /\ "failed" \in PubStates /\ "cleanup" \in PubStates
  BY <1>1 DEF TypeOK, PubStates
<1>3. pub[p].pc = "cleanup" /\ UNCHANGED <<intent, mode, reader, finalReads>>
  BY DEF Cleanup
<1>4. Conditional => IsInjective(pub[p].owned) /\ \A k \in Range(pub[p].owned) : store[k] = p
  BY <1>1 DEF PublisherInv, OwnedIsMine, Range
<1>5. ASSUME pub[p].owned # <<>>
      PROVE  /\ rest \in Seq(Objects) /\ Head(pub[p].owned) \in Objects
             /\ Range(rest) \subseteq Range(pub[p].owned)
             /\ IsInjective(pub[p].owned) => IsInjective(rest)
  BY <1>2, <1>5, TailFacts, TailRange
<1>6. CASE UNCHANGED <<store, everWhole>> /\ pub' = [pub EXCEPT ![p].pc = "failed"]
  <2>1. /\ pub' \in [Publishers -> PubRecords] /\ OnlyPub(p)
        /\ pub'[p].pc = "failed" /\ pub'[p].marker = pub[p].marker
        /\ pub'[p].done = pub[p].done /\ pub'[p].owned = pub[p].owned
    BY <1>1, <1>2, <1>6, PubUpdate
  <2>2. Conditional => /\ IsInjective(pub'[p].owned)
                       /\ \A i \in DOMAIN pub'[p].owned : store[pub'[p].owned[i]] = p
    BY <1>1, <2>1 DEF PublisherInv, OwnedIsMine
  <2>3. PublisherInv' /\ \A q \in Publishers : Settled(q) => Settled(q)'
    BY <1>1, <1>3, <1>6, <2>1, <2>2, QuietStep
  <2> QED
    BY <1>1, <1>2, <1>3, <1>6, <2>1, <2>3, PublicationStep DEF TypeOK
<1>7. CASE /\ pub[p].owned # <<>> /\ UNCHANGED <<store, everWhole>>
           /\ pub' = [pub EXCEPT ![p].owned = rest]
  <2> HIDE DEF rest
  <2>1. /\ pub' \in [Publishers -> PubRecords] /\ OnlyPub(p)
        /\ pub'[p].pc = "cleanup" /\ pub'[p].marker = pub[p].marker
        /\ pub'[p].done = pub[p].done /\ pub'[p].owned = rest
    BY <1>1, <1>3, <1>5, <1>7, PubUpdate
  <2>2. Conditional => /\ IsInjective(pub'[p].owned)
                       /\ \A i \in DOMAIN pub'[p].owned : store[pub'[p].owned[i]] = p
    <3>1. \A i \in DOMAIN rest : rest[i] \in Range(rest)
      BY DEF Range
    <3> QED
      BY <1>4, <1>5, <1>7, <2>1, <3>1
  <2>3. PublisherInv' /\ \A q \in Publishers : Settled(q) => Settled(q)'
    BY <1>1, <1>3, <1>7, <2>1, <2>2, QuietStep
  <2> QED
    BY <1>1, <1>2, <1>3, <1>7, <2>1, <2>3, PublicationStep DEF TypeOK
<1>8. CASE /\ pub[p].owned # <<>>
           /\ SetStore([store EXCEPT ![Head(pub[p].owned)] = None])
           /\ pub' = [pub EXCEPT ![p].owned = rest]
  <2>1. /\ pub' \in [Publishers -> PubRecords] /\ OnlyPub(p)
        /\ pub'[p].pc = "cleanup" /\ pub'[p].marker = pub[p].marker
        /\ pub'[p].done = pub[p].done /\ pub'[p].owned = rest
    <3> HIDE DEF rest
    <3> QED
      BY <1>1, <1>3, <1>5, <1>8, PubUpdate
  <2>2. /\ PublisherInv'
        /\ \A q \in Publishers : Settled(q) => Settled(q)'
        /\ \A q \in Publishers, k \in Objects : Settled(q) /\ store[k] # q => store'[k] # q
    BY <1>1, <1>3, <1>8, <2>1, DeleteStep
  <2>3. /\ store' \in [Objects -> Publishers \cup {None}]
        /\ everWhole \subseteq everWhole' /\ everWhole' \subseteq Publishers
    BY <1>1, <1>5, <1>8, SetStoreFacts
  <2> QED
    BY <1>2, <1>3, <2>1, <2>2, <2>3, PublicationStep
<1> QED
  BY <1>6, <1>7, <1>8 DEF Cleanup, Advance

-------------------------------------------------------------------------------
(***************************************************************************)
(* The steps of readers.  A reader changes its own record only.            *)
(***************************************************************************)
LEMMA ReaderReplace ==
    ASSUME StoreInv, NEW r \in Readers, NEW rec \in ReaderRecords, ReaderStep(r, rec),
           rec.pc = "marker" => rec.kind # "download",
           rec.pc = "members" =>
             /\ rec.todo # <<>> /\ rec.kind # "download"
             /\ rec.kind = "inspect" =>
                 /\ rec.release \in Publishers /\ Settled(rec.release)
                 /\ \/ rec.release \in everWhole
                    \/ \E i \in DOMAIN rec.todo : store[rec.todo[i]] # rec.release,
           rec.pc = "sync" =>
             /\ rec.todo # <<>> /\ rec.kind = "download"
             /\ Conditional /\ "SUCCESS" \in rec.keys \ Range(rec.todo) => rec.release \in everWhole,
           rec.pc = "accepted" /\ (rec.kind = "inspect" \/ (rec.kind = "download" /\ Conditional)) =>
             rec.release \in everWhole
    PROVE  StoreInv'
<1> USE DEF StoreInv
<1>1. UNCHANGED <<store, intent, mode, pub, everWhole, finalReads>>
  BY DEF ReaderStep
<1>2. reader \in [Readers -> ReaderRecords]
  BY DEF TypeOK, ReaderRecords
<1>3. /\ reader' \in [Readers -> ReaderRecords] /\ reader'[r] = rec
      /\ \A s \in Readers : s # r => reader'[s] = reader[s]
  BY <1>2 DEF ReaderStep
<1>4. TypeOK'
  BY <1>1, <1>3 DEF TypeOK, ReaderRecords
<1>5. Progress' /\ ReservedOnce'
  BY <1>1 DEF Progress, ReservedOnce
<1>6. Conditional' = Conditional /\ \A p \in Publishers : NextKey(p)' = NextKey(p) /\ Settled(p)' = Settled(p)
  BY <1>1 DEF Conditional, NextKey, Settled
<1>7. MarkerLast' /\ WholeIsKnown' /\ MarkerMeansWhole' /\ PublishedReleaseIsFinal'
  BY <1>1, <1>6 DEF MarkerLast, WholeIsKnown, MarkerMeansWhole, PublishedReleaseIsFinal, Whole
<1>8. PutStays' /\ OwnedIsMine' /\ NotYetOwned'
  BY <1>1, <1>6 DEF PutStays, OwnedIsMine, NotYetOwned
<1>9. KindOfState'
  BY <1>3 DEF KindOfState
<1>10. InspectionPending'
  <2> SUFFICES ASSUME NEW s \in Readers, reader'[s].pc = "members"
               PROVE  (/\ reader[s].todo # <<>>
                       /\ reader[s].kind # "download"
                       /\ reader[s].kind = "inspect" =>
                           /\ reader[s].release \in Publishers
                           /\ Settled(reader[s].release)
                           /\ \/ reader[s].release \in everWhole
                              \/ \E i \in DOMAIN reader[s].todo :
                                   store[reader[s].todo[i]] # reader[s].release)'
    BY DEF InspectionPending
  <2>1. CASE s = r
    BY <1>1, <1>3, <2>1 DEF Settled
  <2>2. CASE s # r
    BY <1>1, <1>3, <2>2 DEF InspectionPending, Settled
  <2> QED
    BY <2>1, <2>2
<1>11. CopyPending'
  <2> SUFFICES ASSUME NEW s \in Readers, reader'[s].pc = "sync"
               PROVE  /\ reader'[s].todo # <<>>
                      /\ reader'[s].kind = "download"
                      /\ Conditional /\ "SUCCESS" \in reader'[s].keys \ Range(reader'[s].todo) =>
                             reader'[s].release \in everWhole
    BY <1>1, <1>6 DEF CopyPending
  <2>1. CASE s = r
    BY <1>3, <2>1
  <2>2. CASE s # r
    BY <1>3, <2>2 DEF CopyPending
  <2> QED
    BY <2>1, <2>2
<1>12. AcceptedReleaseWasWhole'
  BY <1>1, <1>3, <1>6 DEF AcceptedReleaseWasWhole
<1> QED
  BY <1>4, <1>5, <1>7, <1>8, <1>9, <1>10, <1>11, <1>12

LEMMA ListPrefixStep ==
    ASSUME StoreInv, NEW r \in Readers, ListPrefix(r)
    PROVE  StoreInv'
<1> DEFINE listed == Keys(store)
           todo == IF reader[r].kind = "download" THEN SetToSeq(listed) ELSE <<>>
           pc == IF listed = {} THEN "absent"
                 ELSE IF reader[r].kind = "download" THEN "sync" ELSE "marker"
           rec == [reader[r] EXCEPT !.keys = listed, !.todo = todo, !.pc = pc]
<1>1. reader[r] \in ReaderRecords
  BY DEF StoreInv, TypeOK, ReaderRecords
<1>2. listed \subseteq Objects /\ IsFiniteSet(listed)
  <2>1. IsFiniteSet(Markers)
    <3>1. IsFiniteSet({} \cup {"SUCCESS"})
      BY FS_AddElement, FS_EmptySet
    <3>2. IsFiniteSet(({} \cup {"SUCCESS"}) \cup {"FAILED"})
      BY <3>1, FS_AddElement
    <3>3. Markers = ({} \cup {"SUCCESS"}) \cup {"FAILED"}
      BY DEF Markers
    <3> QED
      BY <3>2, <3>3
  <2>2. IsFiniteSet(Objects)
    BY <2>1, ConstantsAssumption, FS_Union DEF Objects
  <2>3. listed \subseteq Objects
    BY DEF Keys
  <2> QED
    BY <2>2, <2>3, FS_Subset
<1>3. ReaderStep(r, rec)
  BY DEF ListPrefix
<1> DEFINE enum == SetToSeq(listed)
<1> HIDE DEF listed
<1>4. enum \in Seq(listed) /\ Range(enum) = listed
  BY <1>2, EnumerationCovers
<1> HIDE DEF enum
<1>5. enum \in Seq(Objects)
  BY <1>2, <1>4, SeqMonotonic
<1>6. todo \in Seq(Objects) /\ pc \in ReaderStates
  BY <1>5 DEF enum, ReaderStates
<1>7. pc = "sync" => reader[r].kind = "download" /\ todo # <<>> /\ Range(todo) = listed
  <2>1. Range(<<>>) = {}
    BY DEF Range
  <2>2. reader[r].kind = "download" => todo = enum
    BY DEF enum
  <2> HIDE DEF todo
  <2> QED
    BY <1>4, <2>1, <2>2
<1>8. pc = "marker" => reader[r].kind # "download"
  OBVIOUS
<1>9. pc \in {"absent", "sync", "marker"}
  OBVIOUS
<1> HIDE DEF todo, pc
<1>10. /\ rec \in ReaderRecords /\ rec.pc = pc /\ rec.todo = todo /\ rec.keys = listed
       /\ rec.kind = reader[r].kind
  BY <1>1, <1>2, <1>6 DEF ReaderRecords
<1> HIDE DEF rec
<1> QED
  BY <1>3, <1>7, <1>8, <1>9, <1>10, ReaderReplace

\* A reader that gives up.
LEMMA RejectStep ==
    ASSUME StoreInv, NEW r \in Readers, ReaderStep(r, [reader[r] EXCEPT !.pc = "rejected"])
    PROVE  StoreInv'
<1> DEFINE rec == [reader[r] EXCEPT !.pc = "rejected"]
<1>1. reader[r] \in ReaderRecords
  BY DEF StoreInv, TypeOK, ReaderRecords
<1>2. rec \in ReaderRecords /\ rec.pc = "rejected"
  BY <1>1 DEF ReaderRecords, ReaderStates
<1>3. ReaderStep(r, rec)
  OBVIOUS
<1> HIDE DEF rec
<1> QED
  BY <1>2, <1>3, ReaderReplace

LEMMA ReadMarkerStep ==
    ASSUME StoreInv, NEW r \in Readers, ReadMarker(r)
    PROVE  StoreInv'
<1> DEFINE p == store["SUCCESS"]
           todo == IF reader[r].kind = "inspect" THEN InspectChecks(p) ELSE SelectChecks(p)
           rec == [reader[r] EXCEPT !.pc = "members", !.release = p, !.todo = todo]
<1>1. reader[r] \in ReaderRecords /\ p \in Publishers \cup {None}
  BY DEF StoreInv, TypeOK, ReaderRecords, Objects, Markers
<1>2. CASE p # None /\ reader[r].keys = FilesOf(p) \cup {"SUCCESS"}
  <2>1. ReaderStep(r, rec) /\ p \in Publishers
    BY <1>1, <1>2 DEF ReadMarker
  <2>2. reader[r].kind # "download"
    BY DEF ReadMarker, StoreInv, KindOfState
  <2>3. Settled(p)
    BY <2>1 DEF StoreInv, MarkerLast, Markers
  <2>4. SelectChecks(p) \in Seq(Objects) /\ SelectChecks(p) # <<>>
    BY ConstantsAssumption DEF SelectChecks, Objects
  <2>5. InspectChecks(p) \in Seq(Objects) /\ InspectChecks(p) # <<>>
    BY <2>1, InspectionCovers
  <2>6. todo \in Seq(Objects) /\ todo # <<>>
    BY <2>4, <2>5
  <2>7. p \in everWhole \/ \E i \in DOMAIN InspectChecks(p) : store[InspectChecks(p)[i]] # p
    <3>1. CASE Whole(store, p, "SUCCESS")
      BY <2>1, <3>1 DEF StoreInv, WholeIsKnown, Markers
    <3>2. CASE \E f \in FilesOf(p) : store[f] # p
      BY <2>1, <3>2, InspectionCovers
    <3> QED
      BY <3>1, <3>2 DEF Whole
  <2>8. reader[r].kind = "inspect" => todo = InspectChecks(p)
    OBVIOUS
  <2> HIDE DEF todo, p
  <2>9. /\ rec \in ReaderRecords /\ rec.pc = "members" /\ rec.todo = todo /\ rec.release = p
        /\ rec.kind = reader[r].kind
    BY <1>1, <2>6 DEF ReaderRecords, ReaderStates
  <2> HIDE DEF rec
  <2>10. rec.kind = "inspect" => rec.todo = InspectChecks(p)
    BY <2>8, <2>9
  <2> QED
    BY <2>1, <2>2, <2>3, <2>6, <2>7, <2>9, <2>10, ReaderReplace
<1>3. CASE ~(p # None /\ reader[r].keys = FilesOf(p) \cup {"SUCCESS"})
  BY <1>3, RejectStep DEF ReadMarker
<1> QED
  BY <1>2, <1>3

LEMMA ReadMemberStep ==
    ASSUME StoreInv, NEW r \in Readers, ReadMember(r)
    PROVE  StoreInv'
<1> DEFINE todo == reader[r].todo
           rest == Tail(todo)
           pc == IF Len(todo) = 1 THEN "accepted" ELSE "members"
           rec == [reader[r] EXCEPT !.todo = rest, !.pc = pc]
<1>1. reader[r] \in ReaderRecords /\ todo \in Seq(Objects)
  BY DEF StoreInv, TypeOK, ReaderRecords
<1>2. /\ todo # <<>> /\ reader[r].kind # "download"
      /\ reader[r].kind = "inspect" =>
            /\ reader[r].release \in Publishers /\ Settled(reader[r].release)
            /\ \/ reader[r].release \in everWhole
               \/ \E i \in DOMAIN todo : store[todo[i]] # reader[r].release
  BY DEF ReadMember, StoreInv, InspectionPending
<1>3. CASE store[Head(todo)] # reader[r].release
  BY <1>3, RejectStep DEF ReadMember
<1>4. CASE store[Head(todo)] = reader[r].release
  <2>1. ReaderStep(r, rec)
    BY <1>4 DEF ReadMember
  <2> HIDE DEF todo
  <2>2. /\ rest \in Seq(Objects)
        /\ \A i \in DOMAIN todo : i = 1 \/ (i - 1 \in DOMAIN rest /\ rest[i - 1] = todo[i])
        /\ Len(todo) = 1 <=> rest = <<>>
        /\ todo[1] = Head(todo)
    BY <1>1, <1>2, TailFacts
  <2> HIDE DEF rest
  <2>3. /\ pc \in {"accepted", "members"}
        /\ pc = "members" => rest # <<>>
        /\ pc = "accepted" => rest = <<>>
    BY <2>2
  <2> HIDE DEF pc
  <2>4. /\ rec \in ReaderRecords /\ rec.pc = pc /\ rec.todo = rest
        /\ rec.release = reader[r].release /\ rec.kind = reader[r].kind
    BY <1>1, <2>2, <2>3 DEF ReaderRecords, ReaderStates
  <2>5. reader[r].kind = "inspect" =>
            \/ reader[r].release \in everWhole
            \/ \E i \in DOMAIN rest : store[rest[i]] # reader[r].release
    BY <1>2, <1>4, <2>2
  <2>6. DOMAIN <<>> = {}
    OBVIOUS
  <2>7. pc = "accepted" /\ reader[r].kind = "inspect" => reader[r].release \in everWhole
    BY <2>3, <2>5, <2>6
  <2> HIDE DEF rec
  <2>8. rec.pc # "marker" /\ rec.pc # "sync"
    BY <2>3, <2>4
  <2> QED
    BY <1>2, <2>1, <2>3, <2>4, <2>5, <2>7, <2>8, ReaderReplace
<1> QED
  BY <1>3, <1>4

LEMMA SyncObjectStep ==
    ASSUME StoreInv, NEW r \in Readers, SyncObject(r)
    PROVE  StoreInv'
<1> DEFINE todo == reader[r].todo
           key == Head(todo)
           p == store[key]
           rest == Tail(todo)
           pc == IF Len(todo) > 1 THEN "sync"
                 ELSE IF reader[r].keys = FilesOf(p) \cup {"SUCCESS"} THEN "accepted" ELSE "rejected"
           rec == [reader[r] EXCEPT !.release = p, !.todo = rest, !.pc = pc]
<1>1. reader[r] \in ReaderRecords /\ todo \in Seq(Objects)
  BY DEF StoreInv, TypeOK, ReaderRecords
<1>2. /\ todo # <<>> /\ reader[r].kind = "download"
      /\ Conditional /\ "SUCCESS" \in reader[r].keys \ Range(todo) => reader[r].release \in everWhole
  BY DEF SyncObject, StoreInv, CopyPending
<1>3. CASE p = None \/ key = "FAILED" \/ (reader[r].release \notin {None, p})
  BY <1>3, RejectStep DEF SyncObject
<1>4. CASE ~(p = None \/ key = "FAILED" \/ (reader[r].release \notin {None, p}))
  <2>1. ReaderStep(r, rec) /\ reader[r].release \in {None, p}
    BY <1>4 DEF SyncObject
  <2> HIDE DEF todo
  <2>2. /\ rest \in Seq(Objects) /\ key \in Objects /\ Len(todo) \in Nat \ {0}
        /\ Len(todo) = 1 <=> rest = <<>>
        /\ Range(todo) = {key} \cup Range(rest)
    BY <1>1, <1>2, TailFacts, TailRange
  <2> HIDE DEF rest, key
  <2>3. p \in Publishers
    BY <1>4, <2>2 DEF StoreInv, TypeOK
  <2>4. None \notin everWhole
    BY ConstantsAssumption DEF StoreInv, TypeOK
  <2>5. Conditional /\ "SUCCESS" \in reader[r].keys \ Range(rest) => p \in everWhole
    <3>1. CASE key = "SUCCESS"
      BY <2>3, <3>1 DEF StoreInv, MarkerMeansWhole, Markers
    <3>2. CASE key # "SUCCESS"
      BY <1>2, <2>1, <2>2, <2>4, <3>2
    <3> QED
      BY <3>1, <3>2
  <2> HIDE DEF p
  <2>6. /\ pc \in {"accepted", "sync", "rejected"}
        /\ pc = "sync" => rest # <<>>
        /\ pc = "accepted" => rest = <<>> /\ "SUCCESS" \in reader[r].keys
    <3> DEFINE n == Len(todo)
               end == rest = <<>>
    <3>a. n \in Nat \ {0} /\ (n = 1 <=> end)
      BY <2>2
    <3>b. (n > 1 \/ (n = 1 /\ end)) /\ (n > 1 => ~end)
      <4> HIDE DEF n, end
      <4> QED
        BY <3>a
    <3>1. Len(todo) > 1 \/ (Len(todo) = 1 /\ rest = <<>>)
      BY <3>b
    <3>2. CASE Len(todo) > 1
      <4>1. pc = "sync" /\ rest # <<>>
        BY <3>b, <3>2
      <4> QED
        BY <4>1
    <3>3. CASE Len(todo) = 1 /\ rest = <<>>
      BY <3>3
    <3> QED
      BY <3>1, <3>2, <3>3
  <2>7. Range(<<>>) = {}
    BY DEF Range
  <2>8. pc = "accepted" /\ Conditional => p \in everWhole
    BY <2>5, <2>6, <2>7
  <2> HIDE DEF pc
  <2>9. /\ rec \in ReaderRecords /\ rec.pc = pc /\ rec.todo = rest /\ rec.release = p
        /\ rec.keys = reader[r].keys /\ rec.kind = reader[r].kind
    BY <1>1, <2>2, <2>3, <2>6 DEF ReaderRecords, ReaderStates
  <2> HIDE DEF rec
  <2>10. rec.pc # "marker" /\ rec.pc # "members"
    BY <2>6, <2>9
  <2> QED
    BY <1>2, <2>1, <2>5, <2>6, <2>8, <2>9, <2>10, ReaderReplace
<1> QED
  BY <1>3, <1>4

-------------------------------------------------------------------------------
(***************************************************************************)
(* The theorems.                                                           *)
(***************************************************************************)
LEMMA InitInv == Init => StoreInv
<1> SUFFICES ASSUME Init PROVE StoreInv
  OBVIOUS
<1>1. /\ \A k \in Objects : store[k] = None
      /\ \A p \in Publishers : /\ pub[p] = [pc |-> "preflight", marker |-> "SUCCESS", done |-> 0, owned |-> <<>>]
                               /\ p # None
      /\ \A r \in Readers : reader[r].pc = "idle"
      /\ Markers \subseteq Objects
  BY UploadFacts DEF Init, Objects
<1>2. TypeOK
  <2>1. <<>> \in Seq(Objects)
    BY EmptySeq
  <2>2. store \in [Objects -> Publishers \cup {None}] /\ mode \in Modes
    BY ConstantsAssumption DEF Init
  <2>3. pub \in [Publishers -> [pc : PubStates, marker : Markers, done : Nat, owned : Seq(Objects)]]
    BY <2>1 DEF Init, PubStates, Markers
  <2>4. reader \in [Readers -> [kind : Kinds, pc : ReaderStates, keys : SUBSET Objects,
                                release : Publishers \cup {None}, todo : Seq(Objects)]]
    <3> DEFINE start(k) == [kind |-> k, pc |-> "idle", keys |-> {}, release |-> None, todo |-> <<>>]
    <3>1. \A k \in Kinds : start(k) \in ReaderRecords
      BY <2>1 DEF ReaderRecords, ReaderStates
    <3>2. reader \in [Readers -> {start(k) : k \in Kinds}]
      BY DEF Init
    <3> HIDE DEF start
    <3> QED
      BY <3>1, <3>2 DEF ReaderRecords
  <2>5. \A p \in Publishers : pub[p].done <= Len(Upload[p]) + 1
    BY <1>1, UploadFacts
  <2> QED
    BY <2>2, <2>3, <2>4, <2>5 DEF TypeOK, Init
<1>3. \A p \in Publishers : /\ pub[p].pc = "preflight" /\ pub[p].done = 0 /\ pub[p].owned = <<>>
                            /\ \A k \in Objects : store[k] # p
  BY <1>1
<1>4. Progress /\ MarkerLast /\ PutStays /\ NotYetOwned /\ MarkerMeansWhole /\ PublishedReleaseIsFinal
  BY <1>1, <1>3 DEF Progress, MarkerLast, PutStays, NotYetOwned, MarkerMeansWhole, PublishedReleaseIsFinal
<1>5. WholeIsKnown
  BY <1>1, <1>3 DEF WholeIsKnown, Whole
<1>6. OwnedIsMine
  BY <1>3 DEF OwnedIsMine, IsInjective
<1>7. ReservedOnce
  BY <1>3 DEF ReservedOnce, Init
<1>8. KindOfState /\ InspectionPending /\ CopyPending /\ AcceptedReleaseWasWhole
  BY <1>1 DEF KindOfState, InspectionPending, CopyPending, AcceptedReleaseWasWhole
<1> QED
  BY <1>2, <1>4, <1>5, <1>6, <1>7, <1>8 DEF StoreInv

LEMMA NextInv == StoreInv /\ [Next]_vars => StoreInv'
<1> SUFFICES ASSUME StoreInv, [Next]_vars PROVE StoreInv'
  OBVIOUS
<1>1. CASE UNCHANGED vars
  BY <1>1 DEF vars, StoreInv, TypeOK, Progress, MarkerLast, WholeIsKnown, PutStays, OwnedIsMine,
              NotYetOwned, MarkerMeansWhole, PublishedReleaseIsFinal, ReservedOnce, KindOfState,
              InspectionPending, CopyPending, AcceptedReleaseWasWhole, Settled, Whole, Conditional,
              NextKey
<1>2. ASSUME NEW p \in Publishers, Publish(p) PROVE StoreInv'
  BY <1>2, BeforePublication, PutObjectStep, VerifyObjectStep, CleanupStep DEF Publish
<1>3. ASSUME NEW r \in Readers, Read(r) PROVE StoreInv'
  BY <1>3, ListPrefixStep, ReadMarkerStep, ReadMemberStep, SyncObjectStep DEF Read
<1> QED
  BY <1>1, <1>2, <1>3 DEF Next, Finished

\* The invariant of the release prefix holds in every reachable state, for every
\* number of publishers and readers and every inventory.
THEOREM StoreInvariant == Spec => []StoreInv
BY InitInv, NextInv, PTL DEF Spec

\* What was conditionally published stays whole, what a reader accepted was
\* whole once, and the sealed release is downloaded at most once
\* (_publish_s3_directory, download_s3_release, run_lightgbm_g8.py).
THEOREM ReleaseSound == Spec => []ReleaseIsSound
<1>1. StoreInv => ReleaseIsSound
  BY DEF StoreInv, ReleaseIsSound, FinalAccessedAtMostOnce, ReservedOnce
<1> QED
  BY <1>1, StoreInvariant, PTL

-------------------------------------------------------------------------------
(***************************************************************************)
(* The prefix implements ReleasePrefix.                                    *)
(***************************************************************************)
\* At most one release is whole: two would share the checksum object.
OneVisible ==
    /\ \A p, q \in Holder : p = q
    /\ Holder \subseteq Publishers
    /\ Holder = {} =>
         /\ VisibleRelease = None
         /\ PrefixPhase = IF Keys(store) = {} THEN "empty" ELSE "partial"
    /\ Holder # {} =>
         /\ VisibleRelease \in Holder
         /\ PrefixPhase = IF pub[VisibleRelease].pc = "done" THEN "final" ELSE "visible"

LEMMA VisibleFacts == TypeOK => OneVisible
<1> SUFFICES ASSUME TypeOK PROVE OneVisible
  OBVIOUS
<1>1. \A p \in Holder : p \in Publishers /\ store[Checksums] = p /\ p # None
  BY UploadFacts DEF Holder, Whole
<1>2. Checksums \in Objects
  BY ConstantsAssumption DEF Objects
<1>3. Holder # {} => Keys(store) # {}
  BY <1>1, <1>2 DEF Keys
<1>4. Holder # {} => VisibleRelease \in Holder
  BY DEF VisibleRelease
<1>5. Holder = {} => VisibleRelease = None
  BY DEF VisibleRelease
<1> QED
  BY <1>1, <1>3, <1>4, <1>5 DEF OneVisible, PrefixPhase

\* The entry point is fixed.
LEMMA ModeFixed == [Next]_vars => UNCHANGED mode
BY DEF Next, vars, Publish, Read, RefuseRequest, TakeIntent, AccessFinal, Execute, BeginPublication,
       PutObject, VerifyObject, Cleanup, Crash, ListPrefix, ReadMarker, ReadMember, SyncObject,
       ReaderStep, Finished

\* A step that neither touches the store nor ends a publication is invisible.
LEMMA InvisibleStep ==
    ASSUME UNCHANGED <<store, mode>>,
           \A q \in Publishers : pub'[q].pc = "done" <=> pub[q].pc = "done"
    PROVE  UNCHANGED <<PrefixPhase, VisibleRelease, Conditional>>
<1>1. Holder' = Holder /\ Keys(store)' = Keys(store) /\ Conditional' = Conditional
  BY DEF Holder, Whole, Keys, Conditional
<1>2. VisibleRelease' = VisibleRelease
  BY <1>1 DEF VisibleRelease
<1>3. Holder # {} => VisibleRelease \in Publishers
  BY DEF Holder, VisibleRelease
<1>4. PrefixPhase' = PrefixPhase
  BY <1>1, <1>2, <1>3 DEF PrefixPhase
<1> QED
  BY <1>1, <1>2, <1>4

\* The same release before and after: nothing visible happens.
LEMMA SameHolder ==
    ASSUME TypeOK, TypeOK', UNCHANGED mode, NEW q \in Holder, q \in Holder',
           pub'[q].pc = "done" <=> pub[q].pc = "done"
    PROVE  UNCHANGED <<PrefixPhase, VisibleRelease, Conditional>>
<1>1. OneVisible'
  BY VisibleFacts, PTL
<1>2. VisibleRelease = q /\ PrefixPhase = IF pub[q].pc = "done" THEN "final" ELSE "visible"
  BY VisibleFacts DEF OneVisible
<1>3. VisibleRelease' = q /\ PrefixPhase' = IF pub'[q].pc = "done" THEN "final" ELSE "visible"
  BY <1>1 DEF OneVisible
<1> QED
  BY <1>2, <1>3 DEF Conditional

\* A conditional put of p: nothing visible, or its release becomes visible.
LEMMA PutRefines ==
    ASSUME TypeOK, TypeOK', Conditional, UNCHANGED mode, NEW p \in Publishers, OnlyPub(p),
           pub[p].pc = "put", pub'[p].pc \in {"verify", "cleanup"},
           NEW key \in Objects, store[key] = None,
           store' = [store EXCEPT ![key] = p]
    PROVE  [Prefix!Next]_(Prefix!vars)
<1>1. \A k \in Objects : store'[k] = IF k = key THEN p ELSE store[k]
  BY DEF TypeOK
<1>2. /\ Markers \subseteq Objects /\ \A q \in Publishers : FilesOf(q) \subseteq Objects /\ q # None
      /\ \A q \in Publishers : Checksums \in FilesOf(q)
      /\ Checksums \notin Markers
  BY UploadFacts, ConstantsAssumption DEF Objects
<1>3. \A q \in Holder : q \in Holder'
  <2> SUFFICES ASSUME NEW q \in Holder PROVE q \in Holder'
    OBVIOUS
  <2>1. PICK m \in Markers : Whole(store, q, m)
    BY DEF Holder
  <2>2. q \in Publishers
    BY DEF Holder
  <2>3. Whole(store', q, m)
    BY <1>1, <1>2, <2>1, <2>2 DEF Whole
  <2> QED
    BY <2>2, <2>3 DEF Holder
<1>4. \A q \in Publishers : pub'[q].pc = "done" <=> pub[q].pc = "done"
  BY DEF OnlyPub
<1>5. CASE Holder # {}
  <2>1. PICK q \in Holder : TRUE
    BY <1>5
  <2>2. q \in Publishers
    BY DEF Holder
  <2> QED
    BY <1>3, <1>4, <2>1, <2>2, SameHolder DEF Prefix!vars
<1>6. CASE Holder = {}
  <2>1. VisibleRelease = None /\ PrefixPhase = IF Keys(store) = {} THEN "empty" ELSE "partial"
    BY <1>6, VisibleFacts DEF OneVisible
  <2>2. OneVisible'
    BY VisibleFacts, PTL
  <2>3. CASE Holder' = {}
    <3>1. VisibleRelease' = VisibleRelease /\ PrefixPhase' \in {"empty", "partial"}
      BY <2>1, <2>2, <2>3 DEF OneVisible
    <3> QED
      BY <2>1, <3>1 DEF Prefix!Next, Prefix!Stage, Conditional
  <2>4. CASE Holder' # {}
    <3> DEFINE q == VisibleRelease'
    <3>1. q \in Holder' /\ q \in Publishers
      BY <2>2, <2>4 DEF OneVisible
    <3>2. PICK m \in Markers : Whole(store', q, m)
      BY <3>1 DEF Holder
    <3> HIDE DEF q
    <3>3. store'[Checksums] = q /\ store'[m] = q /\ Checksums # m /\ Checksums \in Objects /\ m \in Objects
      BY <1>2, <3>1, <3>2 DEF Whole
    <3>4. \E k \in {Checksums, m} : k # key /\ store[k] = q
      BY <1>1, <3>3
    <3>5. Keys(store) # {}
      BY <1>2, <3>1, <3>3, <3>4 DEF Keys
    <3>6. q = p
      <4> SUFFICES ASSUME q # p PROVE FALSE
        OBVIOUS
      <4>1. Whole(store, q, m)
        BY <1>1, <1>2, <3>1, <3>2 DEF Whole
      <4> QED
        BY <1>6, <3>1, <4>1 DEF Holder
    <3>7. PrefixPhase' = "visible"
      BY <2>2, <2>4, <3>6 DEF OneVisible, q
    <3>8. Prefix!Expose(q)
      BY <2>1, <3>5, <3>7 DEF Prefix!Expose, Conditional, q
    <3> QED
      BY <3>1, <3>8 DEF Prefix!Next
  <2> QED
    BY <2>3, <2>4
<1> QED
  BY <1>5, <1>6

\* A rollback of p deletes one of its objects: nothing visible, or the release
\* it had made visible is withdrawn.
LEMMA DeleteRefines ==
    ASSUME TypeOK, TypeOK', Conditional, UNCHANGED mode, NEW p \in Publishers, OnlyPub(p),
           pub[p].pc = "cleanup", pub'[p].pc = "cleanup",
           NEW key \in Objects, store[key] = p,
           store' = [store EXCEPT ![key] = None]
    PROVE  [Prefix!Next]_(Prefix!vars)
<1>1. \A k \in Objects : store'[k] = IF k = key THEN None ELSE store[k]
  BY DEF TypeOK
<1>2. /\ Markers \subseteq Objects /\ \A q \in Publishers : FilesOf(q) \subseteq Objects /\ q # None
      /\ \A q \in Publishers : Checksums \in FilesOf(q)
      /\ Checksums \notin Markers
  BY UploadFacts, ConstantsAssumption DEF Objects
<1>3. Holder' \subseteq Holder
  <2> SUFFICES ASSUME NEW q \in Holder' PROVE q \in Holder
    OBVIOUS
  <2>1. q \in Publishers
    BY DEF Holder
  <2>2. PICK m \in Markers : Whole(store', q, m)
    BY DEF Holder
  <2>3. Whole(store, q, m)
    BY <1>1, <1>2, <2>1, <2>2 DEF Whole
  <2> QED
    BY <2>1, <2>3 DEF Holder
<1>4. \A q \in Publishers : pub'[q].pc = "done" <=> pub[q].pc = "done"
  BY DEF OnlyPub
<1>5. OneVisible'
  BY VisibleFacts, PTL
<1>6. CASE Holder' # {}
  <2>1. PICK q \in Holder' : TRUE
    BY <1>6
  <2>2. q \in Holder /\ q \in Publishers
    BY <1>3 DEF Holder
  <2> QED
    BY <1>4, <2>1, <2>2, SameHolder DEF Prefix!vars
<1>7. CASE Holder' = {} /\ Holder = {}
  BY <1>5, <1>7, VisibleFacts DEF OneVisible, Prefix!Next, Prefix!Stage, Conditional
<1>8. CASE Holder' = {} /\ Holder # {}
  <2>1. PICK q \in Holder : TRUE
    BY <1>8
  <2>2. q \in Publishers
    BY DEF Holder
  <2>3. PICK m \in Markers : Whole(store, q, m)
    BY DEF Holder
  <2>4. store[Checksums] = q /\ store[m] = q /\ Checksums # m /\ Checksums \in Objects /\ m \in Objects
    BY <1>2, <2>2, <2>3 DEF Whole
  <2>5. q = p
    <3> SUFFICES ASSUME q # p PROVE FALSE
      OBVIOUS
    <3>1. Whole(store', q, m)
      BY <1>1, <1>2, <2>2, <2>3 DEF Whole
    <3> QED
      BY <1>8, <2>2, <3>1 DEF Holder
  <2>6. PrefixPhase = "visible"
    BY <1>8, <2>1, <2>5, VisibleFacts DEF OneVisible
  <2>7. Keys(store') # {}
    <3>1. \E k \in {Checksums, m} : k # key
      BY <2>4
    <3>2. \E k \in Objects : store'[k] = q
      BY <1>1, <2>4, <3>1
    <3> QED
      BY <1>2, <2>2, <3>2 DEF Keys
  <2>8. PrefixPhase' = "partial" /\ VisibleRelease' = None
    BY <1>5, <1>8, <2>7 DEF OneVisible, Keys
  <2> QED
    BY <2>6, <2>8 DEF Prefix!Next, Prefix!Withdraw, Conditional
<1> QED
  BY <1>6, <1>7, <1>8

\* Publishers that merely probe the prefix may do anything to one another.
LEMMA ClobberRefines ==
    ASSUME TypeOK', ~Conditional, UNCHANGED mode
    PROVE  Prefix!Next
<1>1. OneVisible'
  BY VisibleFacts, PTL
<1>2. /\ PrefixPhase' \in {"empty", "partial", "visible", "final"}
      /\ PrefixPhase' \in {"empty", "partial"} => VisibleRelease' = None
      /\ PrefixPhase' \notin {"empty", "partial"} => VisibleRelease' \in Publishers
  BY <1>1 DEF OneVisible
<1> QED
  BY <1>2 DEF Prefix!Next, Prefix!Clobber, Conditional

\* Every step of the store is a step of ReleasePrefix or invisible.
LEMMA StepRefines ==
    ASSUME StoreInv, StoreInv', [Next]_vars
    PROVE  [Prefix!Next]_(Prefix!vars)
<1>1. TypeOK /\ TypeOK' /\ UNCHANGED mode /\ pub \in [Publishers -> PubRecords]
  BY ModeFixed DEF StoreInv, TypeOK, PubRecords
<1>2. CASE ~Conditional
  BY <1>1, <1>2, ClobberRefines
<1>3. ASSUME UNCHANGED store,
             \A q \in Publishers : pub'[q].pc = "done" <=> pub[q].pc = "done"
      PROVE  [Prefix!Next]_(Prefix!vars)
  BY <1>1, <1>3, InvisibleStep DEF Prefix!vars
<1>4. ASSUME NEW p \in Publishers, NEW c \in PubStates \ {"done"}, NEW m \in Markers,
             \/ pub' = [pub EXCEPT ![p].pc = c]
             \/ pub' = [pub EXCEPT ![p].pc = c, ![p].marker = m],
             UNCHANGED store, pub[p].pc # "done"
      PROVE  [Prefix!Next]_(Prefix!vars)
  <2>1. OnlyPub(p) /\ pub'[p].pc = c
    <3>1. CASE pub' = [pub EXCEPT ![p].pc = c]
      BY <1>1, <3>1, PubUpdate
    <3>2. CASE pub' = [pub EXCEPT ![p].pc = c, ![p].marker = m]
      BY <1>1, <3>2, PubUpdate
    <3> QED
      BY <1>4, <3>1, <3>2
  <2> QED
    BY <1>3, <1>4, <2>1 DEF OnlyPub
<1>5. CASE UNCHANGED vars \/ (\E r \in Readers : Read(r))
  <2>1. UNCHANGED <<store, pub>>
    BY <1>5 DEF vars, Read, ListPrefix, ReadMarker, ReadMember, SyncObject, ReaderStep
  <2> QED
    BY <1>3, <2>1
<1>6. ASSUME NEW p \in Publishers,
             \/ RefuseRequest(p) \/ TakeIntent(p) \/ AccessFinal(p) \/ Execute(p)
             \/ BeginPublication(p) \/ Crash(p)
      PROVE  [Prefix!Next]_(Prefix!vars)
  <2> DEFINE Ahead == {"reserved", "final", "put", "failed", "dead"}
  <2>1. /\ \E c \in Ahead, m \in Markers :
              \/ pub' = [pub EXCEPT ![p].pc = c]
              \/ pub' = [pub EXCEPT ![p].pc = c, ![p].marker = m]
        /\ UNCHANGED store /\ pub[p].pc # "done"
    <3>1. CASE Execute(p)
      BY <3>1 DEF Execute, Advance, Markers
    <3>2. CASE RefuseRequest(p) \/ TakeIntent(p)
      BY <3>2 DEF RefuseRequest, TakeIntent, Advance, Markers
    <3>3. CASE AccessFinal(p) \/ Crash(p)
      BY <3>3 DEF AccessFinal, Crash, Advance, Markers
    <3>4. CASE BeginPublication(p)
      BY <3>4 DEF BeginPublication, Advance, Markers
    <3> QED
      BY <1>6, <3>1, <3>2, <3>3, <3>4
  <2>2. Ahead \subseteq PubStates \ {"done"}
    BY DEF PubStates
  <2> HIDE DEF Ahead
  <2> QED
    BY <1>4, <2>1, <2>2
<1>7. ASSUME Conditional, NEW p \in Publishers, PutObject(p)
      PROVE  [Prefix!Next]_(Prefix!vars)
  <2>1. /\ NextKey(p) \in Objects /\ pub[p].pc = "put"
        /\ "verify" \in PubStates /\ "cleanup" \in PubStates
    BY <1>1, <1>7, NextKeyFacts DEF PutObject, PubStates
  <2>2. PICK c \in {"verify", "cleanup"}, w \in Seq(Objects) :
           pub' = [pub EXCEPT ![p].pc = c, ![p].owned = w]
    <3>1. /\ Owns(p, NextKey(p), {"before", "created"}) \in Seq(Objects)
          /\ Owns(p, NextKey(p), {"before"}) \in Seq(Objects)
      BY <1>1, <2>1, OwnsFacts
    <3> QED
      BY <1>7, <3>1 DEF PutObject
  <2>3. OnlyPub(p) /\ pub'[p].pc = c
    BY <1>1, <2>1, <2>2, PubUpdate, ZenonT(60)
  <2>4. CASE ~Blocked(NextKey(p)) /\ SetStore([store EXCEPT ![NextKey(p)] = p])
    <3>1. store[NextKey(p)] = None /\ store' = [store EXCEPT ![NextKey(p)] = p]
      BY <1>7, <2>4 DEF Blocked, SetStore
    <3> QED
      BY <1>1, <1>7, <2>1, <2>3, <3>1, PutRefines
  <2>5. CASE UNCHANGED store
    BY <1>3, <2>1, <2>3, <2>5 DEF OnlyPub
  <2> QED
    BY <1>7, <2>4, <2>5 DEF PutObject
<1>8. ASSUME Conditional, NEW p \in Publishers, VerifyObject(p)
      PROVE  [Prefix!Next]_(Prefix!vars)
  <2>1. pub[p].pc = "verify" /\ UNCHANGED store /\ "cleanup" \in PubStates
    BY <1>8 DEF VerifyObject, PubStates
  <2>2. CASE pub' = [pub EXCEPT ![p].pc = "cleanup"]
    <3>1. OnlyPub(p) /\ pub'[p].pc = "cleanup"
      BY <1>1, <2>1, <2>2, PubUpdate
    <3> QED
      BY <1>3, <2>1, <3>1 DEF OnlyPub
  <2>3. CASE ~(pub' = [pub EXCEPT ![p].pc = "cleanup"])
    <3> DEFINE next == IF NextKey(p) \in Markers THEN "done" ELSE "put"
               count == pub[p].done + 1
               kept == Owns(p, NextKey(p), {"verified"})
    <3>1. pub' = [pub EXCEPT ![p].pc = next, ![p].done = count, ![p].owned = kept]
      BY <1>8, <2>3 DEF VerifyObject, Advance
    <3>2. next \in PubStates /\ count \in Nat /\ kept \in Seq(Objects)
      BY <1>1, NextKeyFacts, OwnsFacts DEF PubStates
    <3>3. next \in {"done", "put"}
      OBVIOUS
    <3> HIDE DEF next, count, kept
    <3>4. OnlyPub(p) /\ pub'[p].pc = next
      BY <1>1, <3>1, <3>2, PubUpdate
    <3>5. CASE next = "put"
      BY <1>3, <2>1, <3>4, <3>5 DEF OnlyPub
    <3>6. CASE next = "done"
      <4>1. Conditional'
        BY <1>1, <1>8 DEF Conditional
      <4>2. Whole(store', p, pub'[p].marker) /\ pub'[p].marker \in Markers
        BY <1>1, <3>4, <3>6, <4>1 DEF StoreInv, PublishedReleaseIsFinal, TypeOK
      <4>3. p \in Holder /\ Holder' = Holder
        BY <2>1, <4>2 DEF Holder, Whole
      <4>4. VisibleRelease = p /\ VisibleRelease' = p
        BY <1>1, <4>3, VisibleFacts DEF OneVisible, VisibleRelease
      <4>5. PrefixPhase = "visible"
        BY <1>1, <2>1, <4>3, <4>4, VisibleFacts DEF OneVisible
      <4>6. OneVisible'
        BY <1>1, VisibleFacts, PTL
      <4>7. PrefixPhase' = "final"
        BY <3>4, <3>6, <4>3, <4>4, <4>6 DEF OneVisible
      <4> QED
        BY <1>8, <4>1, <4>4, <4>5, <4>7 DEF Prefix!Next, Prefix!Seal
    <3> QED
      BY <3>3, <3>5, <3>6
  <2> QED
    BY <2>2, <2>3
<1>9. ASSUME Conditional, NEW p \in Publishers, Cleanup(p)
      PROVE  [Prefix!Next]_(Prefix!vars)
  <2> DEFINE rest == Tail(pub[p].owned)
  <2>1. pub[p].pc = "cleanup" /\ pub[p].owned \in Seq(Objects) /\ "failed" \in PubStates
    BY <1>1, <1>9 DEF Cleanup, TypeOK, PubStates
  <2>2. pub[p].owned # <<>> => rest \in Seq(Objects) /\ Head(pub[p].owned) \in Range(pub[p].owned)
                               /\ Head(pub[p].owned) \in Objects
    BY <2>1, TailFacts, TailRange
  <2> HIDE DEF rest
  <2>3. \/ pub' = [pub EXCEPT ![p].pc = "failed"] /\ UNCHANGED store
        \/ pub[p].owned # <<>> /\ pub' = [pub EXCEPT ![p].owned = rest] /\ UNCHANGED store
        \/ /\ pub[p].owned # <<>> /\ pub' = [pub EXCEPT ![p].owned = rest]
           /\ store' = [store EXCEPT ![Head(pub[p].owned)] = None]
    BY <1>9 DEF Cleanup, Advance, SetStore, rest
  <2>4. ASSUME pub' = [pub EXCEPT ![p].pc = "failed"] PROVE OnlyPub(p) /\ pub'[p].pc = "failed"
    BY <1>1, <2>1, <2>4, PubUpdate
  <2>5. ASSUME pub[p].owned # <<>>, pub' = [pub EXCEPT ![p].owned = rest]
        PROVE  OnlyPub(p) /\ pub'[p].pc = "cleanup"
    BY <1>1, <2>1, <2>2, <2>5, PubUpdate
  <2>6. CASE UNCHANGED store
    <3>1. OnlyPub(p) /\ pub'[p].pc # "done"
      BY <2>3, <2>4, <2>5
    <3> QED
      BY <1>3, <2>1, <2>6, <3>1 DEF OnlyPub
  <2>7. CASE /\ pub[p].owned # <<>> /\ pub' = [pub EXCEPT ![p].owned = rest]
             /\ store' = [store EXCEPT ![Head(pub[p].owned)] = None]
    <3>1. store[Head(pub[p].owned)] = p
      BY <1>9, <2>2, <2>7 DEF StoreInv, OwnedIsMine, Range
    <3>2. OnlyPub(p) /\ pub'[p].pc = "cleanup"
      BY <2>5, <2>7
    <3> QED
      BY <1>1, <1>9, <2>1, <2>2, <2>7, <3>1, <3>2, DeleteRefines
  <2> QED
    BY <2>3, <2>6, <2>7
<1> QED
  BY <1>2, <1>5, <1>6, <1>7, <1>8, <1>9 DEF Next, Publish, Finished

\* At first nothing is visible.
LEMMA InitRefines == Init => Prefix!Init
<1> SUFFICES ASSUME Init PROVE Prefix!Init
  OBVIOUS
<1>1. TypeOK
  BY InitInv DEF StoreInv
<1>2. Keys(store) = {}
  BY DEF Init, Keys
<1>3. \A p \in Publishers : store[Checksums] # p
  BY UploadFacts, ConstantsAssumption DEF Init, Objects
<1>4. Holder = {}
  BY <1>3, UploadFacts DEF Holder, Whole
<1>5. PrefixPhase = "empty" /\ VisibleRelease = None
  BY <1>1, <1>2, <1>4, VisibleFacts DEF OneVisible
<1> QED
  BY <1>5 DEF Prefix!Init, Conditional

\* Racing publishers that crash, roll back and lose answers implement the
\* promise of ReleasePrefix (object_storage.py, _publish_s3_directory): a release
\* becomes visible at once, and final for ever when its publisher returns.
THEOREM PrefixImplemented == Spec => ImplementsPrefix
BY InitRefines, StepRefines, StoreInvariant, PTL DEF Spec, ImplementsPrefix, Prefix!Spec

--------------------------------------------------------------------------------
RootFields == {"dir", "lock", "intent", "run", "plan", "scored", "receipt", "publication"}
WorkerFields == {"pc", "pkg", "art", "mount"}

\* Where nothing is claimed of a worker, where it holds the intent and has not
\* sealed, and where it logs and publishes.
Plain == {"idle", "over", "waiting", "creating root", "locking", "locked", "sealed", "finishing"}
Early == {"intended", "creating run", "recording run", "reserved", "scored"}
Late == {"logging", "logged", "publishing"}

RunRecords == [pkg : Packages, logged : [LogItems -> {0, 1}], finished : BOOLEAN]

Placed(x) ==
    /\ DOMAIN x = WorkerFields /\ x.pc \in Plain \cup Early \cup Late
    /\ x.pc \notin {"idle", "over"} => x.pkg \in Packages

\* Since there is one scoring, every digest is 0 or 1.
Ledger(root) ==
    /\ DOMAIN root = RootFields
    /\ root.scored \in {0, 1} /\ root.receipt \in {0, root.scored}
    /\ root.plan \in {0, root.scored} /\ root.publication \in {0, root.scored}

Typed ==
    /\ DOMAIN fs = Packages /\ \A k \in Packages : Ledger(fs[k])
    /\ DOMAIN worker = Workers /\ \A w \in Workers : Placed(worker[w])
    /\ runs \in Seq(RunRecords) /\ Len(runs) <= 1
    /\ published \in [ResultObjects -> {0, 1}]
    /\ scorings \in {0, 1}

Before(pcs) == ~remote \/ \E w \in Workers : worker[w].pc \in pcs

\* The intent is held by one worker at a time, and what follows the step it is
\* at has not happened anywhere.
IntentHeld ==
    /\ \A w \in Workers : worker[w].pc \in Early => remote
    /\ \A w, v \in Workers : worker[w].pc \in Early /\ worker[v].pc \in Early => w = v
    /\ Before({"intended", "creating run"}) => runs = <<>>
    /\ Before(Early \ {"scored"}) => scorings = 0
    /\ Before(Early) => \A k \in Packages : fs[k].scored = 0
    /\ \A w \in Workers : worker[w].pc = "scored" => worker[w].art = 1

\* The one run of a reservation is finished and holds the sealed scoring.
Complete(k) ==
    /\ fs[k].scored = 1
    /\ Found(k) = {fs[k].run} /\ runs[fs[k].run].finished
    /\ \A i \in LogItems : runs[fs[k].run].logged[i] = 1

Finishing ==
    /\ \A w \in Workers : worker[w].pc = "logging" =>
         Root(w).receipt = 1 /\ Found(worker[w].pkg) = {Root(w).run}
    /\ \A w \in Workers : worker[w].pc \in {"logged", "publishing"} => Complete(worker[w].pkg)
    /\ \A w \in Workers : worker[w].pc = "publishing" => Root(w).publication = 1

Publication ==
    published["SUCCESS"] # 0 =>
        /\ \A o \in ResultObjects : published[o] = 1
        /\ \E k \in Packages : Complete(k)

SealInv == Typed /\ IntentHeld /\ Finishing /\ Publication
--------------------------------------------------------------------------------
(***************************************************************************)
(* What a step does to workers and roots, as relations.                    *)
(***************************************************************************)
OthersStay(w) ==
    /\ DOMAIN worker' = Workers
    /\ \A v \in Workers \ {w} : worker'[v] = worker[v]

Goes(w, c) ==
    /\ OthersStay(w)
    /\ DOMAIN worker'[w] = WorkerFields
    /\ worker'[w].pc = c /\ worker'[w].pkg = worker[w].pkg /\ worker'[w].art = worker[w].art

OtherRootsStay(j) ==
    /\ DOMAIN fs' = Packages
    /\ \A k \in Packages \ {j} : fs'[k] = fs[k]

\* No root's checkpoint, receipt, plan, publication or run changes.
LedgersStay ==
    /\ DOMAIN fs' = Packages
    /\ \A k \in Packages :
        /\ DOMAIN fs'[k] = RootFields
        /\ fs'[k].scored = fs[k].scored /\ fs'[k].receipt = fs[k].receipt
        /\ fs'[k].plan = fs[k].plan /\ fs'[k].publication = fs[k].publication
        /\ fs'[k].run = fs[k].run

\* What is retained stays retained.
LedgersGrow ==
    \A k \in Packages :
        /\ fs[k].scored = 1 => fs'[k].scored = 1 /\ fs'[k].run = fs[k].run
        /\ fs[k].receipt = 1 => fs'[k].receipt = 1
        /\ fs[k].publication = 1 => fs'[k].publication = 1

\* Once there is a scored checkpoint, the runs stay and what they hold does.
RunsGrow ==
    (\E k \in Packages : fs[k].scored = 1) =>
        /\ Len(runs') = Len(runs)
        /\ \A r \in 1..Len(runs) :
            /\ runs'[r].pkg = runs[r].pkg
            /\ runs[r].finished => runs'[r].finished
            /\ \A i \in LogItems : runs[r].logged[i] = 1 => runs'[r].logged[i] = 1

LEMMA WorkersPositive == Workers \subseteq Nat \ {0}
BY SealedEvaluationAssumption DEF Workers

LEMMA ContinueFacts ==
    ASSUME Typed, NEW w \in Workers, worker[w].pkg \in Packages, NEW c, NEW root, Continue(w, c, root)
    PROVE  /\ Goes(w, c)
           /\ OtherRootsStay(worker[w].pkg) /\ fs'[worker[w].pkg] = root
<1>1. /\ DOMAIN worker = Workers /\ DOMAIN worker[w] = WorkerFields /\ DOMAIN fs = Packages
  BY DEF Typed, Placed
<1>2. worker' = [worker EXCEPT ![w].pc = c] /\ fs' = [fs EXCEPT ![worker[w].pkg] = root]
  BY DEF Continue
<1>3. Goes(w, c)
  BY <1>1, <1>2 DEF Goes, OthersStay, WorkerFields
<1>4. OtherRootsStay(worker[w].pkg) /\ fs'[worker[w].pkg] = root
  BY <1>1, <1>2 DEF OtherRootsStay
<1> QED
  BY <1>3, <1>4

\* The end of a process touches its lock only.
LEMMA EndFacts ==
    ASSUME Typed, NEW w \in Workers, worker[w].pkg \in Packages, End(w, Root(w))
    PROVE  /\ OthersStay(w) /\ Placed(worker'[w]) /\ worker'[w].pc \in {"idle", "over"}
           /\ LedgersStay
<1>1. /\ DOMAIN worker = Workers /\ DOMAIN fs = Packages
      /\ \A k \in Packages : DOMAIN fs[k] = RootFields
  BY DEF Typed, Ledger
<1> DEFINE root == Root(w)
<1> DEFINE root2 == [root EXCEPT !.lock = IF root.lock = w THEN 0 ELSE root.lock]
<1> DEFINE last == IF w \in Recoverers THEN IdleWorker ELSE Over
<1>2. worker' = [worker EXCEPT ![w] = last] /\ fs' = [fs EXCEPT ![worker[w].pkg] = root2]
  BY DEF End
<1>3. Placed(last) /\ last.pc \in {"idle", "over"}
  BY DEF Placed, WorkerFields, IdleWorker, Over, Plain
<1>4. root = fs[worker[w].pkg] /\ DOMAIN root = RootFields
  BY <1>1 DEF Root
<1>5. /\ DOMAIN root2 = RootFields
      /\ root2.scored = root.scored /\ root2.receipt = root.receipt /\ root2.plan = root.plan
      /\ root2.publication = root.publication /\ root2.run = root.run
  BY <1>4 DEF RootFields
<1> HIDE DEF last, root, root2
<1>6. OthersStay(w) /\ worker'[w] = last
  BY <1>1, <1>2 DEF OthersStay
<1>7. DOMAIN fs' = Packages /\ fs'[worker[w].pkg] = root2
  BY <1>1, <1>2
<1>8. \A k \in Packages \ {worker[w].pkg} : fs'[k] = fs[k]
  BY <1>1, <1>2
<1>9. LedgersStay
  BY <1>1, <1>4, <1>5, <1>7, <1>8 DEF LedgersStay
<1> QED
  BY <1>3, <1>6, <1>9

LEMMA CompleteStays ==
    ASSUME NEW k \in Packages, Complete(k), LedgersGrow, RunsGrow
    PROVE  Complete(k)'
<1>1. /\ Len(runs') = Len(runs)
      /\ \A r \in 1..Len(runs) :
            /\ runs'[r].pkg = runs[r].pkg
            /\ runs[r].finished => runs'[r].finished
            /\ \A i \in LogItems : runs[r].logged[i] = 1 => runs'[r].logged[i] = 1
  BY DEF Complete, RunsGrow
<1>2. Found(k)' = Found(k)
  BY <1>1 DEF Found
<1>3. fs'[k].run = fs[k].run /\ fs'[k].scored = 1
  BY DEF Complete, LedgersGrow
<1>4. fs[k].run \in 1..Len(runs)
  BY DEF Complete, Found
<1> QED
  BY <1>1, <1>2, <1>3, <1>4 DEF Complete

\* A root is retained for as long as it has a scoring.
LEMMA RetainedIsSealed ==
    ASSUME Typed, NEW k \in Packages
    PROVE  /\ fs[k].receipt = 1 => fs[k].scored = 1
           /\ fs[k].publication = 1 => fs[k].scored = 1
           /\ fs[k].plan = 1 => fs[k].scored = 1
BY DEF Typed, Ledger

\* What is said of the workers that log and publish survives the steps of the
\* others.
LEMMA FinishingStays ==
    ASSUME Typed, Finishing, NEW w \in Workers, OthersStay(w), LedgersGrow, RunsGrow,
           worker'[w].pc = "logging" =>
                Root(w)'.receipt = 1 /\ Found(worker[w].pkg)' = {Root(w)'.run},
           worker'[w].pc \in {"logged", "publishing"} => Complete(worker[w].pkg)',
           worker'[w].pc = "publishing" => Root(w)'.publication = 1
    PROVE  Finishing'
<1>1. ASSUME NEW v \in Workers \ {w}
      PROVE  /\ worker'[v].pc = "logging" =>
                  Root(v)'.receipt = 1 /\ Found(worker[v].pkg)' = {Root(v)'.run}
             /\ worker'[v].pc \in {"logged", "publishing"} => Complete(worker[v].pkg)'
             /\ worker'[v].pc = "publishing" => Root(v)'.publication = 1
  <2>1. worker'[v] = worker[v]
    BY <1>1 DEF OthersStay
  <2>2. CASE worker[v].pc = "logging"
    <3>1. worker[v].pkg \in Packages
      BY <2>2, <1>1 DEF Typed, Placed
    <3>2. fs[worker[v].pkg].receipt = 1 /\ Found(worker[v].pkg) = {fs[worker[v].pkg].run}
      BY <2>2, <1>1 DEF Finishing, Root
    <3>3. fs[worker[v].pkg].scored = 1
      BY <3>1, <3>2, RetainedIsSealed
    <3>4. Found(worker[v].pkg)' = {r \in 1..Len(runs') : runs'[r].pkg = worker'[v].pkg}
      BY DEF Found
    <3>5. Found(worker[v].pkg) = {r \in 1..Len(runs) : runs[r].pkg = worker[v].pkg}
      BY DEF Found
    <3>6. Len(runs') = Len(runs) /\ \A r \in 1..Len(runs) : runs'[r].pkg = runs[r].pkg
      BY <3>1, <3>3 DEF RunsGrow
    <3>7. Found(worker[v].pkg)' = {fs[worker[v].pkg].run}
      BY <2>1, <3>2, <3>4, <3>5, <3>6
    <3>8. fs'[worker[v].pkg].receipt = 1 /\ fs'[worker[v].pkg].run = fs[worker[v].pkg].run
      BY <3>1, <3>2, <3>3 DEF LedgersGrow
    <3> QED
      BY <2>1, <2>2, <3>7, <3>8 DEF Root
  <2>3. CASE worker[v].pc \in {"logged", "publishing"}
    <3>1. worker[v].pkg \in Packages /\ Complete(worker[v].pkg)
      BY <2>3, <1>1 DEF Typed, Placed, Finishing
    <3> DEFINE k == worker[v].pkg
    <3>2. Complete(k)'
      BY <2>1, <3>1, CompleteStays
    <3>3. Complete(worker[v].pkg)'
      BY <2>1, <3>2
    <3>4. worker[v].pc = "publishing" => fs'[worker[v].pkg].publication = 1
      BY <1>1, <3>1 DEF Finishing, Root, LedgersGrow
    <3> QED
      BY <2>1, <2>3, <3>3, <3>4 DEF Root
  <2> QED
    BY <2>1, <2>2, <2>3
<1> QED
  BY <1>1 DEF Finishing

LEMMA PublicationStays ==
    ASSUME Publication, LedgersGrow, RunsGrow, UNCHANGED published
    PROVE  Publication'
<1> SUFFICES ASSUME published'["SUCCESS"] # 0
             PROVE  /\ \A o \in ResultObjects : published'[o] = 1
                    /\ \E k \in Packages : Complete(k)'
  BY DEF Publication
<1>1. PICK k \in Packages : Complete(k)
  BY DEF Publication
<1>2. Complete(k)'
  BY <1>1, CompleteStays
<1> QED
  BY <1>2 DEF Publication

\* The holder of the intent is not disturbed by a worker that does not hold it,
\* nor by its own end.
LEMMA IntentStays ==
    ASSUME Typed, IntentHeld, NEW w \in Workers, OthersStay(w), worker'[w].pc \notin Early,
           remote => remote', runs = <<>> => runs' = <<>>, UNCHANGED scorings,
           \A k \in Packages : fs'[k].scored = fs[k].scored
    PROVE  IntentHeld'
<1>1. \A v \in Workers : worker'[v].pc \in Early => v # w /\ worker'[v] = worker[v]
  BY DEF OthersStay
<1>2. ASSUME NEW pcs \in SUBSET Early, Before(pcs)' PROVE Before(pcs)
  BY <1>1, <1>2 DEF Before
<1>3. {"intended", "creating run"} \subseteq Early /\ Early \ {"scored"} \subseteq Early /\ "scored" \in Early
  BY DEF Early
<1>4. Before({"intended", "creating run"})' => runs' = <<>>
  BY <1>2, <1>3 DEF IntentHeld
<1>5. Before(Early \ {"scored"})' => scorings' = 0
  BY <1>2, <1>3 DEF IntentHeld
<1>6. Before(Early)' => \A k \in Packages : fs'[k].scored = 0
  BY <1>2 DEF IntentHeld
<1>7. \A v \in Workers : worker'[v].pc \in Early => remote'
  BY <1>1 DEF IntentHeld
<1>8. \A u, v \in Workers : worker'[u].pc \in Early /\ worker'[v].pc \in Early => u = v
  BY <1>1 DEF IntentHeld
<1>9. \A v \in Workers : worker'[v].pc = "scored" => worker'[v].art = 1
  BY <1>1, <1>3 DEF IntentHeld
<1> QED
  BY <1>4, <1>5, <1>6, <1>7, <1>8, <1>9 DEF IntentHeld
--------------------------------------------------------------------------------
(***************************************************************************)
(* Steps up to the intent, and the end of a process anywhere.              *)
(***************************************************************************)
LEMMA TypedStays ==
    ASSUME Typed, NEW w \in Workers, OthersStay(w), Placed(worker'[w]),
           DOMAIN fs' = Packages, \A k \in Packages : Ledger(fs'[k]),
           runs' \in Seq(RunRecords), Len(runs') <= 1,
           published' \in [ResultObjects -> {0, 1}], scorings' \in {0, 1}
    PROVE  Typed'
<1>1. \A v \in Workers : Placed(worker'[v])
  BY DEF Typed, OthersStay
<1> QED
  BY <1>1 DEF Typed, OthersStay, Placed, Ledger

LEMMA LedgersStayTyped ==
    ASSUME Typed, LedgersStay
    PROVE  /\ DOMAIN fs' = Packages /\ \A k \in Packages : Ledger(fs'[k])
           /\ LedgersGrow /\ \A k \in Packages : fs'[k].scored = fs[k].scored
<1>1. \A k \in Packages : Ledger(fs[k])
  BY DEF Typed
<1>2. \A k \in Packages : Ledger(fs'[k])
  BY <1>1 DEF LedgersStay, Ledger
<1>3. LedgersGrow
  BY DEF LedgersStay, LedgersGrow
<1> QED
  BY <1>2, <1>3 DEF LedgersStay

LEMMA RunsStay == ASSUME UNCHANGED runs PROVE RunsGrow
BY DEF RunsGrow

LEMMA QuietWorkerStep ==
    ASSUME SealInv, NEW w \in Workers, OthersStay(w), Placed(worker'[w]), worker'[w].pc \in Plain,
           LedgersStay, UNCHANGED <<runs, published, scorings>>, remote => remote'
    PROVE  SealInv'
<1>1. Typed /\ IntentHeld /\ Finishing /\ Publication
  BY DEF SealInv
<1>2. /\ DOMAIN fs' = Packages /\ \A k \in Packages : Ledger(fs'[k])
      /\ LedgersGrow /\ \A k \in Packages : fs'[k].scored = fs[k].scored
  BY <1>1, LedgersStayTyped
<1>3. RunsGrow /\ UNCHANGED runs /\ UNCHANGED published /\ UNCHANGED scorings
  BY RunsStay
<1>4. /\ runs' \in Seq(RunRecords) /\ Len(runs') <= 1
      /\ published' \in [ResultObjects -> {0, 1}] /\ scorings' \in {0, 1}
  BY <1>1, <1>3 DEF Typed
<1>5. Typed'
  BY <1>1, <1>2, <1>4, TypedStays
<1>6. /\ worker'[w].pc # "logging" /\ worker'[w].pc \notin {"logged", "publishing"}
      /\ worker'[w].pc # "publishing" /\ worker'[w].pc \notin Early
  BY DEF Plain, Early
<1>7. Finishing'
  BY <1>1, <1>2, <1>3, <1>6, FinishingStays
<1>8. Publication'
  BY <1>1, <1>2, <1>3, PublicationStays
<1>9. runs = <<>> => runs' = <<>>
  BY <1>3
<1>10. IntentHeld'
  BY <1>1, <1>2, <1>3, <1>6, <1>9, IntentStays
<1> QED
  BY <1>5, <1>7, <1>8, <1>10 DEF SealInv

LEMMA EndStep ==
    ASSUME SealInv, NEW w \in Workers, worker[w].pc \notin {"idle", "over"}, End(w, Root(w)),
           UNCHANGED <<runs, published, scorings>>, remote => remote'
    PROVE  SealInv'
<1>1. Typed /\ worker[w].pkg \in Packages
  BY DEF SealInv, Typed, Placed
<1>2. /\ OthersStay(w) /\ Placed(worker'[w]) /\ worker'[w].pc \in {"idle", "over"}
      /\ LedgersStay
  BY <1>1, EndFacts
<1>3. worker'[w].pc \in Plain
  BY <1>2 DEF Plain
<1> QED
  BY <1>2, <1>3, QuietWorkerStep

\* A step that takes its worker on, with its root as it was.
LEMMA PlainStep ==
    ASSUME SealInv, NEW w \in Workers, worker[w].pkg \in Packages, NEW c \in Plain \ {"idle", "over"},
           NEW root, Continue(w, c, root), DOMAIN root = RootFields,
           root.scored = Root(w).scored, root.receipt = Root(w).receipt, root.plan = Root(w).plan,
           root.publication = Root(w).publication, root.run = Root(w).run,
           UNCHANGED <<runs, published, scorings>>, remote => remote'
    PROVE  SealInv'
<1>1. Typed
  BY DEF SealInv
<1>2. Goes(w, c) /\ OtherRootsStay(worker[w].pkg) /\ fs'[worker[w].pkg] = root
  BY <1>1, ContinueFacts
<1>3. \A k \in Packages : DOMAIN fs[k] = RootFields
  BY <1>1 DEF Typed, Ledger
<1>4. LedgersStay
  BY <1>2, <1>3 DEF LedgersStay, OtherRootsStay, Root
<1>5. OthersStay(w) /\ Placed(worker'[w]) /\ worker'[w].pc \in Plain
  BY <1>2 DEF Goes, Placed
<1> QED
  BY <1>4, <1>5, QuietWorkerStep

LEMMA RootTyped ==
    ASSUME SealInv, NEW w \in Workers, worker[w].pc \notin {"idle", "over"}
    PROVE  /\ worker[w].pkg \in Packages /\ Ledger(Root(w))
           /\ DOMAIN Root(w) = RootFields
BY DEF SealInv, Typed, Placed, Root, Ledger

LEMMA LaunchSeal ==
    ASSUME SealInv, NEW w \in Workers, NEW k \in Packages, Launch(w, k)
    PROVE  SealInv'
<1> DEFINE x == [pc |-> "waiting", pkg |-> k, art |-> 0, mount |-> mount]
<1>1. worker' = [worker EXCEPT ![w] = x] /\ UNCHANGED <<fs, remote, runs, published, scorings>>
  BY DEF Launch
<1>2. Placed(x) /\ x.pc \in Plain
  BY DEF Placed, WorkerFields, Plain
<1> HIDE DEF x
<1>3. DOMAIN worker = Workers /\ DOMAIN fs = Packages /\ \A j \in Packages : DOMAIN fs[j] = RootFields
  BY DEF SealInv, Typed, Ledger
<1>4. OthersStay(w) /\ worker'[w] = x
  BY <1>1, <1>3 DEF OthersStay
<1>5. LedgersStay
  BY <1>1, <1>3 DEF LedgersStay
<1> QED
  BY <1>1, <1>2, <1>4, <1>5, QuietWorkerStep

LEMMA ObserveContextSeal ==
    ASSUME SealInv, NEW w \in Workers, NEW signed \in BOOLEAN, ObserveContext(w, signed)
    PROVE  SealInv'
<1>1. worker[w].pc = "waiting" /\ UNCHANGED <<remote, runs, published, scorings>>
  BY DEF ObserveContext, At
<1>2. /\ worker[w].pkg \in Packages /\ DOMAIN Root(w) = RootFields
      /\ worker[w].pc \notin {"idle", "over"}
  BY <1>1, RootTyped
<1>3. CASE End(w, Root(w))
  BY <1>1, <1>2, <1>3, EndStep
<1>4. CASE \E c \in {"creating root", "locking"} : Continue(w, c, Root(w))
  <2>1. PICK c \in {"creating root", "locking"} : Continue(w, c, Root(w))
    BY <1>4
  <2>2. c \in Plain \ {"idle", "over"}
    BY DEF Plain
  <2> QED
    BY <1>1, <1>2, <2>1, <2>2, PlainStep
<1> QED
  BY <1>3, <1>4 DEF ObserveContext

LEMMA CreateRootSeal ==
    ASSUME SealInv, NEW w \in Workers, CreateRoot(w)
    PROVE  SealInv'
<1>1. worker[w].pc = "creating root" /\ UNCHANGED <<remote, runs, published, scorings>>
  BY DEF CreateRoot, At
<1>2. /\ worker[w].pkg \in Packages /\ DOMAIN Root(w) = RootFields
      /\ worker[w].pc \notin {"idle", "over"}
  BY <1>1, RootTyped
<1>3. CASE End(w, Root(w))
  BY <1>1, <1>2, <1>3, EndStep
<1>4. CASE Continue(w, "locking", [Root(w) EXCEPT !.dir = TRUE])
  <2> DEFINE root == [Root(w) EXCEPT !.dir = TRUE]
  <2>1. /\ DOMAIN root = RootFields
        /\ root.scored = Root(w).scored /\ root.receipt = Root(w).receipt
        /\ root.plan = Root(w).plan /\ root.publication = Root(w).publication
        /\ root.run = Root(w).run
    BY <1>2 DEF RootFields
  <2>2. Continue(w, "locking", root) /\ "locking" \in Plain \ {"idle", "over"}
    BY <1>4 DEF Plain
  <2> HIDE DEF root
  <2> QED
    BY <1>1, <1>2, <2>1, <2>2, PlainStep
<1> QED
  BY <1>3, <1>4 DEF CreateRoot

LEMMA TakeLockSeal ==
    ASSUME SealInv, NEW w \in Workers, TakeLock(w)
    PROVE  SealInv'
<1>1. worker[w].pc = "locking" /\ UNCHANGED <<remote, runs, published, scorings>>
  BY DEF TakeLock, At
<1>2. /\ worker[w].pkg \in Packages /\ DOMAIN Root(w) = RootFields
      /\ worker[w].pc \notin {"idle", "over"}
  BY <1>1, RootTyped
<1>3. CASE End(w, Root(w))
  BY <1>1, <1>2, <1>3, EndStep
<1>4. CASE \E c \in {"locked", "finishing"} : Continue(w, c, [Root(w) EXCEPT !.lock = w])
  <2>1. PICK c \in {"locked", "finishing"} : Continue(w, c, [Root(w) EXCEPT !.lock = w])
    BY <1>4
  <2> DEFINE root == [Root(w) EXCEPT !.lock = w]
  <2>2. /\ DOMAIN root = RootFields
        /\ root.scored = Root(w).scored /\ root.receipt = Root(w).receipt
        /\ root.plan = Root(w).plan /\ root.publication = Root(w).publication
        /\ root.run = Root(w).run
    BY <1>2 DEF RootFields
  <2>3. Continue(w, c, root) /\ c \in Plain \ {"idle", "over"}
    BY <2>1 DEF Plain
  <2> HIDE DEF root
  <2> QED
    BY <1>1, <1>2, <2>2, <2>3, PlainStep
<1> QED
  BY <1>3, <1>4 DEF TakeLock
--------------------------------------------------------------------------------
(***************************************************************************)
(* Steps of the holder of the intent, up to the sealed checkpoint.         *)
(***************************************************************************)
\* While the intent is not created, or held, nothing is retained anywhere.
LEMMA NothingRetained ==
    ASSUME SealInv, Before(Early)
    PROVE  /\ \A k \in Packages : /\ fs[k].scored = 0 /\ fs[k].receipt = 0
                                  /\ fs[k].plan = 0 /\ fs[k].publication = 0
           /\ LedgersGrow /\ RunsGrow
<1>1. \A k \in Packages : fs[k].scored = 0 /\ Ledger(fs[k])
  BY DEF SealInv, IntentHeld, Typed
<1>2. \A k \in Packages : /\ fs[k].scored = 0 /\ fs[k].receipt = 0
                          /\ fs[k].plan = 0 /\ fs[k].publication = 0
  BY <1>1 DEF Ledger
<1> QED
  BY <1>2 DEF LedgersGrow, RunsGrow

\* Whoever holds the intent, or is about to create it, is the only one.
LEMMA OnlyHolder ==
    ASSUME SealInv, NEW w \in Workers, worker[w].pc \in Early \/ ~remote
    PROVE  Before(Early) /\ \A v \in Workers \ {w} : worker[v].pc \notin Early
<1>1. Before(Early)
  BY DEF Before
<1>2. CASE ~remote
  BY <1>1, <1>2 DEF SealInv, IntentHeld
<1>3. CASE worker[w].pc \in Early
  BY <1>1, <1>3 DEF SealInv, IntentHeld
<1> QED
  BY <1>1, <1>2, <1>3

LEMMA EarlyStep ==
    ASSUME SealInv, NEW w \in Workers, worker[w].pc \in Early \/ ~remote,
           OthersStay(w), Placed(worker'[w]), worker'[w].pc \in Early, remote',
           DOMAIN fs' = Packages, \A k \in Packages : Ledger(fs'[k]) /\ fs'[k].scored = 0,
           runs' \in Seq(RunRecords), Len(runs') <= 1,
           worker'[w].pc \in {"intended", "creating run"} => runs' = <<>>,
           scorings' \in {0, 1}, worker'[w].pc # "scored" => scorings' = 0,
           worker'[w].pc = "scored" => worker'[w].art = 1,
           UNCHANGED published
    PROVE  SealInv'
<1>1. Typed /\ IntentHeld /\ Finishing /\ Publication
  BY DEF SealInv
<1>2. Before(Early) /\ \A v \in Workers \ {w} : worker[v].pc \notin Early
  BY OnlyHolder
<1>3. LedgersGrow /\ RunsGrow
  BY <1>2, NothingRetained
<1>4. published' \in [ResultObjects -> {0, 1}]
  BY <1>1 DEF Typed
<1>5. Typed'
  BY <1>1, <1>4, TypedStays
<1>6. /\ worker'[w].pc # "logging" /\ worker'[w].pc \notin {"logged", "publishing"}
      /\ worker'[w].pc # "publishing"
  BY DEF Early
<1>7. Finishing'
  BY <1>1, <1>3, <1>6, FinishingStays
<1>8. Publication'
  BY <1>1, <1>3, PublicationStays
<1>9. \A v \in Workers : worker'[v].pc \in Early => v = w
  BY <1>2 DEF OthersStay
<1>10. {"intended", "creating run"} \subseteq Early /\ Early \ {"scored"} \subseteq Early /\ "scored" \in Early
  BY DEF Early
<1>11. Before({"intended", "creating run"})' => runs' = <<>>
  BY <1>9, <1>10 DEF Before
<1>12. Before(Early \ {"scored"})' => scorings' = 0
  BY <1>9, <1>10 DEF Before
<1>13. IntentHeld'
  BY <1>9, <1>10, <1>11, <1>12 DEF IntentHeld
<1> QED
  BY <1>5, <1>7, <1>8, <1>13 DEF SealInv

\* The holder ends, with or without a run or a scoring that nobody will use.
LEMMA EarlyEnd ==
    ASSUME SealInv, NEW w \in Workers, worker[w].pc \in Early, End(w, Root(w)), remote',
           runs' \in Seq(RunRecords), Len(runs') <= 1, scorings' \in {0, 1}, UNCHANGED published
    PROVE  SealInv'
<1>1. Typed /\ IntentHeld /\ Finishing /\ Publication
  BY DEF SealInv
<1>2. Before(Early) /\ \A v \in Workers \ {w} : worker[v].pc \notin Early
  BY OnlyHolder
<1>3. LedgersGrow /\ RunsGrow
  BY <1>2, NothingRetained
<1>4. worker[w].pkg \in Packages
  BY <1>1 DEF Typed, Placed, Early
<1>5. /\ OthersStay(w) /\ Placed(worker'[w]) /\ worker'[w].pc \in {"idle", "over"} /\ LedgersStay
  BY <1>1, <1>4, EndFacts
<1>6. DOMAIN fs' = Packages /\ \A k \in Packages : Ledger(fs'[k])
  BY <1>1, <1>5, LedgersStayTyped
<1>7. published' \in [ResultObjects -> {0, 1}]
  BY <1>1 DEF Typed
<1>8. Typed'
  BY <1>1, <1>5, <1>6, <1>7, TypedStays
<1>9. /\ worker'[w].pc # "logging" /\ worker'[w].pc \notin {"logged", "publishing"}
      /\ worker'[w].pc # "publishing" /\ worker'[w].pc \notin Early
  BY <1>5 DEF Early
<1>10. Finishing'
  BY <1>1, <1>3, <1>5, <1>9, FinishingStays
<1>11. Publication'
  BY <1>1, <1>3, PublicationStays
<1>12. \A v \in Workers : worker'[v].pc \notin Early
  BY <1>2, <1>5, <1>9 DEF OthersStay
<1>13. {"intended", "creating run"} \subseteq Early /\ Early \ {"scored"} \subseteq Early /\ "scored" \in Early
  BY DEF Early
<1>14. ~Before(Early)' /\ ~Before({"intended", "creating run"})' /\ ~Before(Early \ {"scored"})'
  BY <1>12, <1>13 DEF Before
<1>15. IntentHeld'
  BY <1>12, <1>13, <1>14 DEF IntentHeld
<1> QED
  BY <1>8, <1>10, <1>11, <1>15 DEF SealInv

LEMMA PutIntentSeal ==
    ASSUME SealInv, NEW w \in Workers, PutIntent(w)
    PROVE  SealInv'
<1>1. /\ worker[w].pc = "locked" /\ remote' /\ UNCHANGED runs /\ UNCHANGED published
      /\ UNCHANGED scorings
  BY DEF PutIntent, At
<1>2. /\ worker[w].pkg \in Packages /\ worker[w].pc \notin {"idle", "over"}
      /\ Typed /\ \A k \in Packages : Ledger(fs[k])
  BY <1>1, RootTyped DEF SealInv, Typed
<1>3. CASE End(w, Root(w))
  BY <1>1, <1>2, <1>3, EndStep
<1>4. CASE ~remote /\ Continue(w, "intended", Root(w))
  <2>1. Goes(w, "intended") /\ OtherRootsStay(worker[w].pkg) /\ fs'[worker[w].pkg] = Root(w)
    BY <1>2, <1>4, ContinueFacts
  <2>2. DOMAIN fs' = Packages /\ \A k \in Packages : fs'[k] = fs[k]
    BY <2>1 DEF OtherRootsStay, Root
  <2>3. Before(Early) /\ Before({"intended", "creating run"}) /\ Before(Early \ {"scored"})
    BY <1>4 DEF Before
  <2>4. runs = <<>> /\ scorings = 0 /\ \A k \in Packages : fs[k].scored = 0
    BY <2>3 DEF SealInv, IntentHeld
  <2>5. \A k \in Packages : Ledger(fs'[k]) /\ fs'[k].scored = 0
    BY <1>2, <2>2, <2>4
  <2>6. /\ OthersStay(w) /\ Placed(worker'[w]) /\ worker'[w].pc = "intended"
        /\ worker'[w].pc \in Early /\ worker'[w].pc # "scored"
    BY <1>2, <2>1 DEF Goes, Placed, Early
  <2>7. runs' = <<>> /\ runs' \in Seq(RunRecords) /\ Len(runs') <= 1 /\ scorings' = 0
    BY <1>1, <2>4
  <2> QED
    BY <1>1, <1>4, <2>2, <2>5, <2>6, <2>7, EarlyStep
<1> QED
  BY <1>3, <1>4 DEF PutIntent

\* What the holder's steps have in common.
LEMMA HolderFacts ==
    ASSUME SealInv, NEW w \in Workers, worker[w].pc \in Early
    PROVE  /\ Typed /\ worker[w].pkg \in Packages /\ DOMAIN Root(w) = RootFields
           /\ Ledger(Root(w)) /\ remote /\ worker[w].pc \notin {"idle", "over"}
           /\ \A k \in Packages : Ledger(fs[k]) /\ fs[k].scored = 0
           /\ runs \in Seq(RunRecords) /\ Len(runs) <= 1 /\ scorings \in {0, 1}
           /\ worker[w].pc # "scored" => scorings = 0
           /\ worker[w].pc \in {"intended", "creating run"} => runs = <<>>
<1>1. worker[w].pc \notin {"idle", "over"}
  BY DEF Early
<1>2. Before(Early)
  BY DEF Before
<1>3. /\ worker[w].pc # "scored" => Before(Early \ {"scored"})
      /\ worker[w].pc \in {"intended", "creating run"} => Before({"intended", "creating run"})
  BY DEF Before
<1>4. \A k \in Packages : Ledger(fs[k]) /\ fs[k].scored = 0
  BY <1>2, NothingRetained DEF SealInv, Typed
<1> QED
  BY <1>1, <1>2, <1>3, <1>4, RootTyped DEF SealInv, IntentHeld, Typed

\* The holder goes on to its next step; its root may change, but not its seal.
LEMMA HolderGoes ==
    ASSUME SealInv, NEW w \in Workers, worker[w].pc \in Early, NEW c \in Early \ {"scored"},
           NEW root, Continue(w, c, root), Ledger(root), root.scored = 0, UNCHANGED remote,
           runs' \in Seq(RunRecords), Len(runs') <= 1,
           c \in {"intended", "creating run"} => runs' = <<>>,
           worker[w].pc # "scored", UNCHANGED scorings, UNCHANGED published
    PROVE  SealInv'
<1>1. /\ Typed /\ worker[w].pkg \in Packages /\ remote
      /\ \A k \in Packages : Ledger(fs[k]) /\ fs[k].scored = 0
      /\ scorings = 0
  BY HolderFacts
<1>2. Goes(w, c) /\ OtherRootsStay(worker[w].pkg) /\ fs'[worker[w].pkg] = root
  BY <1>1, ContinueFacts
<1>3. DOMAIN fs' = Packages /\ \A k \in Packages : Ledger(fs'[k]) /\ fs'[k].scored = 0
  BY <1>1, <1>2 DEF OtherRootsStay
<1>4. OthersStay(w) /\ Placed(worker'[w]) /\ worker'[w].pc = c
  BY <1>1, <1>2 DEF Goes, Placed
<1>5. remote' /\ scorings' = 0
  BY <1>1
<1> QED
  BY <1>3, <1>4, <1>5, EarlyStep

LEMMA IntendRunSeal ==
    ASSUME SealInv, NEW w \in Workers, IntendRun(w)
    PROVE  SealInv'
<1>1. /\ worker[w].pc = "intended" /\ worker[w].pc \in Early /\ UNCHANGED remote
      /\ UNCHANGED runs /\ UNCHANGED published /\ UNCHANGED scorings
  BY DEF IntendRun, At, Early
<1>2. /\ DOMAIN Root(w) = RootFields /\ Ledger(Root(w)) /\ worker[w].pc \notin {"idle", "over"}
      /\ worker[w].pkg \in Packages /\ runs = <<>> /\ runs \in Seq(RunRecords) /\ Len(runs) <= 1
      /\ \A k \in Packages : fs[k].scored = 0
  BY <1>1, HolderFacts
<1>3. CASE End(w, Root(w))
  BY <1>1, <1>2, <1>3, EndStep
<1>4. CASE Continue(w, "creating run", [Root(w) EXCEPT !.intent = TRUE])
  <2> DEFINE root == [Root(w) EXCEPT !.intent = TRUE]
  <2>1. /\ DOMAIN root = RootFields
        /\ root.scored = Root(w).scored /\ root.receipt = Root(w).receipt
        /\ root.plan = Root(w).plan /\ root.publication = Root(w).publication
    BY <1>2 DEF RootFields
  <2>2. Continue(w, "creating run", root) /\ "creating run" \in Early \ {"scored"}
    BY <1>4 DEF Early
  <2> HIDE DEF root
  <2>3. Ledger(root) /\ root.scored = 0
    BY <1>2, <2>1 DEF Ledger, Root
  <2> QED
    BY <1>1, <1>2, <2>2, <2>3, HolderGoes
<1> QED
  BY <1>3, <1>4 DEF IntendRun

LEMMA NewRunTyped == ASSUME NEW k \in Packages PROVE NewRun(k) \in RunRecords
BY DEF NewRun, RunRecords

LEMMA CreateRunSeal ==
    ASSUME SealInv, NEW w \in Workers, CreateRun(w)
    PROVE  SealInv'
<1>1. /\ worker[w].pc = "creating run" /\ worker[w].pc \in Early /\ UNCHANGED remote
      /\ UNCHANGED published /\ UNCHANGED scorings
      /\ runs' \in {runs, Append(runs, NewRun(worker[w].pkg))}
      /\ End(w, Root(w)) \/ Continue(w, "recording run", Root(w))
  BY DEF CreateRun, At, Early
<1>2. /\ Ledger(Root(w)) /\ worker[w].pkg \in Packages /\ runs = <<>> /\ remote
      /\ \A k \in Packages : fs[k].scored = 0
      /\ scorings \in {0, 1}
  BY <1>1, HolderFacts
<1>3. runs' \in Seq(RunRecords) /\ Len(runs') <= 1
  <2> DEFINE new == NewRun(worker[w].pkg)
  <2>1. new \in RunRecords
    BY <1>2, NewRunTyped
  <2>2. runs' = <<>> \/ runs' = Append(<<>>, new)
    BY <1>1, <1>2
  <2> HIDE DEF new
  <2> DEFINE grown == Append(<<>>, new)
  <2>3. <<>> \in Seq(RunRecords) /\ Len(<<>>) = 0 /\ Len(<<>>) <= 1
    OBVIOUS
  <2>4. grown \in Seq(RunRecords) /\ Len(grown) = 1
    BY <2>1, <2>3, AppendProperties
  <2>5. runs' = <<>> \/ runs' = grown
    BY <2>2
  <2> HIDE DEF grown
  <2>6. Len(grown) <= 1
    BY <2>4
  <2> QED
    BY <2>3, <2>4, <2>5, <2>6
<1>4. CASE End(w, Root(w))
  BY <1>1, <1>2, <1>3, <1>4, EarlyEnd
<1>5. CASE Continue(w, "recording run", Root(w))
  <2>1. "recording run" \in Early \ {"scored"} /\ "recording run" \notin {"intended", "creating run"}
    BY DEF Early
  <2>2. Root(w).scored = 0
    BY <1>2 DEF Root
  <2> QED
    BY <1>1, <1>2, <1>3, <1>5, <2>1, <2>2, HolderGoes
<1> QED
  BY <1>1, <1>4, <1>5

LEMMA RecordRunSeal ==
    ASSUME SealInv, NEW w \in Workers, RecordRun(w)
    PROVE  SealInv'
<1>1. /\ worker[w].pc = "recording run" /\ worker[w].pc \in Early /\ UNCHANGED remote
      /\ UNCHANGED runs /\ UNCHANGED published /\ UNCHANGED scorings
  BY DEF RecordRun, At, Early
<1>2. /\ DOMAIN Root(w) = RootFields /\ Ledger(Root(w)) /\ worker[w].pc \notin {"idle", "over"}
      /\ worker[w].pkg \in Packages /\ runs \in Seq(RunRecords) /\ Len(runs) <= 1
      /\ \A k \in Packages : fs[k].scored = 0
  BY <1>1, HolderFacts
<1>3. CASE End(w, Root(w))
  BY <1>1, <1>2, <1>3, EndStep
<1>4. CASE Continue(w, "reserved", [Root(w) EXCEPT !.run = Min1(Found(worker[w].pkg))])
  <2> DEFINE root == [Root(w) EXCEPT !.run = Min1(Found(worker[w].pkg))]
  <2>1. /\ DOMAIN root = RootFields
        /\ root.scored = Root(w).scored /\ root.receipt = Root(w).receipt
        /\ root.plan = Root(w).plan /\ root.publication = Root(w).publication
    BY <1>2 DEF RootFields
  <2>2. /\ Continue(w, "reserved", root) /\ "reserved" \in Early \ {"scored"}
        /\ "reserved" \notin {"intended", "creating run"}
    BY <1>4 DEF Early
  <2> HIDE DEF root
  <2>3. Ledger(root) /\ root.scored = 0
    BY <1>2, <2>1 DEF Ledger, Root
  <2> QED
    BY <1>1, <1>2, <2>2, <2>3, HolderGoes
<1> QED
  BY <1>3, <1>4 DEF RecordRun

LEMMA ScoreTestFoldSeal ==
    ASSUME SealInv, NEW w \in Workers, ScoreTestFold(w)
    PROVE  SealInv'
<1>1. /\ worker[w].pc = "reserved" /\ worker[w].pc \in Early /\ worker[w].pc # "scored"
      /\ UNCHANGED remote /\ UNCHANGED runs /\ UNCHANGED published /\ scorings' = scorings + 1
  BY DEF ScoreTestFold, At, Early
<1>2. /\ Typed /\ worker[w].pkg \in Packages /\ remote /\ scorings = 0
      /\ \A k \in Packages : Ledger(fs[k]) /\ fs[k].scored = 0
      /\ runs \in Seq(RunRecords) /\ Len(runs) <= 1
  BY <1>1, HolderFacts
<1>3. scorings' = 1 /\ scorings' \in {0, 1}
  BY <1>1, <1>2
<1>4. CASE End(w, Root(w))
  BY <1>1, <1>2, <1>3, <1>4, EarlyEnd
<1>5. CASE UNCHANGED fs /\ worker' = [worker EXCEPT ![w].pc = "scored", ![w].art = scorings']
  <2>1. DOMAIN worker = Workers /\ DOMAIN worker[w] = WorkerFields /\ DOMAIN fs = Packages
    BY <1>2 DEF Typed, Placed
  <2>2. /\ OthersStay(w) /\ DOMAIN worker'[w] = WorkerFields /\ worker'[w].pc = "scored"
        /\ worker'[w].art = 1 /\ worker'[w].pkg = worker[w].pkg
    BY <1>3, <1>5, <2>1 DEF OthersStay, WorkerFields
  <2>3. Placed(worker'[w]) /\ worker'[w].pc \in Early /\ worker'[w].pc \notin {"intended", "creating run"}
    BY <1>2, <2>2 DEF Placed, Early
  <2>4. DOMAIN fs' = Packages /\ \A k \in Packages : Ledger(fs'[k]) /\ fs'[k].scored = 0
    BY <1>2, <1>5, <2>1
  <2>5. remote' /\ runs' \in Seq(RunRecords) /\ Len(runs') <= 1
    BY <1>1, <1>2
  <2> QED
    BY <1>1, <1>3, <2>2, <2>3, <2>4, <2>5, EarlyStep
<1> QED
  BY <1>4, <1>5 DEF ScoreTestFold

\* The seal is the first thing retained, for the one run of the request.
LEMMA SealScoredSeal ==
    ASSUME SealInv, NEW w \in Workers, SealScored(w)
    PROVE  SealInv'
<1>1. /\ worker[w].pc = "scored" /\ worker[w].pc \in Early
      /\ UNCHANGED remote /\ UNCHANGED runs /\ UNCHANGED published /\ UNCHANGED scorings
  BY DEF SealScored, At, Early
<1>2. /\ Typed /\ worker[w].pkg \in Packages /\ remote /\ DOMAIN Root(w) = RootFields
      /\ \A k \in Packages : Ledger(fs[k]) /\ fs[k].scored = 0
      /\ runs \in Seq(RunRecords) /\ Len(runs) <= 1 /\ scorings \in {0, 1}
      /\ worker[w].pc \notin {"idle", "over"}
  BY <1>1, HolderFacts
<1>3. CASE End(w, Root(w))
  BY <1>1, <1>2, <1>3, EndStep
<1>4. CASE Continue(w, "sealed", [Root(w) EXCEPT !.scored = worker[w].art])
  <2> DEFINE root == [Root(w) EXCEPT !.scored = worker[w].art]
  <2>1. worker[w].art = 1
    BY <1>1 DEF SealInv, IntentHeld
  <2>2. Before(Early) /\ \A v \in Workers \ {w} : worker[v].pc \notin Early
    BY <1>1, OnlyHolder
  <2>3. /\ LedgersGrow /\ RunsGrow
        /\ Root(w).receipt = 0 /\ Root(w).plan = 0 /\ Root(w).publication = 0
    BY <1>2, <2>2, NothingRetained DEF Root
  <2>4. /\ DOMAIN root = RootFields /\ root.scored = 1
        /\ root.receipt = 0 /\ root.plan = 0 /\ root.publication = 0
    BY <1>2, <2>1, <2>3 DEF RootFields
  <2>5. Continue(w, "sealed", root)
    BY <1>4
  <2> HIDE DEF root
  <2>6. Goes(w, "sealed") /\ OtherRootsStay(worker[w].pkg) /\ fs'[worker[w].pkg] = root
    BY <1>2, <2>5, ContinueFacts
  <2>7. Ledger(root)
    BY <2>4 DEF Ledger
  <2>8. DOMAIN fs' = Packages /\ \A k \in Packages : Ledger(fs'[k])
    BY <1>2, <2>6, <2>7 DEF OtherRootsStay
  <2>9. OthersStay(w) /\ Placed(worker'[w]) /\ worker'[w].pc = "sealed"
    BY <1>2, <2>6 DEF Goes, Placed, Plain
  <2>10. Typed /\ IntentHeld /\ Finishing /\ Publication
    BY DEF SealInv
  <2>11. /\ runs' \in Seq(RunRecords) /\ Len(runs') <= 1 /\ scorings' \in {0, 1}
         /\ published' \in [ResultObjects -> {0, 1}] /\ remote'
    BY <1>1, <1>2 DEF Typed
  <2>12. Typed'
    BY <2>8, <2>9, <2>10, <2>11, TypedStays
  <2>13. /\ worker'[w].pc # "logging" /\ worker'[w].pc \notin {"logged", "publishing"}
         /\ worker'[w].pc # "publishing" /\ worker'[w].pc \notin Early
    BY <2>9 DEF Early
  <2>14. Finishing'
    BY <2>3, <2>9, <2>10, <2>13, FinishingStays
  <2>15. Publication'
    BY <1>1, <2>3, <2>10, PublicationStays
  <2>16. \A v \in Workers : worker'[v].pc \notin Early
    BY <2>2, <2>9, <2>13 DEF OthersStay
  <2>17. {"intended", "creating run"} \subseteq Early /\ Early \ {"scored"} \subseteq Early /\ "scored" \in Early
    BY DEF Early
  <2>18. ~Before(Early)' /\ ~Before({"intended", "creating run"})' /\ ~Before(Early \ {"scored"})'
    BY <2>11, <2>16, <2>17 DEF Before
  <2>19. IntentHeld'
    BY <2>16, <2>17, <2>18 DEF IntentHeld
  <2> QED
    BY <2>12, <2>14, <2>15, <2>19 DEF SealInv
<1> QED
  BY <1>3, <1>4 DEF SealScored

--------------------------------------------------------------------------------
(***************************************************************************)
(* Steps after the seal: they add to what is retained, and never touch it. *)
(***************************************************************************)
LEMMA FinishStep ==
    ASSUME SealInv, NEW w \in Workers, OthersStay(w), Placed(worker'[w]), worker'[w].pc \notin Early,
           DOMAIN fs' = Packages, \A k \in Packages : Ledger(fs'[k]) /\ fs'[k].scored = fs[k].scored,
           LedgersGrow, RunsGrow,
           runs' \in Seq(RunRecords), Len(runs') <= 1, runs = <<>> => runs' = <<>>,
           UNCHANGED published, UNCHANGED scorings, UNCHANGED remote,
           worker'[w].pc = "logging" =>
                Root(w)'.receipt = 1 /\ Found(worker[w].pkg)' = {Root(w)'.run},
           worker'[w].pc \in {"logged", "publishing"} => Complete(worker[w].pkg)',
           worker'[w].pc = "publishing" => Root(w)'.publication = 1
    PROVE  SealInv'
<1>1. Typed /\ IntentHeld /\ Finishing /\ Publication
  BY DEF SealInv
<1>2. published' \in [ResultObjects -> {0, 1}] /\ scorings' \in {0, 1}
  BY <1>1 DEF Typed
<1>3. Typed'
  BY <1>1, <1>2, TypedStays
<1>4. Finishing'
  BY <1>1, FinishingStays
<1>5. Publication'
  BY <1>1, PublicationStays
<1>6. IntentHeld'
  BY <1>1, IntentStays
<1> QED
  BY <1>3, <1>4, <1>5, <1>6 DEF SealInv

LEMMA RetainReceiptSeal ==
    ASSUME SealInv, NEW w \in Workers, RetainReceipt(w)
    PROVE  SealInv'
<1> DEFINE root == [Root(w) EXCEPT !.receipt = Root(w).scored]
<1>1. /\ worker[w].pc = "sealed" /\ Continue(w, "finishing", root)
      /\ UNCHANGED remote /\ UNCHANGED runs /\ UNCHANGED published /\ UNCHANGED scorings
  BY DEF RetainReceipt, At
<1>2. worker[w].pkg \in Packages /\ DOMAIN Root(w) = RootFields /\ Ledger(Root(w)) /\ Typed
  BY <1>1, RootTyped DEF SealInv
<1>3. /\ DOMAIN root = RootFields /\ root.receipt = Root(w).scored
      /\ root.scored = Root(w).scored /\ root.plan = Root(w).plan
      /\ root.publication = Root(w).publication /\ root.run = Root(w).run
  BY <1>2 DEF RootFields
<1> HIDE DEF root
<1>4. Goes(w, "finishing") /\ OtherRootsStay(worker[w].pkg) /\ fs'[worker[w].pkg] = root
  BY <1>1, <1>2, ContinueFacts
<1>5. Ledger(root)
  BY <1>2, <1>3 DEF Ledger
<1>6. DOMAIN fs' = Packages /\ \A k \in Packages : Ledger(fs'[k]) /\ fs'[k].scored = fs[k].scored
  BY <1>2, <1>3, <1>4, <1>5 DEF OtherRootsStay, Root, Typed
<1>7. Root(w).receipt = 1 => Root(w).scored = 1
  BY <1>2 DEF Ledger
<1>8. LedgersGrow
  BY <1>3, <1>4, <1>7 DEF OtherRootsStay, Root, LedgersGrow
<1>9. /\ OthersStay(w) /\ Placed(worker'[w]) /\ worker'[w].pc \notin Early
      /\ worker'[w].pc # "logging" /\ worker'[w].pc \notin {"logged", "publishing"}
      /\ worker'[w].pc # "publishing"
  BY <1>2, <1>4 DEF Goes, Placed, Plain, Early
<1>10. /\ runs' \in Seq(RunRecords) /\ Len(runs') <= 1 /\ (runs = <<>> => runs' = <<>>)
       /\ RunsGrow
  BY <1>1, <1>2, RunsStay DEF Typed
<1> QED
  BY <1>1, <1>6, <1>8, <1>9, <1>10, FinishStep

LEMMA BeginFinishSeal ==
    ASSUME SealInv, NEW w \in Workers, BeginFinish(w)
    PROVE  SealInv'
<1>1. /\ worker[w].pc = "finishing" /\ worker[w].pc \notin {"idle", "over"}
      /\ UNCHANGED remote /\ UNCHANGED runs /\ UNCHANGED published /\ UNCHANGED scorings
  BY DEF BeginFinish, At
<1>2. worker[w].pkg \in Packages /\ DOMAIN Root(w) = RootFields /\ Ledger(Root(w)) /\ Typed
  BY <1>1, RootTyped DEF SealInv
<1>3. CASE End(w, Root(w))
  BY <1>1, <1>2, <1>3, EndStep
<1>4. CASE Recoverable(w) /\ Continue(w, IF MyRun(w).finished THEN "logged" ELSE "logging",
                                      [Root(w) EXCEPT !.plan = Root(w).receipt])
  <2> DEFINE root == [Root(w) EXCEPT !.plan = Root(w).receipt]
  <2> DEFINE c == IF MyRun(w).finished THEN "logged" ELSE "logging"
  <2> DEFINE k == worker[w].pkg
  <2>1. /\ Root(w).receipt = 1 /\ Root(w).scored = 1 /\ Found(k) = {Root(w).run}
        /\ MyRun(w).finished => \A i \in LogItems : MyRun(w).logged[i] = 1
    BY <1>2, <1>4 DEF Recoverable, Ledger
  <2>2. /\ DOMAIN root = RootFields /\ root.plan = 1 /\ root.receipt = 1 /\ root.scored = 1
        /\ root.publication = Root(w).publication /\ root.run = Root(w).run
    BY <1>2, <2>1 DEF RootFields
  <2>3. Continue(w, c, root)
    BY <1>4
  <2>4. c \in {"logged", "logging"} /\ (c = "logged" => MyRun(w).finished)
    OBVIOUS
  <2> HIDE DEF root, c, k
  <2>5. Goes(w, c) /\ OtherRootsStay(worker[w].pkg) /\ fs'[worker[w].pkg] = root
    BY <1>2, <2>3, ContinueFacts
  <2>6. Ledger(root)
    BY <1>2, <2>1, <2>2 DEF Ledger
  <2>7. DOMAIN fs' = Packages /\ \A j \in Packages : Ledger(fs'[j]) /\ fs'[j].scored = fs[j].scored
    BY <1>2, <2>1, <2>2, <2>5, <2>6 DEF OtherRootsStay, Root, Typed
  <2>8. LedgersGrow
    BY <2>2, <2>5 DEF OtherRootsStay, Root, LedgersGrow
  <2>9. /\ OthersStay(w) /\ Placed(worker'[w]) /\ worker'[w].pc = c /\ c \notin Early
        /\ worker'[w].pkg = k /\ c # "publishing"
    BY <1>2, <2>4, <2>5 DEF Goes, Placed, Late, Early, k
  <2>10. /\ runs' \in Seq(RunRecords) /\ Len(runs') <= 1 /\ (runs = <<>> => runs' = <<>>)
         /\ RunsGrow
    BY <1>1, <1>2, RunsStay DEF Typed
  <2>11. Root(w)' = root
    BY <2>5, <2>9 DEF Root, k
  <2>12. Found(worker[w].pkg)' = Found(k)
    BY <1>1, <2>9 DEF Found
  <2>13. Root(w)'.receipt = 1 /\ Found(worker[w].pkg)' = {Root(w)'.run}
    BY <2>1, <2>2, <2>11, <2>12
  <2>14. ASSUME c = "logged" PROVE Complete(worker[w].pkg)'
    <3>1. /\ runs[Root(w).run].finished
          /\ \A i \in LogItems : runs[Root(w).run].logged[i] = 1
      BY <2>1, <2>4, <2>14 DEF MyRun
    <3>2. /\ runs'[Root(w)'.run].finished
          /\ \A i \in LogItems : runs'[Root(w)'.run].logged[i] = 1
      BY <1>1, <2>2, <2>11, <3>1
    <3> QED
      BY <2>2, <2>11, <2>13, <3>2 DEF Complete, Root
  <2> QED
    BY <1>1, <2>4, <2>7, <2>8, <2>9, <2>10, <2>13, <2>14, FinishStep
<1> QED
  BY <1>3, <1>4 DEF BeginFinish

\* A run is written: it keeps its reservation, and what it held.
LEMMA RunWritten ==
    ASSUME Typed, NEW n \in 1..Len(runs), NEW rec \in RunRecords, runs' = [runs EXCEPT ![n] = rec],
           rec.pkg = runs[n].pkg, runs[n].finished => rec.finished,
           \A i \in LogItems : runs[n].logged[i] = 1 => rec.logged[i] = 1
    PROVE  /\ runs' \in Seq(RunRecords) /\ Len(runs') = Len(runs) /\ Len(runs') <= 1
           /\ runs # <<>> /\ runs'[n] = rec /\ RunsGrow
<1>1. runs \in Seq(RunRecords) /\ Len(runs) <= 1
  BY DEF Typed
<1>2. /\ runs' \in Seq(RunRecords) /\ Len(runs') = Len(runs) /\ runs'[n] = rec
      /\ \A r \in 1..Len(runs) : r # n => runs'[r] = runs[r]
  BY <1>1, ExceptSeq
<1>3. runs # <<>> /\ Len(runs') <= 1
  BY <1>1, <1>2
<1>4. RunsGrow
  BY <1>2 DEF RunsGrow
<1> QED
  BY <1>2, <1>3, <1>4

\* Where the logging worker writes.
LEMMA LoggingFacts ==
    ASSUME SealInv, NEW w \in Workers, worker[w].pc = "logging"
    PROVE  /\ Typed /\ worker[w].pkg \in Packages /\ DOMAIN Root(w) = RootFields
           /\ Root(w).receipt = 1 /\ Root(w).scored = 1
           /\ Found(worker[w].pkg) = {Root(w).run}
           /\ Root(w).run \in 1..Len(runs) /\ MyRun(w) \in RunRecords /\ MyRun(w) = runs[Root(w).run]
<1>1. Typed /\ worker[w].pkg \in Packages /\ DOMAIN Root(w) = RootFields
  BY RootTyped DEF SealInv
<1>2. Root(w).receipt = 1 /\ Found(worker[w].pkg) = {Root(w).run}
  BY DEF SealInv, Finishing
<1>3. Root(w).scored = 1
  BY <1>1, <1>2, RetainedIsSealed DEF Root
<1>4. Root(w).run \in 1..Len(runs)
  BY <1>2 DEF Found
<1>5. MyRun(w) = runs[Root(w).run]
  BY DEF MyRun
<1>6. MyRun(w) \in RunRecords
  BY <1>1, <1>4, <1>5, ElementOfSeq DEF Typed
<1> QED
  BY <1>1, <1>2, <1>3, <1>4, <1>5, <1>6

\* The logging worker stays where it is, or ends.
LEMMA LoggingStep ==
    ASSUME SealInv, NEW w \in Workers, worker[w].pc = "logging",
           UNCHANGED <<worker, fs>> \/ End(w, Root(w)),
           runs' \in Seq(RunRecords), Len(runs') <= 1, runs = <<>> => runs' = <<>>, RunsGrow,
           UNCHANGED published, UNCHANGED scorings, UNCHANGED remote
    PROVE  SealInv'
<1>1. /\ Typed /\ worker[w].pkg \in Packages /\ Root(w).receipt = 1 /\ Root(w).scored = 1
      /\ Found(worker[w].pkg) = {Root(w).run}
  BY LoggingFacts
<1>2. /\ OthersStay(w) /\ Placed(worker'[w]) /\ LedgersStay /\ worker'[w].pc \in {"idle", "over", "logging"}
      /\ worker'[w].pc = "logging" => worker' = worker /\ fs' = fs
  <2>1. CASE UNCHANGED <<worker, fs>>
    <3>1. DOMAIN worker = Workers /\ Placed(worker[w]) /\ DOMAIN fs = Packages
          /\ \A k \in Packages : DOMAIN fs[k] = RootFields
      BY <1>1 DEF Typed, Ledger
    <3> QED
      BY <2>1, <3>1 DEF OthersStay, LedgersStay
  <2>2. CASE End(w, Root(w))
    BY <1>1, <2>2, EndFacts
  <2> QED
    BY <2>1, <2>2
<1>3. DOMAIN fs' = Packages /\ LedgersGrow /\ \A k \in Packages : Ledger(fs'[k]) /\ fs'[k].scored = fs[k].scored
  BY <1>1, <1>2, LedgersStayTyped
<1>4. ASSUME worker'[w].pc = "logging"
      PROVE  Root(w)'.receipt = 1 /\ Found(worker[w].pkg)' = {Root(w)'.run}
  <2>1. worker' = worker /\ fs' = fs
    BY <1>2, <1>4
  <2>2. Root(w)' = Root(w)
    BY <2>1 DEF Root
  <2>3. Len(runs') = Len(runs) /\ \A r \in 1..Len(runs) : runs'[r].pkg = runs[r].pkg
    BY <1>1 DEF RunsGrow, Root
  <2>4. Found(worker[w].pkg)' = Found(worker[w].pkg)
    BY <2>1, <2>3 DEF Found
  <2> QED
    BY <1>1, <2>2, <2>4
<1>5. /\ worker'[w].pc \notin {"logged", "publishing"} /\ worker'[w].pc # "publishing"
      /\ worker'[w].pc \notin Early
  BY <1>2 DEF Early
<1> QED
  BY <1>2, <1>3, <1>4, <1>5, FinishStep

LEMMA LogItemSeal ==
    ASSUME SealInv, NEW w \in Workers, LogItem(w)
    PROVE  SealInv'
<1>1. /\ worker[w].pc = "logging" /\ UNCHANGED remote /\ UNCHANGED published /\ UNCHANGED scorings
      /\ UNCHANGED <<worker, fs>> \/ End(w, Root(w))
      /\ \/ UNCHANGED runs
         \/ runs' = [runs EXCEPT ![Root(w).run].logged[Min1(Missing(w))] = Root(w).receipt]
  BY DEF LogItem, At
<1>2. /\ Typed /\ Root(w).receipt = 1 /\ Root(w).run \in 1..Len(runs)
      /\ MyRun(w) \in RunRecords /\ MyRun(w) = runs[Root(w).run]
  BY <1>1, LoggingFacts
<1>3. /\ runs' \in Seq(RunRecords) /\ Len(runs') <= 1 /\ (runs = <<>> => runs' = <<>>)
      /\ RunsGrow
  <2>1. CASE UNCHANGED runs
    BY <1>2, <2>1, RunsStay DEF Typed
  <2>2. CASE runs' = [runs EXCEPT ![Root(w).run].logged[Min1(Missing(w))] = Root(w).receipt]
    <3> DEFINE n == Root(w).run
               item == Min1(Missing(w))
               run == MyRun(w)
               entries == [run.logged EXCEPT ![item] = 1]
               rec == [run EXCEPT !.logged = entries]
    <3>1. runs' = [runs EXCEPT ![n] = rec]
      BY <1>2, <2>2
    <3> HIDE DEF n, item, run
    <3>2. run.logged \in [LogItems -> {0, 1}] /\ run.pkg \in Packages /\ run.finished \in BOOLEAN
      BY <1>2 DEF RunRecords, run
    <3>3. entries \in [LogItems -> {0, 1}] /\ \A i \in LogItems : run.logged[i] = 1 => entries[i] = 1
      BY <3>2
    <3> HIDE DEF entries
    <3>4. rec \in RunRecords /\ rec.pkg = run.pkg /\ rec.logged = entries /\ rec.finished = run.finished
      BY <1>2, <3>2, <3>3 DEF RunRecords, run
    <3> HIDE DEF rec
    <3>5. n \in 1..Len(runs) /\ run = runs[n]
      BY <1>2 DEF n, run
    <3>6. /\ rec.pkg = runs[n].pkg /\ (runs[n].finished => rec.finished)
          /\ \A i \in LogItems : runs[n].logged[i] = 1 => rec.logged[i] = 1
      BY <3>3, <3>4, <3>5
    <3> QED
      BY <1>2, <3>1, <3>4, <3>5, <3>6, RunWritten
  <2> QED
    BY <1>1, <2>1, <2>2
<1> QED
  BY <1>1, <1>3, LoggingStep

LEMMA FinishRunSeal ==
    ASSUME SealInv, NEW w \in Workers, FinishRun(w)
    PROVE  SealInv'
<1>1. /\ worker[w].pc = "logging" /\ UNCHANGED remote /\ UNCHANGED published /\ UNCHANGED scorings
      /\ Missing(w) = {}
      /\ UNCHANGED runs \/ runs' = [runs EXCEPT ![Root(w).run].finished = TRUE]
      /\ \/ End(w, Root(w))
         \/ Continue(w, "logged", Root(w)) /\ runs' = [runs EXCEPT ![Root(w).run].finished = TRUE]
  BY DEF FinishRun, At
<1>2. /\ Typed /\ Root(w).receipt = 1 /\ Root(w).scored = 1 /\ Root(w).run \in 1..Len(runs)
      /\ Found(worker[w].pkg) = {Root(w).run} /\ worker[w].pkg \in Packages
      /\ MyRun(w) \in RunRecords /\ MyRun(w) = runs[Root(w).run]
  BY <1>1, LoggingFacts
<1> DEFINE n == Root(w).run
           run == MyRun(w)
           rec == [run EXCEPT !.finished = TRUE]
<1>3. runs' = [runs EXCEPT ![Root(w).run].finished = TRUE] => runs' = [runs EXCEPT ![n] = rec]
  BY <1>2
<1>4. rec \in RunRecords /\ rec.pkg = run.pkg /\ rec.logged = run.logged /\ rec.finished
  BY <1>2 DEF RunRecords
<1>5. n \in 1..Len(runs) /\ run = runs[n] /\ run.logged \in [LogItems -> {0, 1}]
  BY <1>2 DEF RunRecords
<1>6. \A i \in LogItems : run.logged[i] = 1
  BY <1>1, <1>5 DEF Missing
<1> HIDE DEF n, run, rec
<1>7. ASSUME runs' = [runs EXCEPT ![n] = rec]
      PROVE  /\ runs' \in Seq(RunRecords) /\ Len(runs') = Len(runs) /\ Len(runs') <= 1
             /\ runs # <<>> /\ runs'[n] = rec /\ RunsGrow
  <2>1. /\ rec.pkg = runs[n].pkg /\ (runs[n].finished => rec.finished)
        /\ \A i \in LogItems : runs[n].logged[i] = 1 => rec.logged[i] = 1
    BY <1>4, <1>5
  <2> QED
    BY <1>2, <1>4, <1>5, <1>7, <2>1, RunWritten
<1>8. /\ runs' \in Seq(RunRecords) /\ Len(runs') <= 1 /\ (runs = <<>> => runs' = <<>>)
      /\ RunsGrow
  <2>1. CASE UNCHANGED runs
    BY <1>2, <2>1, RunsStay DEF Typed
  <2> QED
    BY <1>1, <1>3, <1>7, <2>1
<1>9. CASE End(w, Root(w))
  BY <1>1, <1>8, <1>9, LoggingStep
<1>10. CASE Continue(w, "logged", Root(w)) /\ runs' = [runs EXCEPT ![Root(w).run].finished = TRUE]
  <2>1. Goes(w, "logged") /\ OtherRootsStay(worker[w].pkg) /\ fs'[worker[w].pkg] = Root(w)
    BY <1>2, <1>10, ContinueFacts
  <2>2. DOMAIN fs' = Packages /\ \A k \in Packages : fs'[k] = fs[k] /\ Ledger(fs[k])
    BY <1>2, <2>1 DEF OtherRootsStay, Root, Typed
  <2>3. \A k \in Packages : Ledger(fs'[k]) /\ fs'[k].scored = fs[k].scored
    BY <2>2
  <2>4. LedgersGrow
    BY <2>2 DEF LedgersGrow
  <2>5. /\ OthersStay(w) /\ Placed(worker'[w]) /\ worker'[w].pc = "logged"
        /\ worker'[w].pc \notin Early /\ worker'[w].pkg = worker[w].pkg
    BY <1>2, <2>1 DEF Goes, Placed, Late, Early
  <2>6. Len(runs') = Len(runs) /\ runs'[n] = rec
    BY <1>3, <1>7, <1>10
  <2>7. \A r \in 1..Len(runs) : runs'[r].pkg = runs[r].pkg
    BY <1>2, <1>8 DEF RunsGrow, Root
  <2>8. Found(worker[w].pkg)' = {n}
    BY <1>2, <2>5, <2>6, <2>7 DEF Found, n
  <2>9. fs'[worker'[w].pkg].run = n /\ fs'[worker'[w].pkg].scored = 1
    BY <1>2, <2>1, <2>5 DEF n
  <2>10. rec.finished /\ \A i \in LogItems : rec.logged[i] = 1
    BY <1>4, <1>6
  <2>11. Complete(worker[w].pkg)'
    BY <2>6, <2>8, <2>9, <2>10 DEF Complete
  <2>12. worker'[w].pc # "logging" /\ worker'[w].pc # "publishing"
    BY <2>5
  <2> QED
    BY <1>1, <1>8, <2>2, <2>3, <2>4, <2>5, <2>11, <2>12, FinishStep
<1> QED
  BY <1>1, <1>9, <1>10

LEMMA RetainPublicationSeal ==
    ASSUME SealInv, NEW w \in Workers, RetainPublication(w)
    PROVE  SealInv'
<1>1. /\ worker[w].pc = "logged" /\ worker[w].pc \notin {"idle", "over"}
      /\ UNCHANGED remote /\ UNCHANGED runs /\ UNCHANGED published /\ UNCHANGED scorings
  BY DEF RetainPublication, At
<1>2. /\ worker[w].pkg \in Packages /\ DOMAIN Root(w) = RootFields /\ Ledger(Root(w)) /\ Typed
      /\ Complete(worker[w].pkg)
  BY <1>1, RootTyped DEF SealInv, Finishing
<1>3. CASE End(w, Root(w))
  BY <1>1, <1>2, <1>3, EndStep
<1>4. CASE Continue(w, "publishing",
             [Root(w) EXCEPT !.publication = IF @ = 0 THEN Root(w).scored ELSE @])
  <2> DEFINE root == [Root(w) EXCEPT !.publication = IF @ = 0 THEN Root(w).scored ELSE @]
  <2>1. Root(w).scored = 1 /\ Root(w).publication \in {0, 1}
    BY <1>2 DEF Complete, Root, Ledger
  <2>2. /\ DOMAIN root = RootFields /\ root.publication = 1
        /\ root.scored = Root(w).scored /\ root.plan = Root(w).plan
        /\ root.receipt = Root(w).receipt /\ root.run = Root(w).run
    BY <1>2, <2>1 DEF RootFields
  <2>3. Continue(w, "publishing", root)
    BY <1>4
  <2> HIDE DEF root
  <2>4. Goes(w, "publishing") /\ OtherRootsStay(worker[w].pkg) /\ fs'[worker[w].pkg] = root
    BY <1>2, <2>3, ContinueFacts
  <2>5. Ledger(root)
    BY <1>2, <2>1, <2>2 DEF Ledger
  <2>6. DOMAIN fs' = Packages /\ \A k \in Packages : Ledger(fs'[k]) /\ fs'[k].scored = fs[k].scored
    BY <1>2, <2>2, <2>4, <2>5 DEF OtherRootsStay, Root, Typed
  <2>7. LedgersGrow
    BY <2>2, <2>4 DEF OtherRootsStay, Root, LedgersGrow
  <2>8. /\ OthersStay(w) /\ Placed(worker'[w]) /\ worker'[w].pc = "publishing"
        /\ worker'[w].pc \notin Early /\ worker'[w].pkg = worker[w].pkg
        /\ worker'[w].pc # "logging"
    BY <1>2, <2>4 DEF Goes, Placed, Late, Early
  <2>9. /\ runs' \in Seq(RunRecords) /\ Len(runs') <= 1 /\ (runs = <<>> => runs' = <<>>)
        /\ RunsGrow
    BY <1>1, <1>2, RunsStay DEF Typed
  <2>10. Complete(worker[w].pkg)'
    <3> DEFINE k == worker[w].pkg
    <3>1. /\ fs'[k].scored = fs[k].scored /\ fs'[k].run = fs[k].run /\ worker'[w].pkg = k
      BY <2>2, <2>4, <2>8 DEF Root
    <3>2. Found(worker[w].pkg)' = Found(k)
      BY <1>1, <3>1 DEF Found
    <3> QED
      BY <1>1, <1>2, <3>1, <3>2 DEF Complete
  <2>11. Root(w)'.publication = 1
    BY <2>2, <2>4, <2>8 DEF Root
  <2> QED
    BY <1>1, <2>6, <2>7, <2>8, <2>9, <2>10, <2>11, FinishStep
<1> QED
  BY <1>3, <1>4 DEF RetainPublication

\* SUCCESS is the last object, put when all the others are the sealed result.
LEMMA PutResultSeal ==
    ASSUME SealInv, NEW w \in Workers, NEW o \in ResultObjects, PutResult(w, o)
    PROVE  SealInv'
<1>1. /\ worker[w].pc = "publishing" /\ worker[w].pc \notin {"idle", "over"}
      /\ UNCHANGED remote /\ UNCHANGED runs /\ UNCHANGED scorings
      /\ Publishable(w) /\ o \in ToPublish(w) /\ (o = "SUCCESS" => ToPublish(w) = {"SUCCESS"})
  BY DEF PutResult, At
<1>2. /\ Typed /\ IntentHeld /\ Finishing /\ Publication
      /\ worker[w].pkg \in Packages /\ Complete(worker[w].pkg) /\ Root(w).publication = 1
  BY <1>1, RootTyped DEF SealInv, Finishing
<1>3. CASE UNCHANGED published /\ End(w, Root(w))
  BY <1>1, <1>2, <1>3, EndStep
<1>4. CASE published' = [published EXCEPT ![o] = Root(w).publication] /\ UNCHANGED <<worker, fs>>
  <2>1. published \in [ResultObjects -> {0, 1}] /\ "SUCCESS" \in ResultObjects
    BY <1>2 DEF Typed, ResultObjects
  <2>2. published' = [published EXCEPT ![o] = 1]
    BY <1>2, <1>4
  <2>3. published' \in [ResultObjects -> {0, 1}]
    BY <2>1, <2>2
  <2>4. UNCHANGED fs /\ UNCHANGED worker
    BY <1>4
  <2>5. Typed' /\ IntentHeld' /\ Finishing'
    BY <1>1, <1>2, <2>3, <2>4
       DEF Typed, Ledger, Placed, IntentHeld, Before, Finishing, Complete, Found, Root
  <2>6. Publication'
    <3>1. CASE o = "SUCCESS"
      <4>1. \A x \in ResultObjects : x # "SUCCESS" => published[x] # 0
        BY <1>1, <3>1 DEF ToPublish
      <4>2. \A x \in ResultObjects : published'[x] = 1
        BY <2>1, <2>2, <3>1, <4>1
      <4>3. Complete(worker[w].pkg)' /\ worker'[w].pkg \in Packages
        BY <1>1, <1>2, <2>4 DEF Complete, Found
      <4> QED
        BY <4>2, <4>3 DEF Publication
    <3>2. CASE o # "SUCCESS"
      <4>1. ToPublish(w) # {}
        BY <1>1
      <4>2. published["SUCCESS"] = 0
        BY <1>1, <4>1 DEF Publishable
      <4>3. published'["SUCCESS"] = 0
        BY <2>1, <2>2, <3>2, <4>2
      <4> QED
        BY <4>3 DEF Publication
    <3> QED
      BY <3>1, <3>2
  <2> QED
    BY <2>5, <2>6 DEF SealInv
<1> QED
  BY <1>3, <1>4 DEF PutResult

LEMMA EndPublicationSeal ==
    ASSUME SealInv, NEW w \in Workers, EndPublication(w)
    PROVE  SealInv'
<1>1. worker[w].pc \notin {"idle", "over"} /\ End(w, Root(w)) /\ UNCHANGED <<remote, runs, published, scorings>>
  BY DEF EndPublication, At
<1> QED
  BY <1>1, EndStep

LEMMA CrashSeal ==
    ASSUME SealInv, NEW w \in Workers, WorkerCrash(w)
    PROVE  SealInv'
<1>1. worker[w].pc \notin {"idle", "over"} /\ End(w, Root(w)) /\ UNCHANGED <<remote, runs, published, scorings>>
  BY DEF WorkerCrash
<1> QED
  BY <1>1, EndStep

LEMMA StutterSeal ==
    ASSUME SealInv, UNCHANGED <<fs, worker, remote, runs, published, scorings>>
    PROVE  SealInv'
BY ZenonT(60) DEF SealInv, Typed, Ledger, Placed, IntentHeld, Before, Finishing, Publication, Complete, Found, Root

LEMMA InitSeal == SealInit => SealInv
<1> SUFFICES ASSUME SealInit PROVE SealInv
  OBVIOUS
<1>1. /\ \A k \in Packages : fs[k] = EmptyRoot
      /\ \A w \in Workers : worker[w] = IdleWorker
      /\ DOMAIN fs = Packages /\ DOMAIN worker = Workers
      /\ runs = <<>> /\ scorings = 0 /\ published = [o \in ResultObjects |-> 0]
  BY DEF SealInit
<1>2. Ledger(EmptyRoot) /\ EmptyRoot.scored = 0
  BY DEF Ledger, EmptyRoot, RootFields
<1>3. Placed(IdleWorker) /\ IdleWorker.pc = "idle"
  BY DEF Placed, IdleWorker, WorkerFields, Plain
<1>4. Typed
  BY <1>1, <1>2, <1>3 DEF Typed
<1>5. IntentHeld
  BY <1>1, <1>2, <1>3 DEF IntentHeld, Early
<1>6. Finishing
  BY <1>1, <1>3 DEF Finishing
<1>7. "SUCCESS" \in ResultObjects
  BY DEF ResultObjects
<1>8. Publication
  BY <1>1, <1>7 DEF Publication
<1> QED
  BY <1>4, <1>5, <1>6, <1>8 DEF SealInv

LEMMA NextSeal == SealInv /\ [SealNext]_sealVars => SealInv'
<1> SUFFICES ASSUME SealInv, [SealNext]_sealVars PROVE SealInv'
  OBVIOUS
<1>1. CASE UNCHANGED sealVars
  BY <1>1, StutterSeal DEF sealVars
<1>2. ASSUME NEW w \in Workers, NEW k \in Packages, Launch(w, k) PROVE SealInv'
  BY <1>2, LaunchSeal
<1>3. ASSUME NEW w \in Workers, NEW signed \in BOOLEAN, ObserveContext(w, signed) PROVE SealInv'
  BY <1>3, ObserveContextSeal
<1>4. ASSUME NEW w \in Workers, Step(w) PROVE SealInv'
  BY <1>4, CreateRootSeal, TakeLockSeal, PutIntentSeal, IntendRunSeal, CreateRunSeal, RecordRunSeal,
     ScoreTestFoldSeal, SealScoredSeal, RetainReceiptSeal, BeginFinishSeal, LogItemSeal,
     FinishRunSeal, RetainPublicationSeal, PutResultSeal, EndPublicationSeal DEF Step
<1>5. ASSUME NEW w \in Workers, WorkerCrash(w) PROVE SealInv'
  BY <1>5, CrashSeal
<1>6. ASSUME NEW w \in Workers, ChangeStorage(w) PROVE SealInv'
  BY <1>6, StutterSeal DEF ChangeStorage
<1> QED
  BY <1>1, <1>2, <1>3, <1>4, <1>5, <1>6 DEF SealNext

(* In every reachable state every digest is that of the one scoring, the   *)
(* intent has one holder, and what logs and publishes has a complete run   *)
(* (run_live, finish_retained).                                            *)
THEOREM SealInvariant == SealSpec => []SealInv
BY InitSeal, NextSeal, PTL DEF SealSpec

LEMMA InvariantGivesResult == SealInv => OneScoredResult
<1> SUFFICES ASSUME SealInv PROVE OneScoredResult
  OBVIOUS
<1>1. ScoredOnce
  BY DEF ScoredOnce, SealInv, Typed
<1>2. OneRunPerReservation
  <2> SUFFICES ASSUME NEW k \in Packages PROVE Cardinality(Found(k)) <= 1
    BY DEF OneRunPerReservation
  <2>1. runs \in Seq(RunRecords) /\ Len(runs) <= 1
    BY DEF SealInv, Typed
  <2>2. Found(k) \subseteq {1}
    BY <2>1 DEF Found
  <2>3. IsFiniteSet({1}) /\ Cardinality({1}) = 1
    BY FS_Singleton
  <2>4. IsFiniteSet(Found(k)) /\ Cardinality(Found(k)) <= Cardinality({1})
    BY <2>2, <2>3, FS_Subset
  <2> QED
    BY <2>3, <2>4
<1>3. PublishedIsScored
  <2> SUFFICES ASSUME published["SUCCESS"] # 0 PROVE PublishedIsScored
    BY DEF PublishedIsScored
  <2>1. PICK k \in Packages : Complete(k) /\ \A o \in ResultObjects : published[o] = 1
    BY DEF SealInv, Publication
  <2>2. /\ fs[k].scored = 1 /\ \A o \in ResultObjects : published[o] = 1
        /\ Found(k) = {fs[k].run} /\ runs[fs[k].run].finished
        /\ \A i \in LogItems : runs[fs[k].run].logged[i] = 1
    BY <2>1 DEF Complete
  <2> QED
    BY <2>2 DEF PublishedIsScored
<1> QED
  BY <1>1, <1>2, <1>3 DEF OneScoredResult

(* Whatever crashes, is lost or is submitted again, the test fold is       *)
(* scored once, a reservation has one run, and what is published is that   *)
(* scoring, complete and as the finished run holds it (run_live,           *)
(* reserve_run, finish_retained, resume_publication).                      *)
THEOREM ScoredOnceAndPublished == SealSpec => []OneScoredResult
BY SealInvariant, InvariantGivesResult, PTL

--------------------------------------------------------------------------------
ExportFields == {"pc", "cursor", "control", "hybrid", "left", "failed"}

\* The pages so far of the stream being exported are a prefix of it, the
\* stream before it is whole, and what is left to release is what is held.
ExportInv ==
    /\ DOMAIN export = ExportFields /\ export.cursor \in 0..StreamLength
    /\ (export.pc = "idle" => /\ export.cursor = 0 /\ export.control = {} /\ export.hybrid = {}
                              /\ export.failed = FALSE)
    /\ (export.pc = "control" => /\ export.control = 1..export.cursor /\ export.hybrid = {})
    /\ (export.pc = "hybrid" => /\ export.control = 1..StreamLength
                                /\ export.hybrid = 1..export.cursor)
    /\ (export.pc \in {"control", "hybrid", "release"} => streams = export.left)
    /\ (export.pc = "release" /\ export.failed = FALSE =>
            export.control = 1..StreamLength /\ export.hybrid = 1..StreamLength)
    /\ (export.pc = "done" => /\ export.control = 1..StreamLength /\ export.hybrid = 1..StreamLength
                              /\ streams = {})
--------------------------------------------------------------------------------
LEMMA ExportStays == ExportInv /\ UNCHANGED exportVars => ExportInv'
  BY DEF ExportInv, exportVars

LEMMA RequestKeepsExport ==
    ASSUME ExportInv, NEW deterministic \in BOOLEAN, RequestComparison(deterministic)
    PROVE  ExportInv'
<1>1. /\ export.pc = "idle" /\ streams' = StreamsOfComparison
      /\ DOMAIN export' = ExportFields /\ export'.left = StreamsOfComparison
      /\ export'.pc = (IF deterministic THEN "control" ELSE "release")
      /\ export'.failed = ~deterministic
      /\ export'.cursor = export.cursor /\ export'.control = export.control
      /\ export'.hybrid = export.hybrid
  BY DEF RequestComparison, ExportInv, ExportFields
<1>2. export.cursor = 0 /\ export.control = {} /\ export.hybrid = {} /\ 1..0 = {}
  BY <1>1 DEF ExportInv
<1> QED BY <1>1, <1>2, ReplayComparisonAssumption DEF ExportInv

(* A page adds the rows after the cursor and moves it to the last of them. *)
LEMMA PageKeepsExport ==
    ASSUME ExportInv, NextPage
    PROVE  ExportInv'
<1> DEFINE last == IF export.cursor + PageLimit > StreamLength THEN StreamLength
                   ELSE export.cursor + PageLimit
<1>1. PICK upto : upto = last
  OBVIOUS
<1>2. /\ upto \in 0..StreamLength /\ export.cursor \in Nat /\ export.cursor <= upto
      /\ 1..export.cursor \cup (export.cursor + 1)..upto = 1..upto
  BY <1>1, ReplayComparisonAssumption DEF ExportInv
<1>3. /\ streams' = streams /\ export.pc \in {"control", "hybrid"}
      /\ export' = IF upto < StreamLength
                   THEN [export EXCEPT !.cursor = upto,
                           ![export.pc] = export[export.pc] \cup (export.cursor + 1)..upto]
                   ELSE [export EXCEPT !.cursor = 0,
                           ![export.pc] = export[export.pc] \cup (export.cursor + 1)..upto,
                           !.pc = IF @ = "control" THEN "hybrid" ELSE "release"]
  BY <1>1 DEF NextPage
<1> HIDE DEF last
<1>4. CASE export.pc = "control"
  <2>1. export.control \cup (export.cursor + 1)..upto = 1..upto /\ export.hybrid = {}
    BY <1>2, <1>4 DEF ExportInv
  <2>2. /\ DOMAIN export' = ExportFields /\ export'.control = 1..upto /\ export'.hybrid = {}
        /\ export'.failed = export.failed /\ export'.left = export.left
        /\ export'.cursor = (IF upto < StreamLength THEN upto ELSE 0)
        /\ export'.pc = (IF upto < StreamLength THEN "control" ELSE "hybrid")
    BY <1>3, <1>4, <2>1 DEF ExportInv, ExportFields
  <2>3. 1..0 = {} /\ (upto < StreamLength \/ upto = StreamLength) /\ streams' = export'.left
    BY <1>2, <1>3, <1>4, <2>2, ReplayComparisonAssumption DEF ExportInv
  <2>4. CASE upto < StreamLength
    BY <1>2, <2>2, <2>3, <2>4, ReplayComparisonAssumption DEF ExportInv
  <2>5. CASE upto = StreamLength
    <3>1. /\ export'.pc = "hybrid" /\ export'.cursor = 0 /\ export'.control = 1..StreamLength
          /\ export'.hybrid = 1..export'.cursor /\ export'.cursor \in 0..StreamLength
      BY <1>2, <2>2, <2>3, <2>5, ReplayComparisonAssumption
    <3> QED BY <2>2, <2>3, <3>1 DEF ExportInv
  <2> QED BY <2>3, <2>4, <2>5
<1>5. CASE export.pc = "hybrid"
  <2>1. export.hybrid \cup (export.cursor + 1)..upto = 1..upto /\ export.control = 1..StreamLength
    BY <1>2, <1>5 DEF ExportInv
  <2>2. /\ DOMAIN export' = ExportFields /\ export'.hybrid = 1..upto
        /\ export'.control = 1..StreamLength
        /\ export'.failed = export.failed /\ export'.left = export.left
        /\ export'.cursor = (IF upto < StreamLength THEN upto ELSE 0)
        /\ export'.pc = (IF upto < StreamLength THEN "hybrid" ELSE "release")
    BY <1>3, <1>5, <2>1 DEF ExportInv, ExportFields
  <2>3. (upto < StreamLength \/ upto = StreamLength) /\ streams' = export'.left
    BY <1>2, <1>3, <1>5, <2>2, ReplayComparisonAssumption DEF ExportInv
  <2> QED BY <1>2, <1>3, <2>2, <2>3, ReplayComparisonAssumption DEF ExportInv
<1> QED BY <1>3, <1>4, <1>5

LEMMA FailureKeepsExport ==
    ASSUME ExportInv, PageFails \/ ReleaseFails
    PROVE  ExportInv'
<1>1. /\ streams' = streams /\ DOMAIN export' = ExportFields /\ export'.failed = TRUE
      /\ export'.cursor = export.cursor /\ export'.left = export.left
      /\ export.pc \in {"control", "hybrid", "release"}
      /\ export'.pc \in {"release", "failed"}
  BY DEF PageFails, ReleaseFails, ExportInv, ExportFields
<1> QED BY <1>1 DEF ExportInv

LEMMA ReleaseKeepsExport ==
    ASSUME ExportInv, NEW s, ReleaseStream(s)
    PROVE  ExportInv'
<1>1. /\ export.pc = "release" /\ streams' = streams \ {s} /\ DOMAIN export' = ExportFields
      /\ export'.failed = export.failed /\ export'.cursor = export.cursor
      /\ export'.control = export.control /\ export'.hybrid = export.hybrid
      /\ export'.left = export.left \ {s}
      /\ export'.pc = IF export.left = {s} THEN (IF export.failed THEN "failed" ELSE "done")
                      ELSE "release"
  BY DEF ReleaseStream, ExportInv, ExportFields
<1>2. streams = export.left
  BY <1>1 DEF ExportInv
<1>3. export'.pc = "done" => streams' = {} /\ export.failed # TRUE
  BY <1>1, <1>2
<1> QED BY <1>1, <1>2, <1>3 DEF ExportInv

LEMMA ExportInitially == ComparisonInit => ExportInv
  BY ReplayComparisonAssumption DEF ComparisonInit, ExportInv, ExportFields

LEMMA ExportSteps == ExportInv /\ [ComparisonNext]_comparisonVars => ExportInv'
<1> SUFFICES ASSUME ExportInv, [ComparisonNext]_comparisonVars PROVE ExportInv'
  OBVIOUS
<1>1. CASE AttackNext
  BY <1>1, ExportStays DEF AttackNext, Emit, EndTick, BuildHybridValidation
<1>2. CASE BundleNext
  BY <1>2, ExportStays DEF BundleNext, WriteBundle, WriteFile, WriterDies
<1>3. CASE ExportNext
  BY <1>3, RequestKeepsExport, PageKeepsExport, FailureKeepsExport, ReleaseKeepsExport DEF ExportNext
<1>4. CASE UNCHANGED comparisonVars
  BY <1>4, ExportStays DEF comparisonVars
<1> QED BY <1>1, <1>2, <1>3, <1>4 DEF ComparisonNext

(* The inductive invariant of the export.                                  *)
THEOREM ExportInvariant == ComparisonSpec => []ExportInv
  BY ExportInitially, ExportSteps, PTL DEF ComparisonSpec

LEMMA ExportFollows == ExportInv => ExportIsWhole
  BY DEF ExportInv, ExportIsWhole, BundleVerifies

(* Whatever the length of the streams and of a page, an export that        *)
(* succeeds holds every event of both streams and has released all four,   *)
(* and a bundle that verifies is of one run.                               *)
THEOREM ExportWhole == ComparisonSpec => []ExportIsWhole
  BY ExportInvariant, ExportFollows, PTL

--------------------------------------------------------------------------------
(***************************************************************************)
(* The life of the synthetic orders, as a function of the log alone.       *)
(***************************************************************************)
SyntheticEvent ==
    [kind : {"add", "modify", "cancel", "execute"}, id : Ids, quantity : Nat, tick : Nat]

NextLife(a, e) == [a EXCEPT ![e.id] = Applied(@, e)]

LifeTo(f, m, l) ==
    f = [n \in 0..m |-> IF n = 0 THEN [i \in Ids |-> Inactive] ELSE NextLife(f[n - 1], l[n])]

Life(l) == CHOOSE f : LifeTo(f, MaxSynthetic, l)

LEMMA LifeIsLifecycle == Lifecycle = Life(log)
  BY DEF Lifecycle, Life, LifeTo, NextLife

LEMMA LifeIsLifecycleNext == Lifecycle' = Life(log')
  BY DEF Lifecycle, Life, LifeTo, NextLife

LEMMA SmallestNumber ==
  ASSUME NEW S \in SUBSET Nat, S # {}
  PROVE  \E m \in S : \A k \in S : m <= k
<1>1. PICK m \in S : \A k \in S : ~(<<k, m>> \in OpToRel(<, Nat))
  BY NatLessThanWellFounded, WFMin
<1>2. \A k \in S : ~(k < m)
  BY <1>1, Zenon DEF OpToRel
<1>3. m \in Nat /\ \A k \in S : k \in Nat
  OBVIOUS
<1>4. QED
  BY <1>2, <1>3

LEMMA LifeExists ==
  ASSUME NEW l, NEW m \in Nat
  PROVE  \E f : LifeTo(f, m, l)
<1> DEFINE bad == {k \in Nat : ~\E f : LifeTo(f, k, l)}
<1>1. SUFFICES ASSUME bad # {} PROVE FALSE
  OBVIOUS
<1>2. PICK k \in bad : \A j \in bad : k <= j
  BY <1>1, SmallestNumber
<1>3. LifeTo([n \in 0..0 |-> [i \in Ids |-> Inactive]], 0, l)
  <2>1. \A n \in 0..0 : n = 0
    OBVIOUS
  <2> QED BY <2>1 DEF LifeTo
<1>4. k \in Nat /\ k # 0
  BY <1>3
<1>5. k - 1 \in Nat /\ k - 1 \notin bad
  BY <1>2, <1>4
<1>6. PICK g : LifeTo(g, k - 1, l)
  BY <1>5
<1>7. PICK f : f = [n \in 0..k |-> IF n = k THEN NextLife(g[k - 1], l[k]) ELSE g[n]]
  OBVIOUS
<1>8. \A n \in 0..(k - 1) : g[n] = IF n = 0 THEN [i \in Ids |-> Inactive] ELSE NextLife(g[n - 1], l[n])
  BY <1>6 DEF LifeTo
<1>9. ASSUME NEW n \in 0..k
      PROVE  f[n] = IF n = 0 THEN [i \in Ids |-> Inactive] ELSE NextLife(f[n - 1], l[n])
  <2>1. CASE n = k
    <3>1. k - 1 \in 0..k /\ k - 1 # k
      BY <1>4
    <3> QED BY <1>4, <1>7, <2>1, <3>1
  <2>2. CASE n # k
    <3>1. n \in 0..(k - 1) /\ (n # 0 => n - 1 \in 0..k /\ n - 1 # k)
      BY <1>4, <2>2
    <3> QED BY <1>7, <1>8, <2>2, <3>1
  <2> QED BY <2>1, <2>2
<1>10. LifeTo(f, k, l)
  BY <1>7, <1>9 DEF LifeTo
<1> QED BY <1>10

LEMMA LifeSteps ==
  ASSUME NEW l, NEW n \in 0..MaxSynthetic
  PROVE  Life(l)[n] = IF n = 0 THEN [i \in Ids |-> Inactive] ELSE NextLife(Life(l)[n - 1], l[n])
<1>1. MaxSynthetic \in Nat
  BY ReplayComparisonAssumption, Zenon
<1>2. PICK f : f = CHOOSE g : LifeTo(g, MaxSynthetic, l)
  OBVIOUS
<1>3. LifeTo(f, MaxSynthetic, l)
  BY <1>1, <1>2, LifeExists
<1>4. f[n] = IF n = 0 THEN [i \in Ids |-> Inactive] ELSE NextLife(f[n - 1], l[n])
  BY <1>3 DEF LifeTo
<1> QED BY <1>2, <1>4 DEF Life

\* What an event does to the life of each order.
LEMMA AppliedShape ==
  ASSUME NEW a \in Nat \cup {Broken}, NEW e \in SyntheticEvent
  PROVE  /\ Applied(a, e) \in Nat \cup {Broken}
         /\ a = Broken => Applied(a, e) = Broken
  BY DEF Applied, SyntheticEvent, Broken, Inactive

LEMMA NextLifeShape ==
  ASSUME NEW a \in [Ids -> Nat \cup {Broken}], NEW e \in SyntheticEvent
  PROVE  /\ NextLife(a, e) \in [Ids -> Nat \cup {Broken}]
         /\ \A i \in Ids : NextLife(a, e)[i] = IF i = e.id THEN Applied(a[i], e) ELSE a[i]
<1>1. e.id \in Ids
  BY DEF SyntheticEvent
<1>2. Applied(a[e.id], e) \in Nat \cup {Broken}
  BY <1>1, AppliedShape
<1> QED BY <1>1, <1>2 DEF NextLife

LEMMA LifeShape ==
  ASSUME NEW l \in Seq(SyntheticEvent), Len(l) <= MaxSynthetic, NEW n \in 0..Len(l)
  PROVE  Life(l)[n] \in [Ids -> Nat \cup {Broken}]
<1>1. MaxSynthetic \in Nat
  BY ReplayComparisonAssumption, Zenon
<1>2. Len(l) \in Nat
  OBVIOUS
<1> DEFINE bad == {k \in 0..Len(l) : Life(l)[k] \notin [Ids -> Nat \cup {Broken}]}
<1>3. ASSUME bad # {} PROVE FALSE
  <2>0. bad \in SUBSET Nat
    OBVIOUS
  <2>1. PICK k \in bad : \A j \in bad : k <= j
    BY <1>3, <2>0, SmallestNumber
  <2>2. k \in 0..Len(l) /\ k \in 0..MaxSynthetic /\ Life(l)[k] \notin [Ids -> Nat \cup {Broken}]
    BY <1>1, <1>2, <2>1
  <2>3. k # 0
    BY <2>2, LifeSteps DEF Inactive
  <2>4. k \in 1..Len(l) /\ k - 1 \in 0..Len(l) /\ k - 1 < k
    BY <1>2, <2>2, <2>3
  <2>5. Life(l)[k - 1] \in [Ids -> Nat \cup {Broken}]
    BY <2>1, <2>4
  <2>6. l[k] \in SyntheticEvent
    BY <2>4
  <2>7. Life(l)[k] = NextLife(Life(l)[k - 1], l[k])
    BY <2>2, <2>3, LifeSteps
  <2> QED BY <2>2, <2>5, <2>6, <2>7, NextLifeShape
<1> QED BY <1>3

\* An event more leaves the life before it alone.
LEMMA LifeGrows ==
  ASSUME NEW l \in Seq(SyntheticEvent), NEW e \in SyntheticEvent, Len(l) < MaxSynthetic
  PROVE  /\ \A n \in 0..Len(l) : Life(Append(l, e))[n] = Life(l)[n]
         /\ Life(Append(l, e))[Len(l) + 1] = NextLife(Life(l)[Len(l)], e)
<1>1. MaxSynthetic \in Nat
  BY ReplayComparisonAssumption, Zenon
<1>2. Len(l) \in Nat
  OBVIOUS
<1>3. PICK m : m = Append(l, e)
  OBVIOUS
<1>4. (\A k \in 1..Len(l) : m[k] = l[k]) /\ m[Len(l) + 1] = e
  BY <1>3
<1> DEFINE bad == {k \in 0..Len(l) : Life(m)[k] # Life(l)[k]}
<1>5. ASSUME bad # {} PROVE FALSE
  <2>0. bad \in SUBSET Nat
    OBVIOUS
  <2>1. PICK k \in bad : \A j \in bad : k <= j
    BY <1>5, <2>0, SmallestNumber
  <2>2. k \in 0..Len(l) /\ k \in 0..MaxSynthetic /\ Life(m)[k] # Life(l)[k]
    BY <1>1, <1>2, <2>1
  <2>3. k # 0
    BY <2>2, LifeSteps
  <2>4. k \in 1..Len(l) /\ k - 1 \in 0..Len(l) /\ k - 1 < k
    BY <1>2, <2>2, <2>3
  <2>5. Life(m)[k - 1] = Life(l)[k - 1]
    BY <2>1, <2>4
  <2>6. Life(m)[k] = NextLife(Life(m)[k - 1], m[k]) /\ Life(l)[k] = NextLife(Life(l)[k - 1], l[k])
    BY <2>2, <2>3, LifeSteps
  <2> QED BY <1>4, <2>2, <2>4, <2>5, <2>6
<1>6. \A n \in 0..Len(l) : Life(m)[n] = Life(l)[n]
  BY <1>5
<1>7. Len(l) + 1 \in 0..MaxSynthetic /\ Len(l) + 1 # 0 /\ Len(l) + 1 - 1 = Len(l) /\ Len(l) \in 0..Len(l)
  BY <1>1, <1>2
<1>8. Life(m)[Len(l) + 1] = NextLife(Life(m)[Len(l)], m[Len(l) + 1])
  <2>1. PICK n \in 0..MaxSynthetic : n = Len(l) + 1 /\ n # 0 /\ n - 1 = Len(l)
    BY <1>7
  <2>2. Life(m)[n] = NextLife(Life(m)[n - 1], m[n])
    BY <2>1, LifeSteps
  <2> QED BY <2>1, <2>2
<1> QED BY <1>3, <1>4, <1>6, <1>7, <1>8

\* How many events come up to a tick.
Count(l, t) == Cardinality({n \in DOMAIN l : l[n].tick <= t})

LEMMA CountShape ==
  ASSUME NEW l \in Seq(SyntheticEvent), NEW t
  PROVE  Count(l, t) \in 0..Len(l)
<1>1. Len(l) \in Nat /\ DOMAIN l = 1..Len(l)
  OBVIOUS
<1>2. IsFiniteSet(1..Len(l)) /\ Cardinality(1..Len(l)) = Len(l)
  BY <1>1, FS_Interval
<1>3. PICK S : S = {n \in DOMAIN l : l[n].tick <= t}
  OBVIOUS
<1>4. S \in SUBSET (1..Len(l))
  BY <1>1, <1>3
<1>5. IsFiniteSet(S) /\ Cardinality(S) <= Len(l)
  BY <1>2, <1>4, FS_Subset
<1>6. Cardinality(S) \in Nat
  BY <1>5, FS_CardinalityType
<1> QED BY <1>1, <1>3, <1>5, <1>6 DEF Count

LEMMA CountOfAll ==
  ASSUME NEW l \in Seq(SyntheticEvent), NEW t, \A n \in DOMAIN l : l[n].tick <= t
  PROVE  Count(l, t) = Len(l)
<1>1. Len(l) \in Nat /\ DOMAIN l = 1..Len(l)
  OBVIOUS
<1>2. PICK k \in Nat : k = Len(l)
  BY <1>1
<1>3. Cardinality(1..k) = k
  <2>1. Cardinality(1..k) = IF 1 > k THEN 0 ELSE k - 1 + 1
    BY FS_Interval
  <2> QED BY <2>1
<1>4. {n \in DOMAIN l : l[n].tick <= t} = 1..Len(l)
  BY <1>1
<1> QED BY <1>2, <1>3, <1>4 DEF Count

LEMMA CountGrows ==
  ASSUME NEW l \in Seq(SyntheticEvent), NEW e \in SyntheticEvent, NEW t \in Nat, t < e.tick
  PROVE  Count(Append(l, e), t) = Count(l, t)
<1>1. Len(l) \in Nat /\ DOMAIN l = 1..Len(l) /\ DOMAIN Append(l, e) = 1..(Len(l) + 1)
  OBVIOUS
<1>2. /\ \A n \in 1..Len(l) : Append(l, e)[n] = l[n]
      /\ Append(l, e)[Len(l) + 1] = e
  OBVIOUS
<1>3. e.tick \in Nat /\ ~(e.tick <= t)
  BY DEF SyntheticEvent
<1>4. ASSUME NEW n  PROVE (n \in 1..(Len(l) + 1) /\ Append(l, e)[n].tick <= t) <=> (n \in 1..Len(l) /\ l[n].tick <= t)
  <2>1. CASE n \in 1..Len(l)
    BY <1>1, <1>2, <2>1
  <2>2. CASE n = Len(l) + 1
    BY <1>1, <1>2, <1>3, <2>2
  <2>3. CASE n \notin 1..Len(l) /\ n # Len(l) + 1
    BY <1>1, <2>3
  <2> QED BY <2>1, <2>2, <2>3
<1>5. {n \in DOMAIN Append(l, e) : Append(l, e)[n].tick <= t} = {n \in DOMAIN l : l[n].tick <= t}
  BY <1>1, <1>4
<1> QED BY <1>5 DEF Count

(***************************************************************************)
(* What the log tells of an order, and of a tick that is over.             *)
(***************************************************************************)
WasAdded(i, l) == \E n \in DOMAIN l : l[n].kind = "add" /\ l[n].id = i

StrayAdded(i, l) == i \notin Labelled /\ WasAdded(i, l)

\* Either the life of an order went wrong, which the validation sees, or a
\* stray was put into the book, which it sees as well, or it is what rests.
Tells(i, active, rests, l) ==
    \/ active = Broken
    \/ StrayAdded(i, l)
    \/ active = rests /\ (i \notin Labelled => rests = 0)

\* At a tick at whose end the books agreed the order did not rest.
WasQuiet(i, active, l) == active \in {Inactive, Broken} \/ StrayAdded(i, l)

AttackShape(now, l, rest) ==
    /\ now \in 1..(MaxTick + 1)
    /\ l \in Seq(SyntheticEvent) /\ Len(l) <= MaxSynthetic
    /\ rest \in [Ids -> Nat]
    /\ \A n \in DOMAIN l : l[n].tick <= now

LogTells(l, rest) == \A i \in Ids : Tells(i, Life(l)[Len(l)][i], rest[i], l)

BrokenStays(l) ==
    \A n \in 0..Len(l), i \in Ids : Life(l)[n][i] = Broken => Life(l)[Len(l)][i] = Broken

PastIsQuiet(now, l, apart) ==
    \A t \in 1..(now - 1), i \in Ids : t \notin apart => WasQuiet(i, Life(l)[Count(l, t)][i], l)

Contained(now, l, rest, apart) ==
    /\ AttackShape(now, l, rest)
    /\ LogTells(l, rest)
    /\ BrokenStays(l)
    /\ PastIsQuiet(now, l, apart)

\* The validation that passed still holds.
Accepted ==
    /\ tick = MaxTick + 1
    /\ OutsideEquivalent /\ ValidLifecycle /\ AttackLocalised

AttackInv ==
    /\ Contained(tick, log, resting, differs)
    /\ label \in [start : Ticks, end : Ticks]
    /\ verdict = "pass" => Accepted
--------------------------------------------------------------------------------
LEMMA NothingAtTheStart ==
  ASSUME NEW rest, rest = [i \in Ids |-> 0], NEW now, now = 1, NEW apart
  PROVE  Contained(now, <<>>, rest, apart)
<1>1. MaxTick \in Nat /\ MaxSynthetic \in Nat
  BY ReplayComparisonAssumption, Zenon
<1>2. AttackShape(now, <<>>, rest)
  BY <1>1 DEF AttackShape
<1>3. Len(<<>>) = 0 /\ 0 \in 0..MaxSynthetic
  BY <1>1
<1>4. Life(<<>>)[0] = [i \in Ids |-> Inactive]
  BY <1>3, LifeSteps
<1>5. LogTells(<<>>, rest)
  BY <1>3, <1>4 DEF LogTells, Tells, Inactive
<1>6. BrokenStays(<<>>)
  BY <1>3 DEF BrokenStays
<1>7. PastIsQuiet(now, <<>>, apart)
  BY DEF PastIsQuiet
<1> QED BY <1>2, <1>5, <1>6, <1>7 DEF Contained

\* One order under one event.
LEMMA EventTells ==
  ASSUME NEW i, NEW active \in Nat \cup {Broken}, NEW rests \in Nat, NEW l \in Seq(SyntheticEvent),
         Tells(i, active, rests, l), NEW e \in SyntheticEvent, i = e.id,
         NEW then,
         then = CASE e.kind \in {"add", "modify"} -> e.quantity
                  [] e.kind = "cancel" -> 0
                  [] OTHER -> IF rests > e.quantity THEN rests - e.quantity ELSE 0
  PROVE  Tells(i, Applied(active, e), then, Append(l, e))
<1>1. /\ e.kind \in {"add", "modify", "cancel", "execute"} /\ e.quantity \in Nat
  BY DEF SyntheticEvent
<1>2. WasAdded(i, l) => WasAdded(i, Append(l, e))
  <2>1. \A n \in DOMAIN l : n \in DOMAIN Append(l, e) /\ Append(l, e)[n] = l[n]
    OBVIOUS
  <2> QED BY <2>1 DEF WasAdded
<1>3. e.kind = "add" => WasAdded(i, Append(l, e))
  <2>1. Len(l) + 1 \in DOMAIN Append(l, e) /\ Append(l, e)[Len(l) + 1] = e
    OBVIOUS
  <2> QED BY <2>1 DEF WasAdded
<1>4. CASE active = Broken
  BY <1>4, AppliedShape DEF Tells
<1>5. CASE StrayAdded(i, l)
  BY <1>2, <1>5 DEF Tells, StrayAdded
<1>6. CASE active # Broken /\ active = rests /\ (i \notin Labelled => rests = 0)
  <2>1. CASE e.kind = "add"
    <3>1. i \notin Labelled => StrayAdded(i, Append(l, e))
      BY <1>3, <2>1 DEF StrayAdded
    <3>2. Applied(active, e) = Broken \/ Applied(active, e) = then
      BY <1>6, <2>1 DEF Applied
    <3> QED BY <3>1, <3>2 DEF Tells
  <2>2. CASE e.kind = "modify"
    <3>1. then = e.quantity
      BY <2>2
    <3>2. Applied(active, e) = IF active = 0 THEN Broken ELSE then
      BY <1>6, <2>2, <3>1 DEF Applied, Inactive
    <3> QED BY <1>6, <3>2 DEF Tells
  <2>3. CASE e.kind = "cancel"
    <3>1. then = 0
      BY <2>3
    <3>2. Applied(active, e) = Broken \/ Applied(active, e) = then
      BY <1>6, <2>3, <3>1 DEF Applied, Inactive
    <3> QED BY <3>1, <3>2 DEF Tells
  <2>4. CASE e.kind = "execute"
    <3>1. then = IF rests > e.quantity THEN rests - e.quantity ELSE 0
      BY <2>4
    <3>2. CASE i \notin Labelled
      <4>1. Applied(active, e) = active /\ rests = 0
        BY <1>6, <2>4, <3>2 DEF Applied
      <4>2. then = 0
        BY <1>1, <3>1, <4>1
      <4> QED BY <1>6, <4>1, <4>2 DEF Tells
    <3>3. CASE i \in Labelled
      <4>1. Applied(active, e) = IF e.quantity > active THEN Broken ELSE active - e.quantity
        BY <1>6, <2>4, <3>3 DEF Applied
      <4>2. active \in Nat
        BY <1>6
      <4>3. Applied(active, e) = Broken \/ Applied(active, e) = then
        BY <1>1, <1>6, <3>1, <4>1, <4>2
      <4> QED BY <3>3, <4>3 DEF Tells
    <3> QED BY <3>2, <3>3
  <2> QED BY <1>1, <2>1, <2>2, <2>3, <2>4
<1> QED BY <1>4, <1>5, <1>6 DEF Tells

LEMMA AddedStays ==
  ASSUME NEW l \in Seq(SyntheticEvent), NEW e, NEW i, StrayAdded(i, l)
  PROVE  StrayAdded(i, Append(l, e))
<1>1. \A n \in DOMAIN l : n \in DOMAIN Append(l, e) /\ Append(l, e)[n] = l[n]
  OBVIOUS
<1> QED BY <1>1 DEF StrayAdded, WasAdded

LEMMA EventContained ==
  ASSUME NEW now, NEW l, NEW rest, NEW apart, Contained(now, l, rest, apart),
         Len(l) < MaxSynthetic,
         NEW e \in SyntheticEvent, e.tick = now,
         NEW rest2 \in [Ids -> Nat],
         \A i \in Ids : i # e.id => rest2[i] = rest[i],
         rest2[e.id] = CASE e.kind \in {"add", "modify"} -> e.quantity
                         [] e.kind = "cancel" -> 0
                         [] OTHER -> IF rest[e.id] > e.quantity THEN rest[e.id] - e.quantity ELSE 0
  PROVE  Contained(now, Append(l, e), rest2, apart)
<1>1. /\ now \in 1..(MaxTick + 1) /\ l \in Seq(SyntheticEvent) /\ Len(l) \in Nat
      /\ rest \in [Ids -> Nat] /\ \A n \in DOMAIN l : l[n].tick <= now
  BY DEF Contained, AttackShape
<1>2. MaxTick \in Nat /\ MaxSynthetic \in Nat
  BY ReplayComparisonAssumption, Zenon
<1>3. PICK m : m = Append(l, e)
  OBVIOUS
<1>4. m \in Seq(SyntheticEvent) /\ Len(m) = Len(l) + 1 /\ Len(m) <= MaxSynthetic
  BY <1>1, <1>2, <1>3
<1>5. (\A n \in 1..Len(l) : m[n] = l[n]) /\ m[Len(l) + 1] = e /\ DOMAIN m = 1..(Len(l) + 1)
      /\ DOMAIN l = 1..Len(l)
  BY <1>1, <1>3
<1>6. AttackShape(now, m, rest2)
  <2>1. \A n \in DOMAIN m : m[n].tick <= now
    <3> TAKE n \in DOMAIN m
    <3>1. CASE n \in 1..Len(l)
      BY <1>1, <1>5, <3>1
    <3>2. CASE n = Len(l) + 1
      BY <1>1, <1>2, <1>5, <3>2
    <3> QED BY <1>1, <1>5, <3>1, <3>2
  <2> QED BY <1>1, <1>4, <2>1 DEF AttackShape
<1>7. /\ \A n \in 0..Len(l) : Life(m)[n] = Life(l)[n]
      /\ Life(m)[Len(l) + 1] = NextLife(Life(l)[Len(l)], e)
  BY <1>1, <1>3, LifeGrows
<1>8. Life(l)[Len(l)] \in [Ids -> Nat \cup {Broken}]
  <2>1. Len(l) \in 0..Len(l) /\ Len(l) <= MaxSynthetic
    BY <1>1, <1>2
  <2> QED BY <1>1, <2>1, LifeShape
<1>9. \A i \in Ids : Life(m)[Len(m)][i] = IF i = e.id THEN Applied(Life(l)[Len(l)][i], e) ELSE Life(l)[Len(l)][i]
  <2>1. Life(m)[Len(m)] = NextLife(Life(l)[Len(l)], e)
    BY <1>4, <1>7
  <2>2. PICK a : a = Life(l)[Len(l)]
    OBVIOUS
  <2>3. \A i \in Ids : NextLife(a, e)[i] = IF i = e.id THEN Applied(a[i], e) ELSE a[i]
    BY <1>8, <2>2, NextLifeShape
  <2> QED BY <2>1, <2>2, <2>3
<1>10. LogTells(m, rest2)
  <2> SUFFICES ASSUME NEW i \in Ids PROVE Tells(i, Life(m)[Len(m)][i], rest2[i], m)
    BY DEF LogTells
  <2>1. Tells(i, Life(l)[Len(l)][i], rest[i], l)
    BY DEF Contained, LogTells
  <2>2. Life(l)[Len(l)][i] \in Nat \cup {Broken} /\ rest[i] \in Nat
    BY <1>1, <1>8
  <2>3. CASE i = e.id
    <3>1. Tells(i, Applied(Life(l)[Len(l)][i], e), rest2[i], m)
      BY <1>1, <1>3, <2>1, <2>2, <2>3, EventTells
    <3> QED BY <1>9, <2>3, <3>1
  <2>4. CASE i # e.id
    <3>1. StrayAdded(i, l) => StrayAdded(i, m)
      BY <1>1, <1>3, AddedStays
    <3>2. rest2[i] = rest[i] /\ Life(m)[Len(m)][i] = Life(l)[Len(l)][i]
      BY <1>9, <2>4
    <3> QED BY <2>1, <3>1, <3>2 DEF Tells
  <2> QED BY <2>3, <2>4
<1>11. BrokenStays(m)
  <2> SUFFICES ASSUME NEW n \in 0..Len(m), NEW i \in Ids, Life(m)[n][i] = Broken
               PROVE  Life(m)[Len(m)][i] = Broken
    BY DEF BrokenStays
  <2>1. CASE n = Len(m)
    BY <2>1
  <2>2. CASE n # Len(m)
    <3>1. n \in 0..Len(l)
      BY <1>1, <1>4, <2>2
    <3>2. Life(l)[n][i] = Broken
      BY <1>7, <3>1
    <3>3. Life(l)[Len(l)][i] = Broken
      BY <3>1, <3>2 DEF Contained, BrokenStays
    <3>4. Applied(Life(l)[Len(l)][i], e) = Broken
      BY <1>8, <3>3, AppliedShape
    <3> QED BY <1>9, <3>3, <3>4
  <2> QED BY <2>1, <2>2
<1>12. PastIsQuiet(now, m, apart)
  <2> SUFFICES ASSUME NEW t \in 1..(now - 1), NEW i \in Ids, t \notin apart
               PROVE  WasQuiet(i, Life(m)[Count(m, t)][i], m)
    BY DEF PastIsQuiet
  <2>1. WasQuiet(i, Life(l)[Count(l, t)][i], l)
    BY DEF Contained, PastIsQuiet
  <2>2. t \in Nat /\ t < e.tick
    BY <1>1, <1>2
  <2>3. Count(m, t) = Count(l, t) /\ Count(l, t) \in 0..Len(l)
    BY <1>1, <1>3, <2>2, CountGrows, CountShape
  <2>4. Life(m)[Count(m, t)][i] = Life(l)[Count(l, t)][i]
    BY <1>7, <2>3
  <2>5. StrayAdded(i, l) => StrayAdded(i, m)
    BY <1>1, <1>3, AddedStays
  <2> QED BY <2>1, <2>4, <2>5 DEF WasQuiet
<1> QED BY <1>3, <1>6, <1>10, <1>11, <1>12 DEF Contained

LEMMA TickContained ==
  ASSUME NEW now, NEW l, NEW rest, NEW apart, Contained(now, l, rest, apart), now <= MaxTick,
         NEW apart2, apart2 = IF \E i \in Ids : rest[i] > 0 THEN apart \cup {now} ELSE apart
  PROVE  Contained(now + 1, l, rest, apart2)
<1>1. /\ now \in 1..(MaxTick + 1) /\ l \in Seq(SyntheticEvent) /\ Len(l) <= MaxSynthetic
      /\ rest \in [Ids -> Nat] /\ \A n \in DOMAIN l : l[n].tick <= now
  BY DEF Contained, AttackShape
<1>2. MaxTick \in Nat
  BY ReplayComparisonAssumption, Zenon
<1>3. now \in Nat /\ now + 1 \in 1..(MaxTick + 1)
  BY <1>1, <1>2
<1>4. \A n \in DOMAIN l : l[n].tick \in Nat
  <2> TAKE n \in DOMAIN l
  <2>1. l[n] \in SyntheticEvent
    BY <1>1
  <2> QED BY <2>1 DEF SyntheticEvent
<1>5. AttackShape(now + 1, l, rest)
  BY <1>1, <1>3, <1>4 DEF AttackShape
<1>6. PastIsQuiet(now + 1, l, apart2)
  <2>0. PICK after : after = now + 1
    OBVIOUS
  <2>1. after - 1 = now
    BY <1>3, <2>0
  <2>2. ASSUME NEW t \in 1..now, NEW i \in Ids, t \notin apart2
        PROVE  WasQuiet(i, Life(l)[Count(l, t)][i], l)
    <3>1. CASE t = now
      <4>1. \A j \in Ids : ~(rest[j] > 0)
        BY <2>2, <3>1
      <4>2. rest[i] = 0
        BY <1>1, <4>1
      <4>3. Count(l, t) = Len(l)
        BY <1>1, <3>1, CountOfAll
      <4>4. Tells(i, Life(l)[Len(l)][i], rest[i], l)
        BY DEF Contained, LogTells
      <4> QED BY <4>2, <4>3, <4>4 DEF Tells, WasQuiet, Inactive
    <3>2. CASE t # now
      <4>1. t \in 1..(now - 1) /\ t \notin apart
        BY <1>3, <2>2, <3>2
      <4> QED BY <4>1 DEF Contained, PastIsQuiet
    <3> QED BY <3>1, <3>2
  <2>3. PastIsQuiet(after, l, apart2)
    BY <2>1, <2>2 DEF PastIsQuiet
  <2> QED BY <2>0, <2>3
<1> QED BY <1>5, <1>6 DEF Contained
--------------------------------------------------------------------------------
LEMMA AttackStays ==
    AttackInv /\ UNCHANGED attackVars => AttackInv'
<1> SUFFICES ASSUME AttackInv, UNCHANGED attackVars PROVE AttackInv'
  OBVIOUS
<1>1. /\ tick' = tick /\ label' = label /\ log' = log /\ resting' = resting
      /\ differs' = differs /\ verdict' = verdict
  BY DEF attackVars
<1>2. Contained(tick', log', resting', differs') /\ label' \in [start : Ticks, end : Ticks]
  BY <1>1 DEF AttackInv
<1>3. Lifecycle' = Lifecycle
  BY <1>1, LifeIsLifecycle, LifeIsLifecycleNext
<1>4. verdict' = "pass" => Accepted'
  BY <1>1, <1>3 DEF AttackInv, Accepted, OutsideEquivalent, ExactBooks, Outside, ValidLifecycle,
     AttackLocalised, During, Ticks
<1> QED BY <1>2, <1>4 DEF AttackInv, Ticks

LEMMA EmitKeepsAttack ==
    ASSUME AttackInv, tick <= MaxTick, NEW i \in Ids, NEW kind, NEW q,
           \/ kind \in {"add", "modify", "execute"} /\ q \in Quantities
           \/ kind = "cancel" /\ q = 0,
           Emit(kind, i, q)
    PROVE  AttackInv'
<1>1. Contained(tick, log, resting, differs) /\ label \in [start : Ticks, end : Ticks]
  BY DEF AttackInv
<1>2. q \in Nat /\ kind \in {"add", "modify", "cancel", "execute"}
  <2>1. Quantities \subseteq Nat
    BY ReplayComparisonAssumption, Zenon
  <2>2. CASE kind = "cancel" /\ q = 0
    BY <2>2
  <2>3. CASE kind \in {"add", "modify", "execute"} /\ q \in Quantities
    BY <2>1, <2>3
  <2> QED BY <2>2, <2>3
<1>3. tick \in Nat /\ resting \in [Ids -> Nat]
  <2>1. MaxTick \in Nat
    BY ReplayComparisonAssumption, Zenon
  <2> QED BY <1>1, <2>1 DEF Contained, AttackShape
<1>4. PICK e : e = [kind |-> kind, id |-> i, quantity |-> q, tick |-> tick]
  OBVIOUS
<1>5. e \in SyntheticEvent /\ e.kind = kind /\ e.id = i /\ e.quantity = q /\ e.tick = tick
  BY <1>2, <1>3, <1>4 DEF SyntheticEvent
<1>6. /\ log' = Append(log, e) /\ Len(log) < MaxSynthetic /\ verdict' = "none"
      /\ tick' = tick /\ label' = label /\ differs' = differs
  BY <1>4 DEF Emit
<1>7. PICK then : then = CASE kind \in {"add", "modify"} -> q
                          [] kind = "cancel" -> 0
                          [] OTHER -> IF resting[i] > q THEN resting[i] - q ELSE 0
  OBVIOUS
<1>8. then \in Nat
  <2>1. resting[i] \in Nat
    BY <1>3
  <2>2. CASE kind = "execute"
    BY <1>2, <1>7, <2>1, <2>2
  <2>3. CASE kind # "execute"
    BY <1>2, <1>7, <2>3
  <2> QED BY <2>2, <2>3
<1>9. resting' = [resting EXCEPT ![i] = then]
  BY <1>7 DEF Emit
<1>10. /\ resting' \in [Ids -> Nat] /\ resting'[i] = then
       /\ \A j \in Ids : j # i => resting'[j] = resting[j]
  BY <1>3, <1>8, <1>9
<1>11. PICK rest2 : rest2 = resting'
  OBVIOUS
<1>12. Contained(tick, Append(log, e), rest2, differs)
  BY <1>1, <1>5, <1>6, <1>7, <1>10, <1>11, EventContained
<1> QED BY <1>1, <1>6, <1>11, <1>12 DEF AttackInv, Ticks

LEMMA TickKeepsAttack ==
    ASSUME AttackInv, EndTick
    PROVE  AttackInv'
<1>1. Contained(tick, log, resting, differs) /\ label \in [start : Ticks, end : Ticks]
  BY DEF AttackInv
<1>2. /\ verdict' = "none" /\ tick <= MaxTick /\ tick' = tick + 1
      /\ log' = log /\ resting' = resting /\ label' = label
      /\ differs' = IF \E i \in Ids : resting[i] > 0 THEN differs \cup {tick} ELSE differs
  BY DEF EndTick
<1>3. Contained(tick + 1, log, resting, differs')
  BY <1>1, <1>2, TickContained
<1> QED BY <1>1, <1>2, <1>3 DEF AttackInv, Ticks

LEMMA BuildKeepsAttack ==
    ASSUME AttackInv, BuildHybridValidation
    PROVE  AttackInv'
<1>1. /\ tick' = tick /\ label' = label /\ log' = log /\ resting' = resting /\ differs' = differs
      /\ tick = MaxTick + 1
  BY DEF BuildHybridValidation
<1>2. verdict' = "pass" => OutsideEquivalent /\ ValidLifecycle /\ AttackLocalised
  BY DEF BuildHybridValidation
<1>3. Contained(tick', log', resting', differs') /\ label' \in [start : Ticks, end : Ticks]
  BY <1>1 DEF AttackInv
<1>4. Lifecycle' = Lifecycle
  BY <1>1, LifeIsLifecycle, LifeIsLifecycleNext
<1>5. verdict' = "pass" => Accepted'
  BY <1>1, <1>2, <1>4 DEF Accepted, OutsideEquivalent, ExactBooks, Outside, ValidLifecycle,
     AttackLocalised, During, Ticks
<1> QED BY <1>3, <1>5 DEF AttackInv, Ticks

LEMMA AttackInitially == ComparisonInit => AttackInv
<1> SUFFICES ASSUME ComparisonInit PROVE AttackInv
  OBVIOUS
<1>1. /\ tick = 1 /\ log = <<>> /\ resting = [i \in Ids |-> 0] /\ verdict = "none"
      /\ label \in [start : Ticks, end : Ticks]
  BY DEF ComparisonInit
<1>2. Contained(tick, log, resting, differs)
  BY <1>1, NothingAtTheStart
<1> QED BY <1>1, <1>2 DEF AttackInv

LEMMA AttackSteps == AttackInv /\ [ComparisonNext]_comparisonVars => AttackInv'
<1> SUFFICES ASSUME AttackInv, [ComparisonNext]_comparisonVars PROVE AttackInv'
  OBVIOUS
<1>1. CASE AttackNext
  <2>1. ASSUME tick <= MaxTick, NEW k \in {"add", "modify", "execute"}, NEW i \in Ids,
               NEW q \in Quantities, Emit(k, i, q)
        PROVE  AttackInv'
    BY <2>1, EmitKeepsAttack
  <2>2. ASSUME tick <= MaxTick, NEW i \in Ids, Emit("cancel", i, 0)  PROVE AttackInv'
    BY <2>2, EmitKeepsAttack
  <2> QED BY <1>1, <2>1, <2>2, TickKeepsAttack, BuildKeepsAttack DEF AttackNext
<1>2. CASE ExportNext
  <2>1. UNCHANGED attackVars
    BY <1>2 DEF ExportNext, RequestComparison, NextPage, PageFails, ReleaseFails, ReleaseStream
  <2> QED BY <2>1, AttackStays
<1>3. CASE BundleNext
  <2>1. UNCHANGED attackVars
    BY <1>3 DEF BundleNext, WriteBundle, WriteFile, WriterDies
  <2> QED BY <2>1, AttackStays
<1>4. CASE UNCHANGED comparisonVars
  <2>1. UNCHANGED attackVars
    BY <1>4 DEF comparisonVars
  <2> QED BY <2>1, AttackStays
<1> QED BY <1>1, <1>2, <1>3, <1>4 DEF ComparisonNext

\* The life of every order, read off the log, is what rests in the book until
\* it goes wrong or a stray is added, and every tick that is over and at whose
\* end the books agreed left nothing of the attack behind.
THEOREM AttackInvariant == ComparisonSpec => []AttackInv
  BY AttackInitially, AttackSteps, PTL DEF ComparisonSpec

LEMMA AttackFollows == AttackInv => AcceptedAttackIsContained
<1> SUFFICES ASSUME AttackInv, verdict = "pass"
             PROVE  /\ \A i \in Ids, t \in Outside : Rests(i, t) = Inactive
                    /\ label.end < MaxTick => \A i \in Ids : resting[i] = 0
                    /\ \A i \in Ids : resting[i] = Lifecycle[Len(log)][i]
                    /\ \A i \in Stray : resting[i] = 0
  BY DEF AcceptedAttackIsContained
<1>1. /\ Contained(tick, log, resting, differs) /\ label \in [start : Ticks, end : Ticks]
      /\ tick = MaxTick + 1 /\ OutsideEquivalent /\ ValidLifecycle /\ AttackLocalised
  BY DEF AttackInv, Accepted
<1>2. log \in Seq(SyntheticEvent) /\ Len(log) <= MaxSynthetic /\ Len(log) \in Nat
      /\ resting \in [Ids -> Nat]
  BY <1>1 DEF Contained, AttackShape
<1>3. MaxTick \in Nat /\ Labelled \cap Stray = {}
  BY ReplayComparisonAssumption, Zenon
<1>4. \A i \in Ids : ~StrayAdded(i, log)
  BY <1>1 DEF ValidLifecycle, StrayAdded, WasAdded
<1>5. \A i \in Ids : Life(log)[Len(log)][i] # Broken
  BY <1>1, LifeIsLifecycle DEF ValidLifecycle
<1>6. \A i \in Ids : Life(log)[Len(log)][i] = resting[i] /\ (i \notin Labelled => resting[i] = 0)
  <2> TAKE i \in Ids
  <2>1. Tells(i, Life(log)[Len(log)][i], resting[i], log)
    BY <1>1 DEF Contained, LogTells
  <2> QED BY <1>4, <1>5, <2>1 DEF Tells
<1>7. ASSUME NEW t \in Outside, NEW i \in Ids  PROVE Life(log)[Count(log, t)][i] = Inactive
  <2>1. t \in 1..(tick - 1) /\ t \notin differs
    BY <1>1, <1>3 DEF OutsideEquivalent, ExactBooks, Outside, Ticks
  <2>2. WasQuiet(i, Life(log)[Count(log, t)][i], log)
    BY <1>1, <2>1 DEF Contained, PastIsQuiet
  <2>3. Count(log, t) \in 0..Len(log)
    BY <1>2, CountShape
  <2>4. Life(log)[Count(log, t)][i] # Broken
    BY <1>1, <1>5, <2>3 DEF Contained, BrokenStays
  <2> QED BY <1>4, <2>2, <2>4 DEF WasQuiet
<1>8. \A i \in Ids, t \in Outside : Rests(i, t) = Inactive
  BY <1>7, LifeIsLifecycle DEF Rests, Count
<1>9. ASSUME label.end < MaxTick  PROVE \A i \in Ids : resting[i] = 0
  <2>1. label.end \in Nat /\ MaxTick \in Outside
    BY <1>1, <1>3, <1>9 DEF Outside, Ticks
  <2>2. \A n \in DOMAIN log : log[n].tick <= MaxTick
    BY <1>1, <1>3 DEF AttackLocalised, During, Ticks
  <2>3. Count(log, MaxTick) = Len(log)
    BY <1>2, <2>2, CountOfAll
  <2> QED BY <1>6, <1>7, <2>1, <2>3 DEF Inactive
<1>10. \A i \in Stray : resting[i] = 0
  BY <1>3, <1>6 DEF Ids
<1> QED BY <1>6, <1>8, <1>9, <1>10, LifeIsLifecycle

\* A pair that passes the validation holds an attack that stayed inside its
\* label: nothing of it rests at the end of a tick outside, no order is
\* over-filled, and nothing without the label was put into the book.
THEOREM AcceptedIsContained == ComparisonSpec => []AcceptedAttackIsContained
  BY AttackInvariant, AttackFollows, PTL
================================================================================
