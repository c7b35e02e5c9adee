---------------------------- MODULE KernelProofs ----------------------------
(***************************************************************************)
(* Proofs about the kernel: the matching engine and its canonical stream.  *)
(*                                                                         *)
(* MatchingEngine: the book is well formed, what matching trades is what   *)
(* crosses, in price-time order, a place in a queue is lost by a requote   *)
(* alone, and the events rebuild the book, for every set of orders,        *)
(* agents, prices and lots, every ladder, and every length of the window.  *)
(*                                                                         *)
(* CanonicalStream: what is published is durable, for every segment size,  *)
(* quota, page size and bound.                                             *)
(***************************************************************************)
EXTENDS MatchingEngine, CanonicalStream, FiniteSetTheorems, SequenceTheorems,
        WellFoundedInduction, TLAPS

(***************************************************************************)
(* The order book and the matching engine.                                 *)
(***************************************************************************)
Listed(q) == \E S : q \in Seq(S)

LEMMA ListedShape ==
  ASSUME NEW q, Listed(q)
  PROVE  Len(q) \in Nat /\ DOMAIN q = 1..Len(q) /\ q = [i \in 1..Len(q) |-> q[i]]
<1>1. PICK S : q \in Seq(S)
  BY DEF Listed
<1> QED BY <1>1, LenProperties

LEMMA ListedBy ==
  ASSUME NEW n \in Nat, NEW q, DOMAIN q = 1..n, q = [i \in 1..n |-> q[i]]
  PROVE  Listed(q) /\ Len(q) = n
<1>1. PICK S : S = {q[i] : i \in 1..n}
  OBVIOUS
<1>2. q \in [1..n -> S]
  BY <1>1
<1>3. q \in Seq(S)
  BY <1>2, SeqDef
<1>4. Len(q) \in Nat /\ DOMAIN q = 1..Len(q)
  BY <1>3, LenProperties
<1>5. Len(q) = n
  BY <1>4
<1> QED BY <1>3, <1>5 DEF Listed

LEMMA ListedAppend ==
  ASSUME NEW q, Listed(q), NEW e
  PROVE  /\ Listed(Append(q, e)) /\ Len(Append(q, e)) = Len(q) + 1
         /\ \A i \in 1..Len(q) : Append(q, e)[i] = q[i]
         /\ Append(q, e)[Len(q) + 1] = e
<1>1. PICK S : q \in Seq(S)
  BY DEF Listed
<1>2. PICK T : T = S \cup {e}
  OBVIOUS
<1>3. q \in Seq(T) /\ e \in T
  <2>1. Len(q) \in Nat /\ q \in [1..Len(q) -> S]
    BY <1>1, LenProperties
  <2>2. q \in [1..Len(q) -> T]
    BY <1>2, <2>1
  <2> QED BY <1>2, <2>1, <2>2, SeqDef
<1> QED BY <1>3, AppendProperties DEF Listed

LEMMA ListedConcat ==
  ASSUME NEW q, Listed(q), NEW r, Listed(r)
  PROVE  /\ Listed(q \o r) /\ Len(q \o r) = Len(q) + Len(r)
         /\ \A i \in 1..(Len(q) + Len(r)) : (q \o r)[i] = IF i <= Len(q) THEN q[i] ELSE r[i - Len(q)]
<1>1. PICK S, T : q \in Seq(S) /\ r \in Seq(T)
  BY DEF Listed
<1>2. PICK U : U = S \cup T
  OBVIOUS
<1>3. q \in Seq(U) /\ r \in Seq(U)
  <2>1. Len(q) \in Nat /\ q \in [1..Len(q) -> S] /\ Len(r) \in Nat /\ r \in [1..Len(r) -> T]
    BY <1>1, LenProperties
  <2>2. q \in [1..Len(q) -> U] /\ r \in [1..Len(r) -> U]
    BY <1>2, <2>1
  <2> QED BY <2>1, <2>2, SeqDef
<1> QED BY <1>3, ConcatProperties DEF Listed

LEMMA ListedEmpty ==
  /\ Listed(<< >>) /\ Len(<< >>) = 0 /\ DOMAIN << >> = {}
  /\ \A q : Listed(q) /\ Len(q) = 0 => q = << >>
<1>1. << >> \in Seq({}) /\ Len(<< >>) = 0 /\ DOMAIN << >> = {}
  OBVIOUS
<1>2. ASSUME NEW q, Listed(q), Len(q) = 0  PROVE q = << >>
  BY <1>2, EmptySeq DEF Listed
<1> QED BY <1>1, <1>2 DEF Listed

(***************************************************************************)
(* Books as levels and index.                                              *)
(***************************************************************************)
GoodOrder(o) ==
    /\ o = [id |-> o.id, agent |-> o.agent, side |-> o.side, qty |-> o.qty, price |-> o.price, ts |-> o.ts]
    /\ o.side \in Sides /\ o.qty \in Nat \ {0} /\ o.price \in Nat \ {0} /\ o.ts \in 0..MaxTick

At(L, s, p) == IF p \in DOMAIN L[s] THEN L[s][p] ELSE << >>

StoredLevel(L, s, p, q) ==
    [L EXCEPT ![s] = IF q = << >> THEN Without(@, {p}) ELSE Put(@, p, q)]

\* A queue holds indexed orders of its side and price, each once.
GoodQueue(q, m, s, p) ==
    /\ Listed(q)
    /\ \A i \in DOMAIN q : q[i].id \in DOMAIN m /\ m[q[i].id] = q[i] /\ q[i].side = s /\ q[i].price = p
    /\ \A i, j \in DOMAIN q : q[i].id = q[j].id => i = j

GoodIndex(m) ==
    /\ m = [id \in DOMAIN m |-> m[id]] /\ IsFiniteSet(DOMAIN m)
    /\ \A id \in DOMAIN m : GoodOrder(m[id]) /\ m[id].id = id

GoodLevels(L) ==
    /\ L = [s \in Sides |-> L[s]]
    /\ \A s \in Sides : L[s] = [p \in DOMAIN L[s] |-> L[s][p]]
    /\ \A s \in Sides : \A p \in DOMAIN L[s] : L[s][p] # << >>

GoodBook(L, m) ==
    /\ GoodLevels(L) /\ GoodIndex(m)
    /\ \A s \in Sides : \A p : GoodQueue(At(L, s, p), m, s, p)
    /\ \A id \in DOMAIN m : id \in IdsOf(At(L, m[id].side, m[id].price))

LEMMA StoredAt ==
  ASSUME NEW L, GoodLevels(L), NEW s \in Sides, NEW p, NEW q
  PROVE  /\ GoodLevels(StoredLevel(L, s, p, q))
         /\ At(StoredLevel(L, s, p, q), s, p) = q
         /\ \A r \in Sides : \A x : r # s \/ x # p => At(StoredLevel(L, s, p, q), r, x) = At(L, r, x)
<1> DEFINE K == StoredLevel(L, s, p, q)
<1> DEFINE level == IF q = << >> THEN Without(L[s], {p}) ELSE Put(L[s], p, q)
<1>1. K = [r \in Sides |-> IF r = s THEN level ELSE L[r]]
  BY DEF StoredLevel, GoodLevels
<1>2. /\ level = [x \in DOMAIN level |-> level[x]]
      /\ DOMAIN level = IF q = << >> THEN DOMAIN L[s] \ {p} ELSE DOMAIN L[s] \cup {p}
      /\ \A x \in DOMAIN level : level[x] = IF x = p THEN q ELSE L[s][x]
  <2>1. CASE q = << >>
    BY <2>1 DEF Without, GoodLevels
  <2>2. CASE q # << >>
    BY <2>2 DEF Put, GoodLevels
  <2> QED BY <2>1, <2>2
<1> HIDE DEF K, level
<1>3. K = [r \in Sides |-> K[r]] /\ K[s] = level /\ \A r \in Sides \ {s} : K[r] = L[r]
  BY <1>1
<1>4. \A r \in Sides : K[r] = [x \in DOMAIN K[r] |-> K[r][x]]
  BY <1>2, <1>3 DEF GoodLevels
<1>5. At(K, s, p) = q
  BY <1>2, <1>3 DEF At
<1>6. ASSUME NEW r \in Sides, NEW x, r # s \/ x # p  PROVE At(K, r, x) = At(L, r, x)
  BY <1>2, <1>3, <1>6 DEF At
<1>7. \A r \in Sides : \A x \in DOMAIN K[r] : K[r][x] # << >>
  <2>1. \A x \in DOMAIN K[s] : K[s][x] # << >>
    BY <1>2, <1>3 DEF GoodLevels
  <2>2. \A r \in Sides \ {s} : \A x \in DOMAIN K[r] : K[r][x] # << >>
    BY <1>3 DEF GoodLevels
  <2> QED BY <2>1, <2>2
<1>8. GoodLevels(K)
  BY <1>3, <1>4, <1>7 DEF GoodLevels
<1> QED BY <1>5, <1>6, <1>8 DEF K

\* Storing a queue, with an index that agrees with it and keeps the others.
LEMMA LevelStored ==
  ASSUME NEW L, NEW m, GoodBook(L, m), NEW s \in Sides, NEW p, NEW q, NEW n, GoodIndex(n),
         GoodQueue(q, n, s, p),
         \A id \in DOMAIN n : n[id].side = s /\ n[id].price = p => id \in IdsOf(q),
         \A id \in DOMAIN n : ~(n[id].side = s /\ n[id].price = p) => id \in DOMAIN m /\ m[id] = n[id],
         \A id \in DOMAIN m : ~(m[id].side = s /\ m[id].price = p) => id \in DOMAIN n /\ m[id] = n[id]
  PROVE  GoodBook(StoredLevel(L, s, p, q), n)
<1> DEFINE K == StoredLevel(L, s, p, q)
<1>1. /\ GoodLevels(K) /\ At(K, s, p) = q
      /\ \A r \in Sides : \A x : r # s \/ x # p => At(K, r, x) = At(L, r, x)
  BY StoredAt DEF GoodBook
<1> HIDE DEF K
<1>2. ASSUME NEW r \in Sides, NEW x  PROVE GoodQueue(At(K, r, x), n, r, x)
  <2>1. CASE r = s /\ x = p
    BY <1>1, <2>1
  <2>2. CASE r # s \/ x # p
    <3>1. GoodQueue(At(L, r, x), m, r, x) /\ At(K, r, x) = At(L, r, x)
      BY <1>1, <2>2 DEF GoodBook
    <3> QED BY <2>2, <3>1 DEF GoodQueue
  <2> QED BY <2>1, <2>2
<1>3. ASSUME NEW id \in DOMAIN n  PROVE id \in IdsOf(At(K, n[id].side, n[id].price))
  <2>1. CASE n[id].side = s /\ n[id].price = p
    BY <1>1, <2>1
  <2>2. CASE ~(n[id].side = s /\ n[id].price = p)
    <3>1. id \in DOMAIN m /\ m[id] = n[id] /\ n[id].side \in Sides
      BY <2>2 DEF GoodIndex, GoodOrder
    <3>2. id \in IdsOf(At(L, m[id].side, m[id].price))
      BY <3>1 DEF GoodBook
    <3> QED BY <1>1, <2>2, <3>1, <3>2
  <2> QED BY <2>1, <2>2
<1>4. GoodBook(K, n)
  BY <1>1, <1>2, <1>3 DEF GoodBook
<1> QED BY <1>4 DEF K

TakenFrom(r, q) == \A i \in DOMAIN r : \E j \in DOMAIN q : r[i] = q[j]

LEMMA RemovedFrom ==
  ASSUME NEW q, NEW m, NEW s, NEW p, GoodQueue(q, m, s, p), NEW id
  PROVE  /\ GoodQueue(RemoveId(q, id), Without(m, {id}), s, p)
         /\ IdsOf(RemoveId(q, id)) = IdsOf(q) \ {id}
         /\ Listed(RemoveId(q, id)) /\ TakenFrom(RemoveId(q, id), q)
<1> DEFINE r == RemoveId(q, id)
<1>0. Listed(q) /\ Len(q) \in Nat /\ DOMAIN q = 1..Len(q)
  BY ListedShape DEF GoodQueue
<1>1. CASE id \notin IdsOf(q)
  <2>1. r = q
    BY <1>1 DEF RemoveId
  <2>2. \A i \in DOMAIN q : q[i].id # id
    BY <1>1 DEF IdsOf
  <2>3. GoodQueue(q, Without(m, {id}), s, p)
    BY <2>2 DEF GoodQueue, Without
  <2> QED BY <1>0, <1>1, <2>1, <2>3 DEF TakenFrom
<1>2. CASE id \in IdsOf(q)
  <2>1. PICK at : at = PlaceOf(q, id)
    OBVIOUS
  <2>2. at \in 1..Len(q) /\ q[at].id = id
    BY <1>0, <1>2, <2>1 DEF PlaceOf, IdsOf
  <2>3. \A i \in 1..Len(q) : q[i].id = id => i = at
    BY <1>0, <2>2 DEF GoodQueue
  <2>4. r = [i \in 1..(Len(q) - 1) |-> q[IF i < at THEN i ELSE i + 1]]
    BY <1>2, <2>1 DEF RemoveId
  <2> HIDE DEF r
  <2>5. Listed(r) /\ DOMAIN r = 1..(Len(q) - 1)
    <3>1. Len(q) - 1 \in Nat /\ DOMAIN r = 1..(Len(q) - 1) /\ r = [i \in 1..(Len(q) - 1) |-> r[i]]
      BY <1>0, <2>2, <2>4
    <3> QED BY <3>1, ListedBy
  <2>6. \A i \in 1..(Len(q) - 1) :
           \/ i < at /\ i \in 1..Len(q) /\ r[i] = q[i]
           \/ i >= at /\ i + 1 \in 1..Len(q) /\ r[i] = q[i + 1]
    BY <1>0, <2>2, <2>4
  <2>7. \A i \in 1..(Len(q) - 1) : r[i].id # id /\ \E j \in 1..Len(q) : r[i] = q[j]
    BY <1>0, <2>2, <2>3, <2>6
  <2>8. \A j \in 1..Len(q) : j # at => \E i \in 1..(Len(q) - 1) : r[i] = q[j]
    <3>1. ASSUME NEW j \in 1..Len(q), j # at  PROVE \E i \in 1..(Len(q) - 1) : r[i] = q[j]
      <4>1. CASE j < at
        <5>1. j \in 1..(Len(q) - 1)
          BY <1>0, <2>2, <4>1
        <5> QED BY <2>4, <4>1, <5>1
      <4>2. CASE j > at
        <5>1. j - 1 \in 1..(Len(q) - 1) /\ ~(j - 1 < at) /\ (j - 1) + 1 = j
          BY <1>0, <2>2, <4>2
        <5> QED BY <2>4, <5>1
      <4> QED BY <1>0, <2>2, <3>1, <4>1, <4>2
    <3> QED BY <3>1
  <2>9. IdsOf(r) = IdsOf(q) \ {id}
    <3>1. ASSUME NEW i \in 1..(Len(q) - 1)  PROVE r[i].id \in IdsOf(q) \ {id}
      BY <1>0, <2>7, <3>1 DEF IdsOf
    <3>2. ASSUME NEW j \in 1..Len(q), q[j].id # id  PROVE q[j].id \in IdsOf(r)
      <4>1. PICK i \in 1..(Len(q) - 1) : r[i] = q[j]
        BY <2>2, <2>8, <3>2
      <4> QED BY <2>5, <4>1 DEF IdsOf
    <3>3. IdsOf(r) = {r[i].id : i \in 1..(Len(q) - 1)} /\ IdsOf(q) = {q[j].id : j \in 1..Len(q)}
      BY <1>0, <2>5 DEF IdsOf
    <3> QED BY <3>1, <3>2, <3>3
  <2>10. \A i, j \in 1..(Len(q) - 1) : r[i].id = r[j].id => i = j
    <3>1. ASSUME NEW i \in 1..(Len(q) - 1), NEW j \in 1..(Len(q) - 1), r[i].id = r[j].id  PROVE i = j
      <4>1. \A k, l \in 1..Len(q) : q[k].id = q[l].id => k = l
        BY <1>0 DEF GoodQueue
      <4> QED BY <1>0, <2>2, <2>6, <3>1, <4>1
    <3> QED BY <3>1
  <2>11. GoodQueue(r, Without(m, {id}), s, p)
    <3>1. \A i \in 1..(Len(q) - 1) : r[i].id \in DOMAIN m /\ m[r[i].id] = r[i] /\ r[i].side = s /\ r[i].price = p
      BY <1>0, <2>7 DEF GoodQueue
    <3> QED BY <2>5, <2>7, <2>10, <3>1 DEF GoodQueue, Without
  <2>12. TakenFrom(r, q)
    BY <1>0, <2>5, <2>7 DEF TakenFrom
  <2> QED BY <2>5, <2>9, <2>11, <2>12 DEF r
<1> QED BY <1>1, <1>2

LEMMA IndexWithout ==
  ASSUME NEW m, GoodIndex(m), NEW S
  PROVE  GoodIndex(Without(m, S)) /\ DOMAIN Without(m, S) = DOMAIN m \ S
         /\ \A id \in DOMAIN m \ S : Without(m, S)[id] = m[id]
<1>1. DOMAIN m \ S \in SUBSET DOMAIN m /\ IsFiniteSet(DOMAIN m)
  BY DEF GoodIndex
<1>2. IsFiniteSet(DOMAIN m \ S)
  BY <1>1, FS_Subset
<1> QED BY <1>2 DEF GoodIndex, Without

LEMMA IndexPut ==
  ASSUME NEW m, GoodIndex(m), NEW o, GoodOrder(o)
  PROVE  GoodIndex(Put(m, o.id, o)) /\ DOMAIN Put(m, o.id, o) = DOMAIN m \cup {o.id}
         /\ Put(m, o.id, o)[o.id] = o /\ \A id \in DOMAIN m \ {o.id} : Put(m, o.id, o)[id] = m[id]
<1>1. IsFiniteSet(DOMAIN m \cup {o.id})
  BY FS_AddElement DEF GoodIndex
<1> QED BY <1>1 DEF GoodIndex, Put

\* Taking an order out of its queue and the index.
LEMMA OrderLifted ==
  ASSUME NEW L, NEW m, GoodBook(L, m), NEW id \in DOMAIN m
  PROVE  GoodBook(StoredLevel(L, m[id].side, m[id].price, RemoveId(At(L, m[id].side, m[id].price), id)),
                  Without(m, {id}))
<1> DEFINE s == m[id].side
<1> DEFINE p == m[id].price
<1> DEFINE q == At(L, s, p)
<1>1. GoodIndex(m) /\ s \in Sides /\ GoodQueue(q, m, s, p)
  BY DEF GoodBook, GoodIndex, GoodOrder
<1>2. /\ GoodQueue(RemoveId(q, id), Without(m, {id}), s, p) /\ IdsOf(RemoveId(q, id)) = IdsOf(q) \ {id}
  BY <1>1, RemovedFrom
<1>3. /\ GoodIndex(Without(m, {id})) /\ DOMAIN Without(m, {id}) = DOMAIN m \ {id}
      /\ \A x \in DOMAIN m \ {id} : Without(m, {id})[x] = m[x]
  BY <1>1, IndexWithout
<1>4. \A x \in DOMAIN m : m[x].side = s /\ m[x].price = p => x \in IdsOf(q)
  BY DEF GoodBook
<1> HIDE DEF s, p, q
<1>5. GoodBook(StoredLevel(L, s, p, RemoveId(q, id)), Without(m, {id}))
  <2>1. \A x \in DOMAIN m : ~(m[x].side = s /\ m[x].price = p) => x # id
    BY DEF s, p
  <2> QED BY <1>1, <1>2, <1>3, <1>4, <2>1, LevelStored, SMTT(60)
<1> QED BY <1>5 DEF s, p, q

\* Putting a new order at the tail of its queue and in the index.
LEMMA OrderPlaced ==
  ASSUME NEW L, NEW m, GoodBook(L, m), NEW o, GoodOrder(o), o.id \notin DOMAIN m
  PROVE  GoodBook(StoredLevel(L, o.side, o.price, Append(At(L, o.side, o.price), o)), Put(m, o.id, o))
<1> DEFINE s == o.side
<1> DEFINE p == o.price
<1> DEFINE q == At(L, s, p)
<1>1. GoodIndex(m) /\ s \in Sides /\ GoodQueue(q, m, s, p)
  BY DEF GoodBook, GoodOrder
<1>2. PICK r, n : r = Append(q, o) /\ n = Put(m, o.id, o)
  OBVIOUS
<1>3. /\ GoodIndex(n) /\ DOMAIN n = DOMAIN m \cup {o.id} /\ n[o.id] = o
      /\ \A x \in DOMAIN m \ {o.id} : n[x] = m[x]
  BY <1>1, <1>2, IndexPut
<1>4. Listed(q) /\ Len(q) \in Nat /\ DOMAIN q = 1..Len(q)
  BY <1>1, ListedShape DEF GoodQueue
<1>5. /\ Listed(r) /\ Len(r) = Len(q) + 1 /\ DOMAIN r = 1..(Len(q) + 1)
      /\ \A i \in 1..Len(q) : r[i] = q[i]
      /\ r[Len(q) + 1] = o
  BY <1>2, <1>4, ListedAppend, ListedShape
<1> HIDE DEF q
<1>6. GoodQueue(r, n, s, p)
  <2>1. \A i \in 1..Len(q) : q[i].id \in DOMAIN m /\ m[q[i].id] = q[i] /\ q[i].side = s /\ q[i].price = p
    BY <1>1, <1>4 DEF GoodQueue
  <2>2. \A i \in 1..(Len(q) + 1) : \/ i \in 1..Len(q) /\ r[i] = q[i]
                                   \/ i = Len(q) + 1 /\ r[i] = o
    BY <1>4, <1>5
  <2>3. \A i \in 1..(Len(q) + 1) : r[i].id \in DOMAIN n /\ n[r[i].id] = r[i] /\ r[i].side = s /\ r[i].price = p
    BY <1>3, <2>1, <2>2
  <2>4. \A i, j \in 1..(Len(q) + 1) : r[i].id = r[j].id => i = j
    <3>1. \A i, j \in 1..Len(q) : q[i].id = q[j].id => i = j
      BY <1>1, <1>4 DEF GoodQueue
    <3> QED BY <2>1, <2>2, <3>1
  <2> QED BY <1>5, <2>3, <2>4 DEF GoodQueue
<1>7. IdsOf(r) = IdsOf(q) \cup {o.id}
  <2>1. \A i \in 1..(Len(q) + 1) : \/ i \in 1..Len(q) /\ r[i] = q[i]
                                   \/ i = Len(q) + 1 /\ r[i] = o
    BY <1>4, <1>5
  <2>2. 1..Len(q) \subseteq 1..(Len(q) + 1) /\ Len(q) + 1 \in 1..(Len(q) + 1)
    BY <1>4
  <2> QED BY <1>4, <1>5, <2>1, <2>2 DEF IdsOf
<1>8. \A x \in DOMAIN m : m[x].side = s /\ m[x].price = p => x \in IdsOf(q)
  BY DEF GoodBook, q
<1>9. GoodBook(StoredLevel(L, s, p, r), n)
  BY <1>1, <1>3, <1>6, <1>7, <1>8, LevelStored
<1> QED BY <1>2, <1>9 DEF q

\* Replacing an order in its queue slot and in the index.
LEMMA OrderReplaced ==
  ASSUME NEW L, NEW m, GoodBook(L, m), NEW o, GoodOrder(o), o.id \in DOMAIN m,
         m[o.id].side = o.side, m[o.id].price = o.price
  PROVE  GoodBook(StoredLevel(L, o.side, o.price, ReplaceId(At(L, o.side, o.price), o)), Put(m, o.id, o))
<1> DEFINE s == o.side
<1> DEFINE p == o.price
<1> DEFINE q == At(L, s, p)
<1>1. GoodIndex(m) /\ s \in Sides /\ GoodQueue(q, m, s, p)
  BY DEF GoodBook, GoodOrder
<1>2. PICK r, n : r = ReplaceId(q, o) /\ n = Put(m, o.id, o)
  OBVIOUS
<1>3. /\ GoodIndex(n) /\ DOMAIN n = DOMAIN m \cup {o.id} /\ n[o.id] = o
      /\ \A x \in DOMAIN m \ {o.id} : n[x] = m[x]
  BY <1>1, <1>2, IndexPut, ZenonT(60)
<1>4. Listed(q) /\ Len(q) \in Nat /\ DOMAIN q = 1..Len(q)
  BY <1>1, ListedShape DEF GoodQueue
<1>5. DOMAIN r = 1..Len(q) /\ \A i \in 1..Len(q) : r[i] = IF q[i].id = o.id THEN o ELSE q[i]
  BY <1>2, <1>4 DEF ReplaceId
<1>6. Listed(r)
  <2>1. r = [i \in 1..Len(q) |-> r[i]]
    BY <1>2, <1>4, <1>5 DEF ReplaceId
  <2> QED BY <1>4, <1>5, <2>1, ListedBy
<1>7. \A i \in 1..Len(q) : r[i].id = q[i].id
  BY <1>5
<1>8. GoodQueue(r, n, s, p)
  <2>1. \A i \in 1..Len(q) : q[i].id \in DOMAIN m /\ m[q[i].id] = q[i] /\ q[i].side = s /\ q[i].price = p
    BY <1>1, <1>4 DEF GoodQueue
  <2>2. \A i \in 1..Len(q) : r[i].id \in DOMAIN n /\ n[r[i].id] = r[i] /\ r[i].side = s /\ r[i].price = p
    BY <1>3, <1>5, <2>1
  <2>3. \A i, j \in 1..Len(q) : r[i].id = r[j].id => i = j
    BY <1>1, <1>4, <1>7 DEF GoodQueue
  <2> QED BY <1>5, <1>6, <2>2, <2>3 DEF GoodQueue
<1>9. IdsOf(r) = IdsOf(q)
  BY <1>4, <1>5, <1>7 DEF IdsOf
<1>10. \A x \in DOMAIN m : m[x].side = s /\ m[x].price = p => x \in IdsOf(q)
  BY DEF GoodBook
<1> HIDE DEF q
<1>11. GoodBook(StoredLevel(L, s, p, r), n)
  BY <1>1, <1>3, <1>8, <1>9, <1>10, LevelStored
<1> QED BY <1>2, <1>11 DEF q

\* Clearing a level.
LEMMA LevelCleared ==
  ASSUME NEW L, NEW m, GoodBook(L, m), NEW s \in Sides, NEW p
  PROVE  /\ GoodBook(StoredLevel(L, s, p, << >>), Without(m, IdsOf(At(L, s, p))))
         /\ \A id \in DOMAIN Without(m, IdsOf(At(L, s, p))) : ~(m[id].side = s /\ m[id].price = p)
<1> DEFINE q == At(L, s, p)
<1> DEFINE n == Without(m, IdsOf(q))
<1>1. GoodIndex(m) /\ GoodQueue(q, m, s, p)
  BY DEF GoodBook
<1>2. /\ GoodIndex(n) /\ DOMAIN n = DOMAIN m \ IdsOf(q) /\ \A x \in DOMAIN m \ IdsOf(q) : n[x] = m[x]
  BY <1>1, IndexWithout
<1>3. \A x \in IdsOf(q) : x \in DOMAIN m /\ m[x].side = s /\ m[x].price = p
  BY <1>1 DEF GoodQueue, IdsOf
<1>4. \A x \in DOMAIN m : m[x].side = s /\ m[x].price = p => x \in IdsOf(q)
  BY DEF GoodBook
<1>5. GoodQueue(<< >>, n, s, p) /\ IdsOf(<< >>) = {}
  BY ListedEmpty DEF GoodQueue, IdsOf
<1> HIDE DEF q, n
<1>6. GoodBook(StoredLevel(L, s, p, << >>), n)
  BY <1>2, <1>3, <1>4, <1>5, LevelStored
<1>7. \A id \in DOMAIN n : ~(m[id].side = s /\ m[id].price = p)
  BY <1>2, <1>4
<1> QED BY <1>6, <1>7 DEF q, n

(***************************************************************************)
(* The operations on books.                                                *)
(***************************************************************************)
Book(b) == b = [levels |-> b.levels, orders |-> b.orders] /\ GoodBook(b.levels, b.orders)

LEMMA BookParts ==
  ASSUME NEW b, b = [levels |-> b.levels, orders |-> b.orders], GoodLevels(b.levels)
  PROVE  /\ \A s \in Sides : \A p, q :
              StoreQueue(b, s, p, q) = [levels |-> StoredLevel(b.levels, s, p, q), orders |-> b.orders]
         /\ \A s \in Sides : \A p : QueueAt(b, s, p) = At(b.levels, s, p)
         /\ \A o : Index(b, o) = [levels |-> b.levels, orders |-> Put(b.orders, o.id, o)]
         /\ \A S : Deindex(b, S) = [levels |-> b.levels, orders |-> Without(b.orders, S)]
<1>1. ASSUME NEW s \in Sides, NEW p, NEW q
      PROVE StoreQueue(b, s, p, q) = [levels |-> StoredLevel(b.levels, s, p, q), orders |-> b.orders]
  BY <1>1 DEF StoreQueue, StoredLevel, GoodLevels
<1>2. \A s \in Sides : \A p : QueueAt(b, s, p) = At(b.levels, s, p)
  BY DEF QueueAt, At
<1>3. \A o : Index(b, o) = [levels |-> b.levels, orders |-> Put(b.orders, o.id, o)]
  BY DEF Index
<1>4. \A S : Deindex(b, S) = [levels |-> b.levels, orders |-> Without(b.orders, S)]
  BY DEF Deindex
<1> QED BY <1>1, <1>2, <1>3, <1>4

LEMMA BookAdd ==
  ASSUME NEW b, Book(b), NEW o, GoodOrder(o), o.id \notin DOMAIN b.orders
  PROVE  /\ Book(Add(b, o).book) /\ Add(b, o).book.orders = Put(b.orders, o.id, o)
         /\ Add(b, o).book.levels
              = StoredLevel(b.levels, o.side, o.price, Append(At(b.levels, o.side, o.price), o))
<1>1. GoodLevels(b.levels) /\ o.side \in Sides
  BY DEF Book, GoodBook, GoodOrder
<1>2. PICK L : L = StoredLevel(b.levels, o.side, o.price, Append(At(b.levels, o.side, o.price), o))
  OBVIOUS
<1>3. GoodLevels(L)
  BY <1>1, <1>2, StoredAt
<1>4. PICK c : c = StoreQueue(b, o.side, o.price, Append(QueueAt(b, o.side, o.price), o))
  OBVIOUS
<1>5. c = [levels |-> L, orders |-> b.orders]
  BY <1>1, <1>2, <1>4, BookParts DEF Book
<1>6. c.levels = L /\ c.orders = b.orders /\ c = [levels |-> c.levels, orders |-> c.orders]
  BY <1>5
<1>7. Index(c, o) = [levels |-> L, orders |-> Put(b.orders, o.id, o)]
  BY <1>3, <1>6, BookParts
<1>8. Add(b, o).book = [levels |-> L, orders |-> Put(b.orders, o.id, o)]
  BY <1>4, <1>7 DEF Add
<1>9. GoodBook(L, Put(b.orders, o.id, o))
  BY <1>2, OrderPlaced DEF Book
<1> QED BY <1>2, <1>8, <1>9 DEF Book

LEMMA BookCancel ==
  ASSUME NEW b, Book(b), NEW id \in DOMAIN b.orders
  PROVE  /\ Book(CancelOrder(b, id).book) /\ CancelOrder(b, id).book.orders = Without(b.orders, {id})
         /\ CancelOrder(b, id).book.levels
              = StoredLevel(b.levels, b.orders[id].side, b.orders[id].price,
                            RemoveId(At(b.levels, b.orders[id].side, b.orders[id].price), id))
<1>1. PICK o : o = b.orders[id]
  OBVIOUS
<1>2. GoodLevels(b.levels) /\ GoodOrder(o) /\ o.side \in Sides
  BY <1>1 DEF Book, GoodBook, GoodIndex, GoodOrder
<1>3. PICK L : L = StoredLevel(b.levels, o.side, o.price, RemoveId(At(b.levels, o.side, o.price), id))
  OBVIOUS
<1>4. GoodLevels(L)
  BY <1>2, <1>3, StoredAt
<1>5. PICK c : c = StoreQueue(b, o.side, o.price, RemoveId(QueueAt(b, o.side, o.price), id))
  OBVIOUS
<1>6. c = [levels |-> L, orders |-> b.orders]
  BY <1>2, <1>3, <1>5, BookParts DEF Book
<1>7. c.levels = L /\ c.orders = b.orders /\ c = [levels |-> c.levels, orders |-> c.orders]
  BY <1>6
<1>8. Deindex(c, {id}) = [levels |-> L, orders |-> Without(b.orders, {id})]
  BY <1>4, <1>7, BookParts
<1>9. CancelOrder(b, id).book = [levels |-> L, orders |-> Without(b.orders, {id})]
  BY <1>1, <1>5, <1>8 DEF CancelOrder
<1>10. GoodBook(L, Without(b.orders, {id}))
  BY <1>1, <1>3, OrderLifted DEF Book
<1> QED BY <1>1, <1>3, <1>9, <1>10 DEF Book

LEMMA BookReplace ==
  ASSUME NEW b, Book(b), NEW o, GoodOrder(o), o.id \in DOMAIN b.orders,
         b.orders[o.id].side = o.side, b.orders[o.id].price = o.price
  PROVE  /\ Book(ReplaceInPlace(b, o)) /\ ReplaceInPlace(b, o).orders = Put(b.orders, o.id, o)
         /\ ReplaceInPlace(b, o).levels
              = StoredLevel(b.levels, o.side, o.price, ReplaceId(At(b.levels, o.side, o.price), o))
<1>1. GoodLevels(b.levels) /\ o.side \in Sides
  BY DEF Book, GoodBook, GoodOrder
<1>2. PICK L : L = StoredLevel(b.levels, o.side, o.price, ReplaceId(At(b.levels, o.side, o.price), o))
  OBVIOUS
<1>3. GoodLevels(L)
  BY <1>1, <1>2, StoredAt
<1>4. PICK c : c = StoreQueue(b, o.side, o.price, ReplaceId(QueueAt(b, o.side, o.price), o))
  OBVIOUS
<1>5. c = [levels |-> L, orders |-> b.orders]
  BY <1>1, <1>2, <1>4, BookParts DEF Book
<1>6. c.levels = L /\ c.orders = b.orders /\ c = [levels |-> c.levels, orders |-> c.orders]
  BY <1>5
<1>7. Index(c, o) = [levels |-> L, orders |-> Put(b.orders, o.id, o)]
  BY <1>3, <1>6, BookParts
<1>8. ReplaceInPlace(b, o) = [levels |-> L, orders |-> Put(b.orders, o.id, o)]
  BY <1>4, <1>7 DEF ReplaceInPlace
<1>9. GoodBook(L, Put(b.orders, o.id, o))
  BY <1>2, OrderReplaced DEF Book
<1> QED BY <1>2, <1>8, <1>9 DEF Book

(***************************************************************************)
(* The order of a queue.                                                   *)
(***************************************************************************)
Overtakes(q, r, i, j, k, l) == i < j /\ l < k /\ q[i].id = r[k].id /\ q[j].id = r[l].id

\* Of two orders of the old queue q, the later is not ahead in the new queue r;
\* or if it is, the earlier went to the tail.
OrderKept(q, r) ==
    \A i, j \in DOMAIN q : \A k, l \in DOMAIN r : ~Overtakes(q, r, i, j, k, l)

OrAtTail(q, r) ==
    \A i, j \in DOMAIN q : \A k, l \in DOMAIN r : Overtakes(q, r, i, j, k, l) => k = Len(r)

BooksKept(b, c) == \A s \in Sides : \A p : OrderKept(At(b.levels, s, p), At(c.levels, s, p))

BooksOrTail(b, c) == \A s \in Sides : \A p : OrAtTail(At(b.levels, s, p), At(c.levels, s, p))

LEMMA KeptIsTail ==
  ASSUME NEW b, NEW c, BooksKept(b, c)
  PROVE  BooksOrTail(b, c)
  BY DEF BooksKept, BooksOrTail, OrderKept, OrAtTail

LEMMA SameOrder ==
  ASSUME NEW q, NEW m, NEW s, NEW p, GoodQueue(q, m, s, p)
  PROVE  OrderKept(q, q)
<1>1. ASSUME NEW i \in DOMAIN q, NEW j \in DOMAIN q, NEW k \in DOMAIN q, NEW l \in DOMAIN q,
             Overtakes(q, q, i, j, k, l)
      PROVE  FALSE
  <2>1. i = k /\ j = l
    BY <1>1 DEF GoodQueue, Overtakes
  <2>2. i \in Nat /\ j \in Nat /\ i < j /\ j < i
    BY <1>1, <2>1, ListedShape DEF GoodQueue, Overtakes
  <2> QED BY <2>2
<1> QED BY <1>1 DEF OrderKept

\* A queue that holds the orders of another in their places, perhaps not all of them.
Thins(q, r, g) ==
    /\ \A k \in DOMAIN r : g[k] \in DOMAIN q /\ r[k].id = q[g[k]].id
    /\ \A k, l \in DOMAIN r : l < k => g[l] < g[k]

LEMMA ThinnedOrder ==
  ASSUME NEW q, NEW m, NEW s, NEW p, GoodQueue(q, m, s, p), NEW r, NEW g, Thins(q, r, g)
  PROVE  OrderKept(q, r)
<1>1. ASSUME NEW i \in DOMAIN q, NEW j \in DOMAIN q, NEW k \in DOMAIN r, NEW l \in DOMAIN r,
             Overtakes(q, r, i, j, k, l)
      PROVE  FALSE
  <2>1. i = g[k] /\ j = g[l]
    BY <1>1 DEF GoodQueue, Overtakes, Thins
  <2>2. g[l] < g[k] /\ i < j
    BY <1>1 DEF Overtakes, Thins
  <2>3. i \in Nat /\ j \in Nat /\ i < j /\ j < i
    BY <2>1, <2>2, ListedShape DEF GoodQueue
  <2> QED BY <2>3
<1> QED BY <1>1 DEF OrderKept

LEMMA RemovedOrder ==
  ASSUME NEW q, NEW m, NEW s, NEW p, GoodQueue(q, m, s, p), NEW id
  PROVE  OrderKept(q, RemoveId(q, id))
<1>0. Listed(q) /\ Len(q) \in Nat /\ DOMAIN q = 1..Len(q)
  BY ListedShape DEF GoodQueue
<1>1. CASE id \notin IdsOf(q)
  BY <1>1, SameOrder DEF RemoveId
<1>2. CASE id \in IdsOf(q)
  <2>1. PICK at, r : at = PlaceOf(q, id) /\ r = RemoveId(q, id)
    OBVIOUS
  <2>2. at \in 1..Len(q)
    BY <1>0, <1>2, <2>1 DEF PlaceOf, IdsOf
  <2>3. r = [i \in 1..(Len(q) - 1) |-> q[IF i < at THEN i ELSE i + 1]]
    BY <1>2, <2>1 DEF RemoveId
  <2>4. PICK g : g = [i \in 1..(Len(q) - 1) |-> IF i < at THEN i ELSE i + 1]
    OBVIOUS
  <2>5. DOMAIN r = 1..(Len(q) - 1) /\ \A k \in 1..(Len(q) - 1) : g[k] \in 1..Len(q) /\ r[k] = q[g[k]]
    BY <1>0, <2>2, <2>3, <2>4
  <2>6. \A k, l \in 1..(Len(q) - 1) : l < k => g[l] < g[k]
    BY <1>0, <2>2, <2>4
  <2>7. Thins(q, r, g)
    BY <1>0, <2>5, <2>6 DEF Thins
  <2> QED BY <2>1, <2>7, ThinnedOrder
<1> QED BY <1>1, <1>2

LEMMA ReplacedOrder ==
  ASSUME NEW q, NEW m, NEW s, NEW p, GoodQueue(q, m, s, p), NEW o
  PROVE  OrderKept(q, ReplaceId(q, o))
<1>1. PICK r, g : r = ReplaceId(q, o) /\ g = [i \in DOMAIN q |-> i]
  OBVIOUS
<1>2. DOMAIN r = DOMAIN q /\ \A k \in DOMAIN q : r[k].id = q[k].id /\ g[k] = k
  BY <1>1 DEF ReplaceId
<1>3. Thins(q, r, g)
  BY <1>2 DEF Thins
<1> QED BY <1>1, <1>3, ThinnedOrder

LEMMA AppendedOrder ==
  ASSUME NEW q, NEW r, Listed(r), OrderKept(q, r), NEW o
  PROVE  /\ OrAtTail(q, Append(r, o))
         /\ o.id \notin IdsOf(q) => OrderKept(q, Append(r, o))
<1>1. PICK w, n : w = Append(r, o) /\ n = Len(r)
  OBVIOUS
<1>2. /\ n \in Nat /\ DOMAIN r = 1..n /\ Len(w) = n + 1 /\ DOMAIN w = 1..(n + 1)
      /\ w[n + 1] = o /\ \A i \in 1..n : w[i] = r[i]
  BY <1>1, ListedAppend, ListedShape
<1>3. ASSUME NEW i \in DOMAIN q, NEW j \in DOMAIN q, NEW k \in DOMAIN w, NEW l \in DOMAIN w,
             Overtakes(q, w, i, j, k, l)
      PROVE  k = n + 1 /\ q[i].id = o.id
  <2>1. l \in 1..n /\ w[l] = r[l]
    BY <1>2, <1>3 DEF Overtakes
  <2>2. ~(k \in 1..n)
    BY <1>2, <1>3, <2>1 DEF Overtakes, OrderKept
  <2>3. k = n + 1
    BY <1>2, <2>2
  <2> QED BY <1>2, <1>3, <2>3 DEF Overtakes
<1>4. OrAtTail(q, w)
  BY <1>2, <1>3 DEF OrAtTail
<1>5. o.id \notin IdsOf(q) => OrderKept(q, w)
  BY <1>3 DEF OrderKept, IdsOf
<1> QED BY <1>1, <1>4, <1>5

LEMMA OrderThrough ==
  ASSUME NEW q, NEW m, NEW s, NEW p, GoodQueue(q, m, s, p), NEW r, NEW n, GoodQueue(r, n, s, p), NEW w,
         Listed(w), OrderKept(q, r), OrderKept(r, w), IdsOf(w) \subseteq IdsOf(r)
  PROVE  OrderKept(q, w)
<1>1. ASSUME NEW i \in DOMAIN q, NEW j \in DOMAIN q, NEW k \in DOMAIN w, NEW l \in DOMAIN w,
             Overtakes(q, w, i, j, k, l)
      PROVE  FALSE
  <2>1. PICK x \in DOMAIN r : r[x].id = w[k].id
    BY DEF IdsOf
  <2>2. PICK y \in DOMAIN r : r[y].id = w[l].id
    BY DEF IdsOf
  <2>3. x \in Nat /\ y \in Nat /\ i \in Nat /\ j \in Nat
    BY ListedShape DEF GoodQueue
  <2>4. ~(y < x)
    BY <1>1, <2>1, <2>2 DEF Overtakes, OrderKept
  <2>5. ~(x < y)
    BY <1>1, <2>1, <2>2 DEF Overtakes, OrderKept
  <2>6. x = y
    BY <2>3, <2>4, <2>5
  <2>7. i = j
    BY <1>1, <2>1, <2>2, <2>6 DEF Overtakes, GoodQueue
  <2> QED BY <1>1, <2>3, <2>7 DEF Overtakes
<1> QED BY <1>1 DEF OrderKept

\* One queue changes.
LEMMA StoredKeeps ==
  ASSUME NEW b, Book(b), NEW s \in Sides, NEW p, NEW r, NEW c, c.levels = StoredLevel(b.levels, s, p, r)
  PROVE  /\ OrderKept(At(b.levels, s, p), r) => BooksKept(b, c)
         /\ OrAtTail(At(b.levels, s, p), r) => BooksOrTail(b, c)
<1>1. /\ GoodLevels(b.levels) /\ \A x \in Sides : \A y : OrderKept(At(b.levels, x, y), At(b.levels, x, y))
  BY SameOrder DEF Book, GoodBook
<1>2. /\ At(c.levels, s, p) = r
      /\ \A x \in Sides : \A y : x # s \/ y # p => At(c.levels, x, y) = At(b.levels, x, y)
  BY <1>1, StoredAt
<1>3. \A q : OrderKept(q, q) => OrAtTail(q, q)
  BY DEF OrderKept, OrAtTail
<1> QED BY <1>1, <1>2, <1>3 DEF BooksKept, BooksOrTail

LEMMA SelfKeeps ==
  ASSUME NEW b, Book(b)
  PROVE  BooksKept(b, b)
  BY SameOrder DEF Book, GoodBook, BooksKept

LEMMA CancelKeeps ==
  ASSUME NEW b, Book(b), NEW id
  PROVE  BooksKept(b, CancelOrder(b, id).book)
<1>1. CASE id \notin DOMAIN b.orders
  BY <1>1, SelfKeeps DEF CancelOrder, Unchanged
<1>2. CASE id \in DOMAIN b.orders
  <2>1. PICK o, q, c : /\ o = b.orders[id] /\ q = At(b.levels, o.side, o.price)
                       /\ c = CancelOrder(b, id).book
    OBVIOUS
  <2>2. c.levels = StoredLevel(b.levels, o.side, o.price, RemoveId(q, id))
    BY <1>2, <2>1, BookCancel
  <2>3. o.side \in Sides /\ GoodQueue(q, b.orders, o.side, o.price)
    BY <1>2, <2>1 DEF Book, GoodBook, GoodIndex, GoodOrder
  <2>4. OrderKept(q, RemoveId(q, id))
    BY <2>3, RemovedOrder
  <2> QED BY <2>1, <2>2, <2>3, <2>4, StoredKeeps
<1> QED BY <1>1, <1>2

LEMMA ReplaceKeeps ==
  ASSUME NEW b, Book(b), NEW o, GoodOrder(o), o.id \in DOMAIN b.orders,
         b.orders[o.id].side = o.side, b.orders[o.id].price = o.price
  PROVE  BooksKept(b, ReplaceInPlace(b, o))
<1>1. PICK q, c : q = At(b.levels, o.side, o.price) /\ c = ReplaceInPlace(b, o)
  OBVIOUS
<1>2. c.levels = StoredLevel(b.levels, o.side, o.price, ReplaceId(q, o))
  BY <1>1, BookReplace
<1>3. o.side \in Sides /\ GoodQueue(q, b.orders, o.side, o.price)
  BY <1>1 DEF Book, GoodBook, GoodOrder
<1>4. OrderKept(q, ReplaceId(q, o))
  BY <1>3, ReplacedOrder
<1> QED BY <1>1, <1>2, <1>3, <1>4, StoredKeeps

\* An order goes to the tail of a queue, after what was kept so far.
LEMMA AddKeeps ==
  ASSUME NEW b, Book(b), NEW c, Book(c), BooksKept(b, c), NEW o, GoodOrder(o), o.id \notin DOMAIN c.orders
  PROVE  /\ BooksOrTail(b, Add(c, o).book)
         /\ o.id \notin IdsOf(At(b.levels, o.side, o.price)) => BooksKept(b, Add(c, o).book)
<1>1. PICK q, r, d : /\ q = At(b.levels, o.side, o.price) /\ r = At(c.levels, o.side, o.price)
                     /\ d = Add(c, o).book
  OBVIOUS
<1>2. d.levels = StoredLevel(c.levels, o.side, o.price, Append(r, o))
  BY <1>1, BookAdd
<1>3. o.side \in Sides /\ Listed(r) /\ GoodLevels(c.levels) /\ OrderKept(q, r)
  BY <1>1 DEF Book, GoodBook, GoodOrder, GoodQueue, BooksKept
<1>4. /\ At(d.levels, o.side, o.price) = Append(r, o)
      /\ \A x \in Sides : \A y : x # o.side \/ y # o.price => At(d.levels, x, y) = At(c.levels, x, y)
  <2>1. PICK L, K, s, p, w : /\ L = c.levels /\ K = d.levels /\ s = o.side /\ p = o.price
                            /\ w = Append(r, o)
    OBVIOUS
  <2>2. K = StoredLevel(L, s, p, w) /\ s \in Sides /\ GoodLevels(L)
    BY <1>2, <1>3, <2>1
  <2>3. At(K, s, p) = w /\ \A x \in Sides : \A y : x # s \/ y # p => At(K, x, y) = At(L, x, y)
    BY <2>2, StoredAt
  <2> QED BY <2>1, <2>3
<1>5. OrAtTail(q, Append(r, o)) /\ (o.id \notin IdsOf(q) => OrderKept(q, Append(r, o)))
  BY <1>3, AppendedOrder
<1>6. BooksOrTail(b, d)
  <2>1. ASSUME NEW x \in Sides, NEW y PROVE OrAtTail(At(b.levels, x, y), At(d.levels, x, y))
    BY <1>1, <1>4, <1>5, KeptIsTail DEF BooksOrTail
  <2> QED BY <2>1 DEF BooksOrTail
<1>7. o.id \notin IdsOf(q) => BooksKept(b, d)
  BY <1>1, <1>4, <1>5 DEF BooksKept
<1> QED BY <1>1, <1>6, <1>7

(***************************************************************************)
(* What an event says of the orders: it takes one index to the next.       *)
(***************************************************************************)
OrderShape(o) ==
    o = [id |-> o.id, agent |-> o.agent, side |-> o.side, qty |-> o.qty, price |-> o.price, ts |-> o.ts]

Takes(m, e, n) ==
    /\ e.type \in {"add", "cancel", "modify", "execute"}
    /\ OrderShape(e.after) /\ e.after.ts \in 0..MaxTick
    /\ e.type = "add" =>
         GoodOrder(e.after) /\ e.after.id \notin DOMAIN m /\ n = Put(m, e.after.id, e.after)
    /\ e.type = "cancel" => e.after.id \in DOMAIN m /\ n = Without(m, {e.after.id})
    /\ e.type \in {"modify", "execute"} /\ e.after.qty = 0 =>
         e.after.id \in DOMAIN m /\ n = Without(m, {e.after.id})
    /\ e.type \in {"modify", "execute"} /\ e.after.qty # 0 =>
         /\ e.after.id \in DOMAIN m /\ GoodOrder(e.after) /\ n = Put(m, e.after.id, e.after)
         /\ e.preserved => m[e.after.id].side = e.after.side /\ m[e.after.id].price = e.after.price

VisibleMap(m) == [id \in DOMAIN m |-> Visible(m[id])]

Tracks(t, m) == Book(t) /\ GoodIndex(m) /\ t.orders = VisibleMap(m)

LEMMA VisibleShape ==
  ASSUME NEW o, OrderShape(o)
  PROVE  /\ OrderShape(Visible(o)) /\ Visible(o).id = o.id /\ Visible(o).side = o.side
         /\ Visible(o).price = o.price /\ Visible(o).qty = o.qty /\ Visible(o).ts = 0
         /\ Visible(o).agent = o.agent
         /\ GoodOrder(o) => GoodOrder(Visible(o))
<1>1. Visible(o) = [id |-> o.id, agent |-> o.agent, side |-> o.side, qty |-> o.qty, price |-> o.price, ts |-> 0]
  BY DEF OrderShape, Visible
<1>2. 0 \in 0..MaxTick
  <2>1. MaxTick \in Nat
    BY EngineAssumption, Zenon
  <2> QED BY <2>1
<1> QED BY <1>1, <1>2 DEF OrderShape, GoodOrder

LEMMA VisiblePut ==
  ASSUME NEW m, NEW o, OrderShape(o)
  PROVE  VisibleMap(Put(m, o.id, o)) = Put(VisibleMap(m), o.id, Visible(o))
  BY DEF VisibleMap, Put

LEMMA VisibleWithout ==
  ASSUME NEW m, NEW S
  PROVE  VisibleMap(Without(m, S)) = Without(VisibleMap(m), S)
  BY DEF VisibleMap, Without

\* One event takes the tape where the operation took the book.
LEMMA TapeTakes ==
  ASSUME NEW t, NEW m, Tracks(t, m), NEW e, NEW n, Takes(m, e, n)
  PROVE  Tracks(TapeStep(t, e), n)
<1>1. PICK o : o = Visible(e.after)
  OBVIOUS
<1>2. /\ OrderShape(o) /\ o.id = e.after.id /\ o.side = e.after.side /\ o.price = e.after.price
      /\ o.qty = e.after.qty /\ (GoodOrder(e.after) => GoodOrder(o))
  BY <1>1, VisibleShape DEF Takes
<1>3. DOMAIN t.orders = DOMAIN m /\ \A id \in DOMAIN m : t.orders[id] = Visible(m[id])
  BY DEF Tracks, VisibleMap
<1>4. \A id \in DOMAIN m : t.orders[id].side = m[id].side /\ t.orders[id].price = m[id].price
  BY <1>3, VisibleShape DEF Tracks, GoodIndex, GoodOrder, OrderShape
<1>5. ASSUME e.after.id \in DOMAIN m
      PROVE /\ Book(CancelOrder(t, o.id).book)
            /\ CancelOrder(t, o.id).book.orders = Without(t.orders, {o.id})
  BY <1>2, <1>3, <1>5, BookCancel DEF Tracks
<1>6. VisibleMap(Put(m, e.after.id, e.after)) = Put(t.orders, o.id, o)
  BY <1>1, <1>2, VisiblePut DEF Tracks, Takes
<1>7. VisibleMap(Without(m, {e.after.id})) = Without(t.orders, {o.id})
  BY <1>2, VisibleWithout DEF Tracks
<1>8. CASE e.type = "add"
  <2>0. o.qty # 0
    BY <1>2, <1>8 DEF Takes, GoodOrder
  <2>1. TapeStep(t, e) = Add(t, o).book
    BY <1>1, <1>8, <2>0 DEF TapeStep
  <2>2. Book(Add(t, o).book) /\ Add(t, o).book.orders = Put(t.orders, o.id, o)
    BY <1>2, <1>3, <1>8, BookAdd DEF Takes, Tracks
  <2>3. GoodIndex(n) /\ n = Put(m, e.after.id, e.after)
    <3>1. GoodOrder(e.after) /\ n = Put(m, e.after.id, e.after)
      BY <1>8 DEF Takes
    <3>2. GoodIndex(m)
      BY DEF Tracks
    <3> QED BY <3>1, <3>2, IndexPut
  <2> QED BY <1>6, <2>1, <2>2, <2>3 DEF Tracks
<1>9. CASE e.type = "cancel" \/ (e.type \in {"modify", "execute"} /\ e.after.qty = 0)
  <2>1. TapeStep(t, e) = CancelOrder(t, o.id).book
    BY <1>1, <1>2, <1>9 DEF TapeStep
  <2>2. e.after.id \in DOMAIN m /\ n = Without(m, {e.after.id})
    BY <1>9 DEF Takes
  <2>3. GoodIndex(n)
    BY <2>2, IndexWithout DEF Tracks
  <2> QED BY <1>5, <1>7, <2>1, <2>2, <2>3 DEF Tracks
<1>10. CASE e.type \in {"modify", "execute"} /\ e.after.qty # 0
  <2>1. /\ e.after.id \in DOMAIN m /\ GoodOrder(e.after) /\ n = Put(m, e.after.id, e.after)
        /\ e.preserved => m[e.after.id].side = e.after.side /\ m[e.after.id].price = e.after.price
    BY <1>10 DEF Takes
  <2>2. GoodIndex(n)
    BY <2>1, IndexPut DEF Tracks
  <2>3. CASE e.preserved
    <3>1. TapeStep(t, e) = ReplaceInPlace(t, o)
      BY <1>1, <1>2, <1>10, <2>3 DEF TapeStep
    <3>2. Book(ReplaceInPlace(t, o)) /\ ReplaceInPlace(t, o).orders = Put(t.orders, o.id, o)
      BY <1>2, <1>3, <1>4, <2>1, <2>3, BookReplace DEF Tracks
    <3> QED BY <1>6, <2>1, <2>2, <3>1, <3>2 DEF Tracks
  <2>4. CASE ~e.preserved
    <3>1. PICK c : c = CancelOrder(t, o.id).book
      OBVIOUS
    <3>2. TapeStep(t, e) = Add(c, o).book
      BY <1>1, <1>2, <1>10, <2>4, <3>1 DEF TapeStep
    <3>3. Book(c) /\ c.orders = Without(t.orders, {o.id})
      BY <1>5, <2>1, <3>1
    <3>4. o.id \notin DOMAIN c.orders /\ Put(c.orders, o.id, o) = Put(t.orders, o.id, o)
      BY <3>3 DEF Without, Put
    <3>5. Book(Add(c, o).book) /\ Add(c, o).book.orders = Put(t.orders, o.id, o)
      BY <1>2, <2>1, <3>3, <3>4, BookAdd
    <3> QED BY <1>6, <2>1, <2>2, <3>2, <3>5 DEF Tracks
  <2> QED BY <2>3, <2>4
<1> QED BY <1>8, <1>9, <1>10 DEF Takes

(***************************************************************************)
(* Sequences of events.                                                    *)
(***************************************************************************)
Chain(M, m, es, n) ==
    /\ M[0] = m /\ M[Len(es)] = n
    /\ \A k \in 1..Len(es) : Takes(M[k - 1], es[k], M[k])

Leads(m, es, n) == Listed(es) /\ \E M : Chain(M, m, es, n)

LEMMA LeadsNone ==
  ASSUME NEW m
  PROVE  Leads(m, << >>, m)
<1>1. Chain([k \in {0} |-> m], m, << >>, m)
  BY ListedEmpty DEF Chain
<1> QED BY <1>1, ListedEmpty DEF Leads

LEMMA LeadsConcat ==
  ASSUME NEW m, NEW es, NEW n, Leads(m, es, n), NEW fs, NEW r, Leads(n, fs, r)
  PROVE  Leads(m, es \o fs, r)
<1>1. PICK M : Chain(M, m, es, n)
  BY DEF Leads
<1>2. PICK N : Chain(N, n, fs, r)
  BY DEF Leads
<1>3. PICK a, b : a = Len(es) /\ b = Len(fs)
  OBVIOUS
<1>4. a \in Nat /\ b \in Nat /\ Listed(es) /\ Listed(fs)
  BY <1>3, ListedShape DEF Leads
<1>5. PICK gs : gs = es \o fs
  OBVIOUS
<1>6. Listed(gs) /\ Len(gs) = a + b /\ \A i \in 1..(a + b) : gs[i] = IF i <= a THEN es[i] ELSE fs[i - a]
  BY <1>3, <1>4, <1>5, ListedConcat
<1>7. PICK R : R = [k \in 0..(a + b) |-> IF k <= a THEN M[k] ELSE N[k - a]]
  OBVIOUS
<1>8. \A k \in 0..(a + b) : R[k] = IF k <= a THEN M[k] ELSE N[k - a]
  BY <1>7
<1>9. R[0] = m
  BY <1>1, <1>4, <1>8 DEF Chain
<1>10. M[a] = n /\ N[0] = n /\ N[b] = r
  BY <1>1, <1>2, <1>3 DEF Chain
<1>11. R[a + b] = r
  <2>1. CASE b = 0
    BY <1>4, <1>8, <1>10, <2>1
  <2>2. CASE b # 0
    <3>1. a + b \in 0..(a + b) /\ ~(a + b <= a) /\ (a + b) - a = b
      BY <1>4, <2>2
    <3> QED BY <1>8, <1>10, <3>1
  <2> QED BY <2>1, <2>2
<1>12. ASSUME NEW k \in 1..(a + b)  PROVE Takes(R[k - 1], gs[k], R[k])
  <2>1. CASE k <= a
    <3>1. k \in 1..a /\ k - 1 \in 0..(a + b) /\ k \in 0..(a + b) /\ k - 1 <= a
      BY <1>4, <2>1
    <3>2. Takes(M[k - 1], es[k], M[k])
      BY <1>1, <1>3, <3>1 DEF Chain
    <3>3. R[k - 1] = M[k - 1] /\ R[k] = M[k] /\ gs[k] = es[k]
      BY <1>6, <1>8, <2>1, <3>1
    <3> QED BY <3>2, <3>3
  <2>2. CASE k > a
    <3>1. PICK j : j = k - a
      OBVIOUS
    <3>2. j \in 1..b /\ ~(k <= a) /\ k \in 0..(a + b) /\ k - 1 \in 0..(a + b) /\ j - 1 = (k - 1) - a
      BY <1>4, <2>2, <3>1
    <3>3. Takes(N[j - 1], fs[j], N[j])
      BY <1>2, <1>3, <3>2 DEF Chain
    <3>4. R[k] = N[j] /\ gs[k] = fs[j]
      BY <1>6, <1>8, <3>1, <3>2
    <3>5. R[k - 1] = N[j - 1]
      <4>1. CASE k - 1 <= a
        <5>1. k - 1 = a /\ j - 1 = 0
          BY <1>4, <2>2, <3>2, <4>1
        <5> QED BY <1>8, <1>10, <3>2, <5>1
      <4>2. CASE ~(k - 1 <= a)
        BY <1>8, <3>2, <4>2
      <4> QED BY <4>1, <4>2
    <3> QED BY <3>3, <3>4, <3>5
  <2> QED BY <1>4, <2>1, <2>2
<1>13. Chain(R, m, gs, r)
  BY <1>6, <1>9, <1>11, <1>12 DEF Chain
<1> QED BY <1>5, <1>6, <1>13 DEF Leads

LEMMA LeadsOne ==
  ASSUME NEW m, NEW e, NEW n, Takes(m, e, n)
  PROVE  Leads(m, <<e>>, n)
<1>1. PICK M : M = [k \in 0..1 |-> IF k = 0 THEN m ELSE n]
  OBVIOUS
<1>2. M[0] = m /\ M[1] = n
  BY <1>1
<1>3. PICK es : es = <<e>>
  OBVIOUS
<1>4. es \in Seq({e}) /\ Len(es) = 1 /\ es[1] = e
  BY <1>3
<1>5. \A k \in 1..1 : k = 1 /\ k - 1 = 0
  OBVIOUS
<1>6. Chain(M, m, es, n)
  BY <1>2, <1>4, <1>5 DEF Chain
<1> QED BY <1>3, <1>4, <1>6 DEF Leads, Listed

LEMMA LeadsAppend ==
  ASSUME NEW m, NEW es, NEW n, Leads(m, es, n), NEW e, NEW r, Takes(n, e, r)
  PROVE  Leads(m, Append(es, e), r)
<1>1. PICK S : es \in Seq(S)
  BY DEF Leads, Listed
<1>2. PICK T : T = S \cup {e}
  OBVIOUS
<1>3. es \in Seq(T) /\ e \in T
  <2>1. Len(es) \in Nat /\ es \in [1..Len(es) -> S]
    BY <1>1, LenProperties
  <2>2. es \in [1..Len(es) -> T]
    BY <1>2, <2>1
  <2> QED BY <1>2, <2>1, <2>2, SeqDef
<1>4. Append(es, e) = es \o <<e>>
  BY <1>3, AppendIsConcat
<1> QED BY <1>4, LeadsOne, LeadsConcat

\* Cancelling the orders of a queue, one after the other.
LEMMA LeadsCancels ==
  ASSUME NEW m, GoodIndex(m), NEW q, NEW s, NEW p, GoodQueue(q, m, s, p)
  PROVE  Leads(m, [i \in DOMAIN q |-> CancelMutation(q[i])], Without(m, IdsOf(q)))
<1>1. Listed(q) /\ Len(q) \in Nat /\ DOMAIN q = 1..Len(q)
  BY ListedShape DEF GoodQueue
<1>2. PICK es : es = [i \in DOMAIN q |-> CancelMutation(q[i])]
  OBVIOUS
<1>3. DOMAIN es = 1..Len(q) /\ es = [i \in 1..Len(q) |-> es[i]] /\ \A i \in 1..Len(q) : es[i] = CancelMutation(q[i])
  BY <1>1, <1>2
<1>4. Listed(es) /\ Len(es) = Len(q)
  BY <1>1, <1>3, ListedBy
<1>5. PICK M : M = [k \in 0..Len(q) |-> Without(m, {q[i].id : i \in 1..k})]
  OBVIOUS
<1>6. \A k \in 0..Len(q) : M[k] = Without(m, {q[i].id : i \in 1..k})
  BY <1>5
<1>7. M[0] = m
  <2>1. M[0] = Without(m, {})
    BY <1>1, <1>6
  <2> QED BY <2>1 DEF Without, GoodIndex
<1>8. M[Len(q)] = Without(m, IdsOf(q))
  BY <1>1, <1>6 DEF IdsOf
<1>9. ASSUME NEW k \in 1..Len(q)  PROVE Takes(M[k - 1], es[k], M[k])
  <2>1. k \in 0..Len(q) /\ k - 1 \in 0..Len(q) /\ k - 1 \in Nat
    BY <1>1
  <2>2. PICK A, B : A = {q[i].id : i \in 1..(k - 1)} /\ B = {q[i].id : i \in 1..k}
    OBVIOUS
  <2>3. B = A \cup {q[k].id}
    <3>1. \A i \in 1..k : i = k \/ i \in 1..(k - 1)
      BY <2>1
    <3>2. 1..(k - 1) \subseteq 1..k /\ k \in 1..k
      BY <2>1
    <3> QED BY <2>2, <3>1, <3>2
  <2>4. q[k].id \notin A
    <3>1. ASSUME NEW i \in 1..(k - 1), q[i].id = q[k].id  PROVE FALSE
      <4>1. i \in DOMAIN q /\ k \in DOMAIN q /\ i # k
        BY <1>1, <2>1
      <4> QED BY <3>1, <4>1 DEF GoodQueue
    <3> QED BY <2>2, <3>1
  <2>5. q[k].id \in DOMAIN m /\ m[q[k].id] = q[k]
    BY <1>1 DEF GoodQueue
  <2>6. GoodOrder(q[k])
    BY <2>5 DEF GoodIndex
  <2>7. M[k - 1] = Without(m, A) /\ M[k] = Without(m, B)
    BY <1>6, <2>1, <2>2
  <2>8. M[k] = Without(M[k - 1], {q[k].id}) /\ q[k].id \in DOMAIN M[k - 1]
    BY <2>3, <2>4, <2>5, <2>7 DEF Without
  <2>9. es[k].type = "cancel" /\ es[k].after = q[k]
    BY <1>3 DEF CancelMutation
  <2> QED BY <2>6, <2>8, <2>9 DEF Takes, GoodOrder, OrderShape
<1>10. Chain(M, m, es, Without(m, IdsOf(q)))
  BY <1>4, <1>7, <1>8, <1>9 DEF Chain
<1> QED BY <1>2, <1>4, <1>10 DEF Leads

LEMMA LeastNumber ==
  ASSUME NEW S \in SUBSET Nat, S # {}
  PROVE  \E m \in S : \A k \in S : m <= k
<1>1. PICK m \in S : \A k \in S : ~(<<k, m>> \in OpToRel(<, Nat))
  BY NatLessThanWellFounded, WFMin
<1>2. \A k \in S : ~(k < m)
  BY <1>1, Zenon DEF OpToRel
<1>3. m \in Nat /\ \A k \in S : k \in Nat
  OBVIOUS
<1>4. QED
  BY <1>2, <1>3

(***************************************************************************)
(* The tape after a sequence of events.                                    *)
(***************************************************************************)
RebuiltTo(f, n, t, es) ==
    f = [k \in 0..n |-> IF k = 0 THEN t ELSE TapeStep(f[k - 1], es[k])]

LEMMA RebuiltExists ==
  ASSUME NEW t, NEW es, NEW n \in Nat
  PROVE  \E f : RebuiltTo(f, n, t, es)
<1> DEFINE bad == {k \in Nat : ~\E f : RebuiltTo(f, k, t, es)}
<1>1. SUFFICES ASSUME bad # {} PROVE FALSE
  OBVIOUS
<1>2. PICK k \in bad : \A j \in bad : k <= j
  BY <1>1, LeastNumber
<1>3. RebuiltTo([i \in 0..0 |-> t], 0, t, es)
  <2>1. \A i \in 0..0 : i = 0
    OBVIOUS
  <2> QED BY <2>1 DEF RebuiltTo
<1>4. k \in Nat /\ k # 0
  BY <1>3
<1>5. k - 1 \in Nat /\ k - 1 \notin bad
  BY <1>2, <1>4
<1>6. PICK g : RebuiltTo(g, k - 1, t, es)
  BY <1>5
<1>7. PICK f : f = [i \in 0..k |-> IF i = k THEN TapeStep(g[k - 1], es[k]) ELSE g[i]]
  OBVIOUS
<1>8. \A i \in 0..(k - 1) : g[i] = IF i = 0 THEN t ELSE TapeStep(g[i - 1], es[i])
  BY <1>6 DEF RebuiltTo
<1>9. ASSUME NEW i \in 0..k  PROVE f[i] = IF i = 0 THEN t ELSE TapeStep(f[i - 1], es[i])
  <2>1. CASE i = k
    <3>1. k - 1 \in 0..k /\ k - 1 # k
      BY <1>4
    <3> QED BY <1>4, <1>7, <2>1, <3>1
  <2>2. CASE i # k
    <3>1. i \in 0..(k - 1) /\ (i # 0 => i - 1 \in 0..k /\ i - 1 # k)
      BY <1>4, <2>2
    <3> QED BY <1>7, <1>8, <2>2, <3>1
  <2> QED BY <2>1, <2>2
<1>10. RebuiltTo(f, k, t, es)
  BY <1>7, <1>9 DEF RebuiltTo
<1> QED BY <1>10

LEMMA TapeLeads ==
  ASSUME NEW t, NEW m, Tracks(t, m), NEW es, NEW n, Leads(m, es, n)
  PROVE  Tracks(Rebuilt(t, es), n)
<1>1. Listed(es) /\ Len(es) \in Nat
  BY ListedShape DEF Leads
<1>2. PICK M : Chain(M, m, es, n)
  BY DEF Leads
<1>3. PICK f : f = CHOOSE g : RebuiltTo(g, Len(es), t, es)
  OBVIOUS
<1>4. RebuiltTo(f, Len(es), t, es)
  BY <1>1, <1>3, RebuiltExists
<1>5. Rebuilt(t, es) = f[Len(es)]
  BY <1>3 DEF Rebuilt, RebuiltTo
<1>6. \A k \in 0..Len(es) : f[k] = IF k = 0 THEN t ELSE TapeStep(f[k - 1], es[k])
  BY <1>4 DEF RebuiltTo
<1> DEFINE bad == {k \in 0..Len(es) : ~Tracks(f[k], M[k])}
<1>7. ASSUME bad # {} PROVE FALSE
  <2>0. bad \in SUBSET Nat
    BY <1>1
  <2>1. PICK k \in bad : \A j \in bad : k <= j
    BY <1>7, <2>0, LeastNumber
  <2>2. k \in 0..Len(es) /\ ~Tracks(f[k], M[k])
    BY <2>1
  <2>3. k # 0
    BY <1>1, <1>2, <1>6, <2>2 DEF Chain
  <2>4. k \in 1..Len(es) /\ k - 1 \in 0..Len(es) /\ k - 1 < k
    BY <1>1, <2>2, <2>3
  <2>5. Tracks(f[k - 1], M[k - 1])
    BY <2>1, <2>4
  <2>6. Takes(M[k - 1], es[k], M[k])
    BY <1>2, <2>4 DEF Chain
  <2>7. Tracks(TapeStep(f[k - 1], es[k]), M[k])
    BY <2>5, <2>6, TapeTakes
  <2> QED BY <1>6, <2>2, <2>3, <2>7
<1>8. Len(es) \in 0..Len(es)
  BY <1>1
<1>9. Tracks(f[Len(es)], M[Len(es)])
  BY <1>7, <1>8
<1> QED BY <1>2, <1>5, <1>9 DEF Chain

(***************************************************************************)
(* An operation's result: a good book, and events that lead to it.         *)
(***************************************************************************)
Sound(m, r) == Book(r.book) /\ Leads(m, r.muts, r.book.orders)

\* At most the order id has moved.
Kept(m, n, id) ==
    \A x \in DOMAIN n : x # id =>
        x \in DOMAIN m /\ n[x].side = m[x].side /\ n[x].price = m[x].price

LEMMA UnchangedSound ==
  ASSUME NEW b, Book(b)
  PROVE  /\ Sound(b.orders, Unchanged(b)) /\ Unchanged(b).book = b
         /\ \A id : Kept(b.orders, b.orders, id)
  BY LeadsNone DEF Sound, Unchanged, Kept

LEMMA AddSound ==
  ASSUME NEW b, Book(b), NEW o, GoodOrder(o), o.id \notin DOMAIN b.orders
  PROVE  /\ Sound(b.orders, Add(b, o)) /\ Kept(b.orders, Add(b, o).book.orders, o.id)
         /\ Add(b, o).book.orders = Put(b.orders, o.id, o)
<1>1. Book(Add(b, o).book) /\ Add(b, o).book.orders = Put(b.orders, o.id, o)
  BY BookAdd
<1>2. PICK e : e = AddMutation(o)
  OBVIOUS
<1>3. Add(b, o).muts = <<e>>
  BY <1>2 DEF Add
<1>4. e.type = "add" /\ e.after = o
  BY <1>2 DEF AddMutation
<1>5. Takes(b.orders, e, Put(b.orders, o.id, o))
  BY <1>4 DEF Takes, GoodOrder, OrderShape
<1>6. Leads(b.orders, <<e>>, Put(b.orders, o.id, o))
  BY <1>5, LeadsOne
<1>7. Kept(b.orders, Put(b.orders, o.id, o), o.id)
  BY DEF Kept, Put
<1> QED BY <1>1, <1>3, <1>6, <1>7 DEF Sound

LEMMA CancelSound ==
  ASSUME NEW b, Book(b), NEW id
  PROVE  /\ Sound(b.orders, CancelOrder(b, id))
         /\ \A x : Kept(b.orders, CancelOrder(b, id).book.orders, x)
<1>1. CASE id \notin DOMAIN b.orders
  <2>1. CancelOrder(b, id) = Unchanged(b)
    BY <1>1 DEF CancelOrder
  <2> QED BY <2>1, UnchangedSound
<1>2. CASE id \in DOMAIN b.orders
  <2>1. /\ Book(CancelOrder(b, id).book)
        /\ CancelOrder(b, id).book.orders = Without(b.orders, {id})
    BY <1>2, BookCancel
  <2>2. PICK o, e : o = b.orders[id] /\ e = CancelMutation(o)
    OBVIOUS
  <2>3. CancelOrder(b, id).muts = <<e>>
    BY <1>2, <2>2 DEF CancelOrder
  <2>4. GoodOrder(o) /\ o.id = id
    BY <1>2, <2>2 DEF Book, GoodBook, GoodIndex
  <2>5. e.type = "cancel" /\ e.after = o
    BY <2>2 DEF CancelMutation
  <2>6. Takes(b.orders, e, Without(b.orders, {id}))
    BY <1>2, <2>4, <2>5 DEF Takes, GoodOrder, OrderShape
  <2>7. Leads(b.orders, <<e>>, Without(b.orders, {id}))
    BY <2>6, LeadsOne
  <2>8. \A x : Kept(b.orders, Without(b.orders, {id}), x)
    BY DEF Kept, Without
  <2> QED BY <2>1, <2>3, <2>7, <2>8 DEF Sound
<1> QED BY <1>1, <1>2

LEMMA ModifySound ==
  ASSUME NEW b, Book(b), NEW req, req.qty \in Nat \ {0}, req.price \in Nat, req.ts \in 0..MaxTick
  PROVE  /\ Sound(b.orders, ModifyOrder(b, req))
         /\ Kept(b.orders, ModifyOrder(b, req).book.orders, req.id)
         /\ DOMAIN ModifyOrder(b, req).book.orders \subseteq DOMAIN b.orders
         /\ BooksKept(b, ModifyOrder(b, req).book)
<1>1. CASE req.id \notin DOMAIN b.orders
  <2>1. ModifyOrder(b, req) = Unchanged(b)
    BY <1>1 DEF ModifyOrder
  <2> QED BY <2>1, UnchangedSound, SelfKeeps
<1>2. CASE req.id \in DOMAIN b.orders
  <2>1. PICK id, old : id = req.id /\ old = b.orders[req.id]
    OBVIOUS
  <2>2. PICK price : price = IF req.price = NoPrice THEN old.price ELSE req.price
    OBVIOUS
  <2>3. GoodOrder(old) /\ old.id = id
    BY <1>2, <2>1 DEF Book, GoodBook, GoodIndex
  <2>4. price \in Nat \ {0}
    BY <2>2, <2>3 DEF GoodOrder, NoPrice
  <2>5. PICK new : new = [old EXCEPT !.qty = req.qty, !.price = price,
                                     !.ts = IF price = old.price THEN @ ELSE req.ts]
    OBVIOUS
  <2>6. GoodOrder(new) /\ new.id = id /\ new.side = old.side /\ new.price = price
    <3>1. new = [id |-> id, agent |-> old.agent, side |-> old.side, qty |-> req.qty, price |-> price,
                 ts |-> IF price = old.price THEN old.ts ELSE req.ts]
      BY <2>3, <2>5 DEF GoodOrder
    <3> QED BY <2>3, <2>4, <3>1 DEF GoodOrder
  <2>7. PICK r : r = ModifyOrder(b, req)
    OBVIOUS
  <2>8. PICK queue : queue = QueueAt(b, old.side, old.price)
    OBVIOUS
  <2>9. PICK moved : moved = StoreQueue(b, old.side, old.price, RemoveId(queue, id))
    OBVIOUS
  <2>10. r = [book |-> Index(IF price = old.price
                             THEN StoreQueue(b, old.side, old.price, ReplaceId(queue, new))
                             ELSE StoreQueue(moved, old.side, price,
                                             Append(QueueAt(moved, old.side, price), new)), new),
              muts |-> <<ModifyMutation(old, new, price = old.price)>>]
    BY <1>2, <2>1, <2>2, <2>3, <2>5, <2>7, <2>8, <2>9 DEF ModifyOrder
  <2>11. Book(r.book) /\ r.book.orders = Put(b.orders, id, new) /\ BooksKept(b, r.book)
    <3>1. CASE price = old.price
      <4>1. r.book = ReplaceInPlace(b, new)
        BY <2>6, <2>8, <2>10, <3>1 DEF ReplaceInPlace
      <4>2. Book(r.book) /\ r.book.orders = Put(b.orders, id, new)
        BY <1>2, <2>1, <2>6, <3>1, <4>1, BookReplace
      <4>3. BooksKept(b, r.book)
        BY <1>2, <2>1, <2>6, <3>1, <4>1, ReplaceKeeps
      <4> QED BY <4>2, <4>3
    <3>2. CASE price # old.price
      <4>1. PICK c : c = CancelOrder(b, id).book
        OBVIOUS
      <4>2. Book(c) /\ c.orders = Without(b.orders, {id})
        BY <1>2, <2>1, <4>1, BookCancel
      <4>3. GoodLevels(b.levels) /\ old.side \in Sides
        BY <2>3 DEF Book, GoodBook, GoodOrder
      <4>4. PICK L : L = StoredLevel(b.levels, old.side, old.price, RemoveId(queue, id))
        OBVIOUS
      <4>5. moved = [levels |-> L, orders |-> b.orders] /\ GoodLevels(L)
        BY <2>9, <4>3, <4>4, BookParts, StoredAt DEF Book
      <4>6. c = [levels |-> L, orders |-> Without(b.orders, {id})]
        <5>1. c = Deindex(moved, {id})
          BY <1>2, <2>1, <2>8, <2>9, <4>1 DEF CancelOrder
        <5>2. /\ moved.levels = L /\ moved.orders = b.orders
              /\ moved = [levels |-> moved.levels, orders |-> moved.orders]
          BY <4>5
        <5> QED BY <4>5, <5>1, <5>2, BookParts
      <4>7. PICK Q : Q = Append(At(L, old.side, price), new)
        OBVIOUS
      <4>8. PICK K : K = StoredLevel(L, old.side, price, Q)
        OBVIOUS
      <4>9. GoodLevels(K)
        BY <4>3, <4>5, <4>8, StoredAt
      <4>10. StoreQueue(moved, old.side, price, Append(QueueAt(moved, old.side, price), new))
               = [levels |-> K, orders |-> b.orders]
        BY <4>3, <4>5, <4>7, <4>8, BookParts
      <4>11. r.book = [levels |-> K, orders |-> Put(b.orders, id, new)]
        <5>1. PICK d : d = [levels |-> K, orders |-> b.orders]
          OBVIOUS
        <5>2. r.book = Index(d, new)
          BY <2>10, <3>2, <4>10, <5>1
        <5>3. d.levels = K /\ d.orders = b.orders /\ d = [levels |-> d.levels, orders |-> d.orders]
          BY <5>1
        <5> QED BY <2>6, <4>9, <5>2, <5>3, BookParts
      <4>12. Put(Without(b.orders, {id}), id, new) = Put(b.orders, id, new)
        BY DEF Put, Without
      <4>13. GoodBook(K, Put(b.orders, id, new))
        <5>1. GoodBook(L, Without(b.orders, {id}))
          BY <4>2, <4>6 DEF Book
        <5>2. new.id \notin DOMAIN Without(b.orders, {id})
          BY <2>6 DEF Without
        <5>3. GoodBook(K, Put(Without(b.orders, {id}), id, new))
          BY <2>6, <4>7, <4>8, <5>1, <5>2, OrderPlaced
        <5> QED BY <4>12, <5>3
      <4>14. BooksKept(b, r.book)
        <5>1. BooksKept(b, c)
          BY <4>1, CancelKeeps
        <5>2. new.id \notin DOMAIN c.orders
          BY <2>6, <4>2 DEF Without
        <5>3. id \notin IdsOf(At(b.levels, old.side, price))
          <6>1. PICK q : q = At(b.levels, old.side, price)
            OBVIOUS
          <6>2. GoodQueue(q, b.orders, old.side, price)
            BY <4>3, <6>1 DEF Book, GoodBook
          <6>3. \A x \in IdsOf(q) : b.orders[x].price = price
            BY <6>2 DEF GoodQueue, IdsOf
          <6> QED BY <2>1, <3>2, <6>1, <6>3
        <5>4. PICK d : d = Add(c, new).book
          OBVIOUS
        <5>5. BooksKept(b, d)
          BY <2>6, <4>2, <5>1, <5>2, <5>3, <5>4, AddKeeps
        <5>6. d.levels = StoredLevel(c.levels, new.side, new.price, Append(At(c.levels, new.side, new.price), new))
          BY <2>6, <4>2, <5>2, <5>4, BookAdd
        <5>7. d.levels = r.book.levels
          BY <2>6, <4>6, <4>7, <4>8, <4>11, <5>6
        <5> QED BY <5>5, <5>7 DEF BooksKept
      <4> QED BY <4>11, <4>13, <4>14 DEF Book
    <3> QED BY <3>1, <3>2
  <2>12. PICK e : e = ModifyMutation(old, new, price = old.price)
    OBVIOUS
  <2>13. e.type = "modify" /\ e.after = new /\ e.preserved = (price = old.price)
    BY <2>12 DEF ModifyMutation
  <2>14. Takes(b.orders, e, Put(b.orders, id, new))
    <3>1. OrderShape(new) /\ new.ts \in 0..MaxTick /\ new.qty # 0
      BY <2>6 DEF GoodOrder, OrderShape
    <3> QED BY <1>2, <2>1, <2>6, <2>13, <3>1 DEF Takes
  <2>15. Leads(b.orders, <<e>>, Put(b.orders, id, new))
    BY <2>14, LeadsOne
  <2>16. Kept(b.orders, Put(b.orders, id, new), id)
    BY DEF Kept, Put
  <2>17. DOMAIN Put(b.orders, id, new) \subseteq DOMAIN b.orders
    BY <1>2, <2>1 DEF Put
  <2>18. r.muts = <<e>>
    BY <2>10, <2>12
  <2>19. Sound(b.orders, r)
    BY <2>11, <2>15, <2>18 DEF Sound
  <2>20. id = req.id /\ r.book.orders = Put(b.orders, id, new) /\ BooksKept(b, r.book)
    BY <2>1, <2>11
  <2> QED BY <2>7, <2>16, <2>17, <2>19, <2>20
<1> QED BY <1>1, <1>2

LEMMA AgentLevelSound ==
  ASSUME NEW b, Book(b), NEW side \in Sides, NEW price \in Nat \ {0}, NEW qty \in Int, NEW agent, NEW id,
         NEW ts \in 0..MaxTick
  PROVE  /\ Sound(b.orders, UpdateAgentLevel(b, side, price, qty, agent, id, ts))
         /\ Kept(b.orders, UpdateAgentLevel(b, side, price, qty, agent, id, ts).book.orders, id)
         /\ BooksOrTail(b, UpdateAgentLevel(b, side, price, qty, agent, id, ts).book)
<1>1. CASE Removes(qty)
  <2>1. UpdateAgentLevel(b, side, price, qty, agent, id, ts) = CancelOrder(b, id)
    BY <1>1 DEF UpdateAgentLevel
  <2> QED BY <2>1, CancelSound, CancelKeeps, KeptIsTail
<1>2. CASE ~Removes(qty)
  <2>1. PICK new : new = [id |-> id, agent |-> agent, side |-> side, qty |-> qty, price |-> price, ts |-> ts]
    OBVIOUS
  <2>2. qty \in Nat \ {0}
    BY <1>2 DEF Removes
  <2>3. GoodOrder(new) /\ new.id = id /\ new.side = side /\ new.price = price /\ OrderShape(new)
        /\ new.ts \in 0..MaxTick /\ new.qty # 0
    BY <2>1, <2>2 DEF GoodOrder, OrderShape
  <2>4. PICK c : c = CancelOrder(b, id).book
    OBVIOUS
  <2>5. Book(c) /\ c.orders = Without(b.orders, {id})
    <3>1. CASE id \in DOMAIN b.orders
      BY <2>4, <3>1, BookCancel
    <3>2. CASE id \notin DOMAIN b.orders
      <4>1. c = b
        BY <2>4, <3>2 DEF CancelOrder, Unchanged
      <4>2. b.orders = [x \in DOMAIN b.orders |-> b.orders[x]]
        BY DEF Book, GoodBook, GoodIndex
      <4>3. Without(b.orders, {id}) = b.orders
        BY <3>2, <4>2 DEF Without
      <4> QED BY <4>1, <4>3
    <3> QED BY <3>1, <3>2
  <2>6. PICK old : old = b.orders[id]
    OBVIOUS
  <2>7. c = IF id \in DOMAIN b.orders
            THEN Deindex(StoreQueue(b, old.side, old.price,
                           RemoveId(QueueAt(b, old.side, old.price), id)), {id})
            ELSE b
    BY <2>4, <2>6 DEF CancelOrder, Unchanged
  <2>8. RemoveId(QueueAt(c, side, price), id) = QueueAt(c, side, price)
    <3>1. QueueAt(c, side, price) = At(c.levels, side, price)
      BY <2>5, BookParts DEF Book, GoodBook
    <3>2. GoodQueue(At(c.levels, side, price), c.orders, side, price)
      BY <2>5 DEF Book, GoodBook
    <3>3. id \notin DOMAIN c.orders
      BY <2>5 DEF Without
    <3>4. id \notin IdsOf(At(c.levels, side, price))
      BY <3>2, <3>3 DEF GoodQueue, IdsOf
    <3> QED BY <3>1, <3>4 DEF RemoveId
  <2>9. PICK r : r = UpdateAgentLevel(b, side, price, qty, agent, id, ts)
    OBVIOUS
  <2>10. /\ r.book = Index(StoreQueue(c, side, price, Append(RemoveId(QueueAt(c, side, price), id), new)), new)
         /\ r.muts = IF id \notin DOMAIN b.orders THEN <<AddMutation(new)>>
                     ELSE IF old # new
                          THEN <<ModifyMutation(old, new, old.side = side /\ old.price = price)>>
                          ELSE <<>>
    BY <1>2, <2>1, <2>6, <2>7, <2>9 DEF UpdateAgentLevel
  <2>11. r.book = Add(c, new).book
    BY <2>3, <2>8, <2>10 DEF Add
  <2>12. new.id \notin DOMAIN c.orders /\ Put(c.orders, id, new) = Put(b.orders, id, new)
    BY <2>3, <2>5 DEF Without, Put
  <2>13. Book(r.book) /\ r.book.orders = Put(b.orders, id, new)
    BY <2>3, <2>5, <2>11, <2>12, BookAdd
  <2>14. Leads(b.orders, r.muts, Put(b.orders, id, new))
    <3>1. CASE id \notin DOMAIN b.orders
      <4>1. PICK e : e = AddMutation(new)
        OBVIOUS
      <4>2. r.muts = <<e>>
        BY <2>10, <3>1, <4>1
      <4>3. e.type = "add" /\ e.after = new
        BY <4>1 DEF AddMutation
      <4>4. Takes(b.orders, e, Put(b.orders, id, new))
        BY <2>3, <3>1, <4>3 DEF Takes
      <4> QED BY <4>2, <4>4, LeadsOne
    <3>2. CASE id \in DOMAIN b.orders /\ old # new
      <4>1. PICK e : e = ModifyMutation(old, new, old.side = side /\ old.price = price)
        OBVIOUS
      <4>2. r.muts = <<e>>
        BY <2>10, <3>2, <4>1
      <4>3. e.type = "modify" /\ e.after = new /\ e.preserved = (old.side = side /\ old.price = price)
        BY <4>1 DEF ModifyMutation
      <4>4. Takes(b.orders, e, Put(b.orders, id, new))
        BY <2>3, <2>6, <3>2, <4>3 DEF Takes
      <4> QED BY <4>2, <4>4, LeadsOne
    <3>3. CASE id \in DOMAIN b.orders /\ old = new
      <4>1. r.muts = << >>
        BY <2>10, <3>3
      <4>2. Put(b.orders, id, new) = b.orders
        <5>1. b.orders = [x \in DOMAIN b.orders |-> b.orders[x]]
          BY DEF Book, GoodBook, GoodIndex
        <5>2. b.orders[id] = new
          BY <2>6, <3>3
        <5> QED BY <3>3, <5>1, <5>2 DEF Put
      <4> QED BY <4>1, <4>2, LeadsNone
    <3> QED BY <3>1, <3>2, <3>3
  <2>15. Kept(b.orders, Put(b.orders, id, new), id)
    BY DEF Kept, Put
  <2>16. Sound(b.orders, r)
    BY <2>13, <2>14 DEF Sound
  <2>17. BooksOrTail(b, r.book)
    <3>1. BooksKept(b, c)
      BY <2>4, CancelKeeps
    <3> QED BY <2>3, <2>5, <2>11, <2>12, <3>1, AddKeeps
  <2> QED BY <2>9, <2>13, <2>15, <2>16, <2>17
<1> QED BY <1>1, <1>2

\* What is left is as it was.
OnlyRemoved(m, n) == \A x \in DOMAIN n : x \in DOMAIN m /\ n[x] = m[x]

LEMMA RemoveLevelSound ==
  ASSUME NEW b, Book(b), NEW side \in Sides, NEW price
  PROVE  /\ Sound(b.orders, RemoveLevel(b, side, price))
         /\ OnlyRemoved(b.orders, RemoveLevel(b, side, price).book.orders)
         /\ RemoveLevel(b, side, price).book.levels = StoredLevel(b.levels, side, price, << >>)
<1>1. PICK queue, r : queue = At(b.levels, side, price) /\ r = RemoveLevel(b, side, price)
  OBVIOUS
<1>2. GoodLevels(b.levels) /\ GoodIndex(b.orders) /\ GoodQueue(queue, b.orders, side, price)
  BY <1>1 DEF Book, GoodBook
<1>3. QueueAt(b, side, price) = queue
  BY <1>1, <1>2, BookParts DEF Book
<1>4. PICK L, m : L = StoredLevel(b.levels, side, price, << >>) /\ m = Without(b.orders, IdsOf(queue))
  OBVIOUS
<1>5. PICK c : c = StoreQueue(b, side, price, << >>)
  OBVIOUS
<1>6. c = [levels |-> L, orders |-> b.orders] /\ GoodLevels(L)
  BY <1>2, <1>4, <1>5, BookParts, StoredAt DEF Book
<1>7. c.levels = L /\ c.orders = b.orders /\ c = [levels |-> c.levels, orders |-> c.orders]
  BY <1>6
<1>8. Deindex(c, IdsOf(queue)) = [levels |-> L, orders |-> m]
  BY <1>4, <1>6, <1>7, BookParts
<1>9. r.book = [levels |-> L, orders |-> m] /\ r.muts = [i \in DOMAIN queue |-> CancelMutation(queue[i])]
  BY <1>1, <1>3, <1>5, <1>8 DEF RemoveLevel
<1>10. GoodBook(L, m)
  BY <1>1, <1>4, LevelCleared DEF Book
<1>11. Leads(b.orders, r.muts, m)
  BY <1>2, <1>4, <1>9, LeadsCancels
<1>12. OnlyRemoved(b.orders, m)
  BY <1>4 DEF OnlyRemoved, Without
<1>13. Book(r.book) /\ r.book.orders = m /\ r.book.levels = L
  BY <1>9, <1>10 DEF Book
<1>14. Sound(b.orders, r)
  BY <1>11, <1>13 DEF Sound
<1> QED BY <1>1, <1>4, <1>12, <1>13, <1>14

\* A level replaced as a whole keeps at most one order.
LevelReplaced(b, c, side, price) ==
    \E q : (q = << >> \/ \E o : q = <<o>>) /\ c.levels = StoredLevel(b.levels, side, price, q)

LEMMA ReplacedKeeps ==
  ASSUME NEW b, Book(b), NEW side \in Sides, NEW price, NEW c, LevelReplaced(b, c, side, price)
  PROVE  BooksKept(b, c)
<1>1. PICK q : (q = << >> \/ \E o : q = <<o>>) /\ c.levels = StoredLevel(b.levels, side, price, q)
  BY DEF LevelReplaced
<1>2. PICK old : old = At(b.levels, side, price)
  OBVIOUS
<1>3. \A k, l \in DOMAIN q : ~(l < k)
  <2>1. CASE q = << >>
    BY <2>1, ListedEmpty
  <2>2. CASE \E o : q = <<o>>
    <3>1. PICK o : q = <<o>>
      BY <2>2
    <3>2. DOMAIN q = 1..1
      BY <3>1
    <3> QED BY <3>2
  <2> QED BY <1>1, <2>1, <2>2
<1>4. OrderKept(old, q)
  BY <1>3 DEF OrderKept, Overtakes
<1> QED BY <1>1, <1>2, <1>4, StoredKeeps

\* Nobody but the level itself uses the id of a synthetic level.
SyntheticInPlace(m) ==
    \A s \in Sides : \A p : SyntheticOrderId(s, p) \in DOMAIN m =>
        m[SyntheticOrderId(s, p)].side = s /\ m[SyntheticOrderId(s, p)].price = p

\* A level that is set carries no time.
Fresh(m, n) == \A x \in DOMAIN n : n[x].ts = 0 \/ (x \in DOMAIN m /\ n[x] = m[x])

LEMMA UpdateLevelSound ==
  ASSUME NEW b, Book(b), SyntheticInPlace(b.orders), NEW side \in Sides, NEW price \in Nat \ {0},
         NEW qty \in Int, NEW owner
  PROVE  /\ Sound(b.orders, UpdateLevel(b, side, price, qty, owner))
         /\ SyntheticInPlace(UpdateLevel(b, side, price, qty, owner).book.orders)
         /\ Fresh(b.orders, UpdateLevel(b, side, price, qty, owner).book.orders)
         /\ LevelReplaced(b, UpdateLevel(b, side, price, qty, owner).book, side, price)
<1>1. CASE Removes(qty)
  <2>1. UpdateLevel(b, side, price, qty, owner) = RemoveLevel(b, side, price)
    BY <1>1 DEF UpdateLevel
  <2>2. PICK n : n = RemoveLevel(b, side, price).book.orders
    OBVIOUS
  <2>3. Sound(b.orders, RemoveLevel(b, side, price)) /\ OnlyRemoved(b.orders, n)
    BY <2>2, RemoveLevelSound
  <2>4. SyntheticInPlace(n) /\ Fresh(b.orders, n)
    BY <2>3 DEF SyntheticInPlace, OnlyRemoved, Fresh
  <2>5. LevelReplaced(b, RemoveLevel(b, side, price).book, side, price)
    BY RemoveLevelSound DEF LevelReplaced
  <2> QED BY <2>1, <2>2, <2>3, <2>4, <2>5
<1>2. CASE ~Removes(qty)
  <2>1. PICK m, id, existing : /\ m = b.orders /\ id = SyntheticOrderId(side, price)
                               /\ existing = At(b.levels, side, price)
    OBVIOUS
  <2>2. PICK new : new = [id |-> id, agent |-> owner, side |-> side, qty |-> qty, price |-> price, ts |-> 0]
    OBVIOUS
  <2>3. GoodOrder(new) /\ new.id = id /\ new.side = side /\ new.price = price /\ OrderShape(new)
        /\ new.ts \in 0..MaxTick /\ new.qty # 0
    <3>1. MaxTick \in Nat
      BY EngineAssumption, Zenon
    <3>2. qty \in Nat \ {0} /\ 0 \in 0..MaxTick
      BY <1>2, <3>1 DEF Removes
    <3> QED BY <2>2, <3>2 DEF GoodOrder, OrderShape
  <2>4. GoodBook(b.levels, m) /\ GoodLevels(b.levels) /\ GoodIndex(m) /\ GoodQueue(existing, m, side, price)
    BY <2>1 DEF Book, GoodBook
  <2>5. QueueAt(b, side, price) = existing
    BY <2>1, <2>4, BookParts DEF Book
  <2>6. \A x \in DOMAIN m : m[x].side = side /\ m[x].price = price => x \in IdsOf(existing)
    BY <2>1, <2>4 DEF GoodBook
  <2>7. \A x \in IdsOf(existing) : x \in DOMAIN m /\ m[x].side = side /\ m[x].price = price
    BY <2>4 DEF GoodQueue, IdsOf
  <2>8. id \in DOMAIN m => id \in IdsOf(existing)
    BY <2>1, <2>6 DEF SyntheticInPlace
  <2>9. PICK m0, n, L : /\ m0 = Without(m, IdsOf(existing)) /\ n = Put(m0, id, new)
                        /\ L = StoredLevel(b.levels, side, price, <<new>>)
    OBVIOUS
  <2>10. /\ GoodIndex(m0) /\ DOMAIN m0 = DOMAIN m \ IdsOf(existing)
         /\ \A x \in DOMAIN m \ IdsOf(existing) : m0[x] = m[x]
    BY <2>4, <2>9, IndexWithout
  <2>11. /\ GoodIndex(n) /\ DOMAIN n = DOMAIN m0 \cup {id} /\ n[id] = new
         /\ \A x \in DOMAIN m0 \ {id} : n[x] = m0[x]
    <3>1. n = Put(m0, new.id, new) /\ new.id = id
      BY <2>3, <2>9
    <3>2. GoodIndex(m0) /\ GoodOrder(new)
      BY <2>3, <2>10
    <3>3. /\ GoodIndex(Put(m0, new.id, new)) /\ DOMAIN Put(m0, new.id, new) = DOMAIN m0 \cup {new.id}
          /\ Put(m0, new.id, new)[new.id] = new
          /\ \A x \in DOMAIN m0 \ {new.id} : Put(m0, new.id, new)[x] = m0[x]
      BY <3>2, IndexPut
    <3> QED BY <3>1, <3>3
  <2>12. GoodBook(L, n)
    <3>1. PICK q : q = <<new>>
      OBVIOUS
    <3>2. Listed(q) /\ DOMAIN q = {1} /\ q[1] = new
      <4>1. q \in Seq({new}) /\ DOMAIN q = 1..1 /\ q[1] = new
        BY <3>1
      <4> QED BY <4>1 DEF Listed
    <3>3. GoodQueue(q, n, side, price) /\ IdsOf(q) = {id}
      BY <2>3, <2>11, <3>2 DEF GoodQueue, IdsOf
    <3>4. \A x \in DOMAIN n : n[x].side = side /\ n[x].price = price => x \in IdsOf(q)
      BY <2>6, <2>10, <2>11, <3>3
    <3>5. \A x \in DOMAIN n : ~(n[x].side = side /\ n[x].price = price) => x \in DOMAIN m /\ m[x] = n[x]
      BY <2>3, <2>10, <2>11
    <3>6. \A x \in DOMAIN m : ~(m[x].side = side /\ m[x].price = price) => x \in DOMAIN n /\ m[x] = n[x]
      BY <2>7, <2>8, <2>10, <2>11
    <3> QED BY <2>4, <2>9, <2>11, <3>1, <3>3, <3>4, <3>5, <3>6, LevelStored
  <2>13. PICK r, others, same : /\ r = UpdateLevel(b, side, price, qty, owner)
                                /\ others = RemoveId(existing, id)
                                /\ same = existing[PlaceOf(existing, id)]
    OBVIOUS
  <2>14. PICK cancels, last :
           /\ cancels = [i \in DOMAIN others |-> CancelMutation(others[i])]
           /\ last = IF id \notin IdsOf(existing) THEN <<AddMutation(new)>>
                     ELSE IF same # new THEN <<ModifyMutation(same, new, TRUE)>> ELSE << >>
    OBVIOUS
  <2>15. /\ r.book = Index(StoreQueue(Deindex(b, IdsOf(existing)), side, price, <<new>>), new)
         /\ r.muts = cancels \o last
    BY <1>2, <2>1, <2>2, <2>3, <2>5, <2>13, <2>14 DEF UpdateLevel
  <2>16. Book(r.book) /\ r.book.orders = n /\ r.book.levels = L
    <3>1. PICK c : c = Deindex(b, IdsOf(existing))
      OBVIOUS
    <3>2. c = [levels |-> b.levels, orders |-> m0]
      BY <2>1, <2>4, <2>9, <3>1, BookParts DEF Book
    <3>3. c.levels = b.levels /\ c.orders = m0 /\ c = [levels |-> c.levels, orders |-> c.orders]
      BY <3>2
    <3>4. PICK d : d = StoreQueue(c, side, price, <<new>>)
      OBVIOUS
    <3>5. d = [levels |-> L, orders |-> m0] /\ GoodLevels(L)
      BY <2>4, <2>9, <3>3, <3>4, BookParts, StoredAt
    <3>6. d.levels = L /\ d.orders = m0 /\ d = [levels |-> d.levels, orders |-> d.orders]
      BY <3>5
    <3>7. Index(d, new) = [levels |-> L, orders |-> n]
      BY <2>3, <2>9, <3>5, <3>6, BookParts, ZenonT(60)
    <3> QED BY <2>12, <2>15, <3>1, <3>4, <3>7 DEF Book
  <2>17. PICK m1 : m1 = Without(m, IdsOf(others))
    OBVIOUS
  <2>18. GoodQueue(others, m, side, price) /\ IdsOf(others) = IdsOf(existing) \ {id}
    <3>1. GoodQueue(others, Without(m, {id}), side, price) /\ IdsOf(others) = IdsOf(existing) \ {id}
      BY <2>4, <2>13, RemovedFrom
    <3>2. GoodQueue(others, m, side, price)
      BY <3>1 DEF GoodQueue, Without
    <3> QED BY <3>1, <3>2
  <2>19. Leads(m, cancels, m1)
    BY <2>4, <2>14, <2>17, <2>18, LeadsCancels
  <2>20. Put(m1, id, new) = n
    <3>1. DOMAIN m1 \cup {id} = DOMAIN m0 \cup {id}
      BY <2>9, <2>17, <2>18 DEF Without
    <3>2. \A x \in DOMAIN m1 \ {id} : m1[x] = m0[x]
      BY <2>9, <2>17, <2>18 DEF Without
    <3> QED BY <2>9, <3>1, <3>2 DEF Put
  <2>21. Leads(m1, last, n)
    <3>1. CASE id \notin IdsOf(existing)
      <4>1. PICK e : e = AddMutation(new)
        OBVIOUS
      <4>2. last = <<e>> /\ e.type = "add" /\ e.after = new
        BY <2>14, <3>1, <4>1 DEF AddMutation
      <4>3. id \notin DOMAIN m1
        BY <2>8, <2>17, <3>1 DEF Without
      <4>4. Takes(m1, e, n)
        BY <2>3, <2>20, <4>2, <4>3 DEF Takes
      <4> QED BY <4>2, <4>4, LeadsOne
    <3>2. ASSUME id \in IdsOf(existing)
          PROVE same = m[id] /\ id \in DOMAIN m1 /\ m1[id] = m[id] /\ m[id].side = side /\ m[id].price = price
      <4>1. same.id = id /\ \E i \in DOMAIN existing : same = existing[i]
        BY <2>13, <3>2 DEF PlaceOf, IdsOf
      <4>2. same = m[id] /\ id \in DOMAIN m
        BY <2>4, <4>1 DEF GoodQueue
      <4>3. id \in DOMAIN m1 /\ m1[id] = m[id]
        BY <2>17, <2>18, <4>2 DEF Without
      <4> QED BY <2>7, <3>2, <4>2, <4>3
    <3>3. CASE id \in IdsOf(existing) /\ same # new
      <4>1. PICK e : e = ModifyMutation(same, new, TRUE)
        OBVIOUS
      <4>2. last = <<e>> /\ e.type = "modify" /\ e.after = new
        BY <2>14, <3>3, <4>1 DEF ModifyMutation
      <4>3. Takes(m1, e, n)
        BY <2>3, <2>20, <3>2, <3>3, <4>2 DEF Takes
      <4> QED BY <4>2, <4>3, LeadsOne
    <3>4. CASE id \in IdsOf(existing) /\ same = new
      <4>1. last = << >>
        BY <2>14, <3>4
      <4>2. m1 = [x \in DOMAIN m1 |-> m1[x]]
        BY <2>17 DEF Without
      <4>3. Put(m1, id, new) = m1
        BY <3>2, <3>4, <4>2 DEF Put
      <4> QED BY <2>20, <4>1, <4>3, LeadsNone
    <3> QED BY <3>1, <3>3, <3>4
  <2>22. Leads(m, r.muts, n)
    BY <2>15, <2>19, <2>21, LeadsConcat
  <2>23. Sound(m, r)
    BY <2>16, <2>22 DEF Sound
  <2>24. SyntheticInPlace(n)
    <3>1. ASSUME NEW s \in Sides, NEW p, SyntheticOrderId(s, p) \in DOMAIN n
          PROVE n[SyntheticOrderId(s, p)].side = s /\ n[SyntheticOrderId(s, p)].price = p
      <4>1. CASE SyntheticOrderId(s, p) = id
        <5>1. s = side /\ p = price
          <6>1. SyntheticOrderId(s, p)[2] = s /\ SyntheticOrderId(s, p)[3] = p
            BY DEF SyntheticOrderId
          <6>2. id[2] = side /\ id[3] = price
            BY <2>1 DEF SyntheticOrderId
          <6> QED BY <4>1, <6>1, <6>2
        <5> QED BY <2>3, <2>11, <4>1, <5>1
      <4>2. CASE SyntheticOrderId(s, p) # id
        BY <2>1, <2>10, <2>11, <3>1, <4>2 DEF SyntheticInPlace
      <4> QED BY <4>1, <4>2
    <3> QED BY <3>1 DEF SyntheticInPlace
  <2>25. Fresh(m, n)
    <3>1. n[id].ts = 0
      BY <2>2, <2>11
    <3> QED BY <2>10, <2>11, <3>1 DEF Fresh
  <2>26. LevelReplaced(b, r.book, side, price)
    BY <2>9, <2>16 DEF LevelReplaced
  <2> QED BY <2>1, <2>13, <2>16, <2>23, <2>24, <2>25, <2>26
<1> QED BY <1>1, <1>2

(***************************************************************************)
(* Ranking a finite set by a strict total order.                           *)
(***************************************************************************)
StrictOrder(S, R) ==
    /\ \A x \in S : <<x, x>> \notin R
    /\ \A x, y, z \in S : <<x, y>> \in R /\ <<y, z>> \in R => <<x, z>> \in R
    /\ \A x, y \in S : x = y \/ <<x, y>> \in R \/ <<y, x>> \in R

BeforeIn(S, R, y) == {x \in S : <<x, y>> \in R}

LEMMA Ranked ==
  ASSUME NEW S, IsFiniteSet(S), NEW R, StrictOrder(S, R)
  PROVE  /\ Cardinality(S) \in Nat
         /\ \A y \in S : Cardinality(BeforeIn(S, R, y)) \in 0..(Cardinality(S) - 1)
         /\ \A x, y \in S : <<x, y>> \in R
              => Cardinality(BeforeIn(S, R, x)) < Cardinality(BeforeIn(S, R, y))
         /\ \A k \in 1..Cardinality(S) : \E y \in S : Cardinality(BeforeIn(S, R, y)) = k - 1
<1>1. PICK n : n = Cardinality(S)
  OBVIOUS
<1>2. n \in Nat
  BY <1>1, FS_CardinalityType
<1>3. ASSUME NEW y \in S
      PROVE IsFiniteSet(BeforeIn(S, R, y)) /\ Cardinality(BeforeIn(S, R, y)) \in 0..(n - 1)
  <2>1. IsFiniteSet(S \ {y}) /\ Cardinality(S \ {y}) = n - 1
    BY <1>1, FS_RemoveElement
  <2>2. BeforeIn(S, R, y) \in SUBSET (S \ {y})
    BY DEF BeforeIn, StrictOrder
  <2>3. IsFiniteSet(BeforeIn(S, R, y)) /\ Cardinality(BeforeIn(S, R, y)) <= n - 1
    BY <2>1, <2>2, FS_Subset
  <2>4. Cardinality(BeforeIn(S, R, y)) \in Nat
    BY <2>3, FS_CardinalityType
  <2> QED BY <1>2, <2>3, <2>4
<1>4. ASSUME NEW x \in S, NEW y \in S, <<x, y>> \in R
      PROVE Cardinality(BeforeIn(S, R, x)) < Cardinality(BeforeIn(S, R, y))
  <2>1. PICK A, B : A = BeforeIn(S, R, x) /\ B = BeforeIn(S, R, y)
    OBVIOUS
  <2>2. x \notin A /\ x \in B /\ A \subseteq B
    BY <1>4, <2>1 DEF BeforeIn, StrictOrder
  <2>3. IsFiniteSet(B) /\ A \in SUBSET B /\ A # B
    BY <1>3, <2>1, <2>2
  <2>4. IsFiniteSet(A) /\ Cardinality(A) <= Cardinality(B) /\ Cardinality(A) # Cardinality(B)
    BY <2>3, FS_Subset
  <2>5. Cardinality(A) \in Nat /\ Cardinality(B) \in Nat
    BY <2>3, <2>4, FS_CardinalityType
  <2> QED BY <2>1, <2>4, <2>5
<1>5. PICK f : f = [y \in S |-> Cardinality(BeforeIn(S, R, y))]
  OBVIOUS
<1>6. PICK T : T = 0..(n - 1)
  OBVIOUS
<1>7. f \in Injection(S, T)
  <2>1. f \in [S -> T]
    BY <1>3, <1>5, <1>6
  <2>2. ASSUME NEW x \in S, NEW y \in S, f[x] = f[y]  PROVE x = y
    <3>1. Cardinality(BeforeIn(S, R, x)) = Cardinality(BeforeIn(S, R, y))
          /\ Cardinality(BeforeIn(S, R, x)) \in Nat
      BY <1>3, <1>5, <2>2
    <3>2. ~(<<x, y>> \in R) /\ ~(<<y, x>> \in R)
      BY <1>4, <3>1
    <3> QED BY <3>2 DEF StrictOrder
  <2>3. IsInjective(f)
    BY <1>5, <2>2 DEF IsInjective
  <2> QED BY <2>1, <2>3 DEF Injection
<1>8. IsFiniteSet(T) /\ Cardinality(T) = n
  <2>1. IsFiniteSet(T) /\ Cardinality(T) = IF 0 > n - 1 THEN 0 ELSE (n - 1) - 0 + 1
    BY <1>2, <1>6, FS_Interval
  <2> QED BY <1>2, <2>1
<1>9. f \in Surjection(S, T)
  BY <1>1, <1>7, <1>8, FS_Injection
<1>10. ASSUME NEW k \in 1..n  PROVE \E y \in S : Cardinality(BeforeIn(S, R, y)) = k - 1
  <2>1. k - 1 \in T
    BY <1>2, <1>6
  <2>2. \E y \in S : f[y] = k - 1
    BY <1>9, <2>1 DEF Surjection
  <2> QED BY <1>5, <2>2
<1> QED BY <1>1, <1>2, <1>3, <1>4, <1>10

(***************************************************************************)
(* The queue a match walks through.                                        *)
(***************************************************************************)
\* y is the place of a resting order that the aggressor crosses.
IsPlace(L, side, limit, y) ==
    /\ y = <<y[1], y[2]>>
    /\ y[1] \in DOMAIN L[Opposite(side)] /\ Crosses(side, y[1], limit)
    /\ y[2] \in DOMAIN L[Opposite(side)][y[1]]

LEMMA PlacesAre ==
  ASSUME NEW b, NEW side, NEW limit
  PROVE  \A y : y \in CrossingPlaces(b, side, limit) <=> IsPlace(b.levels, side, limit, y)
<1>1. ASSUME NEW y, y \in CrossingPlaces(b, side, limit) PROVE IsPlace(b.levels, side, limit, y)
  BY <1>1 DEF CrossingPlaces, IsPlace
<1>2. ASSUME NEW y, IsPlace(b.levels, side, limit, y) PROVE y \in CrossingPlaces(b, side, limit)
  <2>1. PICK p, i : p = y[1] /\ i = y[2]
    OBVIOUS
  <2>2. p \in {r \in DOMAIN b.levels[Opposite(side)] : Crosses(side, r, limit)}
    BY <1>2, <2>1 DEF IsPlace
  <2>3. y \in {p} \X DOMAIN b.levels[Opposite(side)][p]
    BY <1>2, <2>1 DEF IsPlace
  <2> QED BY <2>2, <2>3 DEF CrossingPlaces
<1> QED BY <1>1, <1>2

OrderAt(L, side, y) == L[Opposite(side)][y[1]][y[2]]

PlaceOrder(S, side) == {z \in S \X S : Precedes(Opposite(side), z[1], z[2])}

LEMMA PlacesOrdered ==
  ASSUME NEW b, Book(b), NEW side \in Sides, NEW limit, NEW S, S = CrossingPlaces(b, side, limit)
  PROVE  /\ IsFiniteSet(S) /\ StrictOrder(S, PlaceOrder(S, side))
         /\ \A y \in S : LET o == OrderAt(b.levels, side, y)
                         IN  /\ o.id \in DOMAIN b.orders /\ b.orders[o.id] = o
                             /\ o.side = Opposite(side) /\ o.price = y[1]
         /\ \A x, y \in S : OrderAt(b.levels, side, x).id = OrderAt(b.levels, side, y).id => x = y
<1>1. PICK other, m, L : other = Opposite(side) /\ m = b.orders /\ L = b.levels
  OBVIOUS
<1>2. other \in Sides /\ GoodLevels(L) /\ GoodIndex(m) /\ \A p : GoodQueue(At(L, other, p), m, other, p)
  BY <1>1 DEF Opposite, Sides, Book, GoodBook
<1>3. ASSUME NEW y \in S
      PROVE /\ y = <<y[1], y[2]>> /\ y[1] \in DOMAIN L[other] /\ y[2] \in DOMAIN L[other][y[1]]
            /\ L[other][y[1]] = At(L, other, y[1])
            /\ OrderAt(L, side, y) = At(L, other, y[1])[y[2]]
  BY <1>1, PlacesAre DEF IsPlace, At, OrderAt
<1>4. ASSUME NEW y \in S
      PROVE LET o == OrderAt(L, side, y)
            IN  o.id \in DOMAIN m /\ m[o.id] = o /\ o.side = other /\ o.price = y[1] /\ y[2] \in Nat /\ y[1] \in Nat
  <2>1. PICK q, o : q = At(L, other, y[1]) /\ o = OrderAt(L, side, y)
    OBVIOUS
  <2>2. GoodQueue(q, m, other, y[1]) /\ y[2] \in DOMAIN q /\ o = q[y[2]]
    BY <1>2, <1>3, <2>1
  <2>3. o.id \in DOMAIN m /\ m[o.id] = o /\ o.side = other /\ o.price = y[1]
    BY <2>2 DEF GoodQueue
  <2>4. GoodOrder(o)
    BY <1>2, <2>3 DEF GoodIndex
  <2>5. y[1] \in Nat
    BY <2>3, <2>4 DEF GoodOrder
  <2>6. y[2] \in Nat
    BY <2>2, ListedShape DEF GoodQueue
  <2> QED BY <2>1, <2>3, <2>5, <2>6
<1>5. ASSUME NEW x \in S, NEW y \in S, OrderAt(L, side, x).id = OrderAt(L, side, y).id  PROVE x = y
  <2>1. OrderAt(L, side, x) = OrderAt(L, side, y)
    BY <1>4, <1>5
  <2>2. x[1] = y[1]
    BY <1>4, <2>1
  <2>3. PICK q : q = At(L, other, x[1])
    OBVIOUS
  <2>4. GoodQueue(q, m, other, x[1]) /\ x[2] \in DOMAIN q /\ y[2] \in DOMAIN q
        /\ OrderAt(L, side, x) = q[x[2]] /\ OrderAt(L, side, y) = q[y[2]]
    BY <1>2, <1>3, <2>2, <2>3
  <2>5. x[2] = y[2]
    BY <1>5, <2>4 DEF GoodQueue
  <2> QED BY <1>3, <2>2, <2>5
<1>6. IsFiniteSet(S)
  <2>1. PICK f : f = [y \in S |-> OrderAt(L, side, y).id]
    OBVIOUS
  <2>2. f \in [S -> DOMAIN m]
    BY <1>4, <2>1
  <2>3. IsInjective(f)
    BY <1>5, <2>1 DEF IsInjective
  <2>4. f \in Injection(S, DOMAIN m) /\ IsFiniteSet(DOMAIN m)
    BY <1>2, <2>2, <2>3 DEF Injection, GoodIndex
  <2> QED BY <2>4, FS_Injection
<1>7. StrictOrder(S, PlaceOrder(S, side))
  <2>1. \A x, y \in S : <<x, y>> \in PlaceOrder(S, side) <=> Precedes(other, x, y)
    BY <1>1 DEF PlaceOrder
  <2>2. \A x, y \in S : Precedes(other, x, y) <=> \/ IF other = "buy" THEN x[1] > y[1] ELSE x[1] < y[1]
                                                  \/ x[1] = y[1] /\ x[2] < y[2]
    BY DEF Precedes, Better
  <2>3. \A x \in S : x[1] \in Nat /\ x[2] \in Nat
    BY <1>4
  <2>4. \A x, y \in S : x[1] = y[1] /\ x[2] = y[2] => x = y
    BY <1>3
  <2>5. \A x \in S : ~Precedes(other, x, x)
    BY <2>2, <2>3
  <2>6. \A x, y \in S : x = y \/ Precedes(other, x, y) \/ Precedes(other, y, x)
    BY <2>2, <2>3, <2>4
  <2>7. \A x, y, z \in S : Precedes(other, x, y) /\ Precedes(other, y, z) => Precedes(other, x, z)
    BY <2>2, <2>3
  <2> QED BY <2>1, <2>5, <2>6, <2>7 DEF StrictOrder
<1> QED BY <1>1, <1>4, <1>5, <1>6, <1>7

LEMMA CrossingQueueBy ==
  ASSUME NEW b, NEW aggressor, NEW limit
  PROVE  CrossingQueue(b, aggressor, limit) =
           [k \in 1..Cardinality(CrossingPlaces(b, aggressor.side, limit)) |->
              OrderAt(b.levels, aggressor.side,
                CHOOSE y \in CrossingPlaces(b, aggressor.side, limit) :
                  Cardinality({x \in CrossingPlaces(b, aggressor.side, limit) :
                                 Precedes(Opposite(aggressor.side), x, y)}) = k - 1)]
  BY Zenon DEF CrossingQueue, OrderAt

\* P[k] is the place of the k-th order of the queue: every place once, in order.
QueuePlaces(b, side, limit, q, P) ==
    LET S == CrossingPlaces(b, side, limit)
    IN  /\ Listed(q)
        /\ \A k \in DOMAIN q : P[k] \in S /\ q[k] = OrderAt(b.levels, side, P[k])
        /\ \A y \in S : \E k \in DOMAIN q : P[k] = y
        /\ \A k, l \in DOMAIN q : P[k] = P[l] => k = l
        /\ \A k, l \in DOMAIN q : Precedes(Opposite(side), P[k], P[l]) => k < l

LEMMA CrossingQueuePlaces ==
  ASSUME NEW b, Book(b), NEW aggressor, aggressor.side \in Sides, NEW limit,
         NEW q, q = CrossingQueue(b, aggressor, limit)
  PROVE  \E P : QueuePlaces(b, aggressor.side, limit, q, P)
<1> DEFINE side == aggressor.side
<1> DEFINE S == CrossingPlaces(b, side, limit)
<1>0. q = [k \in 1..Cardinality(S) |-> OrderAt(b.levels, side,
             CHOOSE y \in S : Cardinality({x \in S : Precedes(Opposite(side), x, y)}) = k - 1)]
  BY CrossingQueueBy
<1>1. side \in Sides /\ S = CrossingPlaces(b, side, limit)
  OBVIOUS
<1> HIDE DEF side, S
<1>2. PICK R : R = PlaceOrder(S, side)
  OBVIOUS
<1>3. IsFiniteSet(S) /\ StrictOrder(S, R)
  BY <1>1, <1>2, PlacesOrdered
<1>4. /\ Cardinality(S) \in Nat
      /\ \A k \in 1..Cardinality(S) : \E y \in S : Cardinality(BeforeIn(S, R, y)) = k - 1
  BY <1>3, Ranked
<1>5. PICK P : P = [k \in 1..Cardinality(S) |-> CHOOSE y \in S : Cardinality(BeforeIn(S, R, y)) = k - 1]
  OBVIOUS
<1>6. \A k \in 1..Cardinality(S) : P[k] \in S /\ Cardinality(BeforeIn(S, R, P[k])) = k - 1
  BY <1>4, <1>5
<1>7. \A y \in S : {x \in S : Precedes(Opposite(side), x, y)} = BeforeIn(S, R, y)
  BY <1>2 DEF BeforeIn, PlaceOrder
<1>8. ASSUME NEW k \in 1..Cardinality(S)
      PROVE (CHOOSE y \in S : Cardinality({x \in S : Precedes(Opposite(side), x, y)}) = k - 1) = P[k]
  <2>1. \A y \in S : Cardinality({x \in S : Precedes(Opposite(side), x, y)}) = k - 1
                     <=> Cardinality(BeforeIn(S, R, y)) = k - 1
    BY <1>7
  <2>2. (CHOOSE y \in S : Cardinality({x \in S : Precedes(Opposite(side), x, y)}) = k - 1)
          = CHOOSE y \in S : Cardinality(BeforeIn(S, R, y)) = k - 1
    BY <2>1
  <2> QED BY <1>5, <2>2
<1>9. q = [k \in 1..Cardinality(S) |-> OrderAt(b.levels, side, P[k])]
  BY <1>0, <1>8
<1>10. Listed(q) /\ DOMAIN q = 1..Cardinality(S)
  <2>1. DOMAIN q = 1..Cardinality(S) /\ q = [k \in 1..Cardinality(S) |-> q[k]]
    BY <1>9
  <2> QED BY <1>4, <2>1, ListedBy
<1>11. ASSUME NEW k \in DOMAIN q PROVE P[k] \in S /\ q[k] = OrderAt(b.levels, side, P[k])
  BY <1>6, <1>9, <1>10
<1>12. ASSUME NEW k \in DOMAIN q, NEW l \in DOMAIN q, P[k] = P[l]  PROVE k = l
  <2>1. k - 1 = l - 1
    BY <1>6, <1>10, <1>12
  <2> QED BY <1>4, <1>10, <2>1
<1>13. /\ \A y \in S : Cardinality(BeforeIn(S, R, y)) \in 0..(Cardinality(S) - 1)
       /\ \A x, y \in S : <<x, y>> \in R => Cardinality(BeforeIn(S, R, x)) < Cardinality(BeforeIn(S, R, y))
  BY <1>3, Ranked
<1>14. ASSUME NEW k \in DOMAIN q, NEW l \in DOMAIN q, Precedes(Opposite(side), P[k], P[l])  PROVE k < l
  <2>1. <<P[k], P[l]>> \in R
    BY <1>2, <1>11, <1>14 DEF PlaceOrder
  <2>2. k - 1 < l - 1
    BY <1>6, <1>10, <1>11, <1>13, <2>1
  <2> QED BY <1>4, <1>10, <2>2
<1>15. ASSUME NEW y \in S PROVE \E k \in DOMAIN q : P[k] = y
  <2>1. PICK k : k = Cardinality(BeforeIn(S, R, y)) + 1
    OBVIOUS
  <2>2. k \in 1..Cardinality(S) /\ Cardinality(BeforeIn(S, R, y)) = k - 1
    BY <1>4, <1>13, <2>1
  <2>3. P[k] \in S /\ Cardinality(BeforeIn(S, R, P[k])) = k - 1
    BY <1>6, <2>2
  <2>4. ~(<<P[k], y>> \in R) /\ ~(<<y, P[k]>> \in R)
    <3>1. k - 1 \in Nat /\ ~(k - 1 < k - 1)
      BY <1>4, <2>2
    <3> QED BY <1>13, <2>2, <2>3, <3>1
  <2>5. P[k] = y
    BY <1>3, <2>3, <2>4 DEF StrictOrder
  <2> QED BY <1>10, <2>2, <2>5
<1>16. QueuePlaces(b, side, limit, q, P)
  BY <1>1, <1>10, <1>11, <1>12, <1>14, <1>15 DEF QueuePlaces
<1> QED BY <1>16 DEF side

LEMMA CrossingQueueIs ==
  ASSUME NEW b, Book(b), NEW aggressor, aggressor.side \in Sides, NEW limit,
         NEW q, q = CrossingQueue(b, aggressor, limit)
  PROVE  /\ Listed(q)
         /\ \A k \in DOMAIN q : q[k].id \in DOMAIN b.orders /\ b.orders[q[k].id] = q[k]
         /\ \A k, l \in DOMAIN q : q[k].id = q[l].id => k = l
<1>1. PICK side, S : side = aggressor.side /\ S = CrossingPlaces(b, side, limit)
  OBVIOUS
<1>2. PICK P : QueuePlaces(b, side, limit, q, P)
  BY <1>1, CrossingQueuePlaces
<1>3. /\ Listed(q) /\ \A k \in DOMAIN q : P[k] \in S /\ q[k] = OrderAt(b.levels, side, P[k])
      /\ \A k, l \in DOMAIN q : P[k] = P[l] => k = l
  BY <1>1, <1>2 DEF QueuePlaces
<1>4. ASSUME NEW k \in DOMAIN q
      PROVE q[k].id \in DOMAIN b.orders /\ b.orders[q[k].id] = q[k]
  BY <1>1, <1>3, PlacesOrdered
<1>5. ASSUME NEW k \in DOMAIN q, NEW l \in DOMAIN q, q[k].id = q[l].id  PROVE k = l
  <2>1. P[k] = P[l]
    BY <1>1, <1>3, <1>5, PlacesOrdered
  <2> QED BY <1>3, <2>1
<1> QED BY <1>3, <1>4, <1>5

(***************************************************************************)
(* One fill.                                                               *)
(***************************************************************************)
\* No order has moved to another queue.
Stays(m, n) ==
    \A x \in DOMAIN n : x \in DOMAIN m /\ n[x].side = m[x].side /\ n[x].price = m[x].price

FillTakes(acc, resting, r) ==
    LET m == acc.book.orders
        n == r.book.orders
    IN  /\ Book(r.book) /\ r.remaining \in Nat
        /\ \E e : r.execs = Append(acc.execs, e) /\ Takes(m, e, n)
        /\ Stays(m, n) /\ BooksKept(acc.book, r.book)
        /\ \A x \in DOMAIN m : x # resting.id => x \in DOMAIN n /\ n[x] = m[x]
        /\ r.remaining > 0 => resting.id \notin DOMAIN n

LEMMA FillSound ==
  ASSUME NEW acc, Book(acc.book), acc.remaining \in Nat \ {0}, NEW resting,
         resting.id \in DOMAIN acc.book.orders, acc.book.orders[resting.id] = resting
  PROVE  FillTakes(acc, resting, Fill(acc, resting))
<1>1. PICK b, m, id : b = acc.book /\ m = b.orders /\ id = resting.id
  OBVIOUS
<1>2. GoodOrder(resting) /\ GoodIndex(m) /\ id \in DOMAIN m /\ m[id] = resting
  BY <1>1 DEF Book, GoodBook, GoodIndex
<1>3. PICK traded : traded = IF acc.remaining < resting.qty THEN acc.remaining ELSE resting.qty
  OBVIOUS
<1>4. traded \in Nat \ {0} /\ traded <= resting.qty /\ traded <= acc.remaining
      /\ (acc.remaining - traded > 0 => traded = resting.qty)
  BY <1>2, <1>3 DEF GoodOrder
<1>5. PICK left : left = [resting EXCEPT !.qty = @ - traded]
  OBVIOUS
<1>6. /\ OrderShape(left) /\ left.id = id /\ left.side = resting.side /\ left.price = resting.price
      /\ left.qty = resting.qty - traded /\ left.qty \in Nat /\ left.ts \in 0..MaxTick
      /\ (left.qty # 0 => GoodOrder(left))
  <2>1. left = [id |-> id, agent |-> resting.agent, side |-> resting.side, qty |-> resting.qty - traded,
                price |-> resting.price, ts |-> resting.ts]
    BY <1>1, <1>2, <1>5 DEF GoodOrder
  <2>2. resting.qty - traded \in Nat
    BY <1>2, <1>4 DEF GoodOrder
  <2> QED BY <1>2, <2>1, <2>2 DEF OrderShape, GoodOrder
<1>7. PICK queue : queue = QueueAt(b, resting.side, resting.price)
  OBVIOUS
<1>8. PICK e : e = [type |-> "execute", before |-> resting, after |-> left, preserved |-> TRUE]
  OBVIOUS
<1>9. PICK r : r = Fill(acc, resting)
  OBVIOUS
<1>10. /\ r.remaining = acc.remaining - traded
       /\ r.book = IF left.qty = 0
                   THEN Deindex(StoreQueue(b, resting.side, resting.price, RemoveId(queue, id)), {id})
                   ELSE Index(StoreQueue(b, resting.side, resting.price, ReplaceId(queue, left)), left)
       /\ r.execs = Append(acc.execs, e)
  BY <1>1, <1>3, <1>5, <1>7, <1>8, <1>9 DEF Fill
<1>11. r.remaining \in Nat
  BY <1>4, <1>10
<1>12. CASE left.qty = 0
  <2>1. r.book = CancelOrder(b, id).book
    BY <1>1, <1>2, <1>7, <1>10, <1>12 DEF CancelOrder
  <2>2. Book(r.book) /\ r.book.orders = Without(m, {id})
    <3>1. Book(b) /\ id \in DOMAIN b.orders
      BY <1>1, <1>2
    <3>2. Book(CancelOrder(b, id).book) /\ CancelOrder(b, id).book.orders = Without(b.orders, {id})
      BY <3>1, BookCancel
    <3> QED BY <1>1, <2>1, <3>2
  <2>3. Takes(m, e, Without(m, {id}))
    BY <1>2, <1>6, <1>8, <1>12 DEF Takes
  <2>4. /\ Stays(m, Without(m, {id})) /\ id \notin DOMAIN Without(m, {id})
        /\ \A x \in DOMAIN m : x # id => x \in DOMAIN Without(m, {id}) /\ Without(m, {id})[x] = m[x]
    BY DEF Stays, Without
  <2>5. /\ Book(r.book) /\ r.remaining \in Nat
        /\ r.execs = Append(acc.execs, e) /\ Takes(m, e, r.book.orders)
        /\ Stays(m, r.book.orders) /\ id \notin DOMAIN r.book.orders
        /\ \A x \in DOMAIN m : x # id => x \in DOMAIN r.book.orders /\ r.book.orders[x] = m[x]
    BY <1>10, <1>11, <2>2, <2>3, <2>4
  <2>6. BooksKept(b, r.book)
    BY <1>1, <2>1, CancelKeeps
  <2> QED BY <1>1, <1>9, <2>5, <2>6 DEF FillTakes
<1>13. CASE left.qty # 0
  <2>1. r.book = ReplaceInPlace(b, left)
    BY <1>6, <1>7, <1>10, <1>13 DEF ReplaceInPlace
  <2>2. Book(r.book) /\ r.book.orders = Put(m, id, left)
    BY <1>1, <1>2, <1>6, <1>13, <2>1, BookReplace
  <2>3. Takes(m, e, Put(m, id, left))
    BY <1>2, <1>6, <1>8, <1>13 DEF Takes
  <2>4. /\ Stays(m, Put(m, id, left))
        /\ \A x \in DOMAIN m : x # id => x \in DOMAIN Put(m, id, left) /\ Put(m, id, left)[x] = m[x]
    BY <1>2, <1>6 DEF Stays, Put
  <2>5. ~(r.remaining > 0)
    BY <1>2, <1>4, <1>6, <1>10, <1>13 DEF GoodOrder
  <2>6. /\ Book(r.book) /\ r.remaining \in Nat
        /\ r.execs = Append(acc.execs, e) /\ Takes(m, e, r.book.orders)
        /\ Stays(m, r.book.orders) /\ ~(r.remaining > 0)
        /\ \A x \in DOMAIN m : x # id => x \in DOMAIN r.book.orders /\ r.book.orders[x] = m[x]
    BY <1>10, <1>11, <2>2, <2>3, <2>4, <2>5
  <2>7. BooksKept(b, r.book)
    BY <1>1, <1>2, <1>6, <1>13, <2>1, ReplaceKeeps
  <2> QED BY <1>1, <1>9, <2>6, <2>7 DEF FillTakes
<1> QED BY <1>12, <1>13

(***************************************************************************)
(* A match walks through the queue.                                        *)
(***************************************************************************)
FilledTo(f, n, start, q) ==
    f = [k \in 0..n |-> IF k = 0 THEN start ELSE Fill(f[k - 1], q[k])]

LEMMA FilledExists ==
  ASSUME NEW start, NEW q, NEW n \in Nat
  PROVE  \E f : FilledTo(f, n, start, q)
<1> DEFINE bad == {k \in Nat : ~\E f : FilledTo(f, k, start, q)}
<1>1. SUFFICES ASSUME bad # {} PROVE FALSE
  OBVIOUS
<1>2. PICK k \in bad : \A j \in bad : k <= j
  BY <1>1, LeastNumber
<1>3. FilledTo([i \in 0..0 |-> start], 0, start, q)
  <2>1. \A i \in 0..0 : i = 0
    OBVIOUS
  <2> QED BY <2>1 DEF FilledTo
<1>4. k \in Nat /\ k # 0
  BY <1>3
<1>5. k - 1 \in Nat /\ k - 1 \notin bad
  BY <1>2, <1>4
<1>6. PICK g : FilledTo(g, k - 1, start, q)
  BY <1>5
<1>7. PICK f : f = [i \in 0..k |-> IF i = k THEN Fill(g[k - 1], q[k]) ELSE g[i]]
  OBVIOUS
<1>8. \A i \in 0..(k - 1) : g[i] = IF i = 0 THEN start ELSE Fill(g[i - 1], q[i])
  BY <1>6 DEF FilledTo
<1>9. ASSUME NEW i \in 0..k  PROVE f[i] = IF i = 0 THEN start ELSE Fill(f[i - 1], q[i])
  <2>1. CASE i = k
    <3>1. k - 1 \in 0..k /\ k - 1 # k
      BY <1>4
    <3> QED BY <1>4, <1>7, <2>1, <3>1
  <2>2. CASE i # k
    <3>1. i \in 0..(k - 1) /\ (i # 0 => i - 1 \in 0..k /\ i - 1 # k)
      BY <1>4, <2>2
    <3> QED BY <1>7, <1>8, <2>2, <3>1
  <2> QED BY <2>1, <2>2
<1>10. FilledTo(f, k, start, q)
  BY <1>7, <1>9 DEF FilledTo
<1> QED BY <1>10

\* What is so after k fills.  What was taken was taken from the front.
Filled(b, acc, q, k) ==
    LET m == b.orders
        n == acc.book.orders
    IN  /\ Book(acc.book) /\ BooksKept(b, acc.book) /\ acc.remaining \in Nat /\ Leads(m, acc.execs, n) /\ Stays(m, n)
        /\ \A j \in DOMAIN q : j > k => q[j].id \in DOMAIN n /\ n[q[j].id] = q[j]
        /\ \A x \in DOMAIN m : x \notin IdsOf(q) => x \in DOMAIN n /\ n[x] = m[x]
        /\ acc.remaining > 0 => \A j \in DOMAIN q : j <= k => q[j].id \notin DOMAIN n
        /\ \A i, j \in DOMAIN q : j < i => \/ q[j].id \notin DOMAIN n
                                           \/ q[i].id \in DOMAIN n /\ n[q[i].id] = q[i]

\* The order is kept through two steps when no order enters a queue.
LEMMA KeptThrough ==
  ASSUME NEW b, Book(b), NEW c, Book(c), NEW d, Book(d), BooksKept(b, c), BooksKept(c, d),
         Stays(c.orders, d.orders)
  PROVE  BooksKept(b, d)
<1>1. ASSUME NEW s \in Sides, NEW p  PROVE OrderKept(At(b.levels, s, p), At(d.levels, s, p))
  <2>1. PICK q, r, w : q = At(b.levels, s, p) /\ r = At(c.levels, s, p) /\ w = At(d.levels, s, p)
    OBVIOUS
  <2>2. /\ GoodQueue(q, b.orders, s, p) /\ GoodQueue(r, c.orders, s, p) /\ GoodQueue(w, d.orders, s, p)
        /\ \A x \in DOMAIN c.orders : c.orders[x].side = s /\ c.orders[x].price = p => x \in IdsOf(r)
    BY <2>1 DEF Book, GoodBook
  <2>3. IdsOf(w) \subseteq IdsOf(r)
    <3>1. ASSUME NEW i \in DOMAIN w PROVE w[i].id \in IdsOf(r)
      <4>1. /\ w[i].id \in DOMAIN d.orders /\ d.orders[w[i].id].side = s /\ d.orders[w[i].id].price = p
        BY <2>2 DEF GoodQueue
      <4> QED BY <2>2, <4>1 DEF Stays
    <3> QED BY <3>1 DEF IdsOf
  <2>4. OrderKept(q, r) /\ OrderKept(r, w) /\ Listed(w)
    BY <2>1, <2>2 DEF BooksKept, GoodQueue
  <2>5. OrderKept(q, w)
    BY <2>2, <2>3, <2>4, OrderThrough
  <2> QED BY <2>1, <2>5
<1> QED BY <1>1 DEF BooksKept

LEMMA FilledStep ==
  ASSUME NEW b, Book(b), NEW acc, NEW q, Listed(q), \A i, j \in DOMAIN q : q[i].id = q[j].id => i = j,
         NEW k \in 1..Len(q), Filled(b, acc, q, k - 1)
  PROVE  Filled(b, Fill(acc, q[k]), q, k)
<1>1. PICK r, m, n : r = Fill(acc, q[k]) /\ m = b.orders /\ n = acc.book.orders
  OBVIOUS
<1>2. Len(q) \in Nat /\ DOMAIN q = 1..Len(q) /\ k \in DOMAIN q /\ k \in Nat
  BY ListedShape
<1>3. /\ Book(acc.book) /\ BooksKept(b, acc.book) /\ acc.remaining \in Nat /\ Leads(m, acc.execs, n) /\ Stays(m, n)
      /\ \A j \in DOMAIN q : j > k - 1 => q[j].id \in DOMAIN n /\ n[q[j].id] = q[j]
      /\ \A x \in DOMAIN m : x \notin IdsOf(q) => x \in DOMAIN n /\ n[x] = m[x]
      /\ acc.remaining > 0 => \A j \in DOMAIN q : j <= k - 1 => q[j].id \notin DOMAIN n
      /\ \A i, j \in DOMAIN q : j < i => \/ q[j].id \notin DOMAIN n
                                         \/ q[i].id \in DOMAIN n /\ n[q[i].id] = q[i]
  BY <1>1 DEF Filled
<1>4. CASE acc.remaining = 0
  <2>1. r = acc
    BY <1>1, <1>4 DEF Fill
  <2>2. \A j \in DOMAIN q : j > k => j > k - 1
    BY <1>2
  <2> QED BY <1>1, <1>3, <1>4, <2>1, <2>2 DEF Filled
<1>5. CASE acc.remaining # 0
  <2>1. acc.remaining \in Nat \ {0} /\ acc.remaining > 0
    BY <1>3, <1>5
  <2>2. q[k].id \in DOMAIN n /\ n[q[k].id] = q[k]
    BY <1>2, <1>3
  <2>3. FillTakes(acc, q[k], r)
    BY <1>1, <1>3, <2>1, <2>2, FillSound
  <2>4. PICK s : s = r.book.orders
    OBVIOUS
  <2>5. PICK e : r.execs = Append(acc.execs, e) /\ Takes(n, e, s)
    BY <1>1, <2>3, <2>4 DEF FillTakes
  <2>6. /\ Book(r.book) /\ r.remaining \in Nat /\ Stays(n, s) /\ BooksKept(acc.book, r.book)
        /\ \A x \in DOMAIN n : x # q[k].id => x \in DOMAIN s /\ s[x] = n[x]
        /\ r.remaining > 0 => q[k].id \notin DOMAIN s
    BY <1>1, <2>3, <2>4 DEF FillTakes
  <2>7. Leads(m, r.execs, s)
    BY <1>3, <2>5, LeadsAppend
  <2>8. Stays(m, s) /\ DOMAIN s \subseteq DOMAIN n
    BY <1>3, <2>6 DEF Stays
  <2>9. \A j \in DOMAIN q : j # k => q[j].id # q[k].id
    BY <1>2
  <2>10. \A j \in DOMAIN q : j > k => q[j].id \in DOMAIN s /\ s[q[j].id] = q[j]
    <3>1. ASSUME NEW j \in DOMAIN q, j > k PROVE q[j].id \in DOMAIN s /\ s[q[j].id] = q[j]
      <4>1. j > k - 1 /\ j # k
        BY <1>2, <3>1
      <4> QED BY <1>3, <2>6, <2>9, <4>1
    <3> QED BY <3>1
  <2>11. \A x \in DOMAIN m : x \notin IdsOf(q) => x \in DOMAIN s /\ s[x] = m[x]
    <3>1. q[k].id \in IdsOf(q)
      BY <1>2 DEF IdsOf
    <3> QED BY <1>3, <2>6, <3>1
  <2>12. \A j \in DOMAIN q : j < k => q[j].id \notin DOMAIN s
    <3>1. ASSUME NEW j \in DOMAIN q, j < k PROVE q[j].id \notin DOMAIN s
      <4>1. j <= k - 1
        BY <1>2, <3>1
      <4> QED BY <1>3, <2>1, <2>8, <4>1
    <3> QED BY <3>1
  <2>13. r.remaining > 0 => \A j \in DOMAIN q : j <= k => q[j].id \notin DOMAIN s
    <3>1. \A j \in DOMAIN q : j <= k => j < k \/ j = k
      BY <1>2
    <3> QED BY <2>6, <2>12, <3>1
  <2>14. \A i, j \in DOMAIN q : j < i => \/ q[j].id \notin DOMAIN s
                                         \/ q[i].id \in DOMAIN s /\ s[q[i].id] = q[i]
    <3>1. ASSUME NEW i \in DOMAIN q, NEW j \in DOMAIN q, j < i
          PROVE  q[j].id \notin DOMAIN s \/ (q[i].id \in DOMAIN s /\ s[q[i].id] = q[i])
      <4>1. j < k \/ i > k
        BY <1>2, <3>1
      <4> QED BY <2>10, <2>12, <4>1
    <3> QED BY <3>1
  <2>15. BooksKept(b, r.book)
    BY <1>1, <1>3, <2>4, <2>6, KeptThrough
  <2>16. Filled(b, r, q, k)
    BY <1>1, <2>4, <2>6, <2>7, <2>8, <2>10, <2>11, <2>13, <2>14, <2>15 DEF Filled
  <2> QED BY <1>1, <2>16
<1> QED BY <1>4, <1>5

LEMMA MatchFilled ==
  ASSUME NEW b, Book(b), NEW aggressor, aggressor.side \in Sides, aggressor.qty \in Nat, NEW limit,
         NEW q, q = CrossingQueue(b, aggressor, limit)
  PROVE  Listed(q) /\ Filled(b, Match(b, aggressor, limit), q, Len(q))
<1>1. /\ Listed(q)
      /\ \A k \in DOMAIN q : q[k].id \in DOMAIN b.orders /\ b.orders[q[k].id] = q[k]
      /\ \A k, l \in DOMAIN q : q[k].id = q[l].id => k = l
  BY CrossingQueueIs
<1>2. Len(q) \in Nat /\ DOMAIN q = 1..Len(q)
  BY <1>1, ListedShape
<1> DEFINE start == [remaining |-> aggressor.qty, book |-> b, execs |-> << >>]
<1>3. PICK f : f = CHOOSE g : FilledTo(g, Len(q), start, q)
  OBVIOUS
<1>4. FilledTo(f, Len(q), start, q)
  BY <1>2, <1>3, FilledExists
<1>5. Match(b, aggressor, limit) = f[Len(q)]
  BY <1>3 DEF Match, FilledTo
<1>6. \A k \in 0..Len(q) : f[k] = IF k = 0 THEN start ELSE Fill(f[k - 1], q[k])
  BY <1>4 DEF FilledTo
<1>7. Filled(b, start, q, 0)
  <2>1. Leads(b.orders, << >>, b.orders) /\ Stays(b.orders, b.orders)
    BY LeadsNone DEF Stays
  <2>2. start.book = b /\ start.remaining = aggressor.qty /\ start.execs = << >>
    OBVIOUS
  <2>3. \A j \in DOMAIN q : ~(j <= 0)
    BY <1>2
  <2> HIDE DEF start
  <2>4. BooksKept(b, b)
    BY SelfKeeps
  <2> QED BY <1>1, <2>1, <2>2, <2>3, <2>4 DEF Filled
<1> HIDE DEF start
<1> DEFINE bad == {k \in 0..Len(q) : ~Filled(b, f[k], q, k)}
<1>8. ASSUME bad # {} PROVE FALSE
  <2>0. bad \in SUBSET Nat
    BY <1>2
  <2>1. PICK k \in bad : \A j \in bad : k <= j
    BY <1>8, <2>0, LeastNumber
  <2>2. k \in 0..Len(q) /\ ~Filled(b, f[k], q, k)
    BY <2>1
  <2>3. k # 0
    BY <1>6, <1>7, <2>2
  <2>4. k \in 1..Len(q) /\ k - 1 \in 0..Len(q) /\ k - 1 < k
    BY <1>2, <2>2, <2>3
  <2>5. Filled(b, f[k - 1], q, k - 1)
    BY <2>1, <2>4
  <2>6. Filled(b, Fill(f[k - 1], q[k]), q, k)
    BY <1>1, <2>4, <2>5, FilledStep
  <2> QED BY <1>6, <2>2, <2>3, <2>6
<1>9. Len(q) \in 0..Len(q)
  BY <1>2
<1>10. Filled(b, f[Len(q)], q, Len(q))
  BY <1>8, <1>9
<1> QED BY <1>1, <1>5, <1>10

(***************************************************************************)
(* The lots of a queue, and the top-up of a level.                         *)
(***************************************************************************)
SummedTo(f, n, q) == f = [k \in 0..n |-> IF k = 0 THEN 0 ELSE f[k - 1] + q[k].qty]

LEMMA SumExists ==
  ASSUME NEW q, NEW n \in Nat
  PROVE  \E f : SummedTo(f, n, q)
<1> DEFINE bad == {k \in Nat : ~\E f : SummedTo(f, k, q)}
<1>1. SUFFICES ASSUME bad # {} PROVE FALSE
  OBVIOUS
<1>2. PICK k \in bad : \A j \in bad : k <= j
  BY <1>1, LeastNumber
<1>3. SummedTo([i \in 0..0 |-> 0], 0, q)
  <2>1. \A i \in 0..0 : i = 0
    OBVIOUS
  <2> QED BY <2>1 DEF SummedTo
<1>4. k \in Nat /\ k # 0
  BY <1>3
<1>5. k - 1 \in Nat /\ k - 1 \notin bad
  BY <1>2, <1>4
<1>6. PICK g : SummedTo(g, k - 1, q)
  BY <1>5
<1>7. PICK f : f = [i \in 0..k |-> IF i = k THEN g[k - 1] + q[k].qty ELSE g[i]]
  OBVIOUS
<1>8. \A i \in 0..(k - 1) : g[i] = IF i = 0 THEN 0 ELSE g[i - 1] + q[i].qty
  BY <1>6 DEF SummedTo
<1>9. ASSUME NEW i \in 0..k  PROVE f[i] = IF i = 0 THEN 0 ELSE f[i - 1] + q[i].qty
  <2>1. CASE i = k
    <3>1. k - 1 \in 0..k /\ k - 1 # k
      BY <1>4
    <3> QED BY <1>4, <1>7, <2>1, <3>1
  <2>2. CASE i # k
    <3>1. i \in 0..(k - 1) /\ (i # 0 => i - 1 \in 0..k /\ i - 1 # k)
      BY <1>4, <2>2
    <3> QED BY <1>7, <1>8, <2>2, <3>1
  <2> QED BY <2>1, <2>2
<1>10. SummedTo(f, k, q)
  BY <1>7, <1>9 DEF SummedTo
<1> QED BY <1>10

LEMMA TotalIsNumber ==
  ASSUME NEW q, Listed(q), \A i \in DOMAIN q : q[i].qty \in Nat
  PROVE  TotalQty(q) \in Nat
<1>1. Len(q) \in Nat /\ DOMAIN q = 1..Len(q)
  BY ListedShape
<1>2. PICK f : f = CHOOSE g : SummedTo(g, Len(q), q)
  OBVIOUS
<1>3. SummedTo(f, Len(q), q)
  BY <1>1, <1>2, SumExists
<1>4. TotalQty(q) = f[Len(q)]
  BY <1>2 DEF TotalQty, SummedTo
<1>5. \A k \in 0..Len(q) : f[k] = IF k = 0 THEN 0 ELSE f[k - 1] + q[k].qty
  BY <1>3 DEF SummedTo
<1> DEFINE bad == {k \in 0..Len(q) : f[k] \notin Nat}
<1>6. ASSUME bad # {} PROVE FALSE
  <2>0. bad \in SUBSET Nat
    BY <1>1
  <2>1. PICK k \in bad : \A j \in bad : k <= j
    BY <1>6, <2>0, LeastNumber
  <2>2. k \in 0..Len(q) /\ f[k] \notin Nat
    BY <2>1
  <2>3. k # 0
    BY <1>5, <2>2
  <2>4. k \in 1..Len(q) /\ k - 1 \in 0..Len(q) /\ k - 1 < k
    BY <1>1, <2>2, <2>3
  <2>5. f[k - 1] \in Nat /\ q[k].qty \in Nat
    BY <1>1, <2>1, <2>4
  <2> QED BY <1>5, <2>2, <2>3, <2>5
<1>7. Len(q) \in 0..Len(q)
  BY <1>1
<1> QED BY <1>4, <1>6, <1>7

LEMMA TopUpSound ==
  ASSUME NEW b, Book(b), NEW side \in Sides, NEW price \in Nat \ {0}, NEW minimum \in Int, NEW agent
  PROVE  /\ Sound(b.orders, EnsureLevelMinimum(b, side, price, minimum, agent))
         /\ Kept(b.orders, EnsureLevelMinimum(b, side, price, minimum, agent).book.orders,
                 AgentLevelOrderId(side, price, agent))
         /\ BooksOrTail(b, EnsureLevelMinimum(b, side, price, minimum, agent).book)
<1>1. PICK id, queue : id = AgentLevelOrderId(side, price, agent) /\ queue = At(b.levels, side, price)
  OBVIOUS
<1>2. QueueAt(b, side, price) = queue /\ GoodQueue(queue, b.orders, side, price)
  BY <1>1, BookParts DEF Book, GoodBook
<1>3. Listed(RemoveId(queue, id)) /\ TakenFrom(RemoveId(queue, id), queue)
  BY <1>2, RemovedFrom
<1>4. \A j \in DOMAIN queue : queue[j].qty \in Nat
  BY <1>2 DEF GoodQueue, Book, GoodBook, GoodIndex, GoodOrder
<1>5. PICK others : others = TotalQty(RemoveId(queue, id))
  OBVIOUS
<1>6. others \in Nat
  <2>1. \A i \in DOMAIN RemoveId(queue, id) : RemoveId(queue, id)[i].qty \in Nat
    BY <1>3, <1>4 DEF TakenFrom
  <2> QED BY <1>3, <1>5, <2>1, TotalIsNumber
<1>7. PICK lots : lots = IF minimum > others THEN minimum - others ELSE 0
  OBVIOUS
<1>8. lots \in Int /\ 0 \in 0..MaxTick
  <2>1. MaxTick \in Nat
    BY EngineAssumption, Zenon
  <2> QED BY <1>6, <1>7, <2>1
<1>9. EnsureLevelMinimum(b, side, price, minimum, agent) = UpdateAgentLevel(b, side, price, lots, agent, id, 0)
  BY <1>1, <1>2, <1>5, <1>7 DEF EnsureLevelMinimum
<1> QED BY <1>1, <1>8, <1>9, AgentLevelSound

(***************************************************************************)
(* The book the engine starts from.                                        *)
(***************************************************************************)
LEMMA EmptyIsBook == Book(EmptyBook) /\ DOMAIN EmptyBook.orders = {}
<1>1. PICK L : L = [s \in Sides |-> << >>]
  OBVIOUS
<1>2. EmptyBook = [levels |-> L, orders |-> << >>] /\ EmptyBook.levels = L /\ EmptyBook.orders = << >>
  BY <1>1 DEF EmptyBook
<1>3. DOMAIN << >> = {} /\ << >> = [x \in {} |-> << >>[x]]
  OBVIOUS
<1>4. GoodLevels(L)
  BY <1>1, <1>3 DEF GoodLevels
<1>5. GoodIndex(<< >>)
  BY <1>3, FS_EmptySet DEF GoodIndex
<1>6. \A s \in Sides : \A p : At(L, s, p) = << >>
  BY <1>1, <1>3 DEF At
<1>7. \A s, p : GoodQueue(<< >>, << >>, s, p)
  BY ListedEmpty DEF GoodQueue
<1>8. GoodBook(L, << >>)
  BY <1>3, <1>4, <1>5, <1>6, <1>7 DEF GoodBook
<1> QED BY <1>2, <1>3, <1>8 DEF Book

WithLevels(b, reference, spacing, base, owner, i) ==
    UpdateLevel(UpdateLevel(b, "buy", reference - i * spacing, base + i - 1, owner).book,
                "sell", reference + i * spacing, base + i - 1, owner).book

BuiltTo(f, n, reference, spacing, base, owner) ==
    f = [i \in 0..n |-> IF i = 0 THEN EmptyBook ELSE WithLevels(f[i - 1], reference, spacing, base, owner, i)]

LEMMA BuiltExists ==
  ASSUME NEW reference, NEW spacing, NEW base, NEW owner, NEW n \in Nat
  PROVE  \E f : BuiltTo(f, n, reference, spacing, base, owner)
<1> DEFINE bad == {k \in Nat : ~\E f : BuiltTo(f, k, reference, spacing, base, owner)}
<1>1. SUFFICES ASSUME bad # {} PROVE FALSE
  OBVIOUS
<1>2. PICK k \in bad : \A j \in bad : k <= j
  BY <1>1, LeastNumber
<1>3. BuiltTo([i \in 0..0 |-> EmptyBook], 0, reference, spacing, base, owner)
  <2>1. \A i \in 0..0 : i = 0
    OBVIOUS
  <2> QED BY <2>1 DEF BuiltTo
<1>4. k \in Nat /\ k # 0
  BY <1>3
<1>5. k - 1 \in Nat /\ k - 1 \notin bad
  BY <1>2, <1>4
<1>6. PICK g : BuiltTo(g, k - 1, reference, spacing, base, owner)
  BY <1>5
<1>7. PICK f : f = [i \in 0..k |-> IF i = k THEN WithLevels(g[k - 1], reference, spacing, base, owner, k)
                                   ELSE g[i]]
  OBVIOUS
<1>8. \A i \in 0..(k - 1) : g[i] = IF i = 0 THEN EmptyBook
                                   ELSE WithLevels(g[i - 1], reference, spacing, base, owner, i)
  BY <1>6 DEF BuiltTo
<1>9. ASSUME NEW i \in 0..k
      PROVE  f[i] = IF i = 0 THEN EmptyBook ELSE WithLevels(f[i - 1], reference, spacing, base, owner, i)
  <2>1. CASE i = k
    <3>1. k - 1 \in 0..k /\ k - 1 # k
      BY <1>4
    <3> QED BY <1>4, <1>7, <2>1, <3>1
  <2>2. CASE i # k
    <3>1. i \in 0..(k - 1) /\ (i # 0 => i - 1 \in 0..k /\ i - 1 # k)
      BY <1>4, <2>2
    <3> QED BY <1>7, <1>8, <2>2, <3>1
  <2> QED BY <2>1, <2>2
<1>10. BuiltTo(f, k, reference, spacing, base, owner)
  BY <1>7, <1>9 DEF BuiltTo
<1> QED BY <1>10

\* A book of synthetic levels only.
Baseline(b) ==
    Book(b) /\ SyntheticInPlace(b.orders) /\ \A id \in DOMAIN b.orders : b.orders[id].ts = 0

LEMMA LevelsAdded ==
  ASSUME NEW b, Baseline(b), NEW reference \in Nat, NEW spacing \in Nat, NEW base \in Nat, NEW owner,
         NEW i \in Nat \ {0}, reference - i * spacing \in Nat \ {0}
  PROVE  Baseline(WithLevels(b, reference, spacing, base, owner, i))
<1>1. PICK low, high, lots : /\ low = reference - i * spacing /\ high = reference + i * spacing
                             /\ lots = base + i - 1
  OBVIOUS
<1>2. low \in Nat \ {0} /\ high \in Nat \ {0} /\ lots \in Int
  <2>1. i * spacing \in Nat
    OBVIOUS
  <2> QED BY <1>1, <2>1
<1>3. PICK c : c = UpdateLevel(b, "buy", low, lots, owner).book
  OBVIOUS
<1>4. "buy" \in Sides /\ "sell" \in Sides
  BY DEF Sides
<1>5. Book(c) /\ SyntheticInPlace(c.orders) /\ Fresh(b.orders, c.orders)
  BY <1>2, <1>3, <1>4, UpdateLevelSound DEF Baseline, Sound
<1>6. PICK d : d = UpdateLevel(c, "sell", high, lots, owner).book
  OBVIOUS
<1>7. Book(d) /\ SyntheticInPlace(d.orders) /\ Fresh(c.orders, d.orders)
  BY <1>2, <1>4, <1>5, <1>6, UpdateLevelSound DEF Sound
<1>8. \A id \in DOMAIN d.orders : d.orders[id].ts = 0
  BY <1>5, <1>7 DEF Fresh, Baseline
<1>9. WithLevels(b, reference, spacing, base, owner, i) = d
  BY <1>1, <1>3, <1>6 DEF WithLevels
<1> QED BY <1>7, <1>8, <1>9 DEF Baseline

LEMMA LadderFits ==
  ASSUME NEW i \in Nat, NEW d \in Nat, NEW s \in Nat, i <= d
  PROVE  i * s <= d * s
<1>1. PICK e \in Nat : d = i + e
  <2>1. d - i \in Nat /\ d = i + (d - i)
    OBVIOUS
  <2> QED BY <2>1
<1>2. d * s = i * s + e * s /\ e * s \in Nat /\ i * s \in Nat
  BY <1>1
<1> QED BY <1>2

LEMMA InitialBook ==
  Baseline(Initialize(ReferencePrice, BaselineLevels, LevelSpacing, BaseQuantity, BaselineAgent))
<1>1. /\ BaselineLevels \in Nat /\ LevelSpacing \in Nat \ {0} /\ BaseQuantity \in Nat \ {0}
      /\ ReferencePrice \in Nat /\ ReferencePrice > BaselineLevels * LevelSpacing
  BY EngineAssumption, Zenon
<1>2. PICK f : f = CHOOSE g : BuiltTo(g, BaselineLevels, ReferencePrice, LevelSpacing, BaseQuantity, BaselineAgent)
  OBVIOUS
<1>3. BuiltTo(f, BaselineLevels, ReferencePrice, LevelSpacing, BaseQuantity, BaselineAgent)
  BY <1>1, <1>2, BuiltExists
<1>4. Initialize(ReferencePrice, BaselineLevels, LevelSpacing, BaseQuantity, BaselineAgent) = f[BaselineLevels]
  BY <1>2 DEF Initialize, BuiltTo, WithLevels
<1>5. \A k \in 0..BaselineLevels :
        f[k] = IF k = 0 THEN EmptyBook
               ELSE WithLevels(f[k - 1], ReferencePrice, LevelSpacing, BaseQuantity, BaselineAgent, k)
  BY <1>3 DEF BuiltTo
<1> DEFINE bad == {k \in 0..BaselineLevels : ~Baseline(f[k])}
<1>6. ASSUME bad # {} PROVE FALSE
  <2>0. bad \in SUBSET Nat
    BY <1>1
  <2>1. PICK k \in bad : \A j \in bad : k <= j
    BY <1>6, <2>0, LeastNumber
  <2>2. k \in 0..BaselineLevels /\ ~Baseline(f[k])
    BY <2>1
  <2>3. k # 0
    <3>1. Baseline(EmptyBook)
      BY EmptyIsBook DEF Baseline, SyntheticInPlace
    <3> QED BY <1>5, <2>2, <3>1
  <2>4. k \in Nat \ {0} /\ k <= BaselineLevels /\ k - 1 \in 0..BaselineLevels /\ k - 1 < k
    BY <1>1, <2>2, <2>3
  <2>5. Baseline(f[k - 1])
    BY <2>1, <2>4
  <2>6. ReferencePrice - k * LevelSpacing \in Nat \ {0}
    <3>1. k * LevelSpacing <= BaselineLevels * LevelSpacing
      BY <1>1, <2>4, LadderFits
    <3>2. k * LevelSpacing \in Nat /\ BaselineLevels * LevelSpacing \in Nat
      BY <1>1, <2>4
    <3> QED BY <1>1, <3>1, <3>2
  <2>7. Baseline(WithLevels(f[k - 1], ReferencePrice, LevelSpacing, BaseQuantity, BaselineAgent, k))
    BY <1>1, <2>4, <2>5, <2>6, LevelsAdded
  <2> QED BY <1>5, <2>2, <2>3, <2>7
<1>7. BaselineLevels \in 0..BaselineLevels
  BY <1>1
<1> QED BY <1>4, <1>6, <1>7

(***************************************************************************)
(* The retained window.                                                    *)
(***************************************************************************)
EventRecords == [seq : 1..MaxEvents, tick : 0..MaxTick]

GoodWindow(w, n) ==
    /\ w \in Seq(EventRecords) /\ n \in 0..MaxEvents
    /\ Len(w) = IF n < EventHistoryCapacity THEN n ELSE EventHistoryCapacity
    /\ \A i \in DOMAIN w : w[i].seq = n - Len(w) + i

\* Ticks never go back in the window, and none is in the future.
InTickOrder(w, t) ==
    /\ \A i \in DOMAIN w : w[i].tick <= t
    /\ \A i, j \in DOMAIN w : i <= j => w[i].tick <= w[j].tick

LEMMA Bounds ==
    /\ MaxEvents \in Nat /\ MaxTick \in Nat /\ EventHistoryCapacity \in Nat \ {0}
    /\ Quantities \subseteq Nat \ {0} /\ Prices \subseteq Nat \ {0}
  BY EngineAssumption, Zenon

LEMMA RetainWindow ==
  ASSUME NEW w, NEW n, GoodWindow(w, n), NEW added, added \in Seq(EventRecords), n + Len(added) <= MaxEvents,
         \A i \in DOMAIN added : added[i].seq = n + i, NEW t \in Nat
  PROVE  /\ GoodWindow(Retain(w, added), n + Len(added))
         /\ InTickOrder(w, t) /\ (\A i \in DOMAIN added : added[i].tick = t)
              => InTickOrder(Retain(w, added), t)
<1>1. PICK a, c, k : a = Len(w) /\ c = Len(added) /\ k = EventHistoryCapacity
  OBVIOUS
<1>2. /\ a \in Nat /\ c \in Nat /\ k \in Nat \ {0} /\ n \in Nat /\ n + c \in 0..MaxEvents
      /\ w \in Seq(EventRecords) /\ DOMAIN w = 1..a /\ DOMAIN added = 1..c
      /\ a = IF n < k THEN n ELSE k
  BY <1>1, Bounds, LenProperties DEF GoodWindow
<1>3. PICK all, size : all = w \o added /\ size = a + c
  OBVIOUS
<1>4. /\ all \in Seq(EventRecords) /\ Len(all) = size /\ size \in Nat
      /\ \A i \in 1..size : all[i] = IF i <= a THEN w[i] ELSE added[i - a]
  <2>1. Listed(w) /\ Listed(added) /\ w \in Seq(EventRecords)
    BY <1>2 DEF Listed
  <2>2. /\ Len(w \o added) = Len(w) + Len(added)
        /\ \A i \in 1..(Len(w) + Len(added)) :
             (w \o added)[i] = IF i <= Len(w) THEN w[i] ELSE added[i - Len(w)]
    BY <2>1, ListedConcat
  <2>3. w \o added \in Seq(EventRecords)
    BY <2>1, ConcatProperties
  <2>4. size = a + c /\ size \in Nat /\ all = w \o added
    BY <1>2, <1>3
  <2> QED BY <1>1, <2>2, <2>3, <2>4
<1>5. \A i \in 1..size : all[i].seq = n - a + i
  <2>1. ASSUME NEW i \in 1..size  PROVE all[i].seq = n - a + i
    <3>1. CASE i <= a
      <4>1. i \in 1..a /\ all[i] = w[i]
        BY <1>2, <1>4, <3>1
      <4>2. w[i].seq = n - a + i
        BY <1>1, <1>2, <4>1 DEF GoodWindow
      <4> QED BY <4>1, <4>2
    <3>2. CASE i > a
      <4>1. i - a \in 1..c /\ ~(i <= a)
        BY <1>2, <1>3, <3>2
      <4>2. all[i] = added[i - a] /\ added[i - a].seq = n + (i - a)
        BY <1>2, <1>4, <4>1
      <4> QED BY <1>2, <4>2
    <3> QED BY <1>2, <3>1, <3>2
  <2> QED BY <2>1
<1>6. PICK d : d = IF size > k THEN size - k ELSE 0
  OBVIOUS
<1>7. PICK r : r = Retain(w, added)
  OBVIOUS
<1>8. /\ d \in Nat /\ d <= size
      /\ r \in Seq(EventRecords) /\ Len(r) = size - d
      /\ \A i \in 1..(size - d) : r[i] = all[i + d]
  <2>1. CASE size > k
    <3>1. r = SubSeq(all, size - k + 1, size)
      BY <1>1, <1>3, <1>4, <1>7, <2>1 DEF Retain
    <3>2. d = size - k /\ d \in Nat /\ d + 1 \in 1..(Len(all) + 1) /\ size \in 0..Len(all) /\ d + 1 - 1 <= size
      BY <1>2, <1>4, <1>6, <2>1
    <3>3. \A i \in (d + 1)..size : all[i] \in EventRecords
      BY <1>4, <3>2, ElementOfSeq
    <3>4. /\ r \in Seq(EventRecords) /\ Len(r) = (IF d + 1 <= size THEN size - (d + 1) + 1 ELSE 0)
          /\ \A i \in 1..(size - (d + 1) + 1) : r[i] = all[(d + 1) + i - 1]
      BY <1>4, <3>1, <3>2, SubSeqProperties
    <3>5. \A i \in 1..(size - d) : (d + 1) + i - 1 = i + d /\ i \in 1..(size - (d + 1) + 1)
      <4>1. d \in Nat /\ size \in Nat
        BY <1>4, <3>2
      <4>2. size - (d + 1) + 1 = size - d
        BY <4>1
      <4>3. \A i \in 1..(size - d) : (d + 1) + i - 1 = i + d
        BY <4>1
      <4> QED BY <4>2, <4>3
    <3>6. \A i \in 1..(size - d) : r[i] = all[i + d]
      BY <3>4, <3>5
    <3>7. Len(r) = size - d /\ d <= size
      BY <1>2, <1>4, <3>2, <3>4
    <3> QED BY <3>2, <3>4, <3>6, <3>7
  <2>2. CASE ~(size > k)
    <3>1. r = all
      BY <1>1, <1>3, <1>4, <1>7, <2>2 DEF Retain
    <3>2. d = 0
      BY <1>6, <2>2
    <3> QED BY <1>4, <3>1, <3>2
  <2> QED BY <2>1, <2>2
<1>9. size - d = IF n + c < k THEN n + c ELSE k
  BY <1>2, <1>3, <1>4, <1>6
<1>10. \A i \in 1..(size - d) : r[i].seq = (n + c) - (size - d) + i
  <2>1. ASSUME NEW i \in 1..(size - d)  PROVE r[i].seq = (n + c) - (size - d) + i
    <3>1. i + d \in 1..size
      BY <1>4, <1>8
    <3>2. r[i].seq = n - a + (i + d)
      BY <1>5, <1>8, <3>1
    <3> QED BY <1>2, <1>3, <1>8, <3>2
  <2> QED BY <2>1
<1>11. DOMAIN r = 1..(size - d)
  BY <1>8, LenProperties
<1>12. GoodWindow(r, n + c)
  BY <1>2, <1>8, <1>9, <1>10, <1>11, <1>1 DEF GoodWindow
<1>13. ASSUME InTickOrder(w, t), \A i \in DOMAIN added : added[i].tick = t
       PROVE InTickOrder(r, t)
  <2>1. \A i \in 1..size : all[i].tick \in Nat
    <3>1. ASSUME NEW i \in 1..size PROVE all[i].tick \in Nat
      <4>1. all[i] \in EventRecords
        BY <1>4, ElementOfSeq
      <4> QED BY <4>1, Bounds DEF EventRecords
    <3> QED BY <3>1
  <2>2. \A i \in 1..size : \/ i \in 1..a /\ all[i] = w[i]
                           \/ i > a /\ all[i].tick = t
    <3>1. ASSUME NEW i \in 1..size, i > a PROVE all[i].tick = t
      <4>1. i - a \in 1..c /\ ~(i <= a)
        BY <1>2, <1>3, <3>1
      <4> QED BY <1>2, <1>4, <1>13, <4>1
    <3> QED BY <1>2, <1>4, <3>1
  <2>3. \A i \in 1..size : all[i].tick <= t
    BY <1>2, <1>13, <2>2, SMTT(60) DEF InTickOrder
  <2>4. \A i, j \in 1..size : i <= j => all[i].tick <= all[j].tick
    <3>1. ASSUME NEW i \in 1..size, NEW j \in 1..size, i <= j  PROVE all[i].tick <= all[j].tick
      <4>1. CASE j > a
        BY <1>2, <2>2, <2>3, <4>1
      <4>2. CASE ~(j > a)
        <5>1. i \in 1..a /\ j \in 1..a /\ all[i] = w[i] /\ all[j] = w[j]
          BY <1>2, <2>2, <3>1, <4>2
        <5> QED BY <1>2, <1>13, <3>1, <5>1 DEF InTickOrder
      <4> QED BY <4>1, <4>2
    <3> QED BY <3>1
  <2>5. \A i \in 1..(size - d) : i + d \in 1..size /\ r[i] = all[i + d]
    BY <1>4, <1>8
  <2>6. \A i, j \in 1..(size - d) : i <= j => i + d <= j + d
    BY <1>4, <1>8
  <2> QED BY <1>11, <2>3, <2>4, <2>5, <2>6 DEF InTickOrder
<1> QED BY <1>1, <1>7, <1>12, <1>13

(***************************************************************************)
(* The invariant of the engine.                                            *)
(***************************************************************************)
EngineInv ==
    /\ Book(book) /\ SyntheticInPlace(book.orders) /\ Tracks(tape, book.orders)
    /\ engineTick \in 0..MaxTick /\ GoodWindow(events, latest)
    /\ QuotesCarryContext => InTickOrder(events, engineTick)
    /\ call \in Calls

\* What a call may do: a sound operation, observed in the context of the tick
\* or, where quotes carry none, without a context.
Proper(r, context, kind) ==
    /\ Sound(book.orders, r) /\ SyntheticInPlace(r.book.orders)
    /\ context = engineTick \/ (context = NoContext /\ ~QuotesCarryContext)
    /\ kind \in Calls
    /\ BooksKept(book, r.book) \/ (kind = "requote" /\ BooksOrTail(book, r.book))

Operates == \E r, context, kind : Proper(r, context, kind) /\ Mutate(r, context, kind)

LEMMA OperatesKeeps ==
  ASSUME EngineInv, Operates
  PROVE  EngineInv'
<1>1. PICK r, context, kind : Proper(r, context, kind) /\ Mutate(r, context, kind)
  BY DEF Operates
<1>2. /\ book' = r.book /\ call' = kind /\ engineTick' = engineTick
      /\ latest + Len(r.muts) <= MaxEvents /\ latest' = latest + Len(r.muts)
      /\ events' = Retain(events, [i \in DOMAIN r.muts |->
                             [seq |-> latest + i, tick |-> EventTick(r.muts[i], context)]])
      /\ tape' = Rebuilt(tape, r.muts)
  BY <1>1 DEF Mutate, Emit
<1>3. PICK m, t, T, w, n : m = book.orders /\ t = tape /\ T = engineTick /\ w = events /\ n = latest
  OBVIOUS
<1>4. /\ Book(r.book) /\ Leads(m, r.muts, r.book.orders) /\ SyntheticInPlace(r.book.orders)
      /\ context = T \/ (context = NoContext /\ ~QuotesCarryContext)
      /\ kind \in Calls
  BY <1>1, <1>3 DEF Proper, Sound
<1>5. Tracks(t, m) /\ T \in 0..MaxTick /\ GoodWindow(w, n) /\ (QuotesCarryContext => InTickOrder(w, T))
  BY <1>3 DEF EngineInv
<1>6. Tracks(Rebuilt(t, r.muts), r.book.orders)
  BY <1>4, <1>5, TapeLeads
<1>7. PICK added : added = [i \in DOMAIN r.muts |-> [seq |-> n + i, tick |-> EventTick(r.muts[i], context)]]
  OBVIOUS
<1>8. Len(r.muts) \in Nat /\ DOMAIN r.muts = 1..Len(r.muts)
  BY <1>4, ListedShape DEF Leads
<1>9. n \in Nat /\ n + Len(r.muts) <= MaxEvents /\ T \in Nat /\ MaxEvents \in Nat /\ MaxTick \in Nat
  BY <1>2, <1>3, <1>5, Bounds DEF GoodWindow
<1>10. \A i \in 1..Len(r.muts) : r.muts[i].after.ts \in 0..MaxTick
  BY <1>4 DEF Leads, Chain, Takes
<1>11. \A i \in 1..Len(r.muts) : EventTick(r.muts[i], context) \in 0..MaxTick
  BY <1>4, <1>5, <1>10 DEF EventTick
<1>12. added \in Seq(EventRecords) /\ Len(added) = Len(r.muts) /\ DOMAIN added = 1..Len(r.muts)
  <2>1. \A i \in 1..Len(r.muts) : n + i \in 1..MaxEvents
    BY <1>8, <1>9
  <2>2. added \in [1..Len(r.muts) -> EventRecords]
    BY <1>7, <1>8, <1>11, <2>1 DEF EventRecords
  <2>3. added \in Seq(EventRecords)
    BY <1>8, <2>2, SeqDef
  <2> QED BY <1>8, <2>2, <2>3, LenProperties
<1>13. \A i \in DOMAIN added : added[i].seq = n + i /\ added[i].tick = EventTick(r.muts[i], context)
  BY <1>7, <1>8, <1>12
<1>14. /\ GoodWindow(Retain(w, added), n + Len(r.muts))
       /\ InTickOrder(w, T) /\ (\A i \in DOMAIN added : added[i].tick = T)
            => InTickOrder(Retain(w, added), T)
  BY <1>5, <1>9, <1>12, <1>13, RetainWindow
<1>15. QuotesCarryContext => InTickOrder(Retain(w, added), T)
  <2>1. T # NoContext
    BY <1>9 DEF NoContext
  <2>2. QuotesCarryContext => \A i \in DOMAIN added : added[i].tick = T
    BY <1>4, <1>13, <2>1 DEF EventTick
  <2> QED BY <1>5, <1>14, <2>2
<1>16. events' = Retain(w, added) /\ latest' = n + Len(r.muts) /\ tape' = Rebuilt(t, r.muts) /\ engineTick' = T
  BY <1>2, <1>3, <1>7
<1> QED BY <1>2, <1>4, <1>5, <1>6, <1>14, <1>15, <1>16 DEF EngineInv

(***************************************************************************)
(* Every call of the engine operates on the book.                          *)
(***************************************************************************)
LEMMA KeptInPlace ==
  ASSUME NEW m, SyntheticInPlace(m), NEW n, NEW id, Kept(m, n, id),
         \A s \in Sides : \A p : id # SyntheticOrderId(s, p)
  PROVE  SyntheticInPlace(n)
  BY DEF SyntheticInPlace, Kept

LEMMA StaysInPlace ==
  ASSUME NEW m, SyntheticInPlace(m), NEW n, Stays(m, n)
  PROVE  SyntheticInPlace(n)
  BY DEF SyntheticInPlace, Stays

\* No id a client chooses, and no agent's level, is a level that replaces others.
LEMMA ClientIds ==
  ASSUME NEW id \in OrderIds
  PROVE  \A s \in Sides : \A p : id # SyntheticOrderId(s, p)
<1>1. \A s \in Sides : id # SyntheticOrderId(s, id[3])
  BY EngineAssumption, Zenon
<1>2. \A s, p : SyntheticOrderId(s, p)[3] = p
  BY DEF SyntheticOrderId
<1> QED BY <1>1, <1>2, Zenon

LEMMA AgentLevelIds ==
  ASSUME NEW agent \in Agents \cup {BaselineAgent}, NEW side, NEW price
  PROVE  \A s \in Sides : \A p : AgentLevelOrderId(side, price, agent) # SyntheticOrderId(s, p)
<1>1. agent # ""
  BY EngineAssumption, Zenon
<1>2. \A s, p : SyntheticOrderId(s, p)[4] = ""
  BY DEF SyntheticOrderId
<1>3. AgentLevelOrderId(side, price, agent)[4] = agent
  BY DEF AgentLevelOrderId
<1> QED BY <1>1, <1>2, <1>3, Zenon

\* An order trades with the other side only.
LEMMA OtherSideTrades ==
  ASSUME NEW b, Book(b), NEW aggressor, aggressor.side \in Sides, NEW limit,
         NEW q, q = CrossingQueue(b, aggressor, limit), NEW x \in DOMAIN b.orders, b.orders[x].side = aggressor.side
  PROVE  x \notin IdsOf(q)
<1>1. PICK side, S : side = aggressor.side /\ S = CrossingPlaces(b, side, limit)
  OBVIOUS
<1>2. PICK P : QueuePlaces(b, side, limit, q, P)
  BY <1>1, CrossingQueuePlaces
<1>3. SUFFICES ASSUME NEW k \in DOMAIN q, q[k].id = x PROVE FALSE
  BY DEF IdsOf
<1>4. P[k] \in S /\ q[k] = OrderAt(b.levels, side, P[k])
  BY <1>1, <1>2 DEF QueuePlaces
<1>5. b.orders[x] = q[k] /\ q[k].side = Opposite(side)
  BY <1>1, <1>3, <1>4, PlacesOrdered
<1> QED BY <1>1, <1>5 DEF Opposite, Sides

LEMMA MarketOperates ==
  ASSUME EngineInv, NEW s \in Sides, NEW q \in Quantities, SubmitMarket(s, q)
  PROVE  Operates
<1>1. PICK b, order : b = book /\ order = [side |-> s, qty |-> q]
  OBVIOUS
<1>2. PICK m, queue, r : /\ m = Match(b, order, NoPrice) /\ queue = CrossingQueue(b, order, NoPrice)
                         /\ r = [book |-> m.book, muts |-> m.execs]
  OBVIOUS
<1>3. order.side = s /\ order.qty \in Nat /\ Book(b) /\ SyntheticInPlace(b.orders)
  BY <1>1, Bounds DEF EngineInv
<1>4. Filled(b, m, queue, Len(queue))
  BY <1>2, <1>3, MatchFilled
<1>5. Sound(b.orders, r) /\ SyntheticInPlace(r.book.orders) /\ BooksKept(b, r.book)
  <2>1. Book(m.book) /\ BooksKept(b, m.book) /\ Leads(b.orders, m.execs, m.book.orders) /\ Stays(b.orders, m.book.orders)
    BY <1>4 DEF Filled
  <2>2. r.book = m.book /\ r.muts = m.execs
    BY <1>2
  <2> QED BY <1>3, <2>1, <2>2, StaysInPlace DEF Sound
<1>6. Proper(r, engineTick, "match")
  BY <1>1, <1>5 DEF Proper, Calls
<1>7. Mutate(r, engineTick, "match")
  BY <1>1, <1>2 DEF SubmitMarket
<1> QED BY <1>6, <1>7 DEF Operates

LEMMA LimitOperates ==
  ASSUME EngineInv, NEW id \in OrderIds, NEW a, NEW s \in Sides, NEW q \in Quantities, NEW p \in Prices,
         SubmitLimit(id, a, s, q, p)
  PROVE  Operates
<1>1. PICK b, T : b = book /\ T = engineTick
  OBVIOUS
<1>2. PICK order : order = [id |-> id, agent |-> a, side |-> s, qty |-> q, price |-> p, ts |-> T]
  OBVIOUS
<1>3. PICK m, queue : m = Match(b, order, p) /\ queue = CrossingQueue(b, order, p)
  OBVIOUS
<1>4. PICK rest : rest = [order EXCEPT !.qty = m.remaining]
  OBVIOUS
<1>5. /\ order.side = s /\ order.qty \in Nat /\ Book(b) /\ SyntheticInPlace(b.orders) /\ T \in 0..MaxTick
      /\ p \in Nat \ {0}
  BY <1>1, <1>2, Bounds DEF EngineInv
<1>6. /\ Book(m.book) /\ Leads(b.orders, m.execs, m.book.orders) /\ Stays(b.orders, m.book.orders)
      /\ m.remaining \in Nat /\ BooksKept(b, m.book)
      /\ \A x \in DOMAIN b.orders : b.orders[x].side = s => x \in DOMAIN m.book.orders
  <2>1. Filled(b, m, queue, Len(queue))
    BY <1>3, <1>5, MatchFilled
  <2>2. \A x \in DOMAIN b.orders : b.orders[x].side = s => x \notin IdsOf(queue)
    BY <1>3, <1>5, OtherSideTrades
  <2> QED BY <2>1, <2>2 DEF Filled
<1>7. SyntheticInPlace(m.book.orders)
  BY <1>5, <1>6, StaysInPlace
<1>8. rest = [id |-> id, agent |-> a, side |-> s, qty |-> m.remaining, price |-> p, ts |-> T]
  BY <1>2, <1>4
<1>9. m.remaining > 0 => GoodOrder(rest) /\ rest.id = id
  BY <1>5, <1>6, <1>8 DEF GoodOrder
<1>10. PICK rests, duplicate : rests = (m.remaining > 0) /\ duplicate = (rests /\ IsDuplicate(m.book, id))
  OBVIOUS
<1>11. PICK added : added = IF rests /\ ~duplicate THEN Add(m.book, rest) ELSE Unchanged(m.book)
  OBVIOUS
<1>12. Sound(m.book.orders, added) /\ SyntheticInPlace(added.book.orders) /\ BooksKept(b, added.book)
  <2>1. CASE rests /\ ~duplicate
    <3>1. added = Add(m.book, rest) /\ id \notin DOMAIN m.book.orders /\ m.remaining > 0
      BY <1>10, <1>11, <2>1 DEF IsDuplicate
    <3>2. Sound(m.book.orders, added) /\ Kept(m.book.orders, added.book.orders, id)
      BY <1>6, <1>9, <3>1, AddSound
    <3>3. id \notin IdsOf(At(b.levels, s, p))
      <4>1. GoodQueue(At(b.levels, s, p), b.orders, s, p)
        BY <1>5 DEF Book, GoodBook
      <4>2. \A x \in IdsOf(At(b.levels, s, p)) : x \in DOMAIN b.orders /\ b.orders[x].side = s
        BY <4>1 DEF GoodQueue, IdsOf
      <4> QED BY <1>6, <3>1, <4>2
    <3>4. rest.side = s /\ rest.price = p /\ rest.id = id /\ GoodOrder(rest)
      BY <1>8, <1>9, <3>1
    <3>5. BooksKept(b, added.book)
      BY <1>5, <1>6, <3>1, <3>3, <3>4, AddKeeps
    <3> QED BY <1>7, <3>2, <3>5, ClientIds, KeptInPlace
  <2>2. CASE ~(rests /\ ~duplicate)
    <3>1. added = Unchanged(m.book)
      BY <1>11, <2>2
    <3>2. added.book = m.book
      BY <3>1 DEF Unchanged
    <3> QED BY <1>6, <1>7, <3>1, <3>2, UnchangedSound
  <2> QED BY <2>1, <2>2
<1>13. PICK r, kind : /\ r = [book |-> added.book, muts |-> m.execs \o added.muts]
                      /\ kind = IF duplicate THEN "rejected" ELSE "match"
  OBVIOUS
<1>14. Sound(b.orders, r) /\ SyntheticInPlace(r.book.orders) /\ BooksKept(b, r.book)
  <2>1. r.book = added.book /\ r.muts = m.execs \o added.muts
    BY <1>13
  <2>2. Book(added.book) /\ Leads(m.book.orders, added.muts, added.book.orders)
    BY <1>12 DEF Sound
  <2>3. Leads(b.orders, m.execs \o added.muts, added.book.orders)
    BY <1>6, <2>2, LeadsConcat
  <2> QED BY <1>12, <2>1, <2>2, <2>3 DEF Sound
<1>15. Proper(r, engineTick, kind)
  BY <1>1, <1>13, <1>14 DEF Proper, Calls
<1>16. Mutate(r, engineTick, kind)
  BY <1>1, <1>2, <1>3, <1>4, <1>10, <1>11, <1>13 DEF SubmitLimit
<1> QED BY <1>15, <1>16 DEF Operates

LEMMA ModifyOperates ==
  ASSUME EngineInv, NEW id \in OrderIds, NEW a, NEW s, NEW q \in Quantities, NEW p \in Prices \cup {NoPrice},
         SubmitModify(id, a, s, q, p)
  PROVE  Operates
<1>1. PICK b, T : b = book /\ T = engineTick
  OBVIOUS
<1>2. PICK req : req = [id |-> id, agent |-> a, side |-> s, qty |-> q, price |-> p, ts |-> T]
  OBVIOUS
<1>3. Book(b) /\ SyntheticInPlace(b.orders) /\ T \in 0..MaxTick
  BY <1>1 DEF EngineInv
<1>4. req.id = id /\ req.qty \in Nat \ {0} /\ req.price \in Nat /\ req.ts \in 0..MaxTick
  BY <1>2, <1>3, Bounds DEF NoPrice
<1>5. CASE ModifyRejected(b, req)
  <2>1. PICK r : r = Unchanged(b)
    OBVIOUS
  <2>2. Sound(b.orders, r) /\ r.book = b /\ BooksKept(b, r.book)
    BY <1>3, <2>1, UnchangedSound, SelfKeeps
  <2>3. Proper(r, engineTick, "rejected")
    BY <1>1, <1>3, <2>2 DEF Proper, Calls
  <2>4. Mutate(r, engineTick, "rejected")
    BY <1>1, <1>2, <1>5, <2>1 DEF SubmitModify
  <2> QED BY <2>3, <2>4 DEF Operates
<1>6. CASE ~ModifyRejected(b, req)
  <2>1. PICK r : r = ModifyOrder(b, req)
    OBVIOUS
  <2>2. Sound(b.orders, r) /\ Kept(b.orders, r.book.orders, id) /\ BooksKept(b, r.book)
    BY <1>3, <1>4, <2>1, ModifySound
  <2>3. SyntheticInPlace(r.book.orders)
    BY <1>3, <2>2, ClientIds, KeptInPlace
  <2>4. Proper(r, engineTick, "none")
    BY <1>1, <2>2, <2>3 DEF Proper, Calls
  <2>5. Mutate(r, engineTick, "none")
    BY <1>1, <1>2, <1>6, <2>1 DEF SubmitModify
  <2> QED BY <2>4, <2>5 DEF Operates
<1> QED BY <1>5, <1>6

LEMMA CancelOperates ==
  ASSUME EngineInv, NEW id, SubmitCancel(id)
  PROVE  Operates
<1>1. PICK b, r : b = book /\ r = CancelOrder(b, id)
  OBVIOUS
<1>2. PICK other : other = AgentLevelOrderId("buy", 0, BaselineAgent)
  OBVIOUS
<1>3. Book(b) /\ SyntheticInPlace(b.orders)
  BY <1>1 DEF EngineInv
<1>4. Sound(b.orders, r) /\ Kept(b.orders, r.book.orders, other) /\ BooksKept(b, r.book)
  BY <1>1, <1>3, CancelSound, CancelKeeps
<1>5. \A s \in Sides : \A p : other # SyntheticOrderId(s, p)
  BY <1>2, AgentLevelIds
<1>6. SyntheticInPlace(r.book.orders)
  BY <1>3, <1>4, <1>5, KeptInPlace
<1>7. Proper(r, engineTick, "none")
  BY <1>1, <1>4, <1>6 DEF Proper, Calls
<1>8. Mutate(r, engineTick, "none")
  BY <1>1 DEF SubmitCancel
<1> QED BY <1>7, <1>8 DEF Operates

LEMMA SetLevelOperates ==
  ASSUME EngineInv, NEW a \in Agents, NEW s \in Sides, NEW p \in Prices, NEW q \in Quantities \cup {0},
         SetLevel(a, s, p, q)
  PROVE  Operates
<1>1. PICK b, T, id : b = book /\ T = engineTick /\ id = AgentLevelOrderId(s, p, a)
  OBVIOUS
<1>2. PICK r, context : /\ r = UpdateAgentLevel(b, s, p, q, a, id, T)
                        /\ context = IF QuotesCarryContext THEN T ELSE NoContext
  OBVIOUS
<1>3. Book(b) /\ SyntheticInPlace(b.orders) /\ T \in 0..MaxTick /\ q \in Int /\ p \in Nat \ {0}
  BY <1>1, Bounds DEF EngineInv
<1>4. Sound(b.orders, r) /\ Kept(b.orders, r.book.orders, id) /\ BooksOrTail(b, r.book)
  BY <1>2, <1>3, AgentLevelSound
<1>5. SyntheticInPlace(r.book.orders)
  BY <1>1, <1>3, <1>4, AgentLevelIds, KeptInPlace
<1>6. Proper(r, context, "requote")
  BY <1>1, <1>2, <1>4, <1>5 DEF Proper, Calls
<1>7. Mutate(r, context, "requote")
  BY <1>1, <1>2 DEF SetLevel
<1> QED BY <1>6, <1>7 DEF Operates

LEMMA SetNamedLevelOperates ==
  ASSUME EngineInv, NEW id \in OrderIds, NEW a, NEW s \in Sides, NEW p \in Prices, NEW q \in Quantities,
         SetNamedLevel(id, a, s, p, q)
  PROVE  Operates
<1>1. PICK b, T : b = book /\ T = engineTick
  OBVIOUS
<1>2. PICK r : r = UpdateAgentLevel(b, s, p, q, a, id, T)
  OBVIOUS
<1>3. Book(b) /\ SyntheticInPlace(b.orders) /\ T \in 0..MaxTick /\ q \in Int /\ p \in Nat \ {0}
  BY <1>1, Bounds DEF EngineInv
<1>4. Sound(b.orders, r) /\ Kept(b.orders, r.book.orders, id) /\ BooksOrTail(b, r.book)
  BY <1>2, <1>3, AgentLevelSound
<1>5. SyntheticInPlace(r.book.orders)
  BY <1>3, <1>4, ClientIds, KeptInPlace
<1>6. Proper(r, engineTick, "requote")
  BY <1>1, <1>4, <1>5 DEF Proper, Calls
<1>7. Mutate(r, engineTick, "requote")
  BY <1>1, <1>2 DEF SetNamedLevel
<1> QED BY <1>6, <1>7 DEF Operates

LEMMA ReplaceLevelOperates ==
  ASSUME EngineInv, NEW s \in Sides, NEW p \in Prices, NEW q \in Quantities, ReplaceLevel(s, p, q)
  PROVE  Operates
<1>1. PICK b, r : b = book /\ r = UpdateLevel(b, s, p, q, BaselineAgent)
  OBVIOUS
<1>2. Book(b) /\ SyntheticInPlace(b.orders) /\ q \in Int /\ p \in Nat \ {0}
  BY <1>1, Bounds DEF EngineInv
<1>3. Sound(b.orders, r) /\ SyntheticInPlace(r.book.orders) /\ BooksKept(b, r.book)
  BY <1>1, <1>2, UpdateLevelSound, ReplacedKeeps
<1>4. Proper(r, engineTick, "none")
  BY <1>1, <1>3 DEF Proper, Calls
<1>5. Mutate(r, engineTick, "none")
  BY <1>1 DEF ReplaceLevel
<1> QED BY <1>4, <1>5 DEF Operates

LEMMA DropLevelOperates ==
  ASSUME EngineInv, NEW s \in Sides, NEW p, DropLevel(s, p)
  PROVE  Operates
<1>1. PICK b, r : b = book /\ r = RemoveLevel(b, s, p)
  OBVIOUS
<1>2. Book(b) /\ SyntheticInPlace(b.orders)
  BY <1>1 DEF EngineInv
<1>3. Sound(b.orders, r) /\ OnlyRemoved(b.orders, r.book.orders) /\ BooksKept(b, r.book)
  <2>1. r.book.levels = StoredLevel(b.levels, s, p, << >>)
    BY <1>1, <1>2, RemoveLevelSound
  <2>2. LevelReplaced(b, r.book, s, p)
    BY <2>1 DEF LevelReplaced
  <2> QED BY <1>1, <1>2, <2>2, RemoveLevelSound, ReplacedKeeps
<1>4. SyntheticInPlace(r.book.orders)
  BY <1>2, <1>3 DEF OnlyRemoved, SyntheticInPlace
<1>5. Proper(r, engineTick, "none")
  BY <1>1, <1>3, <1>4 DEF Proper, Calls
<1>6. Mutate(r, engineTick, "none")
  BY <1>1 DEF DropLevel
<1> QED BY <1>5, <1>6 DEF Operates

LEMMA MaintainOperates ==
  ASSUME EngineInv, NEW i \in 1..BaselineLevels, NEW s \in Sides, MaintainBaselineLevel(i, s)
  PROVE  Operates
<1>1. /\ BaselineLevels \in Nat /\ LevelSpacing \in Nat /\ BaseQuantity \in Nat /\ ReferencePrice \in Nat
      /\ ReferencePrice > BaselineLevels * LevelSpacing
  BY EngineAssumption, Zenon
<1>2. PICK offset : offset = IF s = "buy" THEN - i * LevelSpacing ELSE i * LevelSpacing
  OBVIOUS
<1>3. PICK b, price, minimum : b = book /\ price = ReferencePrice + offset /\ minimum = BaseQuantity + i - 1
  OBVIOUS
<1>4. price \in Nat \ {0} /\ minimum \in Int
  <2>1. i \in Nat /\ i <= BaselineLevels
    BY <1>1
  <2>2. i * LevelSpacing <= BaselineLevels * LevelSpacing
    BY <1>1, <2>1, LadderFits
  <2>3. PICK x, y : x = i * LevelSpacing /\ y = BaselineLevels * LevelSpacing
    OBVIOUS
  <2>4. x \in Nat /\ y \in Nat
    BY <1>1, <2>1, <2>3
  <2>5. - i * LevelSpacing = - x
    BY <1>1, <2>1, <2>3
  <2>6. offset = - x \/ offset = x
    BY <1>2, <2>3, <2>5
  <2> QED BY <1>1, <1>3, <2>1, <2>2, <2>3, <2>4, <2>6
<1>5. PICK r, id : /\ r = EnsureLevelMinimum(b, s, price, minimum, BaselineAgent)
                   /\ id = AgentLevelOrderId(s, price, BaselineAgent)
  OBVIOUS
<1>6. Book(b) /\ SyntheticInPlace(b.orders)
  BY <1>3 DEF EngineInv
<1>7. Sound(b.orders, r) /\ Kept(b.orders, r.book.orders, id) /\ BooksOrTail(b, r.book)
  BY <1>4, <1>5, <1>6, TopUpSound
<1>8. SyntheticInPlace(r.book.orders)
  <2>1. \A x \in Sides : \A p : id # SyntheticOrderId(x, p)
    BY <1>5, AgentLevelIds
  <2> QED BY <1>6, <1>7, <2>1, KeptInPlace
<1>9. Proper(r, engineTick, "requote")
  BY <1>3, <1>7, <1>8 DEF Proper, Calls
<1>10. Mutate(r, engineTick, "requote")
  BY <1>2, <1>3, <1>5 DEF MaintainBaselineLevel
<1> QED BY <1>9, <1>10 DEF Operates

LEMMA SnapshotKeeps ==
  ASSUME EngineInv, RecordSnapshot
  PROVE  EngineInv'
<1>1. PICK w, n, T : w = events /\ n = latest /\ T = engineTick
  OBVIOUS
<1>2. PICK added : added = <<[seq |-> n + 1, tick |-> T]>>
  OBVIOUS
<1>3. /\ GoodWindow(w, n) /\ T \in 0..MaxTick /\ (QuotesCarryContext => InTickOrder(w, T))
      /\ n < MaxEvents /\ n \in Nat /\ MaxEvents \in Nat /\ T \in Nat
  BY <1>1, Bounds, SMTT(60) DEF EngineInv, RecordSnapshot, GoodWindow
<1>4. added \in Seq(EventRecords) /\ Len(added) = 1 /\ DOMAIN added = 1..1 /\ added[1] = [seq |-> n + 1, tick |-> T]
  <2>1. [seq |-> n + 1, tick |-> T] \in EventRecords
    BY <1>3 DEF EventRecords
  <2> QED BY <1>2, <2>1
<1>5. \A i \in DOMAIN added : added[i].seq = n + i /\ added[i].tick = T
  BY <1>4
<1>6. /\ GoodWindow(Retain(w, added), n + 1)
      /\ InTickOrder(w, T) => InTickOrder(Retain(w, added), T)
  <2>1. n + Len(added) = n + 1 /\ n + Len(added) <= MaxEvents
    BY <1>3, <1>4
  <2>2. /\ GoodWindow(Retain(w, added), n + Len(added))
        /\ InTickOrder(w, T) /\ (\A i \in DOMAIN added : added[i].tick = T)
             => InTickOrder(Retain(w, added), T)
    BY <1>3, <1>4, <1>5, <2>1, RetainWindow
  <2> QED BY <1>5, <2>1, <2>2
<1>7. /\ events' = Retain(w, added) /\ latest' = n + 1 /\ engineTick' = T /\ book' = book /\ tape' = tape
      /\ call' \in Calls
  BY <1>1, <1>2 DEF RecordSnapshot, Calls
<1> QED BY <1>1, <1>3, <1>6, <1>7 DEF EngineInv

LEMMA TickKeeps ==
  ASSUME EngineInv, NextTick
  PROVE  EngineInv'
<1>1. PICK w, T : w = events /\ T = engineTick
  OBVIOUS
<1>2. /\ engineTick' = T + 1 /\ events' = w /\ latest' = latest /\ book' = book /\ tape' = tape
      /\ call' \in Calls /\ T + 1 \in 0..MaxTick /\ T \in Nat
  BY <1>1, Bounds DEF NextTick, EngineInv, Calls
<1>3. w \in Seq(EventRecords) /\ (QuotesCarryContext => InTickOrder(w, T))
  BY <1>1 DEF EngineInv, GoodWindow
<1>4. \A i \in DOMAIN w : w[i].tick \in Nat
  <2>1. ASSUME NEW i \in DOMAIN w PROVE w[i].tick \in Nat
    <3>1. i \in 1..Len(w)
      BY <1>3, <2>1, LenProperties
    <3>2. w[i] \in EventRecords
      BY <1>3, <3>1, ElementOfSeq
    <3> QED BY <3>2, Bounds DEF EventRecords
  <2> QED BY <2>1
<1>5. QuotesCarryContext => InTickOrder(w, T + 1)
  BY <1>2, <1>3, <1>4 DEF InTickOrder
<1> QED BY <1>1, <1>2, <1>5 DEF EngineInv

LEMMA EngineStarts ==
  ASSUME EngineInit
  PROVE  EngineInv
<1>1. PICK b : b = Initialize(ReferencePrice, BaselineLevels, LevelSpacing, BaseQuantity, BaselineAgent)
  OBVIOUS
<1>2. Book(b) /\ SyntheticInPlace(b.orders) /\ \A id \in DOMAIN b.orders : b.orders[id].ts = 0
  BY <1>1, InitialBook DEF Baseline
<1>3. book = b /\ tape = b /\ engineTick = 0 /\ latest = 0 /\ events = << >> /\ call = "none"
  BY <1>1 DEF EngineInit
<1>4. Tracks(b, b.orders)
  <2>1. GoodIndex(b.orders)
    BY <1>2 DEF Book, GoodBook
  <2>2. \A id \in DOMAIN b.orders : Visible(b.orders[id]) = b.orders[id]
    <3>1. ASSUME NEW id \in DOMAIN b.orders PROVE Visible(b.orders[id]) = b.orders[id]
      <4>1. PICK o : o = b.orders[id]
        OBVIOUS
      <4>2. o = [id |-> o.id, agent |-> o.agent, side |-> o.side, qty |-> o.qty, price |-> o.price, ts |-> o.ts]
            /\ o.ts = 0
        BY <1>2, <2>1, <4>1 DEF GoodIndex, GoodOrder
      <4>3. Visible(o) = [id |-> o.id, agent |-> o.agent, side |-> o.side, qty |-> o.qty, price |-> o.price, ts |-> 0]
        BY <4>2 DEF Visible
      <4> QED BY <4>1, <4>2, <4>3
    <3> QED BY <3>1
  <2>3. VisibleMap(b.orders) = [id \in DOMAIN b.orders |-> b.orders[id]]
    BY <2>2 DEF VisibleMap
  <2>4. b.orders = VisibleMap(b.orders)
    BY <2>1, <2>3 DEF GoodIndex
  <2> QED BY <1>2, <2>1, <2>4 DEF Tracks
<1>5. GoodWindow(<< >>, 0)
  <2>1. << >> \in Seq(EventRecords) /\ Len(<< >>) = 0 /\ DOMAIN << >> = {}
    BY ListedEmpty
  <2> QED BY <2>1, Bounds DEF GoodWindow
<1>6. InTickOrder(<< >>, 0)
  BY ListedEmpty DEF InTickOrder
<1>7. engineTick \in 0..MaxTick
  BY <1>3, Bounds
<1> QED BY <1>2, <1>3, <1>4, <1>5, <1>6, <1>7 DEF EngineInv, Calls

LEMMA StutterKeeps ==
  ASSUME EngineInv, UNCHANGED engineVars
  PROVE  EngineInv'
<1>1. /\ book' = book /\ engineTick' = engineTick /\ latest' = latest /\ events' = events
      /\ call' = call /\ tape' = tape
  BY DEF engineVars
<1> QED BY <1>1 DEF EngineInv

\* Every step of the engine is an operation on the book, a snapshot or a tick.
LEMMA NextOperates ==
  ASSUME EngineInv, EngineNext
  PROVE  Operates \/ RecordSnapshot \/ NextTick
<1>1. CASE NextTick \/ RecordSnapshot
  BY <1>1
<1>3. CASE \E s \in Sides, q \in Quantities : SubmitMarket(s, q)
  BY <1>3, MarketOperates, Zenon
<1>4. CASE \E id \in OrderIds, a \in Agents, s \in Sides, q \in Quantities :
              \/ \E p \in Prices : SubmitLimit(id, a, s, q, p)
              \/ \E p \in Prices \cup {NoPrice} : SubmitModify(id, a, s, q, p)
              \/ \E p \in Prices : SetNamedLevel(id, a, s, p, q)
  <2>1. PICK id \in OrderIds, a \in Agents, s \in Sides, q \in Quantities :
              \/ \E p \in Prices : SubmitLimit(id, a, s, q, p)
              \/ \E p \in Prices \cup {NoPrice} : SubmitModify(id, a, s, q, p)
              \/ \E p \in Prices : SetNamedLevel(id, a, s, p, q)
    BY <1>4, Zenon
  <2>2. CASE \E p \in Prices : SubmitLimit(id, a, s, q, p)
    BY <2>2, LimitOperates, Zenon
  <2>3. CASE \E p \in Prices \cup {NoPrice} : SubmitModify(id, a, s, q, p)
    BY <2>3, ModifyOperates, Zenon
  <2>4. CASE \E p \in Prices : SetNamedLevel(id, a, s, p, q)
    BY <2>4, SetNamedLevelOperates, Zenon
  <2> QED BY <2>1, <2>2, <2>3, <2>4
<1>5. CASE \E id \in OrderIds \cup DOMAIN book.orders : SubmitCancel(id)
  BY <1>5, CancelOperates, Zenon
<1>6. CASE \E a \in Agents, s \in Sides, p \in Prices, q \in Quantities \cup {0} : SetLevel(a, s, p, q)
  BY <1>6, SetLevelOperates, Zenon
<1>7. CASE \E s \in Sides, p \in Prices : \/ DropLevel(s, p)
                                          \/ \E q \in Quantities : ReplaceLevel(s, p, q)
  <2>1. PICK s \in Sides, p \in Prices : \/ DropLevel(s, p)
                                          \/ \E q \in Quantities : ReplaceLevel(s, p, q)
    BY <1>7, Zenon
  <2>2. CASE DropLevel(s, p)
    BY <2>2, DropLevelOperates, Zenon
  <2>3. CASE \E q \in Quantities : ReplaceLevel(s, p, q)
    BY <2>3, ReplaceLevelOperates, Zenon
  <2> QED BY <2>1, <2>2, <2>3
<1>8. CASE \E i \in 1..BaselineLevels, s \in Sides : MaintainBaselineLevel(i, s)
  BY <1>8, MaintainOperates, Zenon
<1> QED BY <1>1, <1>3, <1>4, <1>5, <1>6, <1>7, <1>8, Zenon DEF EngineNext

LEMMA NextKeeps ==
  ASSUME EngineInv, EngineNext
  PROVE  EngineInv'
<1>1. CASE Operates
  BY <1>1, OperatesKeeps
<1>2. CASE RecordSnapshot
  BY <1>2, SnapshotKeeps
<1>3. CASE NextTick
  BY <1>3, TickKeeps
<1> QED BY <1>1, <1>2, <1>3, NextOperates

\* The invariant holds of every run of the engine: whatever the commands, the
\* book is well formed, the tape is the book that its events rebuild, and the
\* window is the newest part of the stream.
THEOREM EngineInvariant == EngineSpec => []EngineInv
<1>1. EngineInit => EngineInv
  BY EngineStarts
<1>2. EngineInv /\ [EngineNext]_engineVars => EngineInv'
  BY NextKeeps, StutterKeeps
<1> QED BY <1>1, <1>2, PTL DEF EngineSpec

(***************************************************************************)
(* What the invariant says of the book, the tape and the window.           *)
(***************************************************************************)
LEMMA OrderIsTyped ==
  ASSUME NEW o, GoodOrder(o)
  PROVE  IsOrder(o)
<1>1. PICK a, b, c, d, e, f : a = o.id /\ b = o.agent /\ c = o.side /\ d = o.qty /\ e = o.price /\ f = o.ts
  OBVIOUS
<1>2. o = [id |-> a, agent |-> b, side |-> c, qty |-> d, price |-> e, ts |-> f]
  BY <1>1 DEF GoodOrder
<1>3. DOMAIN o = {"id", "agent", "side", "qty", "price", "ts"}
  BY <1>2
<1> QED BY <1>3 DEF IsOrder, GoodOrder

\* The queue of a level, as the levels of the book hold it.
LEMMA QueueHeld ==
  ASSUME NEW b, Book(b), NEW s \in Sides, NEW p \in DOMAIN b.levels[s]
  PROVE  /\ At(b.levels, s, p) = b.levels[s][p] /\ b.levels[s][p] # << >>
         /\ GoodQueue(b.levels[s][p], b.orders, s, p)
<1>1. At(b.levels, s, p) = b.levels[s][p]
  BY DEF At
<1>2. GoodQueue(At(b.levels, s, p), b.orders, s, p)
  BY DEF Book, GoodBook
<1>3. b.levels[s][p] # << >>
  BY DEF Book, GoodBook, GoodLevels
<1> QED BY <1>1, <1>2, <1>3

BookTyped(b) ==
    /\ DOMAIN b = {"levels", "orders"}
    /\ \A id \in DOMAIN b.orders : IsOrder(b.orders[id])
    /\ \A s \in Sides : \A p \in DOMAIN b.levels[s] :
         \A i \in DOMAIN b.levels[s][p] : IsOrder(b.levels[s][p][i])

LEMMA BookIsTyped ==
  ASSUME NEW b, Book(b)
  PROVE  BookTyped(b)
<1>1. DOMAIN b = {"levels", "orders"}
  <2>1. PICK L, m : L = b.levels /\ m = b.orders
    OBVIOUS
  <2>2. b = [levels |-> L, orders |-> m]
    BY <2>1 DEF Book
  <2> QED BY <2>2
<1>2. \A id \in DOMAIN b.orders : GoodOrder(b.orders[id])
  BY DEF Book, GoodBook, GoodIndex
<1>3. ASSUME NEW s \in Sides, NEW p \in DOMAIN b.levels[s], NEW i \in DOMAIN b.levels[s][p]
      PROVE  IsOrder(b.levels[s][p][i])
  <2>1. b.levels[s][p][i].id \in DOMAIN b.orders /\ b.orders[b.levels[s][p][i].id] = b.levels[s][p][i]
    BY <1>3, QueueHeld DEF GoodQueue
  <2> QED BY <1>2, <2>1, OrderIsTyped
<1> QED BY <1>1, <1>2, <1>3, OrderIsTyped DEF BookTyped

LEMMA TypedByInv ==
  ASSUME EngineInv
  PROVE  EngineTypeOK
<1>1. PICK b, t : b = book /\ t = tape
  OBVIOUS
<1>2. Book(b) /\ Book(t)
  BY <1>1 DEF EngineInv, Tracks
<1>3. BookTyped(b) /\ BookTyped(t)
  BY <1>2, BookIsTyped
<1>4. \A c \in {b, t} :
       /\ DOMAIN c = {"levels", "orders"}
       /\ \A id \in DOMAIN c.orders : IsOrder(c.orders[id])
       /\ \A s \in Sides : \A p \in DOMAIN c.levels[s] :
            \A i \in DOMAIN c.levels[s][p] : IsOrder(c.levels[s][p][i])
  BY <1>3 DEF BookTyped
<1>5. /\ engineTick \in 0..MaxTick /\ latest \in 0..MaxEvents
      /\ events \in Seq([seq : 1..MaxEvents, tick : 0..MaxTick]) /\ call \in Calls
  BY DEF EngineInv, GoodWindow, EventRecords
<1> QED BY <1>1, <1>4, <1>5 DEF EngineTypeOK

\* An id is in a queue once.
LEMMA InQueueOnce ==
  ASSUME NEW q, NEW m, NEW s, NEW p, GoodQueue(q, m, s, p), NEW id \in IdsOf(q)
  PROVE  Cardinality({i \in DOMAIN q : q[i].id = id}) = 1
<1>1. PICK i \in DOMAIN q : q[i].id = id
  BY DEF IdsOf
<1>2. {j \in DOMAIN q : q[j].id = id} = {i}
  BY <1>1 DEF GoodQueue
<1> QED BY <1>2, FS_Singleton

LEMMA IndexMatchesByInv ==
  ASSUME EngineInv
  PROVE  IndexMatchesQueues
<1>1. PICK b : b = book
  OBVIOUS
<1>2. Book(b)
  BY <1>1 DEF EngineInv
<1>3. ASSUME NEW s \in Sides, NEW p \in DOMAIN b.levels[s]
      PROVE  LET queue == b.levels[s][p]
             IN  /\ queue # << >>
                 /\ \A i \in DOMAIN queue :
                      /\ queue[i].side = s /\ queue[i].price = p
                      /\ queue[i].id \in DOMAIN b.orders
                      /\ b.orders[queue[i].id] = queue[i]
  BY <1>2, <1>3, QueueHeld DEF GoodQueue
<1>4. ASSUME NEW id \in DOMAIN b.orders
      PROVE  LET o == b.orders[id]
                 queue == QueueAt(b, o.side, o.price)
             IN  Cardinality({i \in DOMAIN queue : queue[i].id = id}) = 1
  <2>1. PICK o, q : o = b.orders[id] /\ q = QueueAt(b, o.side, o.price)
    OBVIOUS
  <2>2. q = At(b.levels, o.side, o.price)
    BY <2>1 DEF QueueAt, At
  <2>3. o.side \in Sides
    BY <1>2, <2>1 DEF Book, GoodBook, GoodIndex, GoodOrder
  <2>4. GoodQueue(q, b.orders, o.side, o.price) /\ id \in IdsOf(q)
    BY <1>2, <2>1, <2>2, <2>3 DEF Book, GoodBook
  <2>5. Cardinality({i \in DOMAIN q : q[i].id = id}) = 1
    BY <2>4, InQueueOnce
  <2> QED BY <2>1, <2>5
<1> QED BY <1>1, <1>3, <1>4 DEF IndexMatchesQueues

LEMMA QueueIds ==
  ASSUME NEW b, Book(b), NEW s \in Sides, NEW p
  PROVE  IdsOf(At(b.levels, s, p)) = {id \in DOMAIN b.orders : b.orders[id].side = s /\ b.orders[id].price = p}
<1>1. PICK q : q = At(b.levels, s, p)
  OBVIOUS
<1>2. GoodQueue(q, b.orders, s, p)
  BY <1>1 DEF Book, GoodBook
<1>3. ASSUME NEW id \in IdsOf(q)
      PROVE  id \in DOMAIN b.orders /\ b.orders[id].side = s /\ b.orders[id].price = p
  <2>1. PICK i \in DOMAIN q : q[i].id = id
    BY <1>3 DEF IdsOf
  <2> QED BY <1>2, <2>1 DEF GoodQueue
<1>4. ASSUME NEW id \in DOMAIN b.orders, b.orders[id].side = s, b.orders[id].price = p
      PROVE  id \in IdsOf(q)
  BY <1>1, <1>4 DEF Book, GoodBook
<1> QED BY <1>1, <1>3, <1>4

LEMMA QueueLength ==
  ASSUME NEW q, NEW m, NEW s, NEW p, GoodQueue(q, m, s, p)
  PROVE  Len(q) = Cardinality(IdsOf(q))
<1>1. PICK n, T : n = Len(q) /\ T = IdsOf(q)
  OBVIOUS
<1>2. n \in Nat /\ DOMAIN q = 1..n
  BY <1>1, ListedShape DEF GoodQueue
<1>3. PICK f : f = [i \in 1..n |-> q[i].id]
  OBVIOUS
<1>4. T = {q[i].id : i \in 1..n}
  BY <1>1, <1>2 DEF IdsOf
<1>5. f \in [1..n -> T] /\ \A t \in T : \E i \in 1..n : f[i] = t
  BY <1>3, <1>4
<1>6. \A i, j \in 1..n : f[i] = f[j] => i = j
  BY <1>2, <1>3 DEF GoodQueue
<1>7. ExistsBijection(1..n, T)
  BY <1>5, <1>6, Zenon DEF ExistsBijection, Bijection, Injection, Surjection, IsInjective
<1>8. IsFiniteSet(1..n) /\ Cardinality(1..n) = n
  BY <1>2, FS_Interval
<1>9. Cardinality(T) = Cardinality(1..n)
  BY <1>7, <1>8, FS_Bijection
<1> QED BY <1>1, <1>8, <1>9

SameBook(t, b) ==
    \A s \in Sides :
      /\ DOMAIN t.levels[s] = DOMAIN b.levels[s]
      /\ \A p \in DOMAIN b.levels[s] :
           /\ Len(t.levels[s][p]) = Len(b.levels[s][p])
           /\ ToSet(t.levels[s][p])
                = {Visible(b.levels[s][p][i]) : i \in DOMAIN b.levels[s][p]}

\* A level is present exactly when an order rests there.
LEMMA LevelPresent ==
  ASSUME NEW b, Book(b), NEW s \in Sides, NEW p
  PROVE  p \in DOMAIN b.levels[s] <=> IdsOf(At(b.levels, s, p)) # {}
<1>1. CASE p \in DOMAIN b.levels[s]
  <2>1. PICK q : q = b.levels[s][p]
    OBVIOUS
  <2>2. At(b.levels, s, p) = q /\ q # << >> /\ Listed(q)
    BY <1>1, <2>1, QueueHeld DEF GoodQueue
  <2>3. Len(q) # 0 /\ Len(q) \in Nat /\ DOMAIN q = 1..Len(q)
    BY <2>2, ListedEmpty, ListedShape
  <2>4. q[1].id \in IdsOf(q)
    BY <2>3 DEF IdsOf
  <2> QED BY <1>1, <2>2, <2>4
<1>2. CASE p \notin DOMAIN b.levels[s]
  <2>1. At(b.levels, s, p) = << >>
    BY <1>2 DEF At
  <2>2. IdsOf(<< >>) = {}
    BY ListedEmpty DEF IdsOf
  <2> QED BY <1>2, <2>1, <2>2
<1> QED BY <1>1, <1>2

LEMMA SameBooks ==
  ASSUME NEW t, NEW b, Book(b), Tracks(t, b.orders)
  PROVE  SameBook(t, b)
<1>1. Book(t) /\ DOMAIN t.orders = DOMAIN b.orders /\ \A id \in DOMAIN b.orders : t.orders[id] = Visible(b.orders[id])
  BY DEF Tracks, VisibleMap
<1>2. ASSUME NEW id \in DOMAIN b.orders
      PROVE  t.orders[id].side = b.orders[id].side /\ t.orders[id].price = b.orders[id].price
  <2>1. OrderShape(b.orders[id])
    BY DEF Book, GoodBook, GoodIndex, GoodOrder, OrderShape
  <2> QED BY <1>1, <2>1, VisibleShape
<1>3. ASSUME NEW s \in Sides, NEW p
      PROVE  IdsOf(At(t.levels, s, p)) = IdsOf(At(b.levels, s, p))
  <2>1. IdsOf(At(t.levels, s, p)) = {id \in DOMAIN t.orders : t.orders[id].side = s /\ t.orders[id].price = p}
    BY <1>1, QueueIds
  <2>2. IdsOf(At(b.levels, s, p)) = {id \in DOMAIN b.orders : b.orders[id].side = s /\ b.orders[id].price = p}
    BY QueueIds
  <2> QED BY <1>1, <1>2, <2>1, <2>2
<1>4. ASSUME NEW s \in Sides
      PROVE  DOMAIN t.levels[s] = DOMAIN b.levels[s]
  <2>1. \A p : p \in DOMAIN t.levels[s] <=> p \in DOMAIN b.levels[s]
    BY <1>1, <1>3, LevelPresent
  <2> QED BY <2>1
<1>5. ASSUME NEW s \in Sides, NEW p \in DOMAIN b.levels[s]
      PROVE  /\ Len(t.levels[s][p]) = Len(b.levels[s][p])
             /\ ToSet(t.levels[s][p])
                  = {Visible(b.levels[s][p][i]) : i \in DOMAIN b.levels[s][p]}
  <2>1. PICK q, r : q = b.levels[s][p] /\ r = t.levels[s][p]
    OBVIOUS
  <2>2. p \in DOMAIN t.levels[s]
    BY <1>4
  <2>3. /\ At(b.levels, s, p) = q /\ GoodQueue(q, b.orders, s, p)
        /\ At(t.levels, s, p) = r /\ GoodQueue(r, t.orders, s, p)
    BY <1>1, <2>1, <2>2, QueueHeld
  <2>4. IdsOf(r) = IdsOf(q)
    BY <1>3, <2>3
  <2>5. Len(r) = Len(q)
    BY <2>3, <2>4, QueueLength
  <2>6. \A i \in DOMAIN q : b.orders[q[i].id] = q[i] /\ q[i].id \in DOMAIN b.orders
    BY <2>3 DEF GoodQueue
  <2>7. \A j \in DOMAIN r : t.orders[r[j].id] = r[j]
    BY <2>3 DEF GoodQueue
  <2>8. ASSUME NEW j \in DOMAIN r  PROVE \E i \in DOMAIN q : r[j] = Visible(q[i])
    <3>1. PICK i \in DOMAIN q : q[i].id = r[j].id
      BY <2>4 DEF IdsOf
    <3> QED BY <1>1, <2>6, <2>7, <3>1
  <2>9. ASSUME NEW i \in DOMAIN q  PROVE \E j \in DOMAIN r : r[j] = Visible(q[i])
    <3>1. PICK j \in DOMAIN r : q[i].id = r[j].id
      BY <2>4 DEF IdsOf
    <3> QED BY <1>1, <2>6, <2>7, <3>1
  <2>10. ToSet(r) = {Visible(q[i]) : i \in DOMAIN q}
    BY <2>8, <2>9 DEF ToSet
  <2> QED BY <2>1, <2>5, <2>10
<1> QED BY <1>4, <1>5 DEF SameBook

LEMMA TapeTracksByInv ==
  ASSUME EngineInv
  PROVE  TapeTracksBook
<1>1. PICK b, t : b = book /\ t = tape
  OBVIOUS
<1>2. Book(b) /\ Tracks(t, b.orders)
  BY <1>1 DEF EngineInv
<1>3. SameBook(t, b)
  BY <1>2, SameBooks
<1> QED BY <1>1, <1>3, SMTT(60) DEF SameBook, TapeTracksBook

LEMMA WindowByInv ==
  ASSUME EngineInv
  PROVE  WindowIsNewestSuffix
  BY DEF EngineInv, GoodWindow, WindowIsNewestSuffix

LEMMA TickReadWhole ==
  ASSUME EngineInv, QuotesCarryContext
  PROVE  EventsAtTickComplete
<1>1. PICK w, T, n : w = events /\ T = engineTick /\ n = Len(events)
  OBVIOUS
<1>2. w \in Seq(EventRecords) /\ InTickOrder(w, T)
  BY <1>1 DEF EngineInv, GoodWindow
<1>3. n \in Nat /\ DOMAIN w = 1..n
  BY <1>1, <1>2, LenProperties
<1>4. ASSUME NEW i \in DOMAIN w, w[i].tick = T, NEW j \in i..n  PROVE w[j].tick >= T
  <2>1. j \in 1..n /\ i <= j
    BY <1>3, <1>4
  <2>2. w[i].tick <= w[j].tick /\ w[j].tick \in Nat
    <3>1. w[j] \in EventRecords
      BY <1>1, <1>2, <2>1, ElementOfSeq
    <3> QED BY <1>2, <1>3, <2>1, <3>1, Bounds DEF InTickOrder, EventRecords
  <2> QED BY <1>4, <2>2
<1>5. {i \in DOMAIN w : w[i].tick = T /\ \A j \in i..n : w[j].tick >= T} = {i \in DOMAIN w : w[i].tick = T}
  BY <1>4
<1> QED BY <1>1, <1>5 DEF EventsAtTickComplete, EventsAtTick

\* Whatever commands the engine receives, in whatever order: every variable has
\* its type, the index and the queues hold the same orders, the events alone
\* rebuild the book, and the window is the newest part of the stream
\* (IntegerOrderBook, IntegerMatchingEngine.appendEvent).
THEOREM BookTapeAndWindow ==
  EngineSpec => [](EngineTypeOK /\ IndexMatchesQueues /\ TapeTracksBook /\ WindowIsNewestSuffix)
<1>1. EngineInv => EngineTypeOK /\ IndexMatchesQueues /\ TapeTracksBook /\ WindowIsNewestSuffix
  BY TypedByInv, IndexMatchesByInv, TapeTracksByInv, WindowByInv
<1> QED BY <1>1, EngineInvariant, PTL

\* And where quotes are set in a context, as the batch kernel does, a scan of the
\* current tick stops early without missing an event of it.
THEOREM BookAndTape == QuotesCarryContext => (EngineSpec => []BookAndTapeAgree)
<1>1. SUFFICES ASSUME QuotesCarryContext PROVE EngineSpec => []BookAndTapeAgree
  OBVIOUS
<1>2. EngineInv => BookAndTapeAgree
  BY <1>1, TypedByInv, IndexMatchesByInv, TapeTracksByInv, WindowByInv, TickReadWhole DEF BookAndTapeAgree
<1> QED BY <1>2, EngineInvariant, PTL

(***************************************************************************)
(* Price-time priority.                                                    *)
(***************************************************************************)
AheadIn(b, x, y) ==
    /\ x.side = y.side
    /\ \/ IF x.side = "buy" THEN x.price > y.price ELSE x.price < y.price
       \/ /\ x.price = y.price
          /\ LET queue == QueueAt(b, x.side, x.price)
             IN  \E i, j \in DOMAIN queue : i < j /\ queue[i].id = x.id /\ queue[j].id = y.id

Left(n, o) == o.id \notin DOMAIN n \/ n[o.id].side # o.side

Lost(n, o) == Left(n, o) \/ n[o.id].qty < o.qty

InPriority(b, n) ==
    \A x, y \in {b.orders[id] : id \in DOMAIN b.orders} : AheadIn(b, x, y) /\ Lost(n, y) => Left(n, x)

\* One trade takes from an order only what the orders ahead of it left over.
LEMMA PriorityKept ==
  ASSUME NEW b, Book(b), NEW aggressor, aggressor.side \in Sides, aggressor.qty \in Nat, NEW limit \in Nat,
         NEW n, n = Match(b, aggressor, limit).book.orders,
         NEW u \in DOMAIN b.orders, NEW v \in DOMAIN b.orders, NEW x, NEW y,
         x = b.orders[u], y = b.orders[v], AheadIn(b, x, y),
         v \notin DOMAIN n \/ n[v].qty < y.qty
  PROVE  u \notin DOMAIN n /\ x.side = Opposite(aggressor.side)
<1>1. PICK side, other, L, S : /\ side = aggressor.side /\ other = Opposite(side) /\ L = b.levels
                               /\ S = CrossingPlaces(b, side, limit)
  OBVIOUS
<1>2. PICK q : q = CrossingQueue(b, aggressor, limit)
  OBVIOUS
<1>3. PICK P : QueuePlaces(b, side, limit, q, P)
  BY <1>1, <1>2, CrossingQueuePlaces
<1>4. /\ \A id \in DOMAIN b.orders : id \notin IdsOf(q) => id \in DOMAIN n /\ n[id] = b.orders[id]
      /\ \A i, j \in DOMAIN q : j < i => \/ q[j].id \notin DOMAIN n
                                         \/ q[i].id \in DOMAIN n /\ n[q[i].id] = q[i]
  BY <1>2, MatchFilled DEF Filled
<1>5. /\ GoodOrder(x) /\ x.id = u /\ GoodOrder(y) /\ y.id = v
      /\ u \in IdsOf(At(L, x.side, x.price))
  BY <1>1 DEF Book, GoodBook, GoodIndex
<1>6. /\ x.price \in Nat /\ y.price \in Nat /\ y.qty \in Nat /\ x.side \in Sides /\ y.side \in Sides
      /\ ~(y.qty < y.qty)
  BY <1>5 DEF GoodOrder
<1>7. PICK l \in DOMAIN q : q[l].id = v
  <2>1. v \in IdsOf(q)
    BY <1>4, <1>6
  <2> QED BY <2>1 DEF IdsOf
<1>8. P[l] \in S /\ q[l] = OrderAt(L, side, P[l])
  BY <1>1, <1>3, <1>7 DEF QueuePlaces
<1>9. q[l] = y /\ y.side = other /\ y.price = P[l][1]
  BY <1>1, <1>7, <1>8, PlacesOrdered
<1>10. /\ P[l] = <<P[l][1], P[l][2]>> /\ P[l][1] \in DOMAIN L[other] /\ Crosses(side, P[l][1], limit)
       /\ P[l][2] \in DOMAIN L[other][P[l][1]]
  BY <1>1, <1>8, PlacesAre DEF IsPlace
<1>11. x.side = other
  BY <1>9 DEF AheadIn
<1>12. PICK queue : queue = At(L, other, x.price)
  OBVIOUS
<1>13. GoodQueue(queue, b.orders, other, x.price) /\ queue = QueueAt(b, x.side, x.price) /\ other \in Sides
  BY <1>1, <1>6, <1>11, <1>12 DEF Book, GoodBook, QueueAt, At
<1>14. /\ Crosses(side, x.price, limit)
       /\ \E i \in DOMAIN queue : queue[i].id = u /\ Precedes(other, <<x.price, i>>, P[l])
  <2>1. CASE IF x.side = "buy" THEN x.price > y.price ELSE x.price < y.price
    <3>1. Better(other, x.price, P[l][1])
      BY <1>9, <1>11, <2>1 DEF Better
    <3>2. Crosses(side, x.price, limit)
      BY <1>1, <1>6, <1>9, <1>10, <1>11, <2>1 DEF Crosses, Opposite, Sides
    <3>3. PICK i \in DOMAIN queue : queue[i].id = u
      BY <1>5, <1>11, <1>12 DEF IdsOf
    <3>4. <<x.price, i>>[1] = x.price
      OBVIOUS
    <3> QED BY <3>1, <3>2, <3>3, <3>4 DEF Precedes
  <2>2. CASE ~(IF x.side = "buy" THEN x.price > y.price ELSE x.price < y.price)
    <3>1. x.price = y.price /\ \E i, j \in DOMAIN queue : i < j /\ queue[i].id = x.id /\ queue[j].id = y.id
      BY <1>13, <2>2 DEF AheadIn
    <3>2. PICK i \in DOMAIN queue, j \in DOMAIN queue : i < j /\ queue[i].id = u /\ queue[j].id = v
      BY <1>5, <3>1
    <3>3. queue = L[other][P[l][1]]
      BY <1>9, <1>10, <1>12, <3>1 DEF At
    <3>4. P[l][2] \in DOMAIN queue /\ queue[P[l][2]].id = v
      BY <1>1, <1>7, <1>8, <1>10, <3>3 DEF OrderAt
    <3>5. P[l][2] = j
      BY <1>13, <3>2, <3>4 DEF GoodQueue
    <3>6. <<x.price, i>>[1] = P[l][1] /\ <<x.price, i>>[2] = i
      BY <1>9, <3>1
    <3>7. Crosses(side, x.price, limit)
      BY <1>9, <1>10, <3>1
    <3> QED BY <3>2, <3>5, <3>6, <3>7 DEF Precedes
  <2> QED BY <2>1, <2>2
<1>15. PICK i \in DOMAIN queue : queue[i].id = u /\ Precedes(other, <<x.price, i>>, P[l])
  BY <1>14
<1>16. PICK place : place = <<x.price, i>>
  OBVIOUS
<1>17. place[1] = x.price /\ place[2] = i /\ place = <<place[1], place[2]>>
  BY <1>16
<1>18. x.price \in DOMAIN L[other] /\ queue = L[other][x.price]
  <2>1. queue # << >>
    BY <1>15, ListedEmpty
  <2> QED BY <1>12, <2>1 DEF At
<1>19. place \in S
  BY <1>1, <1>14, <1>15, <1>17, <1>18, PlacesAre DEF IsPlace
<1>20. PICK k \in DOMAIN q : P[k] = place
  BY <1>1, <1>3, <1>19 DEF QueuePlaces
<1>21. k < l /\ q[k].id = u
  <2>1. k < l
    BY <1>1, <1>3, <1>15, <1>16, <1>20 DEF QueuePlaces
  <2>2. q[k] = OrderAt(L, side, place)
    BY <1>1, <1>3, <1>20 DEF QueuePlaces
  <2>3. q[k] = queue[i]
    BY <1>1, <1>17, <1>18, <2>2 DEF OrderAt
  <2> QED BY <1>15, <2>1, <2>3
<1>22. ~(v \in DOMAIN n /\ n[v] = y)
  BY <1>6
<1> QED BY <1>1, <1>4, <1>7, <1>9, <1>11, <1>21, <1>22

\* Nothing but a remainder of the aggressor's side is new after the trades.
RestsAfter(n, r, side) ==
    /\ DOMAIN n \subseteq DOMAIN r
    /\ \A z \in DOMAIN r : \/ z \in DOMAIN n /\ r[z] = n[z]
                           \/ z \notin DOMAIN n /\ r[z].side = side

LEMMA MatchedInPriority ==
  ASSUME NEW b, Book(b), NEW aggressor, aggressor.side \in Sides, aggressor.qty \in Nat, NEW limit \in Nat,
         NEW n, n = Match(b, aggressor, limit).book.orders, NEW r, RestsAfter(n, r, aggressor.side)
  PROVE  InPriority(b, r)
<1>1. PICK side : side = aggressor.side
  OBVIOUS
<1>2. Stays(b.orders, n)
  BY MatchFilled DEF Filled
<1>3. SUFFICES ASSUME NEW u \in DOMAIN b.orders, NEW v \in DOMAIN b.orders,
                      AheadIn(b, b.orders[u], b.orders[v]), Lost(r, b.orders[v])
               PROVE  Left(r, b.orders[u])
  BY DEF InPriority
<1>4. PICK x, y : x = b.orders[u] /\ y = b.orders[v]
  OBVIOUS
<1>5. x.id = u /\ y.id = v
  BY <1>4 DEF Book, GoodBook, GoodIndex
<1>6. v \notin DOMAIN n \/ n[v].qty < y.qty
  <2>1. SUFFICES ASSUME v \in DOMAIN n PROVE n[v].qty < y.qty
    OBVIOUS
  <2>2. v \in DOMAIN r /\ r[v] = n[v] /\ n[v].side = y.side
    BY <1>2, <1>4, <2>1 DEF RestsAfter, Stays
  <2> QED BY <1>3, <1>4, <1>5, <2>2 DEF Lost, Left
<1>7. u \notin DOMAIN n /\ x.side = Opposite(side)
  BY <1>1, <1>3, <1>4, <1>6, PriorityKept
<1>8. Opposite(side) # side
  BY <1>1 DEF Opposite, Sides
<1> QED BY <1>1, <1>4, <1>5, <1>7, <1>8 DEF RestsAfter, Left

PriorityStep == call' = "match" => InPriority(book, book'.orders)

LEMMA PriorityStepMeans ==
  ASSUME PriorityStep
  PROVE  call' = "match" =>
           \A x, y \in {book.orders[id] : id \in DOMAIN book.orders} :
             Ahead(x, y) /\ LostLots(y) => LeftBook(x)
<1>1. \A x, y : Ahead(x, y) <=> AheadIn(book, x, y)
  BY DEF Ahead, AheadIn
<1>2. \A x : LeftBook(x) <=> Left(book'.orders, x)
  BY DEF LeftBook, Left
<1>3. \A x : LostLots(x) <=> Lost(book'.orders, x)
  BY <1>2 DEF LostLots, Lost
<1> QED BY <1>1, <1>2, <1>3 DEF PriorityStep, InPriority

LEMMA MarketInPriority ==
  ASSUME EngineInv, NEW s \in Sides, NEW q \in Quantities, SubmitMarket(s, q)
  PROVE  PriorityStep
<1>1. PICK b, order, n : b = book /\ order = [side |-> s, qty |-> q] /\ n = Match(b, order, NoPrice).book.orders
  OBVIOUS
<1>2. order.side = s /\ order.qty \in Nat /\ Book(b) /\ NoPrice \in Nat
  BY <1>1, Bounds DEF EngineInv, NoPrice
<1>3. book'.orders = n
  BY <1>1 DEF SubmitMarket, Mutate
<1>4. InPriority(b, n)
  BY <1>1, <1>2, MatchedInPriority DEF RestsAfter
<1> QED BY <1>1, <1>3, <1>4 DEF PriorityStep

LEMMA LimitInPriority ==
  ASSUME EngineInv, NEW id \in OrderIds, NEW a, NEW s \in Sides, NEW q \in Quantities, NEW p \in Prices,
         SubmitLimit(id, a, s, q, p)
  PROVE  PriorityStep
<1>1. PICK b, T : b = book /\ T = engineTick
  OBVIOUS
<1>2. PICK order : order = [id |-> id, agent |-> a, side |-> s, qty |-> q, price |-> p, ts |-> T]
  OBVIOUS
<1>3. PICK m, rest : m = Match(b, order, p) /\ rest = [order EXCEPT !.qty = m.remaining]
  OBVIOUS
<1>4. PICK rests, duplicate : rests = (m.remaining > 0) /\ duplicate = (rests /\ IsDuplicate(m.book, id))
  OBVIOUS
<1>5. PICK added : added = IF rests /\ ~duplicate THEN Add(m.book, rest) ELSE Unchanged(m.book)
  OBVIOUS
<1>6. book'.orders = added.book.orders
  BY <1>1, <1>2, <1>3, <1>4, <1>5 DEF SubmitLimit, Mutate
<1>7. order.side = s /\ order.qty \in Nat /\ Book(b) /\ p \in Nat /\ T \in 0..MaxTick /\ p \in Nat \ {0}
  BY <1>1, <1>2, Bounds DEF EngineInv
<1>8. Book(m.book) /\ m.remaining \in Nat
  BY <1>3, <1>7, MatchFilled DEF Filled
<1>9. rest = [id |-> id, agent |-> a, side |-> s, qty |-> m.remaining, price |-> p, ts |-> T]
  BY <1>2, <1>3
<1>10. RestsAfter(m.book.orders, added.book.orders, s)
  <2>1. CASE rests /\ ~duplicate
    <3>0. added = Add(m.book, rest) /\ id \notin DOMAIN m.book.orders /\ m.remaining > 0
      BY <1>4, <1>5, <2>1 DEF IsDuplicate
    <3>1. GoodOrder(rest) /\ rest.id = id /\ rest.side = s
      BY <1>7, <1>8, <1>9, <3>0 DEF GoodOrder
    <3>2. added.book.orders = Put(m.book.orders, id, rest)
      BY <1>8, <3>0, <3>1, AddSound
    <3> QED BY <3>0, <3>1, <3>2 DEF RestsAfter, Put
  <2>2. CASE ~(rests /\ ~duplicate)
    <3>1. added.book = m.book
      BY <1>5, <2>2 DEF Unchanged
    <3> QED BY <3>1 DEF RestsAfter
  <2> QED BY <2>1, <2>2
<1>11. InPriority(b, added.book.orders)
  BY <1>3, <1>7, <1>10, MatchedInPriority
<1> QED BY <1>1, <1>6, <1>11 DEF PriorityStep

\* Nothing but a submit trades.
LEMMA OtherwiseNoMatch ==
  /\ RecordSnapshot \/ NextTick => call' # "match"
  /\ \A id, a, s, q, p : SubmitModify(id, a, s, q, p) \/ SetNamedLevel(id, a, s, p, q) \/ SetLevel(a, s, p, q)
                           => call' # "match"
  /\ \A id : SubmitCancel(id) => call' # "match"
  /\ \A s, p, q : DropLevel(s, p) \/ ReplaceLevel(s, p, q) => call' # "match"
  /\ \A i, s : MaintainBaselineLevel(i, s) => call' # "match"
<1>1. \A r, c : /\ Mutate(r, c, "none") => call' # "match"
                /\ Mutate(r, c, "requote") => call' # "match"
                /\ Mutate(r, c, "rejected") => call' # "match"
  BY DEF Mutate
<1>2. RecordSnapshot \/ NextTick => call' # "match"
  BY DEF RecordSnapshot, NextTick
<1>3. \A id, a, s, q, p : SubmitModify(id, a, s, q, p) => call' # "match"
  BY <1>1, Zenon DEF SubmitModify
<1>4. \A id, a, s, q, p : SetNamedLevel(id, a, s, p, q) => call' # "match"
  BY <1>1, Zenon DEF SetNamedLevel
<1>5. \A a, s, q, p : SetLevel(a, s, p, q) => call' # "match"
  BY <1>1, Zenon DEF SetLevel
<1>6. \A id : SubmitCancel(id) => call' # "match"
  BY <1>1, Zenon DEF SubmitCancel
<1>7. \A s, p : DropLevel(s, p) => call' # "match"
  BY <1>1, Zenon DEF DropLevel
<1>8. \A s, p, q : ReplaceLevel(s, p, q) => call' # "match"
  BY <1>1, Zenon DEF ReplaceLevel
<1>9. \A i, s : MaintainBaselineLevel(i, s) => call' # "match"
  BY <1>1, Zenon DEF MaintainBaselineLevel
<1> QED BY <1>2, <1>3, <1>4, <1>5, <1>6, <1>7, <1>8, <1>9, Zenon

LEMMA NextInPriority ==
  ASSUME EngineInv, EngineNext
  PROVE  PriorityStep
<1>1. CASE NextTick \/ RecordSnapshot
  BY <1>1, OtherwiseNoMatch, Zenon DEF PriorityStep
<1>2. CASE \E s \in Sides, q \in Quantities : SubmitMarket(s, q)
  BY <1>2, MarketInPriority, Zenon
<1>3. CASE \E id \in OrderIds, a \in Agents, s \in Sides, q \in Quantities :
              \/ \E p \in Prices : SubmitLimit(id, a, s, q, p)
              \/ \E p \in Prices \cup {NoPrice} : SubmitModify(id, a, s, q, p)
              \/ \E p \in Prices : SetNamedLevel(id, a, s, p, q)
  <2>1. PICK id \in OrderIds, a \in Agents, s \in Sides, q \in Quantities :
              \/ \E p \in Prices : SubmitLimit(id, a, s, q, p)
              \/ \E p \in Prices \cup {NoPrice} : SubmitModify(id, a, s, q, p)
              \/ \E p \in Prices : SetNamedLevel(id, a, s, p, q)
    BY <1>3, Zenon
  <2>2. CASE \E p \in Prices : SubmitLimit(id, a, s, q, p)
    BY <2>2, LimitInPriority, Zenon
  <2>3. CASE \E p \in Prices \cup {NoPrice} : SubmitModify(id, a, s, q, p)
    BY <2>3, OtherwiseNoMatch, Zenon DEF PriorityStep
  <2>4. CASE \E p \in Prices : SetNamedLevel(id, a, s, p, q)
    BY <2>4, OtherwiseNoMatch, Zenon DEF PriorityStep
  <2> QED BY <2>1, <2>2, <2>3, <2>4
<1>4. CASE \E id \in OrderIds \cup DOMAIN book.orders : SubmitCancel(id)
  BY <1>4, OtherwiseNoMatch, Zenon DEF PriorityStep
<1>5. CASE \E a \in Agents, s \in Sides, p \in Prices, q \in Quantities \cup {0} : SetLevel(a, s, p, q)
  BY <1>5, OtherwiseNoMatch, Zenon DEF PriorityStep
<1>6. CASE \E s \in Sides, p \in Prices : \/ DropLevel(s, p)
                                          \/ \E q \in Quantities : ReplaceLevel(s, p, q)
  BY <1>6, OtherwiseNoMatch, Zenon DEF PriorityStep
<1>7. CASE \E i \in 1..BaselineLevels, s \in Sides : MaintainBaselineLevel(i, s)
  BY <1>7, OtherwiseNoMatch, Zenon DEF PriorityStep
<1> QED BY <1>1, <1>2, <1>3, <1>4, <1>5, <1>6, <1>7, Zenon DEF EngineNext

\* No trade takes lots from an order while one of a better price, or an older one
\* of its price, is left on that side of the book, in whatever state the
\* commands have brought the book (IntegerOrderBook.match).
THEOREM TradesInPriority == EngineSpec => PriceTimePriority
<1>1. EngineInv /\ [EngineNext]_engineVars
        => [call' = "match" =>
              \A x, y \in {book.orders[id] : id \in DOMAIN book.orders} :
                Ahead(x, y) /\ LostLots(y) => LeftBook(x)]_engineVars
  <2>1. SUFFICES ASSUME EngineInv, EngineNext
                 PROVE  call' = "match" =>
                          \A x, y \in {book.orders[id] : id \in DOMAIN book.orders} :
                            Ahead(x, y) /\ LostLots(y) => LeftBook(x)
    OBVIOUS
  <2>2. PriorityStep
    BY <2>1, NextInPriority
  <2> QED BY <2>2, PriorityStepMeans
<1> QED BY <1>1, EngineInvariant, PTL DEF EngineSpec, PriceTimePriority

(***************************************************************************)
(* Places in a queue.                                                      *)
(***************************************************************************)
OrderStep == BooksKept(book, book') \/ (call' = "requote" /\ BooksOrTail(book, book'))

LEMMA OperatesInOrder ==
  ASSUME Operates
  PROVE  OrderStep
<1>1. PICK r, context, kind : Proper(r, context, kind) /\ Mutate(r, context, kind)
  BY DEF Operates
<1>2. book' = r.book /\ call' = kind
  BY <1>1 DEF Mutate
<1> QED BY <1>1, <1>2 DEF Proper, OrderStep

LEMMA NextInOrder ==
  ASSUME EngineInv, EngineNext
  PROVE  OrderStep
<1>1. CASE Operates
  BY <1>1, OperatesInOrder
<1>2. CASE RecordSnapshot \/ NextTick
  <2>1. PICK b : b = book
    OBVIOUS
  <2>2. book' = b /\ BooksKept(b, b)
    BY <1>2, <2>1, SelfKeeps DEF RecordSnapshot, NextTick, EngineInv
  <2> QED BY <2>1, <2>2 DEF OrderStep
<1> QED BY <1>1, <1>2, NextOperates

LEMMA OrderStepMeans ==
  ASSUME OrderStep
  PROVE  \A s \in Sides : \A p \in DOMAIN book.levels[s] :
           LET old == book.levels[s][p]
               new == IF p \in DOMAIN book'.levels[s] THEN book'.levels[s][p] ELSE << >>
           IN  \A i, j \in DOMAIN old : \A k, l \in DOMAIN new :
                 /\ i < j /\ l < k
                 /\ old[i].id = new[k].id /\ old[j].id = new[l].id
                 => call' = "requote" /\ k = Len(new)
<1>1. PICK b, c, kind : b = book /\ c = book' /\ kind = call'
  OBVIOUS
<1>2. BooksKept(b, c) \/ (kind = "requote" /\ BooksOrTail(b, c))
  BY <1>1 DEF OrderStep
<1>3. ASSUME NEW s \in Sides, NEW p \in DOMAIN b.levels[s]
      PROVE  LET old == b.levels[s][p]
                 new == IF p \in DOMAIN c.levels[s] THEN c.levels[s][p] ELSE << >>
             IN  \A i, j \in DOMAIN old : \A k, l \in DOMAIN new :
                   /\ i < j /\ l < k
                   /\ old[i].id = new[k].id /\ old[j].id = new[l].id
                   => kind = "requote" /\ k = Len(new)
  <2>1. PICK old, new : old = b.levels[s][p] /\ new = IF p \in DOMAIN c.levels[s] THEN c.levels[s][p] ELSE << >>
    OBVIOUS
  <2>2. old = At(b.levels, s, p) /\ new = At(c.levels, s, p)
    BY <2>1 DEF At
  <2>3. OrderKept(old, new) \/ (kind = "requote" /\ OrAtTail(old, new))
    BY <1>2, <2>2 DEF BooksKept, BooksOrTail
  <2>4. \A i, j \in DOMAIN old : \A k, l \in DOMAIN new :
          Overtakes(old, new, i, j, k, l) => kind = "requote" /\ k = Len(new)
    BY <2>3 DEF OrderKept, OrAtTail
  <2> QED BY <2>1, <2>4 DEF Overtakes
<1> QED BY <1>1, <1>3

\* An order is overtaken in its queue only by its own requote to the tail, in
\* whatever state the commands have brought the book (IntegerOrderBook).
THEOREM PlacesAreKept == EngineSpec => OvertakenOnlyByRequote
<1>1. EngineInv /\ [EngineNext]_engineVars
        => [\A s \in Sides : \A p \in DOMAIN book.levels[s] :
              LET old == book.levels[s][p]
                  new == IF p \in DOMAIN book'.levels[s] THEN book'.levels[s][p] ELSE << >>
              IN  \A i, j \in DOMAIN old : \A k, l \in DOMAIN new :
                    /\ i < j /\ l < k
                    /\ old[i].id = new[k].id /\ old[j].id = new[l].id
                    => call' = "requote" /\ k = Len(new)]_engineVars
  <2>1. SUFFICES ASSUME EngineInv, EngineNext
                 PROVE  \A s \in Sides : \A p \in DOMAIN book.levels[s] :
                          LET old == book.levels[s][p]
                              new == IF p \in DOMAIN book'.levels[s] THEN book'.levels[s][p] ELSE << >>
                          IN  \A i, j \in DOMAIN old : \A k, l \in DOMAIN new :
                                /\ i < j /\ l < k
                                /\ old[i].id = new[k].id /\ old[j].id = new[l].id
                                => call' = "requote" /\ k = Len(new)
    OBVIOUS
  <2>2. OrderStep
    BY <2>1, NextInOrder
  <2> QED BY <2>2, OrderStepMeans
<1> QED BY <1>1, EngineInvariant, PTL DEF EngineSpec, OvertakenOnlyByRequote

(***************************************************************************)
(* What a match takes.                                                     *)
(***************************************************************************)
LEMMA QueueHasCrossing ==
  ASSUME NEW b, Book(b), NEW aggressor, aggressor.side \in Sides, NEW limit \in Nat
  PROVE  IdsOf(CrossingQueue(b, aggressor, limit)) = CrossingIds(b, aggressor.side, limit)
<1>1. PICK side, other, L, S, q :
        /\ side = aggressor.side /\ other = Opposite(side) /\ L = b.levels
        /\ S = CrossingPlaces(b, side, limit) /\ q = CrossingQueue(b, aggressor, limit)
  OBVIOUS
<1>2. PICK P : QueuePlaces(b, side, limit, q, P)
  BY <1>1, CrossingQueuePlaces
<1>3. /\ other # side /\ other \in Sides /\ \A s \in Sides : s # side => s = other
      /\ \A p : Crosses(side, p, limit) <=> \/ limit = NoPrice
                                            \/ side = "buy" /\ p <= limit
                                            \/ side = "sell" /\ p >= limit
  BY <1>1 DEF Opposite, Sides, Crosses
<1>4. ASSUME NEW k \in DOMAIN q  PROVE q[k].id \in CrossingIds(b, side, limit)
  <2>1. P[k] \in S /\ q[k] = OrderAt(L, side, P[k])
    BY <1>1, <1>2 DEF QueuePlaces
  <2>2. /\ q[k].id \in DOMAIN b.orders /\ b.orders[q[k].id] = q[k]
        /\ q[k].side = other /\ q[k].price = P[k][1]
    BY <1>1, <2>1, PlacesOrdered
  <2>3. Crosses(side, P[k][1], limit)
    BY <1>1, <2>1, PlacesAre DEF IsPlace
  <2> QED BY <1>3, <2>2, <2>3 DEF CrossingIds
<1>5. ASSUME NEW id \in CrossingIds(b, side, limit)  PROVE id \in IdsOf(q)
  <2>1. PICK o : o = b.orders[id]
    OBVIOUS
  <2>2. id \in DOMAIN b.orders /\ o.side # side /\ Crosses(side, o.price, limit)
    BY <1>3, <2>1 DEF CrossingIds
  <2>3. o.side \in Sides /\ id \in IdsOf(At(L, o.side, o.price))
    BY <1>1, <2>1, <2>2 DEF Book, GoodBook, GoodIndex, GoodOrder
  <2>4. o.side = other
    BY <1>3, <2>2, <2>3
  <2>5. PICK queue : queue = At(L, other, o.price)
    OBVIOUS
  <2>6. PICK i \in DOMAIN queue : queue[i].id = id
    BY <2>3, <2>4, <2>5 DEF IdsOf
  <2>7. o.price \in DOMAIN L[other] /\ queue = L[other][o.price]
    <3>1. queue # << >>
      BY <2>6, ListedEmpty
    <3> QED BY <2>5, <3>1 DEF At
  <2>8. PICK place : place = <<o.price, i>>
    OBVIOUS
  <2>9. place[1] = o.price /\ place[2] = i /\ place = <<place[1], place[2]>>
    BY <2>8
  <2>10. place \in S
    BY <1>1, <2>2, <2>6, <2>7, <2>9, PlacesAre DEF IsPlace
  <2>11. PICK k \in DOMAIN q : P[k] = place
    BY <1>1, <1>2, <2>10 DEF QueuePlaces
  <2>12. q[k] = OrderAt(L, side, place)
    BY <1>1, <1>2, <2>11 DEF QueuePlaces
  <2>13. q[k] = queue[i]
    BY <1>1, <2>7, <2>9, <2>12 DEF OrderAt
  <2> QED BY <2>6, <2>11, <2>13 DEF IdsOf
<1>6. IdsOf(q) \subseteq CrossingIds(b, side, limit)
  BY <1>4 DEF IdsOf
<1> QED BY <1>1, <1>5, <1>6

LEMMA TotalIs ==
  ASSUME NEW q, Listed(q)
  PROVE  \E f : SummedTo(f, Len(q), q) /\ TotalQty(q) = f[Len(q)]
<1>1. Len(q) \in Nat
  BY ListedShape
<1>2. PICK f : f = CHOOSE g : SummedTo(g, Len(q), q)
  OBVIOUS
<1>3. SummedTo(f, Len(q), q)
  BY <1>1, <1>2, SumExists
<1>4. TotalQty(q) = f[Len(q)]
  BY <1>2 DEF TotalQty, SummedTo
<1> QED BY <1>3, <1>4

LEMMA MatchIs ==
  ASSUME NEW b, NEW aggressor, NEW limit, NEW q, q = CrossingQueue(b, aggressor, limit), Listed(q)
  PROVE  \E f : /\ FilledTo(f, Len(q), [remaining |-> aggressor.qty, book |-> b, execs |-> << >>], q)
                /\ Match(b, aggressor, limit) = f[Len(q)]
<1> DEFINE start == [remaining |-> aggressor.qty, book |-> b, execs |-> << >>]
<1>1. Len(q) \in Nat
  BY ListedShape
<1>2. PICK f : f = CHOOSE g : FilledTo(g, Len(q), start, q)
  OBVIOUS
<1>3. FilledTo(f, Len(q), start, q)
  BY <1>1, <1>2, FilledExists
<1>4. Match(b, aggressor, limit) = f[Len(q)]
  BY <1>2 DEF Match, FilledTo
<1> QED BY <1>3, <1>4

Rest(have, lots) == IF have > lots THEN have - lots ELSE 0

LEMMA MatchRemains ==
  ASSUME NEW b, Book(b), NEW aggressor, aggressor.side \in Sides, aggressor.qty \in Nat, NEW limit,
         NEW q, q = CrossingQueue(b, aggressor, limit)
  PROVE  Match(b, aggressor, limit).remaining = Rest(aggressor.qty, TotalQty(q))
<1>1. Listed(q) /\ \A k \in DOMAIN q : q[k].id \in DOMAIN b.orders /\ b.orders[q[k].id] = q[k]
  BY CrossingQueueIs
<1>2. Len(q) \in Nat /\ DOMAIN q = 1..Len(q)
  BY <1>1, ListedShape
<1>3. \A k \in 1..Len(q) : q[k].qty \in Nat
  BY <1>1, <1>2 DEF Book, GoodBook, GoodIndex, GoodOrder
<1>4. PICK n, start : n = Len(q) /\ start = [remaining |-> aggressor.qty, book |-> b, execs |-> << >>]
  OBVIOUS
<1>5. PICK f : FilledTo(f, n, start, q) /\ Match(b, aggressor, limit) = f[n]
  BY <1>1, <1>4, MatchIs
<1>6. PICK g : SummedTo(g, n, q) /\ TotalQty(q) = g[n]
  BY <1>1, <1>4, TotalIs
<1>7. /\ \A k \in 0..n : f[k] = IF k = 0 THEN start ELSE Fill(f[k - 1], q[k])
      /\ \A k \in 0..n : g[k] = IF k = 0 THEN 0 ELSE g[k - 1] + q[k].qty
  BY <1>5, <1>6 DEF FilledTo, SummedTo
<1> DEFINE ok(k) == g[k] \in Nat /\ f[k].remaining = Rest(aggressor.qty, g[k])
<1> DEFINE bad == {k \in 0..n : ~ok(k)}
<1>8. ASSUME bad # {} PROVE FALSE
  <2>0. bad \in SUBSET Nat
    BY <1>2, <1>4
  <2>1. PICK k \in bad : \A j \in bad : k <= j
    BY <1>8, <2>0, LeastNumber
  <2>2. k \in 0..n /\ ~ok(k)
    BY <2>1
  <2>3. ok(0)
    <3>1. f[0] = start /\ g[0] = 0
      BY <1>2, <1>4, <1>7
    <3>2. start.remaining = aggressor.qty
      BY <1>4
    <3> QED BY <3>1, <3>2 DEF Rest
  <2>4. k # 0
    BY <2>2, <2>3
  <2>5. k \in 1..n /\ k - 1 \in 0..n /\ k - 1 < k
    BY <1>2, <1>4, <2>2, <2>4
  <2>6. ok(k - 1)
    BY <2>1, <2>5
  <2>7. PICK have, sum, lots, acc : /\ have = aggressor.qty /\ sum = g[k - 1] /\ lots = q[k].qty
                                    /\ acc = f[k - 1]
    OBVIOUS
  <2>8. /\ have \in Nat /\ sum \in Nat /\ lots \in Nat /\ acc.remaining = Rest(have, sum)
        /\ g[k] = sum + lots /\ f[k] = Fill(acc, q[k])
    BY <1>3, <1>4, <1>7, <2>2, <2>4, <2>5, <2>6, <2>7
  <2>9. Fill(acc, q[k]).remaining = IF acc.remaining = 0 THEN acc.remaining
                                    ELSE acc.remaining - (IF acc.remaining < lots THEN acc.remaining ELSE lots)
    BY <2>7 DEF Fill
  <2>10. f[k].remaining = Rest(have, sum + lots)
    BY <2>8, <2>9 DEF Rest
  <2> QED BY <2>2, <2>7, <2>8, <2>10
<1>9. n \in 0..n
  BY <1>2, <1>4
<1>10. ok(n)
  BY <1>8, <1>9
<1> QED BY <1>5, <1>6, <1>10

\* Matching takes all that the order crosses, or all of the order.
TakesAll(b, aggressor, limit) ==
    LET queue == CrossingQueue(b, aggressor, limit)
        m == Match(b, aggressor, limit)
    IN  /\ IdsOf(queue) = CrossingIds(b, aggressor.side, limit)
        /\ m.remaining = Rest(aggressor.qty, TotalQty(queue))
        /\ m.remaining > 0 => CrossingIds(m.book, aggressor.side, limit) = {}

LEMMA MatchTakes ==
  ASSUME NEW b, Book(b), NEW aggressor, aggressor.side \in Sides, aggressor.qty \in Nat, NEW limit \in Nat
  PROVE  TakesAll(b, aggressor, limit)
<1>1. PICK side, q, m : /\ side = aggressor.side /\ q = CrossingQueue(b, aggressor, limit)
                        /\ m = Match(b, aggressor, limit)
  OBVIOUS
<1>2. IdsOf(q) = CrossingIds(b, side, limit)
  BY <1>1, QueueHasCrossing
<1>3. m.remaining = Rest(aggressor.qty, TotalQty(q))
  BY <1>1, MatchRemains
<1>4. Listed(q) /\ Stays(b.orders, m.book.orders)
      /\ (m.remaining > 0 => \A j \in DOMAIN q : j <= Len(q) => q[j].id \notin DOMAIN m.book.orders)
  BY <1>1, MatchFilled DEF Filled
<1>5. ASSUME m.remaining > 0, NEW x \in CrossingIds(m.book, side, limit)  PROVE FALSE
  <2>1. x \in DOMAIN m.book.orders /\ x \in CrossingIds(b, side, limit)
    BY <1>4, <1>5 DEF Stays, CrossingIds
  <2>2. PICK j \in DOMAIN q : q[j].id = x
    BY <1>2, <2>1 DEF IdsOf
  <2>3. j <= Len(q)
    BY <1>4, <2>2, ListedShape
  <2> QED BY <1>4, <1>5, <2>1, <2>2, <2>3
<1> QED BY <1>1, <1>2, <1>3, <1>5 DEF TakesAll

\* From every book the engine can reach, matching walks through exactly the orders
\* that cross and stops only when they or the incoming lots are gone
\* (IntegerOrderBook.match).
THEOREM MatchingTakesAll == EngineSpec => []MatchTakesAll
<1>1. EngineInv => MatchTakesAll
  <2>1. SUFFICES ASSUME EngineInv, NEW s \in Sides, NEW q \in Quantities, NEW limit \in Prices \cup {NoPrice}
                 PROVE  LET order == Probe(s, q, limit)
                            queue == CrossingQueue(book, order, limit)
                            m == Match(book, order, limit)
                        IN  /\ IdsOf(queue) = CrossingIds(book, s, limit)
                            /\ m.remaining = IF q > TotalQty(queue) THEN q - TotalQty(queue) ELSE 0
                            /\ m.remaining > 0 => CrossingIds(m.book, s, limit) = {}
    BY DEF MatchTakesAll
  <2>2. PICK b, tick, order : /\ b = book /\ tick = engineTick
                               /\ order = [id |-> <<"probe", s, q, "">>, agent |-> BaselineAgent,
                                           side |-> s, qty |-> q, price |-> limit, ts |-> tick]
    OBVIOUS
  <2>3. order = Probe(s, q, limit)
    BY <2>2 DEF Probe
  <2>5. Book(b)
    BY <2>1, <2>2 DEF EngineInv
  <2>6. order.side \in Sides /\ order.side = s /\ order.qty = q
    BY <2>2
  <2>7. q \in Nat
    BY Bounds
  <2>8. limit \in Nat
    BY Bounds DEF NoPrice
  <2>4. TakesAll(b, order, limit)
    BY <2>5, <2>6, <2>7, <2>8, MatchTakes
  <2> QED BY <2>2, <2>3, <2>4, <2>6 DEF TakesAll, Rest
<1> QED BY <1>1, EngineInvariant, PTL

(***************************************************************************)
(* PublishedIsDurable is not inductive: a flush may be repeated after it   *)
(* failed, so the step that replaces the manifest must be known never to   *)
(* lower it.  It does not, because the rows that still wait are always     *)
(* beyond the manifest, and so is the sequence the archive has reached.    *)
(***************************************************************************)
BeyondManifest ==
  stream # NoStream =>
    /\ manifest[stream] <= persisted
    /\ \A i \in 1..Len(pending) : pending[i] > manifest[stream]

HolderHasStream ==
  phase \in {"tick", "write", "manifest"} \/ Len(pending) > 0 => stream # NoStream

FlushHasRows ==
  /\ phase = "write" => cursor < Len(pending)
  /\ phase = "tick" => Len(pending) > 0
  /\ phase = "manifest" => pending = <<>>
  /\ phase # "write" => cursor = 0

FutureStreamsEmpty ==
  \A s \in Streams : s > created => published[s] = 0 /\ manifest[s] = 0

DurableInv ==
  /\ TypeOK
  /\ PublishedIsDurable
  /\ BeyondManifest
  /\ HolderHasStream
  /\ FlushHasRows
  /\ FutureStreamsEmpty

\* The current stream, when there is one, is a directory with a manifest.
LEMMA CurrentIsStored ==
  TypeOK /\ stream # NoStream =>
    stream \in stored /\ stream \in Streams /\ stream <= created /\ manifest[stream] \in Nat
BY StreamAssumption DEF TypeOK, Streams, NoStream

\* The initial state: one empty stream.
LEMMA DurableInit == Init => DurableInv
<1> SUFFICES ASSUME Init PROVE DurableInv
  OBVIOUS
<1> USE StreamAssumption DEF Init, Streams, NoStream
<1>1. pending \in Seq(Nat) /\ Len(pending) = 0
  OBVIOUS
<1>2. TypeOK
  <2>1. running \in BOOLEAN /\ closing \in BOOLEAN /\ phase \in Phases
    BY DEF Phases
  <2>2. /\ engine \in Nat /\ persisted \in Nat /\ bytes \in Nat /\ created \in Streams
        /\ cursor \in 0..Len(pending) /\ faults \in Nat
    BY <1>1
  <2>3. stream \in stored \cup {NoStream} /\ stored \in SUBSET (1..created)
    OBVIOUS
  <2>4. manifest \in [Streams -> Nat] /\ published \in [Streams -> Nat]
    OBVIOUS
  <2>5. damaged \in SUBSET Streams
    OBVIOUS
  <2> QED
    BY <1>1, <2>1, <2>2, <2>3, <2>4, <2>5 DEF TypeOK
<1>3. PublishedIsDurable /\ FutureStreamsEmpty /\ HolderHasStream /\ FlushHasRows
  BY DEF PublishedIsDurable, FutureStreamsEmpty, HolderHasStream, FlushHasRows
<1>4. BeyondManifest
  BY <1>1 DEF BeyondManifest
<1> QED
  BY <1>2, <1>3, <1>4 DEF DurableInv

\* Appending one row keeps every row beyond the manifest.
LEMMA DurableEmit == DurableInv /\ EmitEvent => DurableInv'
<1> SUFFICES ASSUME DurableInv, EmitEvent PROVE DurableInv'
  OBVIOUS
<1> USE DEF DurableInv, TypeOK, Phases, disk, ghosts
<1>1. CASE AcceptsNext
  <2>1. /\ pending' = Append(pending, engine + 1) /\ engine' = engine + 1
        /\ phase' = "tick" /\ engine = persisted + Len(pending) /\ stream # NoStream
    BY <1>1 DEF EmitEvent, AcceptsNext
  <2>2. /\ pending' \in Seq(Nat) /\ Len(pending') = Len(pending) + 1
        /\ \A i \in 1..Len(pending) : pending'[i] = pending[i]
        /\ pending'[Len(pending) + 1] = engine + 1
    BY <2>1
  <2>3. TypeOK'
    BY <2>1, <2>2 DEF EmitEvent
  <2>4. BeyondManifest'
    BY <2>1, <2>2, CurrentIsStored, SMTT(60) DEF EmitEvent, BeyondManifest
  <2> QED
    BY <2>1, <2>3, <2>4 DEF EmitEvent, PublishedIsDurable, HolderHasStream,
                            FlushHasRows, FutureStreamsEmpty
<1>2. CASE ~AcceptsNext
  BY <1>2 DEF EmitEvent, PublishedIsDurable, BeyondManifest, HolderHasStream,
              FlushHasRows, FutureStreamsEmpty
<1> QED
  BY <1>1, <1>2

\* The rows a flush has yet to write are the end of the pending rows.
LEMMA SuffixOfSeq ==
  ASSUME NEW S, NEW s \in Seq(S), NEW c \in Nat, c < Len(s)
  PROVE  /\ SubSeq(s, c + 1, Len(s)) \in Seq(S)
         /\ Len(SubSeq(s, c + 1, Len(s))) = Len(s) - c
         /\ \A i \in 1..(Len(s) - c) : SubSeq(s, c + 1, Len(s))[i] = s[c + i]
<1> DEFINE T == SubSeq(s, c + 1, Len(s))
<1>1. Len(s) \in Int /\ c + 1 \in Int /\ \A i \in (c + 1)..Len(s) : s[i] \in S
  OBVIOUS
<1>2. /\ T \in Seq(S)
      /\ Len(T) = IF c + 1 <= Len(s) THEN Len(s) - (c + 1) + 1 ELSE 0
      /\ \A i \in 1..(Len(s) - (c + 1) + 1) : T[i] = s[c + 1 + i - 1]
  BY <1>1, SubSeqProperties DEF T
<1> HIDE DEF T
<1>3. ASSUME NEW i \in 1..(Len(s) - c) PROVE T[i] = s[c + i]
  <2>1. i \in 1..(Len(s) - (c + 1) + 1) /\ c + 1 + i - 1 = c + i
    BY <1>1
  <2> QED
    BY <1>2, <2>1
<1>4. Len(T) = Len(s) - c
  BY <1>1, <1>2
<1> QED
  BY <1>2, <1>3, <1>4 DEF T

\* The last row of a batch is one of the pending rows.
LEMMA BatchRow ==
  ASSUME DurableInv, phase = "write", NEW n \in 1..Len(pending), IsBatch(Unwritten, n)
  PROVE  /\ cursor + n \in 1..Len(pending)
         /\ Unwritten[n] = pending[cursor + n]
         /\ Len(Unwritten) = Len(pending) - cursor
         /\ Unwritten[1] = pending[cursor + 1]
<1>1. pending \in Seq(Nat) /\ cursor \in Nat /\ cursor < Len(pending)
  BY DEF DurableInv, TypeOK, FlushHasRows
<1>2. /\ Len(Unwritten) = Len(pending) - cursor
      /\ \A i \in 1..(Len(pending) - cursor) : Unwritten[i] = pending[cursor + i]
      /\ Unwritten \in Seq(Nat)
  BY <1>1, SuffixOfSeq DEF Unwritten
<1>3. n \in 1..(Len(pending) - cursor)
  BY <1>2 DEF IsBatch
<1>4. Unwritten[n] = pending[cursor + n]
  BY <1>2, <1>3
<1>5. Unwritten[1] = pending[cursor + 1]
  <2>1. 1 \in 1..(Len(pending) - cursor)
    BY <1>1
  <2> QED
    BY <1>2, <2>1
<1>6. cursor + n \in 1..Len(pending)
  BY <1>1, <1>3
<1> QED
  BY <1>2, <1>4, <1>5, <1>6

\* A batch moves the archive to a row beyond the manifest.
LEMMA DurableWrite ==
  ASSUME DurableInv, NEW n \in 1..Len(pending), WriteBatch(n)
  PROVE  DurableInv'
<1> USE DEF DurableInv, TypeOK, Phases, ghosts
<1>1. phase = "write" /\ IsBatch(Unwritten, n) /\ stream # NoStream
  BY DEF WriteBatch, HolderHasStream
<1>2. /\ cursor + n \in 1..Len(pending)
      /\ persisted' = pending[cursor + n]
  BY <1>1, BatchRow DEF WriteBatch
<1>3. persisted' \in Nat /\ persisted' > manifest[stream] /\ manifest[stream] \in Nat
  <2>1. manifest[stream] \in Nat
    BY <1>1, CurrentIsStored
  <2>2. pending[cursor + n] > manifest[stream]
    BY <1>1, <1>2 DEF BeyondManifest
  <2>3. pending[cursor + n] \in Nat
    <3>1. pending \in Seq(Nat)
      OBVIOUS
    <3> QED
      BY <1>2, <3>1
  <2> QED
    BY <1>2, <2>1, <2>2, <2>3
<1>a. pending' \in Seq(Nat) /\ (pending' = pending \/ Len(pending') = 0)
  BY EmptySeq DEF WriteBatch
<1>b. cursor' \in 0..Len(pending') /\ bytes' \in Nat
  BY <1>2 DEF WriteBatch
<1>4. TypeOK'
  BY <1>3, <1>a, <1>b DEF WriteBatch
<1>5. BeyondManifest'
  <2>1. UNCHANGED <<stream, manifest>>
    BY DEF WriteBatch
  <2>2. CASE pending' = pending
    BY <1>1, <1>3, <2>1, <2>2 DEF BeyondManifest
  <2>3. CASE Len(pending') = 0
    BY <1>3, <2>1, <2>3 DEF BeyondManifest
  <2> QED
    BY <1>a, <2>2, <2>3
<1>6. FlushHasRows'
  BY <1>2 DEF WriteBatch, FlushHasRows
<1> QED
  BY <1>4, <1>5, <1>6 DEF WriteBatch, PublishedIsDurable, HolderHasStream,
                          FutureStreamsEmpty

\* The manifest only ever moves forward, and the tick is published with it.
LEMMA DurableManifest == DurableInv /\ WriteManifest => DurableInv'
<1> SUFFICES ASSUME DurableInv, WriteManifest PROVE DurableInv'
  OBVIOUS
<1> USE DEF DurableInv, TypeOK, Phases, archive
<1>1. stream \in stored /\ stream \in Streams /\ stream <= created
  BY CurrentIsStored DEF WriteManifest, HolderHasStream
<1>2. /\ manifest' = [manifest EXCEPT ![stream] = persisted]
      /\ manifest' \in [Streams -> Nat] /\ manifest'[stream] = persisted
      /\ \A s \in Streams : s # stream => manifest'[s] = manifest[s]
  BY <1>1 DEF WriteManifest
<1>3. /\ published' \in [Streams -> Nat]
      /\ published'[stream] \in {published[stream], persisted}
      /\ \A s \in Streams : s # stream => published'[s] = published[s]
  BY <1>1 DEF WriteManifest
<1>4. TypeOK'
  BY <1>2, <1>3 DEF WriteManifest, Leave, Abort
<1>5. PublishedIsDurable'
  BY <1>1, <1>2, <1>3 DEF WriteManifest, PublishedIsDurable, BeyondManifest, Streams, NoStream
<1>6. BeyondManifest' /\ FlushHasRows' /\ HolderHasStream'
  BY <1>1, <1>2 DEF WriteManifest, BeyondManifest, FlushHasRows, HolderHasStream,
                    Leave, Abort
<1>7. FutureStreamsEmpty'
  BY <1>1, <1>2, <1>3, CurrentIsStored DEF WriteManifest, FutureStreamsEmpty
<1> QED
  BY <1>4, <1>5, <1>6, <1>7

\* A new stream starts with nothing published, nothing pending and manifest 0.
LEMMA DurableBegin == DurableInv /\ BeginStream => DurableInv'
<1> SUFFICES ASSUME DurableInv, BeginStream PROVE DurableInv'
  OBVIOUS
<1> USE StreamAssumption DEF DurableInv, TypeOK, Phases, ghosts, Streams, NoStream
<1>1. created' = created + 1 /\ created + 1 \in Streams /\ stream' = created + 1
  BY DEF BeginStream
<1>a. pending' \in Seq(Nat) /\ Len(pending') = 0
  BY DEF BeginStream
<1>b. stored' \in SUBSET (1..created') /\ stream' \in stored' \cup {NoStream}
  BY <1>1 DEF BeginStream
<1>2. TypeOK'
  <2>1. running' \in BOOLEAN /\ closing' \in BOOLEAN /\ phase' \in Phases
    BY DEF BeginStream
  <2>2. /\ engine' \in Nat /\ persisted' \in Nat /\ bytes' \in Nat
        /\ cursor' \in 0..Len(pending')
    BY <1>a DEF BeginStream
  <2>3. UNCHANGED <<manifest, published, damaged, faults>>
    BY DEF BeginStream
  <2> QED
    BY <1>1, <1>a, <1>b, <2>1, <2>2, <2>3
<1>3. PublishedIsDurable'
  <2> SUFFICES ASSUME NEW s \in stored' PROVE published[s] <= manifest[s]
    BY DEF BeginStream, PublishedIsDurable
  <2>1. CASE s = created + 1
    BY <1>1, <2>1 DEF FutureStreamsEmpty
  <2>2. CASE s \in stored
    BY <2>2 DEF PublishedIsDurable
  <2> QED
    BY <2>1, <2>2 DEF BeginStream
<1>4. FutureStreamsEmpty'
  BY <1>1 DEF BeginStream, FutureStreamsEmpty
<1>5. HolderHasStream' /\ FlushHasRows'
  BY <1>1 DEF BeginStream, HolderHasStream, FlushHasRows
<1>6. BeyondManifest'
  <2>1. manifest' = manifest /\ persisted' = 0
    BY DEF BeginStream
  <2> QED
    BY <1>1, <1>a, <2>1 DEF BeyondManifest, FutureStreamsEmpty
<1> QED
  BY <1>2, <1>3, <1>4, <1>5, <1>6

\* Releasing a stream deletes its manifest and, for the current one, stops the
\* archive from accepting rows.
LEMMA DurableRelease ==
  ASSUME DurableInv, NEW s \in Streams, Release(s)
  PROVE  DurableInv'
<1> USE DEF DurableInv, TypeOK, Phases, ghosts, arena, Streams, NoStream
<1>1. /\ stored' = stored \ {s} /\ manifest' \in [Streams -> Nat]
      /\ \A x \in Streams : x # s => manifest'[x] = manifest[x]
      /\ manifest'[s] = 0
  BY DEF Release, DeleteFiles
<1>2. /\ s = stream => stream' = NoStream /\ pending' = <<>> /\ persisted' = 0 /\ bytes' = 0
      /\ s # stream => UNCHANGED <<stream, pending, persisted, bytes>>
  BY DEF Release, ForgetStream
<1>3. /\ pending' \in Seq(Nat) /\ persisted' \in Nat /\ bytes' \in Nat
      /\ pending' = pending \/ Len(pending') = 0
  <2>1. CASE s = stream
    BY <1>2, <2>1, EmptySeq
  <2>2. CASE s # stream
    BY <1>2, <2>2
  <2> QED
    BY <2>1, <2>2
<1>4. cursor' = 0 /\ cursor' \in 0..Len(pending') /\ phase' = "idle"
  BY <1>3 DEF Release, FlushHasRows
<1>5. TypeOK'
  BY <1>1, <1>2, <1>3, <1>4 DEF Release
<1>6. PublishedIsDurable'
  <2> SUFFICES ASSUME NEW x \in stored' PROVE published[x] <= manifest'[x]
    BY DEF Release, PublishedIsDurable
  <2>1. x \in stored /\ x # s /\ x \in Streams
    BY <1>1, StreamAssumption
  <2> QED
    BY <1>1, <2>1 DEF PublishedIsDurable
<1>7. BeyondManifest'
  BY <1>1, <1>2, <1>3, CurrentIsStored DEF BeyondManifest
<1>8. HolderHasStream' /\ FlushHasRows'
  <2>1. CASE s = stream
    BY <1>2, <1>4, <2>1, EmptySeq DEF HolderHasStream, FlushHasRows
  <2>2. CASE s # stream
    BY <1>2, <1>4, <2>2 DEF HolderHasStream, FlushHasRows
  <2> QED
    BY <2>1, <2>2
<1>9. FutureStreamsEmpty'
  BY <1>1 DEF Release, FutureStreamsEmpty
<1> QED
  BY <1>5, <1>6, <1>7, <1>8, <1>9

\* A step that touches neither the rows, the sequences nor the manifests.
LEMMA DurableFrame ==
  ASSUME DurableInv,
         UNCHANGED <<engine, created, stream, pending, persisted, bytes, stored,
                     manifest, published>>,
         running' \in BOOLEAN, closing' \in BOOLEAN, faults' \in Nat,
         damaged' \in SUBSET Streams,
         \/ phase' = phase /\ cursor' = cursor
         \/ phase' \in {"idle", "down"} /\ cursor' = 0
         \/ phase' = "write" /\ Len(pending) > 0 /\ cursor' = 0
  PROVE  DurableInv'
<1> USE DEF DurableInv
<1>1. phase' \in Phases /\ cursor' \in 0..Len(pending')
  BY DEF TypeOK, Phases
<1>2. TypeOK'
  BY <1>1 DEF TypeOK
<1>3. HolderHasStream' /\ FlushHasRows'
  BY DEF TypeOK, HolderHasStream, FlushHasRows
<1>4. PublishedIsDurable' /\ BeyondManifest' /\ FutureStreamsEmpty'
  BY DEF PublishedIsDurable, BeyondManifest, FutureStreamsEmpty
<1> QED
  BY <1>2, <1>3, <1>4

\* A failed write leaves the counters as they were before it.
LEMMA DurableWriteFails ==
  ASSUME DurableInv, NEW size, NEW n, NEW torn, WriteBatchFails(size, n, torn)
  PROVE  DurableInv'
<1>1. damaged' \in SUBSET Streams /\ faults' \in Nat
  BY CurrentIsStored DEF WriteBatchFails, DurableInv, TypeOK, HolderHasStream
<1>2. /\ running' = FALSE /\ closing' = closing /\ cursor' = 0
      /\ phase' \in {"idle", "down"}
  BY DEF WriteBatchFails, Abort, Leave
<1>3. running' \in BOOLEAN /\ closing' \in BOOLEAN
  BY <1>2 DEF DurableInv, TypeOK
<1> QED
  BY <1>1, <1>2, <1>3, DurableFrame DEF WriteBatchFails

LEMMA DurableManifestFails == DurableInv /\ WriteManifestFails => DurableInv'
<1> SUFFICES ASSUME DurableInv, WriteManifestFails PROVE DurableInv'
  OBVIOUS
<1>1. running' \in BOOLEAN /\ closing' \in BOOLEAN
  BY DEF WriteManifestFails, Abort, Leave, DurableInv, TypeOK
<1>2. faults' \in Nat
  BY DEF WriteManifestFails, DurableInv, TypeOK
<1>3. phase' \in {"idle", "down"} /\ cursor' = 0
  BY DEF WriteManifestFails, Abort, Leave, DurableInv, FlushHasRows, archive
<1> QED
  BY <1>1, <1>2, <1>3, DurableFrame DEF WriteManifestFails, DurableInv, TypeOK, archive, disk

\* A flush begins with rows to write, or the tick is refused by the quota.
LEMMA DurableBeginFlush == DurableInv /\ BeginFlush => DurableInv'
<1> SUFFICES ASSUME DurableInv, BeginFlush PROVE DurableInv'
  OBVIOUS
<1>1. /\ running' \in BOOLEAN /\ closing' \in BOOLEAN
      /\ cursor' = 0 /\ Len(pending) > 0 /\ phase' \in {"idle", "down", "write"}
  BY DEF BeginFlush, Abort, Leave, DurableInv, TypeOK, FlushHasRows
<1> QED
  BY <1>1, DurableFrame DEF BeginFlush, DurableInv, TypeOK, disk, ghosts

\* The flush of close() starts over with the rows that were kept.
LEMMA DurableClose == DurableInv /\ Close => DurableInv'
<1> SUFFICES ASSUME DurableInv, Close PROVE DurableInv'
  OBVIOUS
<1>1. pending # <<>> => Len(pending) > 0
  BY EmptySeq DEF DurableInv, TypeOK
<1>2. /\ running' \in BOOLEAN /\ closing' \in BOOLEAN /\ cursor' = 0
      /\ phase' = "down" \/ (phase' = "write" /\ Len(pending) > 0)
  BY <1>1 DEF Close
<1> QED
  BY <1>2, DurableFrame DEF Close, DurableInv, TypeOK, disk, ghosts

\* Starting, pausing and reading change nothing of it.
LEMMA DurableOperator ==
  DurableInv /\ (Start \/ Pause \/ ReadPage \/ (\E s \in Streams : OpenReader(s))
                \/ UNCHANGED vars) => DurableInv'
<1> SUFFICES ASSUME DurableInv,
                    \/ Start \/ Pause \/ ReadPage \/ UNCHANGED vars
                    \/ \E s \in Streams : OpenReader(s)
             PROVE  DurableInv'
  OBVIOUS
<1>1. /\ running' \in {running, TRUE, FALSE}
      /\ UNCHANGED <<phase, closing, engine, created, archive, disk, ghosts>>
  BY DEF Start, Pause, ReadPage, OpenReader, vars, arena
<1>2. running' \in BOOLEAN
  BY <1>1 DEF DurableInv, TypeOK
<1> QED
  BY <1>1, <1>2, DurableFrame DEF DurableInv, TypeOK, archive, disk, ghosts

\* Every step preserves the invariant.
LEMMA DurableStep == DurableInv /\ [Next]_vars => DurableInv'
<1> SUFFICES ASSUME DurableInv, [Next]_vars PROVE DurableInv'
  OBVIOUS
<1>1. CASE EmitEvent
  BY <1>1, DurableEmit
<1>2. CASE BeginFlush
  BY <1>2, DurableBeginFlush
<1>3. ASSUME NEW size \in 1..Len(pending), WriteBatch(size) PROVE DurableInv'
  BY <1>3, DurableWrite
<1>4. ASSUME NEW size \in 1..Len(pending), NEW n \in 0..Len(pending),
             NEW torn \in BOOLEAN, WriteBatchFails(size, n, torn)
      PROVE  DurableInv'
  BY <1>4, DurableWriteFails
<1>5. CASE WriteManifest
  BY <1>5, DurableManifest
<1>6. CASE WriteManifestFails
  BY <1>6, DurableManifestFails
<1>7. CASE Reset \/ Restart
  BY <1>7, DurableBegin DEF Reset, Restart
<1>8. CASE Close
  BY <1>8, DurableClose
<1>9. ASSUME NEW s \in Streams, Release(s) PROVE DurableInv'
  BY <1>9, DurableRelease
<1>10. CASE Start \/ Pause \/ ReadPage \/ (\E s \in Streams : OpenReader(s))
            \/ UNCHANGED vars
  BY <1>10, DurableOperator
<1> QED
  BY <1>1, <1>2, <1>3, <1>4, <1>5, <1>6, <1>7, <1>8, <1>9, <1>10 DEF Next

\* Type correctness of the stream, the archive and the arena around them.
THEOREM StreamTypeCorrect == Spec => []TypeOK
<1>1. DurableInv => TypeOK
  BY DEF DurableInv
<1> QED
  BY <1>1, DurableInit, DurableStep, PTL DEF Spec

\* A published tick is covered by the manifest of its stream, for every segment
\* size and quota and any number of failures, crashes, resets and shutdowns.
THEOREM PublishedTicksAreDurable == Spec => []PublishedIsDurable
<1>1. DurableInv => PublishedIsDurable
  BY DEF DurableInv
<1> QED
  BY <1>1, DurableInit, DurableStep, PTL DEF Spec

(***************************************************************************)
(* Earlier streams.                                                        *)
(***************************************************************************)
FilesPerStream == DOMAIN files = Streams

LEMMA FilesStep == DurableInv /\ FilesPerStream /\ [Next]_vars => FilesPerStream'
<1> SUFFICES ASSUME FilesPerStream, [Next]_vars PROVE DOMAIN files' = DOMAIN files
  BY DEF FilesPerStream
<1>1. ASSUME NEW rows, Store(rows) PROVE DOMAIN files' = DOMAIN files
  BY <1>1 DEF Store
<1>2. ASSUME NEW size, WriteBatch(size) PROVE DOMAIN files' = DOMAIN files
  BY <1>1, <1>2 DEF WriteBatch
<1>3. ASSUME NEW size, NEW n, NEW torn, WriteBatchFails(size, n, torn)
      PROVE  DOMAIN files' = DOMAIN files
  BY <1>1, <1>3 DEF WriteBatchFails
<1>4. ASSUME NEW s, Release(s) PROVE DOMAIN files' = DOMAIN files
  BY <1>4 DEF Release, DeleteFiles
<1>5. CASE UNCHANGED files
  BY <1>5
<1> QED
  BY <1>2, <1>3, <1>4, <1>5
  DEF Next, vars, disk, EmitEvent, BeginFlush, WriteManifest, WriteManifestFails,
      Start, Pause, Reset, Restart, BeginStream, Close, OpenReader, ReadPage

LEMMA EarlierStreamsStep ==
  DurableInv /\ FilesPerStream /\ [Next]_vars => [KeepsEarlierStreams]_vars
<1> SUFFICES ASSUME DurableInv, FilesPerStream, Next,
                    NEW x \in stored \cap stored', x # stream
             PROVE  files'[x] = files[x] /\ manifest'[x] = manifest[x]
  BY DEF KeepsEarlierStreams
<1>1. x \in DOMAIN files /\ x \in DOMAIN manifest
  BY StreamAssumption DEF FilesPerStream, DurableInv, TypeOK, Streams
<1>2. ASSUME NEW rows, Store(rows) PROVE files'[x] = files[x]
  BY <1>1, <1>2 DEF Store
<1>3. ASSUME NEW size, WriteBatch(size)
      PROVE  files'[x] = files[x] /\ manifest'[x] = manifest[x]
  BY <1>2, <1>3 DEF WriteBatch
<1>4. ASSUME NEW size, NEW n, NEW torn, WriteBatchFails(size, n, torn)
      PROVE  files'[x] = files[x] /\ manifest'[x] = manifest[x]
  BY <1>2, <1>4 DEF WriteBatchFails
<1>5. CASE WriteManifest
  BY <1>1, <1>5 DEF WriteManifest
<1>6. ASSUME NEW s, Release(s)
      PROVE  files'[x] = files[x] /\ manifest'[x] = manifest[x]
  BY <1>1, <1>6 DEF Release, DeleteFiles
<1>7. CASE UNCHANGED <<files, manifest>>
  BY <1>7
<1> QED
  BY <1>3, <1>4, <1>5, <1>6, <1>7
  DEF Next, disk, EmitEvent, BeginFlush, WriteManifestFails,
      Start, Pause, Reset, Restart, BeginStream, Close, OpenReader, ReadPage

\* No step but its release changes a stream that is not the current one: resets,
\* crashes, failed flushes and shutdowns write to the current stream alone.
THEOREM EarlierStreamsStay == Spec => EarlierStreamsAreImmutable
<1>1. Init => FilesPerStream
  BY DEF Init, FilesPerStream
<1> QED
  BY <1>1, DurableInit, DurableStep, FilesStep, EarlierStreamsStep, PTL
  DEF Spec, EarlierStreamsAreImmutable
=============================================================================
