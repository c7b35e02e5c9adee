---------------------------- MODULE CountingProofs -----------------------------
(***************************************************************************)
(* Proofs about what is counted: sums over finite sets, and the components *)
(* whose properties compare a running count with what it counts.           *)
(*                                                                         *)
(* DataCampaign: a prepared release freezes and its bytes stay inside the  *)
(* limit, for any plan, any sizes and any number of jobs.                  *)
(*                                                                         *)
(* ItchNormalization: a normalized book is the visible depth of the orders *)
(* that rest, for any messages.                                            *)
(*                                                                         *)
(* C4Comparison: what a comparison of two releases reports is what the     *)
(* predictions say, for any shards, alerts and campaigns.                  *)
(***************************************************************************)
EXTENDS DataCampaign, ItchNormalization, C4Comparison, FiniteSetsExt,
        FiniteSetTheorems, WellFoundedInduction, TLAPS

(***************************************************************************)
(* Sums over finite sets, as MapThenSumSet computes them.  An operator     *)
(* cannot be a parameter of a lemma here, so the values summed are those   *)
(* of a function.                                                          *)
(***************************************************************************)
Total(F, S) == MapThenSumSet(LAMBDA x : F[x], S)

AnyOf(s) == CHOOSE x \in s : TRUE

SumsTo(g, F, D) ==
    g = [s \in D |-> IF s = {} THEN 0 ELSE F[AnyOf(s)] + g[s \ {AnyOf(s)}]]

LEMMA TotalIsRecursive ==
  ASSUME NEW F, NEW S
  PROVE  Total(F, S) = (CHOOSE g : SumsTo(g, F, SUBSET S))[S]
  BY DEF Total, MapThenSumSet, MapThenFoldSet, SumsTo, AnyOf

LEMMA FirstNumber ==
  ASSUME NEW S \in SUBSET Nat, S # {}
  PROVE  \E m \in S : \A k \in S : m <= k
<1>1. PICK m \in S : \A k \in S : ~(<<k, m>> \in OpToRel(<, Nat))
  BY NatLessThanWellFounded, WFMin
<1>2. \A k \in S : ~(k < m)
  BY <1>1, Zenon DEF OpToRel
<1>3. m \in Nat /\ \A k \in S : k \in Nat
  OBVIOUS
<1>4. QED
  BY <1>2, <1>3

Small(S, n) == {s \in SUBSET S : Cardinality(s) <= n}

LEMMA OneLess ==
  ASSUME NEW S, IsFiniteSet(S), S # {}
  PROVE  /\ AnyOf(S) \in S /\ IsFiniteSet(S \ {AnyOf(S)})
         /\ Cardinality(S) \in Nat /\ Cardinality(S) > 0
         /\ \A x \in S : IsFiniteSet(S \ {x}) /\ Cardinality(S \ {x}) = Cardinality(S) - 1
<1>1. AnyOf(S) \in S
  BY DEF AnyOf
<1>2. \A x \in S : IsFiniteSet(S \ {x}) /\ Cardinality(S \ {x}) = Cardinality(S) - 1
  BY FS_RemoveElement
<1>3. Cardinality(S) \in Nat /\ Cardinality(S) # 0
  BY FS_CardinalityType, FS_EmptySet
<1> QED BY <1>1, <1>2, <1>3

LEMMA SumsExist ==
  ASSUME NEW F, NEW S, IsFiniteSet(S)
  PROVE  \E g : SumsTo(g, F, SUBSET S)
<1> DEFINE bad == {n \in Nat : ~\E g : SumsTo(g, F, Small(S, n))}
<1>0. \A s \in SUBSET S : IsFiniteSet(s) /\ Cardinality(s) \in Nat /\ Cardinality(s) <= Cardinality(S)
  BY FS_Subset, FS_CardinalityType
<1>1. ASSUME bad # {} PROVE FALSE
  <2>1. PICK n \in bad : \A k \in bad : n <= k
    BY <1>1, FirstNumber
  <2>2. n \in Nat /\ ~\E g : SumsTo(g, F, Small(S, n))
    BY <2>1
  <2>3. CASE n = 0
    <3>1. \A s \in Small(S, n) : s = {}
      BY <1>0, <2>3, FS_EmptySet DEF Small
    <3>2. SumsTo([s \in Small(S, n) |-> 0], F, Small(S, n))
      BY <3>1 DEF SumsTo
    <3> QED BY <2>2, <3>2
  <2>4. CASE n # 0
    <3>1. n - 1 \in Nat /\ n - 1 \notin bad
      BY <2>1, <2>2, <2>4
    <3>2. PICK g : SumsTo(g, F, Small(S, n - 1))
      BY <3>1
    <3>3. PICK f : f = [s \in Small(S, n) |->
                          IF s = {} THEN 0 ELSE F[AnyOf(s)] + g[s \ {AnyOf(s)}]]
      OBVIOUS
    <3>4. \A s \in Small(S, n - 1) : s \in Small(S, n) /\ f[s] = g[s]
      <4> TAKE s \in Small(S, n - 1)
      <4>1. s \in Small(S, n)
        BY <1>0, <2>2 DEF Small
      <4> QED BY <3>2, <3>3, <4>1 DEF SumsTo
    <3>5. \A s \in Small(S, n) : s # {} => s \ {AnyOf(s)} \in Small(S, n - 1)
      <4> TAKE s \in Small(S, n)
      <4>1. s \in SUBSET S /\ Cardinality(s) <= n
        BY DEF Small
      <4>2. ASSUME s # {}
            PROVE  Cardinality(s \ {AnyOf(s)}) = Cardinality(s) - 1 /\ Cardinality(s) \in Nat
        BY <1>0, <4>1, <4>2, OneLess
      <4> QED BY <2>2, <4>1, <4>2 DEF Small
    <3>6. SumsTo(f, F, Small(S, n))
      BY <3>3, <3>4, <3>5 DEF SumsTo
    <3> QED BY <2>2, <3>6
  <2> QED BY <2>3, <2>4
<1>2. Cardinality(S) \in Nat
  BY FS_CardinalityType
<1>3. \E g : SumsTo(g, F, Small(S, Cardinality(S)))
  BY <1>1, <1>2
<1>4. Small(S, Cardinality(S)) = SUBSET S
  BY <1>0 DEF Small
<1> QED BY <1>3, <1>4

LEMMA SumsAgree ==
  ASSUME NEW F, NEW S, NEW T, NEW f, NEW g, IsFiniteSet(S),
         SumsTo(f, F, SUBSET S), SumsTo(g, F, SUBSET T)
  PROVE  \A s \in SUBSET S : s \in SUBSET T => f[s] = g[s]
<1> DEFINE bad == {n \in Nat : \E s \in SUBSET S : s \in SUBSET T /\ Cardinality(s) = n /\ f[s] # g[s]}
<1>0. \A s \in SUBSET S : IsFiniteSet(s) /\ Cardinality(s) \in Nat
  BY FS_Subset, FS_CardinalityType
<1>1. ASSUME bad # {} PROVE FALSE
  <2>1. PICK n \in bad : \A k \in bad : n <= k
    BY <1>1, FirstNumber
  <2>2. PICK s \in SUBSET S : s \in SUBSET T /\ Cardinality(s) = n /\ f[s] # g[s]
    BY <2>1
  <2>3. s # {}
    BY <2>2 DEF SumsTo
  <2>4. PICK r : r = s \ {AnyOf(s)}
    OBVIOUS
  <2>5. Cardinality(r) = n - 1 /\ n \in Nat /\ n - 1 \in Nat
    BY <1>0, <2>2, <2>3, <2>4, OneLess
  <2>6. r \in SUBSET S /\ r \in SUBSET T
    BY <2>2, <2>4
  <2>7. f[r] = g[r]
    <3>1. n - 1 \notin bad
      BY <2>1, <2>5
    <3> QED BY <2>5, <2>6, <3>1
  <2>8. f[s] = F[AnyOf(s)] + f[r] /\ g[s] = F[AnyOf(s)] + g[r]
    BY <2>2, <2>3, <2>4 DEF SumsTo
  <2> QED BY <2>2, <2>7, <2>8
<1> QED BY <1>0, <1>1

LEMMA TotalSteps ==
  ASSUME NEW F, NEW S, IsFiniteSet(S)
  PROVE  /\ S = {} => Total(F, S) = 0
         /\ S # {} => Total(F, S) = F[AnyOf(S)] + Total(F, S \ {AnyOf(S)})
<1>1. PICK f : f = CHOOSE g : SumsTo(g, F, SUBSET S)
  OBVIOUS
<1>2. SumsTo(f, F, SUBSET S)
  BY <1>1, SumsExist
<1>3. Total(F, S) = f[S]
  BY <1>1, TotalIsRecursive
<1>4. S = {} => Total(F, S) = 0
  BY <1>2, <1>3 DEF SumsTo
<1>5. ASSUME S # {} PROVE Total(F, S) = F[AnyOf(S)] + Total(F, S \ {AnyOf(S)})
  <2>1. PICK R : R = S \ {AnyOf(S)}
    OBVIOUS
  <2>2. IsFiniteSet(R) /\ R \in SUBSET S
    BY <1>5, <2>1, OneLess
  <2>3. PICK h : h = CHOOSE g : SumsTo(g, F, SUBSET R)
    OBVIOUS
  <2>4. SumsTo(h, F, SUBSET R)
    BY <2>2, <2>3, SumsExist
  <2>5. Total(F, R) = h[R]
    BY <2>3, TotalIsRecursive
  <2>6. h[R] = f[R]
    BY <1>2, <2>2, <2>4, SumsAgree, SMTT(60)
  <2>7. f[S] = F[AnyOf(S)] + f[R]
    BY <1>2, <1>5, <2>1 DEF SumsTo
  <2> QED BY <1>3, <2>1, <2>5, <2>6, <2>7
<1> QED BY <1>4, <1>5

LEMMA TotalInt ==
  ASSUME NEW F, NEW S, IsFiniteSet(S), \A x \in S : F[x] \in Int
  PROVE  Total(F, S) \in Int
<1> DEFINE bad == {n \in Nat : \E s \in SUBSET S : Cardinality(s) = n /\ Total(F, s) \notin Int}
<1>0. \A s \in SUBSET S : IsFiniteSet(s) /\ Cardinality(s) \in Nat
  BY FS_Subset, FS_CardinalityType
<1>1. ASSUME bad # {} PROVE FALSE
  <2>1. PICK n \in bad : \A k \in bad : n <= k
    BY <1>1, FirstNumber
  <2>2. PICK s \in SUBSET S : Cardinality(s) = n /\ Total(F, s) \notin Int
    BY <2>1
  <2>3. IsFiniteSet(s)
    BY <1>0
  <2>4. s # {}
    <3>1. s = {} => Total(F, s) = 0
      BY <2>3, TotalSteps
    <3>2. 0 \in Int
      OBVIOUS
    <3> QED BY <2>2, <3>1, <3>2, Zenon
  <2>5. PICK r : r = s \ {AnyOf(s)}
    OBVIOUS
  <2>6. Cardinality(r) = n - 1 /\ n - 1 \in Nat /\ n - 1 < n /\ r \in SUBSET S /\ AnyOf(s) \in S
    BY <2>2, <2>3, <2>4, <2>5, OneLess
  <2>7. Total(F, r) \in Int
    BY <2>1, <2>6
  <2>8. Total(F, s) = F[AnyOf(s)] + Total(F, r)
    BY <2>3, <2>4, <2>5, TotalSteps
  <2> QED BY <2>2, <2>6, <2>7, <2>8
<1> QED BY <1>0, <1>1

\* Any element may be taken out of a sum first.
THEOREM TotalWithout ==
  ASSUME NEW F, NEW S, IsFiniteSet(S), \A x \in S : F[x] \in Int, NEW e \in S
  PROVE  Total(F, S) = F[e] + Total(F, S \ {e})
<1> DEFINE bad == {n \in Nat : \E s \in SUBSET S : Cardinality(s) = n
                                  /\ \E x \in s : Total(F, s) # F[x] + Total(F, s \ {x})}
<1>0. \A s \in SUBSET S : IsFiniteSet(s) /\ Cardinality(s) \in Nat
  BY FS_Subset, FS_CardinalityType
<1>1. ASSUME bad # {} PROVE FALSE
  <2>1. PICK n \in bad : \A k \in bad : n <= k
    BY <1>1, FirstNumber
  <2>2. PICK s \in SUBSET S : Cardinality(s) = n /\ \E x \in s : Total(F, s) # F[x] + Total(F, s \ {x})
    BY <2>1
  <2>3. PICK x \in s : Total(F, s) # F[x] + Total(F, s \ {x})
    BY <2>2
  <2>4. IsFiniteSet(s) /\ s # {}
    BY <1>0, <2>3
  <2>5. PICK a : a = AnyOf(s)
    OBVIOUS
  <2>6. Total(F, s) = F[a] + Total(F, s \ {a})
    BY <2>4, <2>5, TotalSteps
  <2>7. a # x /\ a \in s
    BY <2>3, <2>4, <2>5, <2>6, OneLess
  <2>8. /\ Cardinality(s \ {a}) = n - 1 /\ Cardinality(s \ {x}) = n - 1
        /\ n - 1 \in Nat /\ n - 1 < n
    <3>1. /\ Cardinality(s) \in Nat /\ Cardinality(s) > 0
          /\ \A y \in s : IsFiniteSet(s \ {y}) /\ Cardinality(s \ {y}) = Cardinality(s) - 1
      BY <2>4, OneLess
    <3>2. Cardinality(s \ {a}) = n - 1 /\ Cardinality(s \ {x}) = n - 1
      BY <2>2, <2>3, <2>7, <3>1
    <3> QED BY <2>2, <3>1, <3>2
  <2>9. n - 1 \notin bad
    BY <2>1, <2>8
  <2>10. s \ {a} \in SUBSET S /\ s \ {x} \in SUBSET S /\ x \in s \ {a} /\ a \in s \ {x}
    BY <2>3, <2>7
  <2>11. Total(F, s \ {a}) = F[x] + Total(F, (s \ {a}) \ {x})
    BY <2>8, <2>9, <2>10
  <2>12. Total(F, s \ {x}) = F[a] + Total(F, (s \ {x}) \ {a})
    BY <2>8, <2>9, <2>10
  <2>13. (s \ {a}) \ {x} = (s \ {x}) \ {a}
    OBVIOUS
  <2>14. F[a] \in Int /\ F[x] \in Int /\ Total(F, (s \ {x}) \ {a}) \in Int
    <3>1. IsFiniteSet((s \ {x}) \ {a}) /\ (s \ {x}) \ {a} \in SUBSET S
      BY <1>0, <2>10
    <3>2. Total(F, (s \ {x}) \ {a}) \in Int
      BY <3>1, TotalInt
    <3> QED BY <2>7, <3>2
  <2>15. PICK t \in Int : t = Total(F, (s \ {x}) \ {a})
    BY <2>14
  <2>16. F[a] + (F[x] + t) = F[x] + (F[a] + t)
    BY <2>14
  <2> QED BY <2>3, <2>6, <2>11, <2>12, <2>13, <2>15, <2>16, Zenon
<1>2. Cardinality(S) \in Nat /\ S \in SUBSET S
  BY <1>0
<1> QED BY <1>1, <1>2

\* One element more.
LEMMA TotalWith ==
  ASSUME NEW F, NEW S, IsFiniteSet(S), NEW e, e \notin S, \A x \in S \cup {e} : F[x] \in Int
  PROVE  Total(F, S \cup {e}) = F[e] + Total(F, S)
<1>1. IsFiniteSet(S \cup {e})
  BY FS_AddElement
<1>2. (S \cup {e}) \ {e} = S
  OBVIOUS
<1> QED BY <1>1, <1>2, TotalWithout

\* A sum depends on the values it adds only.
LEMMA TotalSame ==
  ASSUME NEW F, NEW G, NEW S, IsFiniteSet(S), \A x \in S : F[x] = G[x]
  PROVE  Total(F, S) = Total(G, S)
<1> DEFINE bad == {n \in Nat : \E s \in SUBSET S : Cardinality(s) = n /\ Total(F, s) # Total(G, s)}
<1>0. \A s \in SUBSET S : IsFiniteSet(s) /\ Cardinality(s) \in Nat
  BY FS_Subset, FS_CardinalityType
<1>1. ASSUME bad # {} PROVE FALSE
  <2>1. PICK n \in bad : \A k \in bad : n <= k
    BY <1>1, FirstNumber
  <2>2. PICK s \in SUBSET S : Cardinality(s) = n /\ Total(F, s) # Total(G, s)
    BY <2>1
  <2>3. IsFiniteSet(s)
    BY <1>0
  <2>4. s # {}
    BY <2>2, <2>3, TotalSteps
  <2>5. PICK r : r = s \ {AnyOf(s)}
    OBVIOUS
  <2>6. Cardinality(r) = n - 1 /\ n - 1 \in Nat /\ n - 1 < n /\ r \in SUBSET S /\ AnyOf(s) \in S
    <3>1. /\ AnyOf(s) \in s /\ Cardinality(s) \in Nat /\ Cardinality(s) > 0
          /\ Cardinality(s \ {AnyOf(s)}) = Cardinality(s) - 1
      BY <2>3, <2>4, OneLess
    <3> QED BY <2>2, <2>5, <3>1
  <2>7. Total(F, r) = Total(G, r)
    BY <2>1, <2>6
  <2>8. Total(F, s) = F[AnyOf(s)] + Total(F, r) /\ Total(G, s) = G[AnyOf(s)] + Total(G, r)
    BY <2>3, <2>4, <2>5, TotalSteps
  <2> QED BY <2>2, <2>6, <2>7, <2>8
<1> QED BY <1>0, <1>1

--------------------------------------------------------------------------------
(***************************************************************************)
(* The plan: positions and symbols.                                        *)
(***************************************************************************)
PlanLength == Len(PlanSymbols) * PerSymbol

LEMMA PlanIsFinite ==
  PlanLength \in Nat /\ Positions = 1..PlanLength /\ Len(PlanSymbols) \in Nat
  /\ DOMAIN PlanSymbols = 1..Len(PlanSymbols) /\ Cardinality(Positions) = PlanLength
<1>1. Len(PlanSymbols) \in Nat /\ DOMAIN PlanSymbols = 1..Len(PlanSymbols) /\ PerSymbol \in Nat
  BY CampaignAssumption
<1>2. PlanLength \in Nat
  BY <1>1 DEF PlanLength
<1>3. Cardinality(1..PlanLength) = PlanLength
  BY <1>2, FS_Interval
<1> QED BY <1>1, <1>2, <1>3 DEF Positions, PlanLength

LEMMA Quotient ==
  ASSUME NEW a \in Nat, NEW p \in Nat \ {0}
  PROVE  /\ a \div p \in Nat /\ a % p \in 0..(p - 1)
         /\ a = p * (a \div p) + (a % p)
<1>1. a % p \in 0..(p - 1)
  OBVIOUS
<1>2. a = p * (a \div p) + (a % p)
  OBVIOUS
<1>3. PICK q \in Int : q = a \div p
  OBVIOUS
<1>4. PICK r \in Int : r = a % p
  BY <1>1
<1>5. a = p * q + r /\ r < p
  BY <1>1, <1>2, <1>3, <1>4
<1>6. q >= 0
  BY <1>5
<1> QED BY <1>1, <1>2, <1>3, <1>6

LEMMA QuotientIsOne ==
  ASSUME NEW p \in Nat \ {0}, NEW q \in Nat, NEW r \in 0..(p - 1), NEW a \in Nat, a = p * q + r
  PROVE  a \div p = q
<1>1. PICK k \in Nat : k = a \div p
  BY Quotient
<1>2. PICK s \in 0..(p - 1) : a = p * k + s
  BY <1>1, Quotient
<1>3. p * q + r = p * k + s
  BY <1>2
<1>4. ~(k < q)
  <2> SUFFICES ASSUME k < q PROVE FALSE
    OBVIOUS
  <2>1. PICK d \in Nat : q = k + 1 + d
    <3>1. q - k - 1 \in Nat /\ q = k + 1 + (q - k - 1)
      OBVIOUS
    <3> QED BY <3>1
  <2>2. p * q = p * k + p + p * d
    BY <2>1
  <2>3. p * d >= 0
    OBVIOUS
  <2> QED BY <1>3, <2>2, <2>3
<1>5. ~(q < k)
  <2> SUFFICES ASSUME q < k PROVE FALSE
    OBVIOUS
  <2>1. PICK d \in Nat : k = q + 1 + d
    <3>1. k - q - 1 \in Nat /\ k = q + 1 + (k - q - 1)
      OBVIOUS
    <3> QED BY <3>1
  <2>2. p * k = p * q + p + p * d
    BY <2>1
  <2>3. p * d >= 0
    OBVIOUS
  <2> QED BY <1>3, <2>2, <2>3
<1> QED BY <1>1, <1>4, <1>5

LEMMA SymbolIsPlanned ==
  ASSUME NEW i \in Positions
  PROVE  ((i - 1) \div PerSymbol) + 1 \in DOMAIN PlanSymbols
<1>1. PICK p \in Nat \ {0} : p = PerSymbol
  BY CampaignAssumption
<1>2. PICK n \in Nat : n = Len(PlanSymbols)
  BY PlanIsFinite
<1>3. i \in Nat /\ i >= 1 /\ i <= n * p
  BY <1>1, <1>2, PlanIsFinite DEF PlanLength
<1>4. PICK a \in Nat : a = i - 1
  BY <1>3
<1>5. PICK q \in Nat : q = a \div p
  BY Quotient
<1>6. PICK r \in 0..(p - 1) : a = p * q + r
  BY <1>5, Quotient
<1>7. q < n
  <2> SUFFICES ASSUME q >= n PROVE FALSE
    OBVIOUS
  <2>1. PICK d \in Nat : q = n + d
    <3>1. q - n \in Nat /\ q = n + (q - n)
      OBVIOUS
    <3> QED BY <3>1
  <2>2. p * q = n * p + p * d
    BY <2>1
  <2>3. p * d >= 0 /\ n * p \in Nat
    OBVIOUS
  <2> QED BY <1>3, <1>4, <1>6, <2>2, <2>3
<1> QED BY <1>1, <1>2, <1>4, <1>5, <1>7, PlanIsFinite

\* A position is the first of its symbol when no earlier one has the symbol.
LEMMA FirstIsNew ==
  ASSUME NEW i \in Positions
  PROVE  FirstOfSymbol(i) <=> \A k \in 1..(i - 1) : SymbolAt(k) # SymbolAt(i)
<1>1. PICK p \in Nat \ {0} : p = PerSymbol
  BY CampaignAssumption
<1>2. i \in Nat /\ i >= 1 /\ \A k \in 1..(i - 1) : k \in Positions /\ k \in Nat /\ k >= 1 /\ k < i
  BY PlanIsFinite
<1>3. PICK a \in Nat : a = i - 1
  BY <1>2
<1>4. PICK q \in Nat : q = a \div p
  BY Quotient
<1>5. PICK r \in 0..(p - 1) : a = p * q + r /\ r = a % p
  BY <1>4, Quotient
<1>6. FirstOfSymbol(i) <=> r = 0
  BY <1>1, <1>3, <1>5 DEF FirstOfSymbol
<1>7. ASSUME r = 0, NEW k \in 1..(i - 1), SymbolAt(k) = SymbolAt(i)
      PROVE  FALSE
  <2>1. k \in Positions
    BY <1>2
  <2>2. ((k - 1) \div p) + 1 \in DOMAIN PlanSymbols /\ ((i - 1) \div p) + 1 \in DOMAIN PlanSymbols
    BY <1>1, <2>1, SymbolIsPlanned
  <2>3. PlanSymbols[((k - 1) \div p) + 1] = PlanSymbols[((i - 1) \div p) + 1]
    BY <1>1, <1>7 DEF SymbolAt
  <2>4. ((k - 1) \div p) + 1 = ((i - 1) \div p) + 1
    BY <2>2, <2>3, CampaignAssumption
  <2>5. PICK b \in Nat : b = k - 1
    BY <1>2
  <2>6. PICK s \in 0..(p - 1) : b = p * (b \div p) + s
    BY Quotient
  <2>7. b \div p \in Nat
    BY Quotient
  <2>8. b \div p = q
    BY <1>3, <1>4, <2>4, <2>5, <2>7
  <2>9. b = p * q + s
    BY <2>6, <2>8
  <2>10. b < a
    BY <1>2, <1>3, <2>5
  <2>11. a = p * q
    BY <1>5, <1>7
  <2>12. PICK m \in Nat : m = p * q
    OBVIOUS
  <2> QED BY <2>9, <2>10, <2>11, <2>12
<1>8. ASSUME r # 0
      PROVE  \E k \in 1..(i - 1) : SymbolAt(k) = SymbolAt(i)
  <2>1. PICK m \in Nat : m = p * q
    OBVIOUS
  <2>2. a = m + r /\ r > 0
    BY <1>5, <1>8, <2>1
  <2>3. a >= 1 /\ a \in 1..(i - 1)
    BY <1>3, <2>2
  <2>4. PICK b \in Nat : b = a - 1
    BY <2>3
  <2>5. r - 1 \in 0..(p - 1)
    BY <2>2
  <2>6. b = p * q + (r - 1)
    BY <2>1, <2>2, <2>4
  <2>7. b \div p = q
    BY <2>5, <2>6, QuotientIsOne
  <2>8. SymbolAt(a) = SymbolAt(i)
    BY <1>1, <1>3, <1>4, <2>4, <2>7 DEF SymbolAt
  <2> QED BY <2>3, <2>8
<1> QED BY <1>6, <1>7, <1>8

(***************************************************************************)
(* Bytes on the disk.                                                      *)
(***************************************************************************)
ShardRecords ==
    [control : Controls, size : {s \in ShardSizes : s <= ShardMax}, includesControl : BOOLEAN]

SizesOf(sh) == [i \in Positions |-> IF Complete(sh[i]) THEN sh[i].size ELSE 0]
BytesTo(sh, n) == Total(SizesOf(sh), 1..n)

Typed(sh) == \A i \in Positions : sh[i] \in ShardRecords \cup {Absent, Partial}

LEMMA RecordIsComplete ==
  ASSUME NEW r \in ShardRecords
  PROVE  /\ Complete(r) /\ r.control \in Controls /\ r.control # Absent
         /\ r.size \in Nat /\ r.size <= ShardMax
<1>1. r = [control |-> r.control, size |-> r.size, includesControl |-> r.includesControl]
      /\ r.control \in Controls /\ r.size \in ShardSizes /\ r.size <= ShardMax
      /\ r.includesControl \in BOOLEAN
  BY DEF ShardRecords
<1>2. r \notin {Absent, Partial}
  BY <1>1, CampaignAssumption
<1>3. r.size \in Nat /\ r.control # Absent
  BY <1>1, CampaignAssumption
<1> QED BY <1>1, <1>2, <1>3 DEF Complete

LEMMA CompleteIsRecord ==
  ASSUME NEW sh, Typed(sh), NEW i \in Positions
  PROVE  Complete(sh[i]) <=> sh[i] \in ShardRecords
BY RecordIsComplete DEF Typed, Complete

LEMMA SizesAreNat ==
  ASSUME NEW sh, Typed(sh), NEW i \in Positions
  PROVE  /\ SizesOf(sh)[i] \in Nat
         /\ Complete(sh[i]) => SizesOf(sh)[i] = sh[i].size /\ sh[i].size <= ShardMax
<1>1. CASE Complete(sh[i])
  BY <1>1, CompleteIsRecord, RecordIsComplete DEF SizesOf
<1>2. CASE ~Complete(sh[i])
  BY <1>2 DEF SizesOf
<1> QED BY <1>1, <1>2

LEMMA BytesGrow ==
  ASSUME NEW sh, Typed(sh), NEW n \in Nat, n < PlanLength
  PROVE  /\ BytesTo(sh, n) \in Int
         /\ BytesTo(sh, n + 1) = BytesTo(sh, n) + SizesOf(sh)[n + 1]
<1>1. /\ 1..(n + 1) = (1..n) \cup {n + 1} /\ n + 1 \notin 1..n
      /\ 1..(n + 1) \subseteq Positions
  BY PlanIsFinite
<1>2. IsFiniteSet(1..n)
  BY FS_Interval
<1>3. \A i \in 1..(n + 1) : SizesOf(sh)[i] \in Int
  BY <1>1, SizesAreNat
<1>4. PICK F : F = SizesOf(sh)
  OBVIOUS
<1>5. PICK S : S = 1..n
  OBVIOUS
<1>6. PICK e : e = n + 1
  OBVIOUS
<1>7. IsFiniteSet(S) /\ e \notin S /\ \A x \in S \cup {e} : F[x] \in Int
  BY <1>1, <1>2, <1>3, <1>4, <1>5, <1>6
<1>8. Total(F, S \cup {e}) = F[e] + Total(F, S)
  BY <1>7, TotalWith
<1>9. PICK t \in Int : t = Total(F, S)
  BY <1>7, TotalInt
<1>10. PICK k \in Int : k = F[e]
  BY <1>7
<1>11. k + t = t + k
  OBVIOUS
<1>12. BytesTo(sh, n) = t
  BY <1>4, <1>5, <1>9 DEF BytesTo
<1>13. BytesTo(sh, n + 1) = k + t
  BY <1>1, <1>4, <1>5, <1>6, <1>8, <1>9, <1>10 DEF BytesTo
<1>14. SizesOf(sh)[n + 1] = k
  BY <1>4, <1>6, <1>10
<1> QED BY <1>9, <1>11, <1>12, <1>13, <1>14

LEMMA BytesNone ==
  ASSUME NEW sh
  PROVE  BytesTo(sh, 0) = 0
<1>1. 1..0 = {}
  OBVIOUS
<1>2. IsFiniteSet({})
  BY FS_EmptySet
<1>3. Total(SizesOf(sh), {}) = 0
  BY <1>2, TotalSteps
<1> QED BY <1>1, <1>3 DEF BytesTo

LEMMA BytesSame ==
  ASSUME NEW sh, NEW ti, NEW n \in Nat, n <= PlanLength, \A i \in 1..n : SizesOf(sh)[i] = SizesOf(ti)[i]
  PROVE  BytesTo(sh, n) = BytesTo(ti, n)
<1>1. IsFiniteSet(1..n)
  BY FS_Interval
<1> QED BY <1>1, TotalSame DEF BytesTo

\* The sums of CampaignBytesBounded.
LEMMA BytesAdded ==
  ASSUME NEW sh, NEW S, IsFiniteSet(S), S \subseteq Positions, \A i \in S : Complete(sh[i])
  PROVE  MapThenSumSet(LAMBDA i : sh[i].size, S) = Total(SizesOf(sh), S)
<1> DEFINE Size(i) == sh[i].size
           Adds(g) == g = [s \in SUBSET S |-> IF s = {} THEN 0
                            ELSE Size(CHOOSE x \in s : TRUE) + g[s \ {CHOOSE x \in s : TRUE}]]
<1>1. PICK w : w = CHOOSE g : Adds(g)
  OBVIOUS
<1>2. MapThenSumSet(LAMBDA i : sh[i].size, S) = w[S]
  BY <1>1 DEF MapThenSumSet, MapThenFoldSet
<1>3. PICK h : h = CHOOSE g : SumsTo(g, SizesOf(sh), SUBSET S)
  OBVIOUS
<1>4. SumsTo(h, SizesOf(sh), SUBSET S)
  BY <1>3, SumsExist
<1>5. ASSUME NEW s \in SUBSET S, s # {}
      PROVE  SizesOf(sh)[AnyOf(s)] = Size(CHOOSE x \in s : TRUE)
  <2>1. AnyOf(s) \in s
    BY <1>5 DEF AnyOf
  <2>2. AnyOf(s) \in Positions /\ Complete(sh[AnyOf(s)])
    BY <2>1
  <2> QED BY <2>2 DEF SizesOf, AnyOf
<1> HIDE DEF Size
<1>6. Adds(h)
  BY <1>4, <1>5 DEF SumsTo, AnyOf
<1>7. Adds(w)
  BY <1>1, <1>6, ZenonT(60)
<1>8. SumsTo(w, SizesOf(sh), SUBSET S)
  BY <1>5, <1>7 DEF SumsTo, AnyOf
<1>9. w[S] = h[S]
  BY <1>4, <1>8, SumsAgree
<1>10. Total(SizesOf(sh), S) = h[S]
  BY <1>3, TotalIsRecursive
<1> QED BY <1>2, <1>9, <1>10
--------------------------------------------------------------------------------
(***************************************************************************)
(* The checkpoints on the disk, what a job has walked through, and what it *)
(* is about to publish.                                                    *)
(***************************************************************************)
ShardsInv(sh) ==
    /\ DOMAIN sh = Positions /\ Typed(sh)
    /\ \A i, j \in Positions : i < j /\ Complete(sh[j]) => Complete(sh[i])
    /\ \A i \in Positions : Complete(sh[i]) =>
          sh[i].includesControl = FirstOfSymbol(i) /\ BytesTo(sh, i - 1) <= CampaignMax
    /\ \A i, j \in Positions : Complete(sh[i]) /\ Complete(sh[j]) /\ SymbolAt(i) = SymbolAt(j)
          => sh[i].control = sh[j].control

JobFields == {"pc", "canary", "next", "control", "new", "bytes", "refs", "pending"}

Walked(j, sh) ==
    /\ DOMAIN j = JobFields
    /\ j.next \in 1..(PlanLength + 1)
    /\ \A i \in 1..(j.next - 1) : Complete(sh[i])
    /\ j.refs \in Seq(ShardRecords) /\ Len(j.refs) = j.next - 1
    /\ \A i \in 1..(j.next - 1) : j.refs[i] = sh[i]
    /\ j.bytes = BytesTo(sh, j.next - 1) /\ j.bytes <= CampaignMax
    /\ DOMAIN j.control = {SymbolAt(i) : i \in 1..(j.next - 1)}
    /\ \A i \in 1..(j.next - 1) : j.control[SymbolAt(i)] = sh[i].control

Publishing(j, sh) ==
    j.pc = "publishing" =>
      /\ j.next \in Positions /\ sh[j.next] = Partial
      /\ j.pending \in ShardRecords /\ j.pending.includesControl = FirstOfSymbol(j.next)
      /\ \A i \in 1..(j.next - 1) :
            SymbolAt(i) = SymbolAt(j.next) => j.pending.control = sh[i].control

JobInv(j, sh, norm, res) ==
    /\ Walked(j, sh) /\ Publishing(j, sh)
    /\ j.pc = "normalizing" => norm = Partial
    /\ j.pc = "indexed" => j.next = PlanLength + 1
    /\ j.pc = "result" => j.next = PlanLength + 1 /\ res = Partial

ResultInv(res, sh) ==
    Complete(res) =>
      /\ \A i \in Positions : Complete(sh[i])
      /\ Len(res.shards) = PlanLength /\ \A i \in Positions : res.shards[i] = sh[i]
      /\ res.bytes = BytesTo(sh, PlanLength) /\ res.bytes <= CampaignMax

PreparationInv ==
    /\ ShardsInv(checkpoint) /\ JobInv(job, checkpoint, normalized, result)
    /\ ResultInv(result, checkpoint)

\* Complete checkpoints stay.
Kept(sh, ti) ==
    /\ DOMAIN ti = DOMAIN sh /\ Typed(ti)
    /\ \A i \in Positions : Complete(sh[i]) => ti[i] = sh[i]

LEMMA BytesKept ==
  ASSUME NEW sh, NEW ti, ShardsInv(sh), Kept(sh, ti), NEW n \in Nat, n <= PlanLength,
         \A i \in 1..n : Complete(sh[i])
  PROVE  BytesTo(ti, n) = BytesTo(sh, n)
<1>1. \A i \in 1..n : i \in Positions
  BY PlanIsFinite
<1>2. \A i \in 1..n : SizesOf(ti)[i] = SizesOf(sh)[i]
  BY <1>1 DEF Kept, SizesOf
<1> QED BY <1>2, BytesSame

LEMMA WalkedKept ==
  ASSUME NEW j, NEW sh, NEW ti, ShardsInv(sh), Kept(sh, ti), Walked(j, sh)
  PROVE  Walked(j, ti)
<1>1. \A i \in 1..(j.next - 1) : i \in Positions /\ ti[i] = sh[i]
  BY PlanIsFinite DEF Walked, Kept
<1>2. j.next - 1 \in Nat /\ j.next - 1 <= PlanLength
  BY PlanIsFinite DEF Walked
<1>3. BytesTo(ti, j.next - 1) = BytesTo(sh, j.next - 1)
  <2>1. PICK n \in Nat : n = j.next - 1
    BY <1>2
  <2>2. n <= PlanLength /\ \A i \in 1..n : Complete(sh[i])
    BY <1>2, <2>1 DEF Walked
  <2>3. BytesTo(ti, n) = BytesTo(sh, n)
    BY <2>2, BytesKept
  <2> QED BY <2>1, <2>3
<1> QED BY <1>1, <1>3 DEF Walked

LEMMA ResultKept ==
  ASSUME NEW res, NEW sh, NEW ti, ShardsInv(sh), Kept(sh, ti), ResultInv(res, sh)
  PROVE  ResultInv(res, ti)
<1> SUFFICES ASSUME Complete(res) PROVE ResultInv(res, ti)
  BY DEF ResultInv
<1>1. \A i \in Positions : Complete(sh[i]) /\ ti[i] = sh[i]
  BY DEF ResultInv, Kept
<1>2. \A i \in 1..PlanLength : Complete(sh[i])
  BY <1>1, PlanIsFinite
<1>3. BytesTo(ti, PlanLength) = BytesTo(sh, PlanLength)
  BY <1>2, PlanIsFinite, BytesKept
<1> QED BY <1>1, <1>3 DEF ResultInv

\* The first step of a publication, and a publication taken back.
LEMMA ShardsUntouched ==
  ASSUME NEW sh, ShardsInv(sh), NEW k \in Positions, ~Complete(sh[k]), NEW s \in {Absent, Partial},
         NEW ti, ti = [sh EXCEPT ![k] = s]
  PROVE  ShardsInv(ti) /\ Kept(sh, ti)
<1>1. DOMAIN ti = Positions /\ ti[k] = s /\ \A i \in Positions : i # k => ti[i] = sh[i]
  BY DEF ShardsInv
<1>2. \A i \in Positions : Complete(ti[i]) <=> Complete(sh[i])
  BY <1>1 DEF Complete
<1>3. Typed(ti) /\ Kept(sh, ti)
  BY <1>1 DEF Typed, Kept, ShardsInv
<1>4. ASSUME NEW i \in Positions, Complete(ti[i])
      PROVE  ti[i].includesControl = FirstOfSymbol(i) /\ BytesTo(ti, i - 1) <= CampaignMax
  <2>1. Complete(sh[i]) /\ ti[i] = sh[i]
    BY <1>2, <1>3, <1>4 DEF Kept
  <2>2. PICK n \in Nat : n = i - 1
    BY PlanIsFinite
  <2>3. n <= PlanLength /\ \A m \in 1..n : m \in Positions /\ m < i
    BY <2>2, PlanIsFinite
  <2>4. \A m \in 1..n : Complete(sh[m])
    BY <2>1, <2>3 DEF ShardsInv
  <2>5. BytesTo(ti, n) = BytesTo(sh, n)
    BY <1>3, <2>3, <2>4, BytesKept
  <2> QED BY <2>1, <2>2, <2>5 DEF ShardsInv
<1>5. \A i, j \in Positions : Complete(ti[i]) /\ Complete(ti[j]) /\ SymbolAt(i) = SymbolAt(j)
          => ti[i].control = ti[j].control
  BY <1>2, <1>3 DEF ShardsInv, Kept
<1>6. \A i, j \in Positions : i < j /\ Complete(ti[j]) => Complete(ti[i])
  BY <1>2 DEF ShardsInv
<1> QED BY <1>1, <1>3, <1>4, <1>5, <1>6 DEF ShardsInv

\* SUCCESS is written.
LEMMA ShardCompleted ==
  ASSUME NEW j, NEW sh, ShardsInv(sh), Walked(j, sh), Publishing(j, sh), j.pc = "publishing",
         NEW ti, ti = [sh EXCEPT ![j.next] = j.pending]
  PROVE  ShardsInv(ti) /\ Kept(sh, ti) /\ Complete(ti[j.next]) /\ ti[j.next] = j.pending
<1>1. PICK k \in Positions : k = j.next
  BY DEF Publishing
<1>2. PICK rec \in ShardRecords : rec = j.pending
  BY DEF Publishing
<1>3. /\ DOMAIN ti = Positions /\ ti[k] = rec /\ \A i \in Positions : i # k => ti[i] = sh[i]
  BY <1>1, <1>2 DEF ShardsInv
<1>4. Complete(rec) /\ ~Complete(sh[k])
  BY <1>1, RecordIsComplete DEF Publishing, Complete
<1>5. Typed(ti) /\ Kept(sh, ti)
  BY <1>3, <1>4 DEF Typed, Kept, ShardsInv
<1>6. \A i \in Positions : i < k <=> Complete(sh[i])
  <2> TAKE i \in Positions
  <2>1. i \in Nat /\ k \in Nat
    BY PlanIsFinite
  <2>2. i < k => i \in 1..(j.next - 1)
    BY <1>1, <2>1, PlanIsFinite
  <2>3. i < k => Complete(sh[i])
    BY <2>2 DEF Walked
  <2>4. k < i => ~Complete(sh[i])
    BY <1>4 DEF ShardsInv
  <2> QED BY <1>4, <2>1, <2>3, <2>4
<1>7. \A i \in Positions : Complete(ti[i]) <=> i <= k
  BY <1>3, <1>4, <1>6, PlanIsFinite
<1>8. ASSUME NEW i \in Positions, Complete(ti[i])
      PROVE  ti[i].includesControl = FirstOfSymbol(i) /\ BytesTo(ti, i - 1) <= CampaignMax
  <2>1. PICK n \in Nat : n = i - 1
    BY PlanIsFinite
  <2>2. n <= PlanLength /\ \A m \in 1..n : m \in Positions /\ m < k
    BY <1>7, <1>8, <2>1, PlanIsFinite
  <2>3. BytesTo(ti, n) = BytesTo(sh, n)
    BY <1>5, <1>6, <2>2, BytesKept
  <2>4. CASE i = k
    <3>1. BytesTo(sh, n) <= CampaignMax
      BY <1>1, <2>1, <2>4 DEF Walked
    <3>2. rec.includesControl = FirstOfSymbol(i)
      BY <1>1, <1>2, <2>4 DEF Publishing
    <3> QED BY <1>3, <2>1, <2>3, <2>4, <3>1, <3>2
  <2>5. CASE i # k
    <3>1. Complete(sh[i]) /\ ti[i] = sh[i]
      BY <1>3, <1>8, <2>5
    <3> QED BY <2>1, <2>3, <3>1 DEF ShardsInv
  <2> QED BY <2>4, <2>5
<1>9. ASSUME NEW i \in Positions, Complete(ti[i]), SymbolAt(i) = SymbolAt(k)
      PROVE  ti[i].control = rec.control
  <2>1. CASE i = k
    BY <1>3, <2>1
  <2>2. CASE i # k
    <3>1. i \in 1..(j.next - 1) /\ ti[i] = sh[i]
      BY <1>1, <1>3, <1>7, <1>9, <2>2, PlanIsFinite
    <3> QED BY <1>1, <1>2, <1>9, <3>1 DEF Publishing
  <2> QED BY <2>1, <2>2
<1>10. ASSUME NEW i \in Positions, NEW m \in Positions, Complete(ti[i]), Complete(ti[m]),
              SymbolAt(i) = SymbolAt(m)
       PROVE  ti[i].control = ti[m].control
  <2>1. CASE i = k \/ m = k
    BY <1>3, <1>9, <1>10, <2>1
  <2>2. CASE i # k /\ m # k
    <3>1. Complete(sh[i]) /\ Complete(sh[m]) /\ ti[i] = sh[i] /\ ti[m] = sh[m]
      BY <1>3, <1>10, <2>2
    <3> QED BY <1>10, <3>1 DEF ShardsInv
  <2> QED BY <2>1, <2>2
<1>11. \A i, m \in Positions : i < m /\ Complete(ti[m]) => Complete(ti[i])
  BY <1>7, PlanIsFinite
<1> QED BY <1>1, <1>2, <1>3, <1>4, <1>5, <1>8, <1>10, <1>11 DEF ShardsInv

\* A complete shard joins the job's manifest.
LEMMA ShardTaken ==
  ASSUME NEW j, NEW sh, ShardsInv(sh), Walked(j, sh), NEW k, k = j.next, k \in Positions,
         NEW rec, rec = sh[k], Complete(rec), AcceptsControl(j, k, rec.control),
         WithinCampaign(j.bytes + rec.size),
         NEW n, n = TakeShard(j, k, rec)
  PROVE  Walked(n, sh) /\ n.pc = j.pc
<1>1. rec \in ShardRecords
  BY CompleteIsRecord DEF ShardsInv
<1>2. /\ DOMAIN n = JobFields /\ n.pc = j.pc /\ n.control = WithControl(j, k, rec.control)
      /\ n.refs = Append(j.refs, rec) /\ n.bytes = j.bytes + rec.size /\ n.next = k + 1
  BY DEF TakeShard, Walked, JobFields
<1>3. PICK m \in Nat : m = k - 1
  BY PlanIsFinite
<1>4. /\ k \in Nat /\ k \in 1..PlanLength /\ n.next \in 1..(PlanLength + 1)
      /\ n.next - 1 = k /\ m + 1 = k /\ m < PlanLength
      /\ 1..(n.next - 1) = (1..m) \cup {k} /\ k \notin 1..m /\ \A i \in 1..m : i \in Positions
  BY <1>2, <1>3, PlanIsFinite, SMTT(60)
<1>5. \A i \in 1..(n.next - 1) : Complete(sh[i])
  BY <1>3, <1>4 DEF Walked
<1>6. /\ n.refs \in Seq(ShardRecords) /\ Len(n.refs) = n.next - 1
      /\ \A i \in 1..(n.next - 1) : n.refs[i] = sh[i]
  <2>1. j.refs \in Seq(ShardRecords) /\ Len(j.refs) = m /\ \A i \in 1..m : j.refs[i] = sh[i]
    BY <1>3 DEF Walked
  <2>2. /\ Append(j.refs, rec) \in Seq(ShardRecords) /\ Len(Append(j.refs, rec)) = m + 1
        /\ \A i \in 1..m : Append(j.refs, rec)[i] = j.refs[i]
        /\ Append(j.refs, rec)[m + 1] = rec
    BY <1>1, <2>1
  <2> QED BY <1>2, <1>4, <2>1, <2>2
<1>7. n.bytes = BytesTo(sh, n.next - 1) /\ n.bytes <= CampaignMax
  <2>1. Typed(sh)
    BY DEF ShardsInv
  <2>2. BytesTo(sh, m) \in Int /\ BytesTo(sh, m + 1) = BytesTo(sh, m) + SizesOf(sh)[m + 1]
    BY <1>4, <2>1, BytesGrow
  <2>3. SizesOf(sh)[k] = rec.size
    BY <2>1, SizesAreNat
  <2>4. j.bytes = BytesTo(sh, m)
    BY <1>3 DEF Walked
  <2> QED BY <1>2, <1>4, <2>2, <2>3, <2>4 DEF WithinCampaign
<1>8. PICK controls : controls = n.control
  OBVIOUS
<1>9. /\ DOMAIN controls = DOMAIN j.control \cup {SymbolAt(k)}
      /\ controls[SymbolAt(k)] = rec.control
      /\ \A s \in DOMAIN j.control : s # SymbolAt(k) => controls[s] = j.control[s]
  BY <1>2, <1>8 DEF WithControl
<1>10. /\ DOMAIN j.control = {SymbolAt(i) : i \in 1..m}
       /\ \A i \in 1..m : j.control[SymbolAt(i)] = sh[i].control
  BY <1>3 DEF Walked
<1>11. DOMAIN controls = {SymbolAt(i) : i \in 1..(n.next - 1)}
  BY <1>4, <1>9, <1>10
<1>12. ASSUME NEW i \in 1..(n.next - 1)
       PROVE  controls[SymbolAt(i)] = sh[i].control
  <2>1. CASE SymbolAt(i) = SymbolAt(k)
    <3>1. i \in Positions /\ Complete(sh[i])
      BY <1>4, <1>5
    <3>2. sh[i].control = sh[k].control
      BY <2>1, <3>1 DEF ShardsInv
    <3> QED BY <1>9, <2>1, <3>2
  <2>2. CASE SymbolAt(i) # SymbolAt(k)
    <3>1. i \in 1..m
      BY <1>4, <2>2
    <3>2. SymbolAt(i) \in DOMAIN j.control
      BY <1>10, <3>1
    <3> QED BY <1>9, <1>10, <2>2, <3>1, <3>2
  <2> QED BY <2>1, <2>2
<1> QED BY <1>2, <1>4, <1>5, <1>6, <1>7, <1>8, <1>11, <1>12 DEF Walked

--------------------------------------------------------------------------------
(***************************************************************************)
(* The preparation, step by step.                                          *)
(***************************************************************************)
FinalStep ==
    /\ \A i \in Positions : Complete(checkpoint[i]) => checkpoint'[i] = checkpoint[i]
    /\ Complete(normalized) => normalized' = normalized
    /\ Complete(result) => result' = result

LEMMA NothingWalked ==
  ASSUME NEW sh, NEW n, DOMAIN n = JobFields, n.next = 1, n.refs = <<>>, n.bytes = 0, n.control = <<>>
  PROVE  Walked(n, sh)
<1>1. 1..(n.next - 1) = {} /\ n.next - 1 = 0 /\ n.next \in 1..(PlanLength + 1)
  BY PlanIsFinite
<1>2. BytesTo(sh, n.next - 1) = 0
  BY <1>1, BytesNone
<1>3. n.refs \in Seq(ShardRecords) /\ Len(n.refs) = 0
  OBVIOUS
<1>4. DOMAIN n.control = {}
  OBVIOUS
<1>5. n.bytes <= CampaignMax
  BY CampaignAssumption
<1> QED BY <1>1, <1>2, <1>3, <1>4, <1>5 DEF Walked

LEMMA WalkedStays ==
  ASSUME NEW j, NEW n, NEW sh, Walked(j, sh), DOMAIN n = DOMAIN j,
         n.next = j.next, n.refs = j.refs, n.bytes = j.bytes, n.control = j.control
  PROVE  Walked(n, sh)
BY DEF Walked

LEMMA NoJobWalked ==
  ASSUME NEW sh, NEW norm, NEW res
  PROVE  JobInv(NoJob, sh, norm, res)
<1>1. /\ DOMAIN NoJob = JobFields /\ NoJob.next = 1 /\ NoJob.refs = <<>> /\ NoJob.bytes = 0
      /\ NoJob.control = <<>> /\ NoJob.pc = "none"
  BY DEF NoJob, JobFields
<1>2. Walked(NoJob, sh)
  BY <1>1, NothingWalked
<1> QED BY <1>1, <1>2 DEF JobInv, Publishing

\* The job ends; the checkpoints are as they were.
LEMMA JobEnds ==
  ASSUME PreparationInv, EndJob, UNCHANGED checkpoint, ResultInv(result', checkpoint)
  PROVE  PreparationInv'
<1>1. JobInv(NoJob, checkpoint, normalized', result')
  BY NoJobWalked
<1> QED BY <1>1 DEF PreparationInv, EndJob

\* The job moves on, and the disk stays as it is.
LEMMA JobMoves ==
  ASSUME PreparationInv, UNCHANGED <<checkpoint, normalized, result>>,
         JobInv(job', checkpoint, normalized, result)
  PROVE  PreparationInv' /\ FinalStep
BY DEF PreparationInv, FinalStep

LEMMA JobFieldsOf ==
  ASSUME PreparationInv
  PROVE  DOMAIN job = JobFields /\ Walked(job, checkpoint)
BY DEF PreparationInv, JobInv, Walked

LEMMA JobSubmitted ==
  ASSUME PreparationInv, NEW canary \in BOOLEAN, SubmitJob(canary)
  PROVE  PreparationInv' /\ FinalStep
<1>1. /\ DOMAIN job' = JobFields /\ job'.next = 1 /\ job'.refs = <<>> /\ job'.bytes = 0
      /\ job'.control = <<>> /\ job'.pc = "normalize"
  BY DEF SubmitJob, NoJob, JobFields
<1>2. PICK n : n = job'
  OBVIOUS
<1>3. Walked(n, checkpoint)
  BY <1>1, <1>2, NothingWalked
<1>4. JobInv(job', checkpoint, normalized, result)
  BY <1>1, <1>2, <1>3 DEF JobInv, Publishing
<1> QED BY <1>4, JobMoves DEF SubmitJob

\* The campaign begins with what is walked so far.
LEMMA OnlyProgress ==
  ASSUME PreparationInv, NEW pc, job' = [job EXCEPT !.pc = pc]
  PROVE  Walked(job', checkpoint) /\ job'.pc = pc /\ job'.next = job.next
<1>1. PICK j : j = job
  OBVIOUS
<1>2. PICK n : n = job'
  OBVIOUS
<1>3. DOMAIN j = JobFields /\ Walked(j, checkpoint) /\ n = [j EXCEPT !.pc = pc]
  BY <1>1, <1>2, JobFieldsOf
<1>4. /\ DOMAIN n = DOMAIN j /\ n.next = j.next /\ n.refs = j.refs /\ n.bytes = j.bytes
      /\ n.control = j.control /\ n.pc = pc
  BY <1>3 DEF JobFields
<1> QED BY <1>1, <1>2, <1>3, <1>4, WalkedStays

LEMMA NormalizedRestored ==
  ASSUME PreparationInv, RestoreNormalized
  PROVE  PreparationInv' /\ FinalStep
<1>1. CASE EndJob
  BY <1>1, NoJobWalked, JobMoves DEF RestoreNormalized, OnlyJob, EndJob
<1>2. CASE job' = [job EXCEPT !.pc = "campaign"]
  <2>1. JobInv(job', checkpoint, normalized, result)
    BY <1>2, OnlyProgress DEF JobInv, Publishing
  <2> QED BY <2>1, JobMoves DEF RestoreNormalized, OnlyJob
<1> QED BY <1>1, <1>2 DEF RestoreNormalized

LEMMA NormalizeBegins ==
  ASSUME PreparationInv, Normalize
  PROVE  PreparationInv' /\ FinalStep
<1>1. Walked(job', checkpoint) /\ job'.pc = "normalizing"
  BY OnlyProgress DEF Normalize
<1>2. JobInv(job', checkpoint, normalized', result)
  BY <1>1 DEF JobInv, Publishing, Normalize
<1>3. FinalStep
  BY DEF FinalStep, Normalize, Complete
<1> QED BY <1>2, <1>3 DEF PreparationInv, Normalize

LEMMA NormalizeEnds ==
  ASSUME PreparationInv, NormalizedPublished
  PROVE  PreparationInv' /\ FinalStep
<1>1. normalized = Partial
  BY DEF NormalizedPublished, PreparationInv, JobInv
<1>2. FinalStep
  BY <1>1 DEF FinalStep, NormalizedPublished, Complete
<1>3. UNCHANGED <<checkpoint, result>>
  BY DEF NormalizedPublished
<1>4. CASE EndJob
  BY <1>2, <1>3, <1>4, JobEnds DEF PreparationInv
<1>5. CASE job' = [job EXCEPT !.pc = "campaign"]
  <2>1. JobInv(job', checkpoint, normalized', result)
    BY <1>5, OnlyProgress DEF JobInv, Publishing
  <2> QED BY <1>2, <1>3, <2>1 DEF PreparationInv
<1> QED BY <1>4, <1>5 DEF NormalizedPublished

LEMMA ShardLoaded ==
  ASSUME PreparationInv, LoadShard
  PROVE  PreparationInv' /\ FinalStep
<1>1. UNCHANGED <<checkpoint, normalized, result>> /\ job.pc = "campaign" /\ job.next \in Positions
  BY DEF LoadShard, OnlyJob
<1>2. CASE EndJob
  BY <1>1, <1>2, NoJobWalked, JobMoves DEF EndJob
<1>3. CASE /\ Complete(checkpoint[job.next])
           /\ AcceptsControl(job, job.next, checkpoint[job.next].control)
           /\ WithinCampaign(job.bytes + checkpoint[job.next].size)
           /\ job' = TakeShard(job, job.next, checkpoint[job.next])
  <2>1. PICK j : j = job
    OBVIOUS
  <2>2. PICK sh : sh = checkpoint
    OBVIOUS
  <2>3. PICK k : k = j.next
    OBVIOUS
  <2>4. PICK rec : rec = sh[k]
    OBVIOUS
  <2>5. PICK n : n = job'
    OBVIOUS
  <2>6. ShardsInv(sh) /\ Walked(j, sh)
    BY <2>1, <2>2, JobFieldsOf DEF PreparationInv
  <2>7. /\ k \in Positions /\ Complete(rec) /\ AcceptsControl(j, k, rec.control)
        /\ WithinCampaign(j.bytes + rec.size) /\ n = TakeShard(j, k, rec)
    BY <1>1, <1>3, <2>1, <2>2, <2>3, <2>4, <2>5
  <2>8. Walked(n, sh) /\ n.pc = j.pc
    BY <2>3, <2>4, <2>6, <2>7, ShardTaken
  <2>9. JobInv(job', checkpoint, normalized, result)
    BY <1>1, <2>1, <2>2, <2>5, <2>8 DEF JobInv, Publishing
  <2> QED BY <1>1, <2>9, JobMoves
<1> QED BY <1>2, <1>3 DEF LoadShard

LEMMA ShardExported ==
  ASSUME PreparationInv, NEW c \in Controls, NEW size \in ShardSizes, ExportShard(c, size)
  PROVE  PreparationInv' /\ FinalStep
<1>1. UNCHANGED <<normalized, result>> /\ job.next \in Positions /\ checkpoint[job.next] = Absent
  BY DEF ExportShard
<1>2. CASE EndJob /\ UNCHANGED checkpoint
  BY <1>1, <1>2, NoJobWalked, JobMoves DEF EndJob
<1>3. CASE /\ AcceptsControl(job, job.next, c) /\ size <= ShardMax
           /\ checkpoint' = [checkpoint EXCEPT ![job.next] = Partial]
           /\ job' = [job EXCEPT !.pc = "publishing",
                  !.pending = [control |-> c, size |-> size,
                               includesControl |-> ControlOf(job, job.next) = Absent]]
  <2>1. PICK j : j = job
    OBVIOUS
  <2>2. PICK sh : sh = checkpoint
    OBVIOUS
  <2>3. PICK k \in Positions : k = j.next
    BY <1>1, <2>1
  <2>4. PICK n : n = job'
    OBVIOUS
  <2>5. PICK ti : ti = checkpoint'
    OBVIOUS
  <2>6. ShardsInv(sh) /\ Walked(j, sh) /\ DOMAIN j = JobFields /\ ResultInv(result, sh)
    BY <2>1, <2>2, JobFieldsOf DEF PreparationInv
  <2>7. ti = [sh EXCEPT ![k] = Partial] /\ ~Complete(sh[k])
    BY <1>1, <1>3, <2>1, <2>2, <2>3, <2>5 DEF Complete
  <2>8. ShardsInv(ti) /\ Kept(sh, ti)
    BY <2>6, <2>7, ShardsUntouched
  <2>9. PICK rec : rec = [control |-> c, size |-> size, includesControl |-> ControlOf(j, k) = Absent]
    OBVIOUS
  <2>10. n = [j EXCEPT !.pc = "publishing", !.pending = rec]
    BY <1>3, <2>1, <2>3, <2>4, <2>9
  <2>11. /\ DOMAIN n = DOMAIN j /\ n.next = j.next /\ n.refs = j.refs /\ n.bytes = j.bytes
         /\ n.control = j.control /\ n.pc = "publishing" /\ n.pending = rec
    BY <2>6, <2>10 DEF JobFields
  <2>12. Walked(n, ti)
    BY <2>6, <2>8, <2>11, WalkedKept, WalkedStays
  <2>13. rec \in ShardRecords
    BY <1>3, <2>9 DEF ShardRecords
  <2>14. /\ SymbolAt(k) \in DOMAIN j.control <=> \E i \in 1..(k - 1) : SymbolAt(i) = SymbolAt(k)
         /\ \A i \in 1..(k - 1) : /\ i \in Positions
                                  /\ j.control[SymbolAt(i)] = sh[i].control /\ sh[i].control # Absent
    <3>1. \A i \in 1..(k - 1) : i \in Positions /\ Complete(sh[i])
      BY <2>3, <2>6, PlanIsFinite DEF Walked
    <3>2. \A i \in 1..(k - 1) : sh[i].control # Absent
      BY <2>6, <3>1, CompleteIsRecord, RecordIsComplete DEF ShardsInv
    <3> QED BY <2>3, <2>6, <3>1, <3>2 DEF Walked
  <2>15. ControlOf(j, k) = Absent <=> ~\E i \in 1..(k - 1) : SymbolAt(i) = SymbolAt(k)
    BY <2>14 DEF ControlOf
  <2>16. rec.includesControl = FirstOfSymbol(k)
    <3>1. FirstOfSymbol(k) <=> ControlOf(j, k) = Absent
      BY <2>15, FirstIsNew
    <3>2. rec.includesControl = (ControlOf(j, k) = Absent) /\ FirstOfSymbol(k) \in BOOLEAN
      BY <2>9 DEF FirstOfSymbol
    <3> QED BY <3>1, <3>2
  <2>17. ASSUME NEW i \in 1..(k - 1), SymbolAt(i) = SymbolAt(k)
         PROVE  rec.control = ti[i].control
    <3>1. ControlOf(j, k) = sh[i].control /\ ControlOf(j, k) # Absent
      BY <2>14, <2>17 DEF ControlOf
    <3>2. c = ControlOf(j, k)
      BY <1>3, <2>1, <2>3, <3>1 DEF AcceptsControl
    <3>3. i \in Positions /\ Complete(sh[i])
      BY <2>3, <2>6, <2>14 DEF Walked
    <3>4. ti[i] = sh[i]
      BY <2>8, <3>3 DEF Kept
    <3> QED BY <2>9, <3>1, <3>2, <3>4
  <2>18. ti[k] = Partial
    BY <2>6, <2>7 DEF ShardsInv
  <2>19. Publishing(n, ti)
    BY <2>3, <2>11, <2>13, <2>16, <2>17, <2>18 DEF Publishing
  <2>20. JobInv(n, ti, normalized, result)
    BY <2>11, <2>12, <2>19 DEF JobInv
  <2>21. ResultInv(result, ti)
    BY <2>6, <2>8, ResultKept
  <2>22. PreparationInv'
    BY <1>1, <2>4, <2>5, <2>8, <2>20, <2>21 DEF PreparationInv
  <2>23. FinalStep
    BY <1>1, <2>2, <2>5, <2>8 DEF FinalStep, Kept
  <2> QED BY <2>22, <2>23
<1> QED BY <1>2, <1>3 DEF ExportShard

LEMMA ShardIsPublished ==
  ASSUME PreparationInv, ShardPublished
  PROVE  PreparationInv' /\ FinalStep
<1>1. UNCHANGED <<normalized, result>> /\ job.pc = "publishing"
  BY DEF ShardPublished
<1>2. PICK j : j = job
  OBVIOUS
<1>3. PICK sh : sh = checkpoint
  OBVIOUS
<1>4. PICK ti : ti = checkpoint'
  OBVIOUS
<1>5. PICK n : n = job'
  OBVIOUS
<1>6. ShardsInv(sh) /\ Walked(j, sh) /\ Publishing(j, sh) /\ ResultInv(result, sh)
  BY <1>2, <1>3 DEF PreparationInv, JobInv
<1>7. j.pc = "publishing" /\ ti = [sh EXCEPT ![j.next] = j.pending]
  BY <1>1, <1>2, <1>3, <1>4 DEF ShardPublished
<1>8. ShardsInv(ti) /\ Kept(sh, ti) /\ Complete(ti[j.next]) /\ ti[j.next] = j.pending
  BY <1>6, <1>7, ShardCompleted
<1>9. ResultInv(result, ti)
  BY <1>6, <1>8, ResultKept
<1>10. FinalStep
  BY <1>1, <1>3, <1>4, <1>8 DEF FinalStep, Kept
<1>11. JobInv(n, ti, normalized, result)
  <2>1. CASE job' = NoJob
    BY <1>5, <2>1, NoJobWalked
  <2>2. CASE /\ WithinCampaign(j.bytes + j.pending.size)
             /\ job' = [TakeShard(j, j.next, j.pending) EXCEPT !.pc = "campaign", !.new = @ + 1,
                                                               !.pending = Absent]
    <3>1. PICK k : k = j.next
      OBVIOUS
    <3>2. PICK rec : rec = j.pending
      OBVIOUS
    <3>3. PICK taken : taken = TakeShard(j, k, rec)
      OBVIOUS
    <3>4. k \in Positions /\ rec = ti[k] /\ Complete(rec) /\ Walked(j, ti)
      BY <1>6, <1>7, <1>8, <3>1, <3>2, WalkedKept DEF Publishing
    <3>5. AcceptsControl(j, k, rec.control)
      <4>1. SymbolAt(k) \in DOMAIN j.control => j.control[SymbolAt(k)] = rec.control
        BY <1>6, <1>7, <3>1, <3>2 DEF Walked, Publishing
      <4> QED BY <4>1 DEF AcceptsControl, ControlOf
    <3>6. WithinCampaign(j.bytes + rec.size)
      BY <2>2, <3>2
    <3>7. Walked(taken, ti)
      BY <1>8, <3>1, <3>3, <3>4, <3>5, <3>6, ShardTaken
    <3>8. n = [taken EXCEPT !.pc = "campaign", !.new = @ + 1, !.pending = Absent]
      BY <1>5, <2>2, <3>1, <3>2, <3>3
    <3>9. DOMAIN taken = JobFields
      BY <3>7 DEF Walked
    <3>10. /\ DOMAIN n = DOMAIN taken /\ n.next = taken.next /\ n.refs = taken.refs
           /\ n.bytes = taken.bytes /\ n.control = taken.control /\ n.pc = "campaign"
      BY <3>8, <3>9 DEF JobFields
    <3>11. Walked(n, ti)
      BY <3>7, <3>10, WalkedStays
    <3> QED BY <3>10, <3>11 DEF JobInv, Publishing
  <2> QED BY <1>2, <2>1, <2>2 DEF ShardPublished
<1>12. PreparationInv'
  BY <1>1, <1>4, <1>5, <1>8, <1>9, <1>11 DEF PreparationInv
<1> QED BY <1>10, <1>12

LEMMA ShardTakenBack ==
  ASSUME PreparationInv, ShardRolledBack
  PROVE  PreparationInv' /\ FinalStep
<1>1. UNCHANGED <<normalized, result>> /\ job.pc = "publishing" /\ EndJob
  BY DEF ShardRolledBack
<1>2. PICK k \in Positions : k = job.next
  BY <1>1 DEF PreparationInv, JobInv, Publishing
<1>3. PICK s \in {Absent, Partial} : checkpoint' = [checkpoint EXCEPT ![k] = s]
  BY <1>2 DEF ShardRolledBack
<1>4. PICK sh : sh = checkpoint
  OBVIOUS
<1>5. PICK ti : ti = checkpoint'
  OBVIOUS
<1>6. ShardsInv(sh) /\ ~Complete(sh[k]) /\ ResultInv(result, sh) /\ ti = [sh EXCEPT ![k] = s]
  BY <1>1, <1>2, <1>3, <1>4, <1>5 DEF PreparationInv, JobInv, Publishing, Complete
<1>7. ShardsInv(ti) /\ Kept(sh, ti)
  BY <1>6, ShardsUntouched
<1>8. ResultInv(result, ti)
  BY <1>6, <1>7, ResultKept
<1>9. JobInv(NoJob, ti, normalized, result)
  BY NoJobWalked
<1>10. PreparationInv'
  BY <1>1, <1>5, <1>7, <1>8, <1>9 DEF PreparationInv, EndJob
<1>11. FinalStep
  BY <1>1, <1>4, <1>5, <1>7 DEF FinalStep, Kept
<1> QED BY <1>10, <1>11

LEMMA PreparationIndexed ==
  ASSUME PreparationInv, IndexPreparation
  PROVE  PreparationInv' /\ FinalStep
<1>1. UNCHANGED <<checkpoint, normalized, result>> /\ job.next = PlanLength + 1
  <2>1. job.next \in 1..(PlanLength + 1) /\ job.next \notin Positions
    BY JobFieldsOf DEF IndexPreparation, Walked
  <2> QED BY <2>1, PlanIsFinite DEF IndexPreparation
<1>2. CASE EndJob
  BY <1>1, <1>2, NoJobWalked, JobMoves DEF EndJob
<1>3. CASE job' = [job EXCEPT !.pc = "indexed"]
  <2>1. JobInv(job', checkpoint, normalized, result)
    BY <1>1, <1>3, OnlyProgress DEF JobInv, Publishing
  <2> QED BY <1>1, <2>1, JobMoves
<1> QED BY <1>2, <1>3 DEF IndexPreparation

LEMMA ResultBegins ==
  ASSUME PreparationInv, PublishResult
  PROVE  PreparationInv' /\ FinalStep
<1>1. UNCHANGED <<checkpoint, normalized>> /\ job.next = PlanLength + 1
  BY DEF PublishResult, PreparationInv, JobInv
<1>2. CASE EndJob /\ UNCHANGED result
  BY <1>1, <1>2, NoJobWalked, JobMoves DEF EndJob
<1>3. CASE result = Absent /\ result' = Partial /\ job' = [job EXCEPT !.pc = "result"]
  <2>1. JobInv(job', checkpoint, normalized, result')
    BY <1>1, <1>3, OnlyProgress DEF JobInv, Publishing
  <2>2. ResultInv(result', checkpoint) /\ FinalStep
    BY <1>1, <1>3 DEF ResultInv, FinalStep, Complete
  <2> QED BY <1>1, <2>1, <2>2 DEF PreparationInv
<1> QED BY <1>2, <1>3 DEF PublishResult

LEMMA ResultEnds ==
  ASSUME PreparationInv, ResultPublished
  PROVE  PreparationInv' /\ FinalStep
<1>1. /\ UNCHANGED <<checkpoint, normalized>> /\ EndJob /\ job.next = PlanLength + 1
      /\ result = Partial
  BY DEF ResultPublished, PreparationInv, JobInv
<1>2. FinalStep
  BY <1>1 DEF FinalStep, Complete
<1>3. ResultInv(result', checkpoint)
  <2>1. CASE result' \in {Absent, Partial}
    BY <2>1 DEF ResultInv, Complete
  <2>2. CASE result' = [shards |-> job.refs, bytes |-> job.bytes]
    <3>1. Walked(job, checkpoint) /\ job.next - 1 = PlanLength
      BY <1>1, JobFieldsOf, PlanIsFinite
    <3> QED BY <2>2, <3>1, PlanIsFinite DEF Walked, ResultInv
  <2> QED BY <2>1, <2>2 DEF ResultPublished
<1> QED BY <1>1, <1>2, <1>3, JobEnds

LEMMA JobStops ==
  ASSUME PreparationInv, EndJob, OnlyJob
  PROVE  PreparationInv' /\ FinalStep
BY NoJobWalked, JobMoves DEF EndJob, OnlyJob

LEMMA NothingPrepared ==
  ASSUME PreparationInv, UNCHANGED <<job, checkpoint, normalized, result>>
  PROVE  PreparationInv' /\ FinalStep
BY DEF PreparationInv, FinalStep

LEMMA PreparationStep ==
  ASSUME PreparationInv, PrepNext
  PROVE  PreparationInv' /\ FinalStep
<1>1. CASE PackageRequest \/ PublishRequest \/ ReviewDryRun \/ FreezeProjections
  BY <1>1, NothingPrepared DEF PackageRequest, PublishRequest, ReviewDryRun, FreezeProjections
<1>2. CASE \E s \in DOMAIN scope : PublishScope(s)
  BY <1>2, NothingPrepared DEF PublishScope
<1>3. CASE StopCanary \/ CrashJob
  BY <1>3, JobStops DEF StopCanary, CrashJob
<1> QED
  BY <1>1, <1>2, <1>3, JobSubmitted, NormalizedRestored, NormalizeBegins, NormalizeEnds,
     ShardLoaded, ShardExported, ShardIsPublished, ShardTakenBack, PreparationIndexed,
     ResultBegins, ResultEnds DEF PrepNext

LEMMA PreparationInit ==
  ASSUME Init
  PROVE  PreparationInv
<1>1. \A i \in Positions : checkpoint[i] = Absent
  BY DEF Init
<1>2. ShardsInv(checkpoint)
  BY <1>1 DEF Init, ShardsInv, Typed, Complete
<1>3. JobInv(job, checkpoint, normalized, result)
  BY NoJobWalked DEF Init
<1>4. ResultInv(result, checkpoint)
  BY DEF Init, ResultInv, Complete
<1> QED BY <1>2, <1>3, <1>4 DEF PreparationInv

(***************************************************************************)
(* What the invariant says of a prepared release and of the disk.          *)
(***************************************************************************)
LEMMA PreparedFreezes ==
  ASSUME PreparationInv
  PROVE  PreparedReleaseFreezes
<1> SUFFICES ASSUME Complete(result)
             PROVE  /\ FreezeAccepts(result)
                    /\ \A i, j \in Positions : SymbolAt(i) = SymbolAt(j)
                          => result.shards[i].control = result.shards[j].control
  BY DEF PreparedReleaseFreezes
<1>1. /\ \A i \in Positions : Complete(checkpoint[i]) /\ result.shards[i] = checkpoint[i]
      /\ Len(result.shards) = Cardinality(Positions)
  BY PlanIsFinite DEF PreparationInv, ResultInv
<1>2. FreezeAccepts(result)
  BY <1>1 DEF FreezeAccepts, PreparationInv, ShardsInv
<1> QED BY <1>1, <1>2 DEF PreparationInv, ShardsInv

\* The complete checkpoints are a prefix of the plan.
LEMMA CompletePrefix ==
  ASSUME NEW sh, ShardsInv(sh)
  PROVE  \E m \in 0..PlanLength : {i \in Positions : Complete(sh[i])} = 1..m
<1> DEFINE Missing == {i \in Positions : ~Complete(sh[i])}
<1>1. PlanLength \in Nat /\ Positions = 1..PlanLength
  BY PlanIsFinite
<1>2. CASE Missing = {}
  <2>1. {i \in Positions : Complete(sh[i])} = 1..PlanLength
    BY <1>1, <1>2
  <2> QED BY <1>1, <2>1
<1>3. CASE Missing # {}
  <2>1. PICK S : S = Missing
    OBVIOUS
  <2>2. S \in SUBSET Nat /\ S # {}
    BY <1>1, <1>3, <2>1
  <2>3. PICK k \in S : \A i \in 1..(k - 1) : i \notin S
    BY <2>2, FirstNumber
  <2>4. k \in Positions /\ ~Complete(sh[k]) /\ k \in 1..PlanLength
    BY <1>1, <2>1, <2>3
  <2>5. \A i \in 1..(k - 1) : i \in Positions /\ Complete(sh[i])
    BY <1>1, <2>1, <2>3, <2>4
  <2>6. \A i \in Positions : Complete(sh[i]) => i \in 1..(k - 1)
    BY <1>1, <2>4 DEF ShardsInv
  <2>7. {i \in Positions : Complete(sh[i])} = 1..(k - 1)
    BY <2>5, <2>6
  <2> QED BY <1>1, <2>4, <2>7
<1> QED BY <1>2, <1>3

LEMMA PrefixBounded ==
  ASSUME NEW sh, ShardsInv(sh), NEW m \in 0..PlanLength, \A i \in 1..m : Complete(sh[i])
  PROVE  BytesTo(sh, m) <= CampaignMax + ShardMax
<1>1. CASE m = 0
  BY <1>1, BytesNone, CampaignAssumption
<1>2. CASE m # 0
  <2>1. PICK n \in Nat : n = m - 1 /\ m = n + 1 /\ n < PlanLength
    BY <1>2, PlanIsFinite
  <2>2. m \in Positions /\ Complete(sh[m]) /\ Typed(sh)
    BY <1>2, PlanIsFinite DEF ShardsInv
  <2>3. BytesTo(sh, n) <= CampaignMax
    BY <2>1, <2>2 DEF ShardsInv
  <2>4. SizesOf(sh)[m] \in Nat /\ SizesOf(sh)[m] <= ShardMax
    BY <2>2, SizesAreNat
  <2>5. PICK z \in Nat : z = SizesOf(sh)[m] /\ z <= ShardMax
    BY <2>4
  <2>6. PICK b \in Int : b = BytesTo(sh, n) /\ b <= CampaignMax
    BY <2>1, <2>2, <2>3, BytesGrow
  <2>7. BytesTo(sh, m) = b + z
    BY <2>1, <2>2, <2>5, <2>6, BytesGrow
  <2> QED BY <2>5, <2>6, <2>7, CampaignAssumption
<1> QED BY <1>1, <1>2

LEMMA BytesBounded ==
  ASSUME PreparationInv
  PROVE  CampaignBytesBounded
<1> DEFINE Done == {i \in Positions : Complete(checkpoint[i])}
           Bytes(S) == MapThenSumSet(LAMBDA i : checkpoint[i].size, S)
<1>1. PICK sh : sh = checkpoint
  OBVIOUS
<1>2. ShardsInv(sh)
  BY <1>1 DEF PreparationInv
<1>3. PICK m \in 0..PlanLength : {i \in Positions : Complete(sh[i])} = 1..m
  BY <1>2, CompletePrefix
<1>4. IsFiniteSet(1..m) /\ 1..m \subseteq Positions /\ \A i \in 1..m : Complete(sh[i])
  <2>1. 1..m \subseteq Positions /\ \A i \in 1..m : Complete(sh[i])
    BY <1>3
  <2>2. m \in Int /\ 1 \in Int
    BY PlanIsFinite
  <2> QED BY <2>1, <2>2, FS_Interval
<1>5. MapThenSumSet(LAMBDA i : sh[i].size, 1..m) = BytesTo(sh, m)
  BY <1>4, BytesAdded DEF BytesTo
<1>6. Bytes(Done) <= CampaignMax + ShardMax
  <2>1. BytesTo(sh, m) <= CampaignMax + ShardMax
    BY <1>2, <1>4, PrefixBounded
  <2>2. Done = 1..m
    BY <1>1, <1>3
  <2>3. Bytes(1..m) = BytesTo(sh, m)
    BY <1>1, <1>5
  <2> HIDE DEF Bytes, Done
  <2> QED BY <2>1, <2>2, <2>3
<1>7. ASSUME Complete(result)
      PROVE  Bytes(Positions) = result.bytes /\ result.bytes <= CampaignMax
  <2>1. /\ \A i \in Positions : Complete(sh[i])
        /\ result.bytes = BytesTo(sh, PlanLength) /\ result.bytes <= CampaignMax
    BY <1>1, <1>7 DEF PreparationInv, ResultInv
  <2>2. IsFiniteSet(Positions) /\ Positions = 1..PlanLength
    BY PlanIsFinite, FS_Interval
  <2>3. MapThenSumSet(LAMBDA i : sh[i].size, Positions) = Total(SizesOf(sh), Positions)
    BY <2>1, <2>2, BytesAdded
  <2> QED BY <1>1, <2>1, <2>2, <2>3 DEF BytesTo
<1> QED BY <1>6, <1>7 DEF CampaignBytesBounded
--------------------------------------------------------------------------------
(***************************************************************************)
(* The acquisition of the sources.                                         *)
(***************************************************************************)
DownloadFields == {"pc", "part", "requests", "validator"}

AcqInv ==
    /\ acq.ok \in 0..NSources /\ remote \in 1..MaxVersion
    /\ DOMAIN download = DownloadFields
    /\ download.pc = "download" => acq.ok < NSources /\ download.part \in Seq(1..MaxVersion)
    /\ DOMAIN quarantine = 1..NSources
    /\ SourcesAreWhole

LEMMA AcquisitionInit ==
  ASSUME AcqInit
  PROVE  AcqInv
BY AcquisitionAssumption DEF AcqInit, AcqInv, Idle, DownloadFields, SourcesAreWhole

LEMMA DownloadStarts ==
  ASSUME AcqInv, StartDownload
  PROVE  AcqInv'
<1>1. /\ DOMAIN download' = DownloadFields /\ download'.part = <<>> /\ acq.ok < NSources
      /\ UNCHANGED <<acq, remote, quarantine>>
  BY DEF StartDownload, MayAcquire, Idle, DownloadFields
<1>2. download'.part \in Seq(1..MaxVersion)
  BY <1>1
<1>3. SourcesAreWhole'
  BY <1>1 DEF AcqInv, SourcesAreWhole
<1> QED BY <1>1, <1>2, <1>3 DEF AcqInv

LEMMA JobFails ==
  ASSUME AcqInv, FailJob
  PROVE  AcqInv'
<1>1. /\ DOMAIN download' = DownloadFields /\ download'.pc = "idle"
      /\ UNCHANGED <<remote, quarantine>>
  BY DEF FailJob, Idle, DownloadFields
<1>2. acq'.ok = acq.ok
  BY DEF FailJob, Record, AcqInv
<1>3. SourcesAreWhole'
  BY <1>1, <1>2 DEF AcqInv, SourcesAreWhole
<1> QED BY <1>1, <1>2, <1>3 DEF AcqInv

LEMMA UnitsReceived ==
  ASSUME AcqInv, Request
  PROVE  AcqInv'
<1>1. CASE FailJob
  BY <1>1, JobFails
<1>2. ASSUME NEW v, NEW n \in 0..(Units - Len(download.part)),
             download' = [download EXCEPT !.part = @ \o [i \in 1..n |-> remote],
                                          !.requests = @ + 1, !.validator = v],
             UNCHANGED <<acq, remote, quarantine>>
      PROVE  AcqInv'
  <2>1. PICK part \in Seq(1..MaxVersion) : part = download.part
    BY DEF Request, AcqInv
  <2>2. PICK r \in 1..MaxVersion : r = remote
    BY DEF AcqInv
  <2>3. n \in Nat
    BY <2>1, AcquisitionAssumption
  <2>4. [i \in 1..n |-> r] \in Seq(1..MaxVersion)
    BY <2>3
  <2>5. PICK more \in Seq(1..MaxVersion) : more = [i \in 1..n |-> r]
    BY <2>4
  <2>6. part \o more \in Seq(1..MaxVersion)
    OBVIOUS
  <2>7. DOMAIN download' = DownloadFields /\ download'.part = part \o more
    BY <1>2, <2>1, <2>2, <2>5 DEF AcqInv, DownloadFields
  <2>8. acq.ok < NSources
    BY DEF Request, AcqInv
  <2>9. SourcesAreWhole'
    BY <1>2 DEF AcqInv, SourcesAreWhole
  <2> QED BY <1>2, <2>6, <2>7, <2>8, <2>9 DEF AcqInv
<1> QED BY <1>1, <1>2 DEF Request

LEMMA UnitOf ==
  ASSUME NEW V, NEW file \in Seq(V), NEW i \in 1..Len(file)
  PROVE  file[i] \in V
OBVIOUS

\* A file that passes its checks is one version of the remote file.
LEMMA SourceIsPublished ==
  ASSUME AcqInv, PublishSource
  PROVE  AcqInv'
<1>1. CASE FailJob
  BY <1>1, JobFails
<1>2. CASE /\ GzipIntact(download.part)
           /\ quarantine' = [quarantine EXCEPT ![acq.ok + 1] = download.part]
           /\ download' = Idle /\ Record(TRUE) /\ UNCHANGED remote
  <2>1. PICK part \in Seq(1..MaxVersion) : part = download.part
    BY DEF PublishSource, AcqInv
  <2>2. PICK k \in 0..(NSources - 1) : k = acq.ok
    BY AcquisitionAssumption DEF PublishSource, AcqInv
  <2>3. k + 1 \in 1..NSources /\ acq'.ok = k + 1
    BY <1>2, <2>2, AcquisitionAssumption DEF Record
  <2>4. quarantine'[k + 1] = part /\ DOMAIN quarantine' = 1..NSources
        /\ \A s \in 1..NSources : s # k + 1 => quarantine'[s] = quarantine[s]
    BY <1>2, <2>1, <2>2, <2>3 DEF AcqInv
  <2>5. Len(part) = Units /\ 1 \in DOMAIN part /\ \A i \in DOMAIN part : part[i] = part[1]
    BY <1>2, <2>1, AcquisitionAssumption DEF PublishSource, GzipIntact
  <2>6. PICK v \in 1..MaxVersion : v = part[1]
    <3>1. \A i \in 1..Len(part) : part[i] \in 1..MaxVersion
      BY <2>1, UnitOf
    <3>2. 1 \in 1..Len(part)
      BY <2>5, AcquisitionAssumption
    <3> QED BY <3>1, <3>2
  <2>7. part = [i \in 1..Units |-> v] /\ part # <<>>
    BY <2>5, <2>6
  <2>8. ASSUME NEW s \in 1..NSources
        PROVE  /\ (quarantine'[s] # <<>>) <=> s <= k + 1
               /\ quarantine'[s] # <<>> => \E u \in 1..MaxVersion :
                     quarantine'[s] = [i \in 1..Units |-> u]
    <3>1. CASE s = k + 1
      <4>1. quarantine'[s] = part /\ s <= k + 1
        BY <2>4, <3>1
      <4>2. \E u \in 1..MaxVersion : part = [i \in 1..Units |-> u]
        BY <2>7
      <4> QED BY <2>7, <4>1, <4>2
    <3>2. CASE s # k + 1
      <4>1. quarantine'[s] = quarantine[s] /\ (s <= k + 1 <=> s <= k)
        BY <2>4, <3>2
      <4>2. /\ (quarantine[s] # <<>>) <=> s <= k
            /\ quarantine[s] # <<>> => \E u \in 1..MaxVersion :
                  quarantine[s] = [i \in 1..Units |-> u]
        BY <2>2 DEF AcqInv, SourcesAreWhole
      <4> QED BY <4>1, <4>2
    <3> QED BY <3>1, <3>2
  <2>9. SourcesAreWhole'
    BY <2>3, <2>8 DEF SourcesAreWhole
  <2>10. DOMAIN download' = DownloadFields /\ download'.pc = "idle" /\ remote' = remote
    BY <1>2 DEF Idle, DownloadFields
  <2> QED BY <2>3, <2>4, <2>9, <2>10 DEF AcqInv
<1> QED BY <1>1, <1>2 DEF PublishSource

LEMMA RemoteMovesOn ==
  ASSUME AcqInv, RemoteReplaced
  PROVE  AcqInv'
<1>1. SourcesAreWhole'
  BY DEF RemoteReplaced, AcqInv, SourcesAreWhole
<1> QED BY <1>1, AcquisitionAssumption DEF RemoteReplaced, AcqInv

LEMMA AcquisitionStays ==
  ASSUME AcqInv, UNCHANGED acqVars
  PROVE  AcqInv'
BY DEF acqVars, AcqInv, SourcesAreWhole

LEMMA PreparationLeavesSources ==
  ASSUME PrepNext
  PROVE  UNCHANGED acqVars
BY DEF PrepNext, PackageRequest, PublishRequest, ReviewDryRun, SubmitJob, RestoreNormalized,
       Normalize, NormalizedPublished, LoadShard, StopCanary, ExportShard, ShardPublished,
       ShardRolledBack, IndexPreparation, PublishResult, ResultPublished, CrashJob,
       FreezeProjections, PublishScope, OnlyJob
--------------------------------------------------------------------------------
CampaignInv == AcqInv /\ PreparationInv

LEMMA CampaignStep ==
  ASSUME CampaignInv, [Next]_vars
  PROVE  CampaignInv' /\ FinalStep
<1>1. CASE AcqNext /\ UNCHANGED prepVars
  <2>1. AcqInv'
    BY <1>1, DownloadStarts, UnitsReceived, SourceIsPublished, RemoteMovesOn
       DEF CampaignInv, AcqNext
  <2>2. PreparationInv' /\ FinalStep
    BY <1>1, NothingPrepared DEF CampaignInv, prepVars
  <2> QED BY <2>1, <2>2 DEF CampaignInv
<1>2. CASE PrepNext
  BY <1>2, PreparationStep, PreparationLeavesSources, AcquisitionStays DEF CampaignInv
<1>3. CASE UNCHANGED vars
  <2>1. UNCHANGED acqVars /\ UNCHANGED <<job, checkpoint, normalized, result>>
    BY <1>3 DEF vars, prepVars
  <2> QED BY <2>1, NothingPrepared, AcquisitionStays DEF CampaignInv
<1> QED BY <1>1, <1>2, <1>3 DEF Next

\* The checkpoints on disk are a prefix of the plan, the running job has walked
\* a prefix of them, and a published result lists all of them.
THEOREM CampaignInvariant == Spec => []CampaignInv
<1>1. Init => CampaignInv
  BY AcquisitionInit, PreparationInit DEF CampaignInv, Init
<1>2. CampaignInv /\ [Next]_vars => CampaignInv'
  BY CampaignStep
<1> QED BY <1>1, <1>2, PTL DEF Spec

\* The campaign of the public sample stands on whole sources, a prepared
\* release freezes, its bytes stay inside the limit and a checkpoint, once
\* complete, is final (market_data/acquisition.py, preparation.py), for any
\* plan, any sizes and any number of jobs.
THEOREM CampaignSound == Spec => CampaignIsSound
<1>1. CampaignInv => SourcesAreWhole /\ PreparedReleaseFreezes /\ CampaignBytesBounded
  BY PreparedFreezes, BytesBounded DEF CampaignInv, AcqInv
<1>2. CampaignInv /\ [Next]_vars => [FinalStep]_vars
  BY CampaignStep
<1>3. Spec => []CampaignInv
  BY CampaignInvariant
<1>4. Spec => [](SourcesAreWhole /\ PreparedReleaseFreezes /\ CampaignBytesBounded)
  BY <1>1, <1>3, PTL
<1>5. Spec => [][FinalStep]_vars
  BY <1>2, <1>3, PTL DEF Spec
<1>6. Spec => CheckpointsAreFinal
  BY <1>5 DEF CheckpointsAreFinal, FinalStep
<1> QED BY <1>4, <1>6 DEF CampaignIsSound

--------------------------------------------------------------------------------
(***************************************************************************)
(* The visible book and the active orders.                                 *)
(***************************************************************************)
ActiveOrders == [ref : Refs, side : Sides, shares : Int, price : Prices]

SharesOf == [o \in ActiveOrders |-> o.shares]

AtLevel(A, s, p) == {o \in A : o.side = s /\ o.price = p}

Books == [Sides -> [Prices -> Int]]

DepthIs(b, A) == \A s \in Sides, p \in Prices : b[s][p] = Total(SharesOf, AtLevel(A, s, p))

\* Book c is b with one level changed.
LevelMoves(b, c, s, p, delta) ==
    /\ c \in Books /\ c[s][p] = b[s][p] + delta
    /\ \A t \in Sides, q \in Prices : t # s \/ q # p => c[t][q] = b[t][q]

NormalFields == {"active", "seen", "rows", "last", "book"}

GoodNormal(n) ==
    /\ DOMAIN n = NormalFields /\ IsFiniteSet(n.active) /\ n.active \in SUBSET ActiveOrders
    /\ \A o \in n.active : o.ref \in n.seen
    /\ \A o, q \in n.active : o.ref = q.ref => o = q
    /\ n.book \in Books /\ DepthIs(n.book, n.active)

LEMMA AdjustMoves ==
  ASSUME NEW b \in Books, NEW s \in Sides, NEW p \in Prices, NEW delta \in Int
  PROVE  LevelMoves(b, Adjust(b, s, p, delta), s, p, delta)
<1>1. b[s] \in [Prices -> Int] /\ b[s][p] + delta \in Int
  BY DEF Books
<1>2. PICK r : r = [b[s] EXCEPT ![p] = @ + delta]
  OBVIOUS
<1>3. r \in [Prices -> Int] /\ r[p] = b[s][p] + delta /\ \A q \in Prices : q # p => r[q] = b[s][q]
  BY <1>1, <1>2
<1>4. Adjust(b, s, p, delta) = [b EXCEPT ![s] = r]
  BY <1>2 DEF Adjust
<1> QED BY <1>3, <1>4 DEF LevelMoves, Books

LEMMA LevelsFinite ==
  ASSUME NEW A \in SUBSET ActiveOrders, IsFiniteSet(A), NEW s, NEW p
  PROVE  /\ IsFiniteSet(AtLevel(A, s, p))
         /\ \A x \in AtLevel(A, s, p) : SharesOf[x] \in Int
<1>1. AtLevel(A, s, p) \in SUBSET A
  BY DEF AtLevel
<1>2. IsFiniteSet(AtLevel(A, s, p))
  BY <1>1, FS_Subset
<1>3. \A x \in ActiveOrders : SharesOf[x] = x.shares /\ x.shares \in Int
  BY DEF SharesOf, ActiveOrders
<1> QED BY <1>1, <1>2, <1>3

LEMMA DepthWith ==
  ASSUME NEW A \in SUBSET ActiveOrders, IsFiniteSet(A), NEW x \in ActiveOrders, x \notin A,
         NEW b, NEW c, DepthIs(b, A), LevelMoves(b, c, x.side, x.price, x.shares)
  PROVE  DepthIs(c, A \cup {x})
<1> SUFFICES ASSUME NEW s \in Sides, NEW p \in Prices
             PROVE  c[s][p] = Total(SharesOf, AtLevel(A \cup {x}, s, p))
  BY DEF DepthIs
<1>1. b[s][p] = Total(SharesOf, AtLevel(A, s, p))
  BY DEF DepthIs
<1>2. CASE x.side = s /\ x.price = p
  <2>1. AtLevel(A \cup {x}, s, p) = AtLevel(A, s, p) \cup {x} /\ x \notin AtLevel(A, s, p)
    BY <1>2 DEF AtLevel
  <2>2. /\ IsFiniteSet(AtLevel(A, s, p)) /\ \A y \in AtLevel(A, s, p) \cup {x} : SharesOf[y] \in Int
        /\ SharesOf[x] = x.shares /\ x.shares \in Int
    <3>1. SharesOf[x] = x.shares /\ x.shares \in Int
      BY DEF SharesOf, ActiveOrders
    <3> QED BY <3>1, LevelsFinite
  <2>3. Total(SharesOf, AtLevel(A, s, p) \cup {x}) = x.shares + Total(SharesOf, AtLevel(A, s, p))
    BY <2>1, <2>2, TotalWith
  <2>4. c[s][p] = b[s][p] + x.shares
    BY <1>2 DEF LevelMoves
  <2>5. PICK t \in Int : t = Total(SharesOf, AtLevel(A, s, p))
    BY <2>2, TotalInt
  <2>6. t + x.shares = x.shares + t
    BY <2>2, <2>5
  <2> QED BY <1>1, <2>1, <2>3, <2>4, <2>5, <2>6, Zenon
<1>3. CASE ~(x.side = s /\ x.price = p)
  <2>1. AtLevel(A \cup {x}, s, p) = AtLevel(A, s, p)
    BY <1>3 DEF AtLevel
  <2>2. c[s][p] = b[s][p]
    BY <1>3 DEF LevelMoves
  <2> QED BY <1>1, <2>1, <2>2
<1> QED BY <1>2, <1>3

LEMMA DepthWithout ==
  ASSUME NEW A \in SUBSET ActiveOrders, IsFiniteSet(A), NEW x \in A,
         NEW b, NEW c, DepthIs(b, A), LevelMoves(b, c, x.side, x.price, -x.shares)
  PROVE  DepthIs(c, A \ {x})
<1> SUFFICES ASSUME NEW s \in Sides, NEW p \in Prices
             PROVE  c[s][p] = Total(SharesOf, AtLevel(A \ {x}, s, p))
  BY DEF DepthIs
<1>1. b[s][p] = Total(SharesOf, AtLevel(A, s, p))
  BY DEF DepthIs
<1>2. CASE x.side = s /\ x.price = p
  <2>1. AtLevel(A \ {x}, s, p) = AtLevel(A, s, p) \ {x} /\ x \in AtLevel(A, s, p)
    BY <1>2 DEF AtLevel
  <2>2. /\ IsFiniteSet(AtLevel(A, s, p)) /\ \A y \in AtLevel(A, s, p) : SharesOf[y] \in Int
        /\ SharesOf[x] = x.shares /\ x.shares \in Int
    <3>1. SharesOf[x] = x.shares /\ x.shares \in Int
      BY DEF SharesOf, ActiveOrders
    <3> QED BY <3>1, LevelsFinite
  <2>3. Total(SharesOf, AtLevel(A, s, p)) = x.shares + Total(SharesOf, AtLevel(A, s, p) \ {x})
    BY <2>1, <2>2, TotalWithout
  <2>4. c[s][p] = b[s][p] + (-x.shares)
    BY <1>2 DEF LevelMoves
  <2>5. IsFiniteSet(AtLevel(A, s, p) \ {x})
    BY <2>2, FS_Subset
  <2>6. PICK t \in Int : t = Total(SharesOf, AtLevel(A, s, p) \ {x})
    BY <2>2, <2>5, TotalInt
  <2>7. (x.shares + t) + (-x.shares) = t
    BY <2>2, <2>6
  <2> QED BY <1>1, <2>1, <2>3, <2>4, <2>6, <2>7, Zenon
<1>3. CASE ~(x.side = s /\ x.price = p)
  <2>1. AtLevel(A \ {x}, s, p) = AtLevel(A, s, p)
    BY <1>3 DEF AtLevel
  <2>2. c[s][p] = b[s][p]
    BY <1>3 DEF LevelMoves
  <2> QED BY <1>1, <2>1, <2>2
<1> QED BY <1>2, <1>3

\* An order leaves: its level loses its shares.
LEMMA OrderLeaves ==
  ASSUME NEW n, GoodNormal(n), NEW o \in n.active,
         NEW k, DOMAIN k = NormalFields, k.seen = n.seen, k.active = n.active \ {o},
         k.book = Adjust(n.book, o.side, o.price, -o.shares)
  PROVE  GoodNormal(k)
<1>1. o \in ActiveOrders /\ o.side \in Sides /\ o.price \in Prices /\ -o.shares \in Int
  BY DEF GoodNormal, ActiveOrders
<1>2. LevelMoves(n.book, k.book, o.side, o.price, -o.shares)
  BY <1>1, AdjustMoves DEF GoodNormal
<1>3. DepthIs(k.book, k.active)
  BY <1>2, DepthWithout DEF GoodNormal
<1>4. IsFiniteSet(k.active)
  BY FS_Subset DEF GoodNormal
<1>5. k.book \in Books
  BY <1>2 DEF LevelMoves
<1> QED BY <1>3, <1>4, <1>5 DEF GoodNormal

\* An order joins: its level gains its shares.
LEMMA OrderJoins ==
  ASSUME NEW n, GoodNormal(n), NEW x \in ActiveOrders, \A o \in n.active : o.ref # x.ref,
         NEW k, DOMAIN k = NormalFields, k.seen = n.seen \cup {x.ref}, k.active = n.active \cup {x},
         k.book = Adjust(n.book, x.side, x.price, x.shares)
  PROVE  GoodNormal(k)
<1>1. x.side \in Sides /\ x.price \in Prices /\ x.shares \in Int /\ x \notin n.active
  BY DEF ActiveOrders
<1>2. LevelMoves(n.book, k.book, x.side, x.price, x.shares)
  BY <1>1, AdjustMoves DEF GoodNormal
<1>3. DepthIs(k.book, k.active)
  BY <1>1, <1>2, DepthWith DEF GoodNormal
<1>4. IsFiniteSet(k.active)
  BY FS_AddElement DEF GoodNormal
<1>5. k.book \in Books
  BY <1>2 DEF LevelMoves
<1> QED BY <1>3, <1>4, <1>5 DEF GoodNormal

\* The book after both is the book after their difference.
LEMMA AdjustTwice ==
  ASSUME NEW b \in Books, NEW s \in Sides, NEW p \in Prices, NEW d \in Int, NEW e \in Int
  PROVE  Adjust(Adjust(b, s, p, d), s, p, e) = Adjust(b, s, p, d + e)
<1>1. PICK c : c = Adjust(b, s, p, d)
  OBVIOUS
<1>2. LevelMoves(b, c, s, p, d)
  BY <1>1, AdjustMoves
<1>3. c \in Books
  BY <1>2 DEF LevelMoves
<1>4. PICK f : f = Adjust(c, s, p, e)
  OBVIOUS
<1>5. LevelMoves(c, f, s, p, e)
  BY <1>3, <1>4, AdjustMoves
<1>6. PICK g : g = Adjust(b, s, p, d + e)
  OBVIOUS
<1>7. LevelMoves(b, g, s, p, d + e)
  BY <1>6, AdjustMoves
<1>8. f \in Books /\ g \in Books
  BY <1>5, <1>7 DEF LevelMoves
<1>9. \A t \in Sides, q \in Prices : f[t][q] = g[t][q]
  <2> TAKE t \in Sides, q \in Prices
  <2>1. CASE t = s /\ q = p
    <3>1. b[s][p] \in Int
      BY DEF Books
    <3>2. f[s][p] = (b[s][p] + d) + e /\ g[s][p] = b[s][p] + (d + e)
      BY <1>2, <1>5, <1>7 DEF LevelMoves
    <3> QED BY <2>1, <3>1, <3>2
  <2>2. CASE t # s \/ q # p
    BY <1>2, <1>5, <1>7, <2>2 DEF LevelMoves
  <2> QED BY <2>1, <2>2
<1>10. f = g
  <2>1. \A t \in Sides : f[t] = g[t]
    BY <1>8, <1>9 DEF Books
  <2> QED BY <1>8, <2>1 DEF Books
<1> QED BY <1>1, <1>4, <1>6, <1>10

LEMMA SizesAreNumbers == \A size \in Sizes : size \in Int
<1>1. Sizes \subseteq Nat \ {0}
  BY ItchAssumption, Zenon
<1> QED BY <1>1

LEMMA AddKeeps ==
  ASSUME NEW n, GoodNormal(n), NEW m \in BookMessages, m.type = "A", m.ref \notin n.seen
  PROVE  GoodNormal(Add(n, m))
<1>1. m.ref \in Refs /\ m.side \in Sides /\ m.size \in Sizes /\ m.price \in Prices
  BY DEF BookMessages
<1>2. m.size \in Int
  BY <1>1, SizesAreNumbers
<1>3. PICK x : x = Order(m.ref, m.side, m.size, m.price)
  OBVIOUS
<1>4. x \in ActiveOrders /\ x.ref = m.ref /\ x.side = m.side /\ x.shares = m.size /\ x.price = m.price
  BY <1>1, <1>2, <1>3 DEF Order, ActiveOrders
<1>5. PICK k : k = Add(n, m)
  OBVIOUS
<1>6. /\ DOMAIN k = NormalFields /\ k.seen = n.seen \cup {m.ref} /\ k.active = n.active \cup {x}
      /\ k.book = Adjust(n.book, m.side, m.price, m.size)
  BY <1>3, <1>5 DEF Add, GoodNormal, NormalFields
<1>7. \A o \in n.active : o.ref # x.ref
  BY <1>4 DEF GoodNormal
<1> QED BY <1>4, <1>5, <1>6, <1>7, OrderJoins

LEMMA ReplaceKeeps ==
  ASSUME NEW n, GoodNormal(n), NEW m \in BookMessages, m.type = "U", NEW o \in n.active,
         m.to \notin n.seen
  PROVE  GoodNormal(Replace(n, o, m))
<1>1. m.to \in Refs /\ m.size \in Sizes /\ m.price \in Prices
  BY DEF BookMessages
<1>2. m.size \in Int
  BY <1>1, SizesAreNumbers
<1>3. PICK x : x = Order(m.to, o.side, m.size, m.price)
  OBVIOUS
<1>4. o.side \in Sides
  BY DEF GoodNormal, ActiveOrders
<1>5. x \in ActiveOrders /\ x.ref = m.to /\ x.side = o.side /\ x.shares = m.size /\ x.price = m.price
  BY <1>1, <1>2, <1>3, <1>4 DEF Order, ActiveOrders
<1>6. PICK h : h = [n EXCEPT !.active = n.active \ {o},
                             !.book = Adjust(n.book, o.side, o.price, -o.shares)]
  OBVIOUS
<1>7. /\ DOMAIN h = NormalFields /\ h.seen = n.seen /\ h.active = n.active \ {o}
      /\ h.book = Adjust(n.book, o.side, o.price, -o.shares)
  BY <1>6 DEF GoodNormal, NormalFields
<1>8. GoodNormal(h)
  BY <1>7, OrderLeaves
<1>9. PICK k : k = Replace(n, o, m)
  OBVIOUS
<1>10. /\ DOMAIN k = NormalFields /\ k.seen = h.seen \cup {x.ref} /\ k.active = h.active \cup {x}
       /\ k.book = Adjust(h.book, x.side, x.price, x.shares)
  BY <1>3, <1>5, <1>7, <1>9 DEF Replace, GoodNormal, NormalFields
<1>11. \A q \in h.active : q.ref # x.ref
  BY <1>5, <1>7 DEF GoodNormal
<1> QED BY <1>5, <1>8, <1>9, <1>10, <1>11, OrderJoins

LEMMA DeleteKeeps ==
  ASSUME NEW n, GoodNormal(n), NEW o \in n.active, NEW k,
         k = [n EXCEPT !.active = @ \ {o}, !.book = Adjust(@, o.side, o.price, -o.shares)]
  PROVE  GoodNormal(k)
<1>1. /\ DOMAIN k = NormalFields /\ k.seen = n.seen /\ k.active = n.active \ {o}
      /\ k.book = Adjust(n.book, o.side, o.price, -o.shares)
  BY DEF GoodNormal, NormalFields
<1> QED BY <1>1, OrderLeaves

LEMMA ReduceKeeps ==
  ASSUME NEW n, GoodNormal(n), NEW m \in BookMessages, m.type = "X", NEW o \in n.active
  PROVE  GoodNormal(Reduce(n, o, m))
<1>1. m.size \in Int
  <2>1. m.size \in Sizes
    BY DEF BookMessages
  <2> QED BY <2>1, SizesAreNumbers
<1>2. /\ o.ref \in Refs /\ o.side \in Sides /\ o.price \in Prices /\ o.shares \in Int
      /\ n.book \in Books
  BY DEF GoodNormal, ActiveOrders
<1>3. PICK h : h = [n EXCEPT !.active = n.active \ {o},
                             !.book = Adjust(n.book, o.side, o.price, -o.shares)]
  OBVIOUS
<1>4. /\ DOMAIN h = NormalFields /\ h.seen = n.seen /\ h.active = n.active \ {o}
      /\ h.book = Adjust(n.book, o.side, o.price, -o.shares)
  BY <1>3 DEF GoodNormal, NormalFields
<1>5. GoodNormal(h)
  BY <1>4, OrderLeaves
<1>6. PICK k : k = Reduce(n, o, m)
  OBVIOUS
<1>7. /\ DOMAIN k = NormalFields /\ k.seen = n.seen
      /\ k.active = (n.active \ {o}) \cup
             (IF o.shares = m.size THEN {} ELSE {Order(o.ref, o.side, o.shares - m.size, o.price)})
      /\ k.book = Adjust(n.book, o.side, o.price, -m.size)
  BY <1>6 DEF Reduce, GoodNormal, NormalFields
<1>8. CASE o.shares = m.size
  <2>1. k.active = n.active \ {o} /\ k.book = Adjust(n.book, o.side, o.price, -o.shares)
    BY <1>7, <1>8
  <2>2. GoodNormal(k)
    BY <1>7, <2>1, OrderLeaves
  <2> QED BY <1>6, <2>2
<1>9. CASE o.shares # m.size
  <2>1. PICK x : x = Order(o.ref, o.side, o.shares - m.size, o.price)
    OBVIOUS
  <2>2. /\ x \in ActiveOrders /\ x.ref = o.ref /\ x.side = o.side /\ x.shares = o.shares - m.size
        /\ x.price = o.price
    BY <1>1, <1>2, <2>1 DEF Order, ActiveOrders
  <2>3. k.active = h.active \cup {x}
    BY <1>4, <1>7, <1>9, <2>1
  <2>4. k.seen = h.seen \cup {x.ref}
    BY <1>4, <1>7, <2>2 DEF GoodNormal
  <2>5. (-o.shares) + (o.shares - m.size) = -m.size /\ -o.shares \in Int /\ o.shares - m.size \in Int
    BY <1>1, <1>2
  <2>6. k.book = Adjust(h.book, x.side, x.price, x.shares)
    BY <1>2, <1>4, <1>7, <2>2, <2>5, AdjustTwice
  <2>7. \A q \in h.active : q.ref # x.ref
    BY <1>4, <2>2 DEF GoodNormal
  <2>8. GoodNormal(k)
    BY <1>5, <1>7, <2>2, <2>3, <2>4, <2>6, <2>7, OrderJoins
  <2> QED BY <1>6, <2>8
<1> QED BY <1>8, <1>9

LEMMA AppliedKeeps ==
  ASSUME NEW n, GoodNormal(n), NEW m \in BookMessages, NEW symbol, Acceptable(n, symbol, m)
  PROVE  GoodNormal(Applied(n, m))
<1>1. m.type \in {"A", "X", "D", "U"}
  BY DEF BookMessages
<1>2. CASE m.type = "A"
  <2>1. m.ref \notin n.seen
    BY <1>2 DEF Acceptable
  <2>2. Applied(n, m) = Add(n, m)
    BY <1>2 DEF Applied
  <2> QED BY <1>2, <2>1, <2>2, AddKeeps
<1>3. CASE m.type # "A"
  <2>1. \E x \in n.active : x.ref = m.ref
    BY <1>1, <1>3 DEF Acceptable
  <2>2. PICK o : o = CHOOSE x \in n.active : x.ref = m.ref
    OBVIOUS
  <2>3. o \in n.active
    BY <2>1, <2>2
  <2>4. CASE m.type = "X"
    <3>1. Applied(n, m) = Reduce(n, o, m)
      BY <2>2, <2>4 DEF Applied
    <3> QED BY <2>3, <2>4, <3>1, ReduceKeeps
  <2>5. CASE m.type = "U"
    <3>1. Applied(n, m) = Replace(n, o, m)
      BY <2>2, <2>5 DEF Applied
    <3>2. m.to \notin n.seen
      BY <2>5 DEF Acceptable
    <3> QED BY <2>3, <2>5, <3>1, <3>2, ReplaceKeeps
  <2>6. CASE m.type = "D"
    <3>1. Applied(n, m) = [n EXCEPT !.active = @ \ {o}, !.book = Adjust(@, o.side, o.price, -o.shares)]
      BY <2>2, <2>6 DEF Applied
    <3> QED BY <2>3, <3>1, DeleteKeeps
  <2> QED BY <1>1, <1>3, <2>4, <2>5, <2>6
<1> QED BY <1>2, <1>3

LEMMA RowKeeps ==
  ASSUME NEW n, GoodNormal(n), NEW m
  PROVE  GoodNormal(WithRow(n, m))
<1>1. PICK k : k = WithRow(n, m)
  OBVIOUS
<1>2. /\ DOMAIN k = NormalFields /\ k.seen = n.seen /\ k.active = n.active /\ k.book = n.book
  BY <1>1 DEF WithRow, GoodNormal, NormalFields
<1>3. GoodNormal(k)
  BY <1>2 DEF GoodNormal
<1> QED BY <1>1, <1>3

LEMMA FreshIsGood == GoodNormal(Fresh)
<1>1. /\ DOMAIN Fresh = NormalFields /\ Fresh.active = {} /\ Fresh.seen = {}
      /\ Fresh.book = [s \in Sides |-> [p \in Prices |-> 0]]
  BY DEF Fresh, NormalFields
<1>2. Fresh.book \in Books
  BY <1>1 DEF Books
<1>3. IsFiniteSet({})
  BY FS_EmptySet
<1>4. \A s \in Sides, p \in Prices : AtLevel({}, s, p) = {}
  BY DEF AtLevel
<1>5. Total(SharesOf, {}) = 0
  BY <1>3, TotalSteps
<1>6. DepthIs(Fresh.book, {})
  BY <1>1, <1>4, <1>5 DEF DepthIs
<1> QED BY <1>1, <1>2, <1>3, <1>6 DEF GoodNormal

\* The sum of the model is the total of the lemmas.
LEMMA SharesAdded ==
  ASSUME NEW S \in SUBSET ActiveOrders, IsFiniteSet(S)
  PROVE  MapThenSumSet(LAMBDA o : o.shares, S) = Total(SharesOf, S)
<1> DEFINE Adds(g) == g = [s \in SUBSET S |-> IF s = {} THEN 0
                            ELSE (CHOOSE x \in s : TRUE).shares + g[s \ {CHOOSE x \in s : TRUE}]]
<1>1. PICK f : f = CHOOSE g : Adds(g)
  OBVIOUS
<1>2. MapThenSumSet(LAMBDA o : o.shares, S) = f[S]
  BY <1>1 DEF MapThenSumSet, MapThenFoldSet
<1>3. PICK h : h = CHOOSE g : SumsTo(g, SharesOf, SUBSET S)
  OBVIOUS
<1>4. SumsTo(h, SharesOf, SUBSET S)
  BY <1>3, SumsExist
<1>5. ASSUME NEW s \in SUBSET S, s # {}
      PROVE  SharesOf[AnyOf(s)] = (CHOOSE x \in s : TRUE).shares
  <2>1. AnyOf(s) \in s
    BY <1>5 DEF AnyOf
  <2>2. AnyOf(s) \in ActiveOrders
    BY <2>1
  <2> QED BY <2>2 DEF SharesOf, AnyOf
<1>6. Adds(h)
  BY <1>4, <1>5 DEF SumsTo, AnyOf
<1>7. Adds(f)
  BY <1>1, <1>6, ZenonT(60)
<1>8. SumsTo(f, SharesOf, SUBSET S)
  BY <1>5, <1>7 DEF SumsTo, AnyOf
<1>9. f[S] = h[S]
  BY <1>4, <1>8, SumsAgree
<1>10. Total(SharesOf, S) = h[S]
  BY <1>3, TotalIsRecursive
<1> QED BY <1>2, <1>9, <1>10

LEMMA GoodIsExact ==
  ASSUME NEW n, GoodNormal(n)
  PROVE  Exact(n)
<1>1. \A s \in Sides, p \in Prices :
        n.book[s][p] = MapThenSumSet(LAMBDA o : o.shares, {o \in n.active : o.side = s /\ o.price = p})
  <2> TAKE s \in Sides, p \in Prices
  <2>1. PICK S : S = AtLevel(n.active, s, p)
    OBVIOUS
  <2>2. S \in SUBSET ActiveOrders /\ IsFiniteSet(S)
    <3>1. n.active \in SUBSET ActiveOrders /\ IsFiniteSet(n.active)
      BY DEF GoodNormal
    <3>2. IsFiniteSet(S)
      BY <2>1, <3>1, LevelsFinite
    <3>3. S \in SUBSET ActiveOrders
      BY <2>1, <3>1 DEF AtLevel
    <3> QED BY <3>2, <3>3
  <2>3. n.book[s][p] = Total(SharesOf, S)
    BY <2>1 DEF GoodNormal, DepthIs
  <2>4. MapThenSumSet(LAMBDA o : o.shares, S) = Total(SharesOf, S)
    BY <2>2, SharesAdded
  <2>5. S = {o \in n.active : o.side = s /\ o.price = p}
    BY <2>1 DEF AtLevel
  <2> QED BY <2>3, <2>4, <2>5
<1>2. \A o, q \in n.active : o.ref = q.ref => o = q
  BY DEF GoodNormal
<1> QED BY <1>1, <1>2 DEF Exact
--------------------------------------------------------------------------------
(***************************************************************************)
(* The two passes.                                                         *)
(***************************************************************************)
Statuses == {"reading", "done", "failed"}

SinglePass(p) ==
    /\ DOMAIN p = {"status", "normal"} /\ p.status \in Statuses
    /\ p.status # "failed" => GoodNormal(p.normal)

ManyPass(p) ==
    /\ DOMAIN p = {"status", "normals"} /\ p.status \in Statuses \cup {"killed"}
    /\ DOMAIN p.normals = Symbols
    /\ p.status # "failed" => \A s \in Symbols : GoodNormal(p.normals[s])
    /\ p.status \in {"done", "killed"} => \A s \in Symbols : p.normals[s].rows > 0

\* While neither has failed they agree on the symbol, and the stream ends for
\* both at once.
InStep(p, q) ==
    /\ p.status # "failed" /\ q.status # "failed" => p.normal = q.normals[Chosen]
    /\ p.status = "done" => q.status # "reading"
    /\ q.status \in {"done", "killed"} => p.status # "reading"

NormInv ==
    /\ SinglePass(single) /\ ManyPass(onePass) /\ InStep(single, onePass)
    /\ moved # {} => onePass.status \in {"done", "killed"}

LEMMA ChosenIsSymbol == Chosen \in Symbols
  BY ItchAssumption, Zenon

\* While a message can still come neither pass has ended but by failing.
LEMMA BothRead ==
  ASSUME NormInv, Reading
  PROVE  /\ single.status \in {"reading", "failed"} /\ onePass.status \in {"reading", "failed"}
         /\ moved = {}
  BY DEF NormInv, SinglePass, ManyPass, InStep, Reading, Statuses

LEMMA SingleFails ==
  ASSUME SinglePass(single)
  PROVE  /\ SinglePass(FailSingle)
         /\ single.status = "reading" => FailSingle.status = "failed"
         /\ single.status # "reading" => FailSingle = single
<1>1. CASE single.status = "reading"
  <2>1. FailSingle = [status |-> "failed", normal |-> Fresh]
    BY <1>1 DEF FailSingle
  <2> QED BY <1>1, <2>1 DEF SinglePass, Statuses
<1>2. CASE single.status # "reading"
  <2>1. FailSingle = single
    BY <1>2 DEF FailSingle
  <2> QED BY <1>2, <2>1
<1> QED BY <1>1, <1>2

LEMMA OnePassFails ==
  ASSUME ManyPass(onePass)
  PROVE  /\ ManyPass(FailOnePass)
         /\ onePass.status = "reading" => FailOnePass.status = "failed"
         /\ onePass.status # "reading" => FailOnePass = onePass
<1>1. CASE onePass.status = "reading"
  <2>1. FailOnePass = [status |-> "failed", normals |-> [s \in Symbols |-> Fresh]]
    BY <1>1 DEF FailOnePass
  <2> QED BY <1>1, <2>1 DEF ManyPass, Statuses
<1>2. CASE onePass.status # "reading"
  <2>1. FailOnePass = onePass
    BY <1>2 DEF FailOnePass
  <2> QED BY <1>2, <2>1
<1> QED BY <1>1, <1>2

\* A message in the pass for one symbol.
LEMMA SingleReads ==
  ASSUME SinglePass(single), single.status \in {"reading", "failed"}, NEW m \in BookMessages
  PROVE  /\ SinglePass(SingleStep(m)) /\ SingleStep(m).status \in {"reading", "failed"}
         /\ SingleStep(m).status # "failed" =>
                /\ single.status # "failed"
                /\ SingleStep(m).normal =
                     IF directory[m.locate] # Chosen THEN single.normal
                     ELSE WithRow(Applied(single.normal, m), m)
<1>1. CASE single.status = "failed"
  <2>1. SingleStep(m) = single
    BY <1>1 DEF SingleStep
  <2> QED BY <1>1, <2>1
<1>2. CASE single.status = "reading" /\ SingleStep(m) = FailSingle
  <2>1. FailSingle.status = "failed" /\ SinglePass(FailSingle)
    BY <1>2, SingleFails
  <2> QED BY <1>2, <2>1
<1>3. CASE single.status = "reading" /\ SingleStep(m) # FailSingle /\ directory[m.locate] # Chosen
  <2>1. SingleStep(m) = single
    BY <1>3 DEF SingleStep
  <2> QED BY <1>3, <2>1
<1>4. CASE single.status = "reading" /\ SingleStep(m) # FailSingle /\ directory[m.locate] = Chosen
  <2>1. /\ Acceptable(single.normal, Chosen, m)
        /\ SingleStep(m) = [single EXCEPT !.normal = WithRow(Applied(@, m), m)]
    BY <1>4 DEF SingleStep
  <2>2. PICK p : p = SingleStep(m)
    OBVIOUS
  <2>3. /\ DOMAIN p = {"status", "normal"} /\ p.status = single.status
        /\ p.normal = WithRow(Applied(single.normal, m), m)
    BY <2>1, <2>2 DEF SinglePass
  <2>4. GoodNormal(p.normal)
    <3>1. GoodNormal(single.normal)
      BY <1>4 DEF SinglePass
    <3>2. GoodNormal(Applied(single.normal, m))
      BY <2>1, <3>1, AppliedKeeps
    <3> QED BY <2>3, <3>2, RowKeeps
  <2>5. SinglePass(p)
    BY <1>4, <2>3, <2>4 DEF SinglePass, Statuses
  <2> QED BY <1>4, <2>2, <2>3, <2>5
<1> QED BY <1>1, <1>2, <1>3, <1>4

\* The same message in the pass for all symbols.
LEMMA OnePassReads ==
  ASSUME ManyPass(onePass), onePass.status \in {"reading", "failed"}, NEW m \in BookMessages
  PROVE  /\ ManyPass(OnePassStep(m)) /\ OnePassStep(m).status \in {"reading", "failed"}
         /\ OnePassStep(m).status # "failed" =>
                /\ onePass.status # "failed"
                /\ OnePassStep(m).normals[Chosen] =
                     IF directory[m.locate] # Chosen THEN onePass.normals[Chosen]
                     ELSE WithRow(Applied(onePass.normals[Chosen], m), m)
<1>1. CASE onePass.status = "failed"
  <2>1. OnePassStep(m) = onePass
    BY <1>1 DEF OnePassStep
  <2> QED BY <1>1, <2>1
<1>2. CASE onePass.status = "reading" /\ OnePassStep(m) = FailOnePass
  <2>1. FailOnePass.status = "failed" /\ ManyPass(FailOnePass)
    BY <1>2, OnePassFails
  <2> QED BY <1>2, <2>1
<1>3. CASE onePass.status = "reading" /\ directory[m.locate] \notin Symbols
  <2>1. OnePassStep(m) = onePass /\ directory[m.locate] # Chosen
    BY <1>3, ChosenIsSymbol DEF OnePassStep
  <2> QED BY <1>3, <2>1
<1>4. CASE onePass.status = "reading" /\ OnePassStep(m) # FailOnePass /\ directory[m.locate] \in Symbols
  <2>1. PICK s \in Symbols : s = directory[m.locate]
    BY <1>4
  <2>2. /\ Acceptable(onePass.normals[s], s, m)
        /\ OnePassStep(m) = [onePass EXCEPT !.normals[s] = WithRow(Applied(@, m), m)]
    BY <1>4, <2>1 DEF OnePassStep
  <2>3. PICK p : p = OnePassStep(m)
    OBVIOUS
  <2>4. /\ DOMAIN p = {"status", "normals"} /\ p.status = onePass.status
        /\ DOMAIN p.normals = Symbols
        /\ p.normals[s] = WithRow(Applied(onePass.normals[s], m), m)
        /\ \A t \in Symbols : t # s => p.normals[t] = onePass.normals[t]
    BY <2>2, <2>3 DEF ManyPass
  <2>5. \A t \in Symbols : GoodNormal(onePass.normals[t])
    BY <1>4 DEF ManyPass
  <2>6. GoodNormal(p.normals[s])
    <3>1. GoodNormal(Applied(onePass.normals[s], m))
      BY <2>2, <2>5, AppliedKeeps
    <3> QED BY <2>4, <3>1, RowKeeps
  <2>7. \A t \in Symbols : GoodNormal(p.normals[t])
    BY <2>4, <2>5, <2>6
  <2>8. ManyPass(p)
    BY <1>4, <2>4, <2>7 DEF ManyPass, Statuses
  <2>9. p.normals[Chosen] = IF directory[m.locate] # Chosen THEN onePass.normals[Chosen]
                            ELSE WithRow(Applied(onePass.normals[Chosen], m), m)
    BY <2>1, <2>4, ChosenIsSymbol
  <2> QED BY <1>4, <2>3, <2>4, <2>8, <2>9
<1> QED BY <1>1, <1>2, <1>3, <1>4

LEMMA MessageKeeps ==
  ASSUME NormInv, NEW m \in BookMessages, BookRecord(m)
  PROVE  NormInv'
<1>1. Reading /\ single' = SingleStep(m) /\ onePass' = OnePassStep(m) /\ moved' = moved
  BY DEF BookRecord, NextRecord
<1>2. SinglePass(single) /\ ManyPass(onePass) /\ InStep(single, onePass)
  BY DEF NormInv
<1>3. /\ single.status \in {"reading", "failed"} /\ onePass.status \in {"reading", "failed"}
      /\ moved = {}
  BY <1>1, BothRead
<1>4. PICK p : p = single'
  OBVIOUS
<1>5. PICK q : q = onePass'
  OBVIOUS
<1>6. /\ SinglePass(p) /\ p.status \in {"reading", "failed"}
      /\ p.status # "failed" =>
            /\ single.status # "failed"
            /\ p.normal = IF directory[m.locate] # Chosen THEN single.normal
                          ELSE WithRow(Applied(single.normal, m), m)
  BY <1>1, <1>2, <1>3, <1>4, SingleReads
<1>7. /\ ManyPass(q) /\ q.status \in {"reading", "failed"}
      /\ q.status # "failed" =>
            /\ onePass.status # "failed"
            /\ q.normals[Chosen] = IF directory[m.locate] # Chosen THEN onePass.normals[Chosen]
                                   ELSE WithRow(Applied(onePass.normals[Chosen], m), m)
  BY <1>1, <1>2, <1>3, <1>5, OnePassReads
<1>8. InStep(p, q)
  <2>1. p.status # "failed" /\ q.status # "failed" => single.normal = onePass.normals[Chosen]
    BY <1>2, <1>6, <1>7 DEF InStep
  <2> QED BY <1>6, <1>7, <2>1 DEF InStep
<1>9. moved' = {}
  BY <1>1, <1>3
<1> QED BY <1>4, <1>5, <1>6, <1>7, <1>8, <1>9 DEF NormInv

\* One pass or both may fail before the end.
LEMMA FailureKeeps ==
  ASSUME NormInv, Reading, moved' = moved,
         \/ single' = FailSingle /\ onePass' = FailOnePass
         \/ single' = FailSingle /\ onePass' = onePass
         \/ single' = single /\ onePass' = FailOnePass
  PROVE  NormInv'
<1>1. SinglePass(single) /\ ManyPass(onePass) /\ InStep(single, onePass)
  BY DEF NormInv
<1>2. /\ single.status \in {"reading", "failed"} /\ onePass.status \in {"reading", "failed"}
      /\ moved = {}
  BY BothRead
<1>3. SinglePass(FailSingle) /\ FailSingle.status = "failed"
  BY <1>1, <1>2, SingleFails
<1>4. ManyPass(FailOnePass) /\ FailOnePass.status = "failed"
  BY <1>1, <1>2, OnePassFails
<1>5. PICK p : p = single'
  OBVIOUS
<1>6. PICK q : q = onePass'
  OBVIOUS
<1>7. /\ SinglePass(p) /\ p.status \in {"reading", "failed"}
      /\ ManyPass(q) /\ q.status \in {"reading", "failed"}
      /\ p.status = "failed" \/ q.status = "failed"
  BY <1>1, <1>2, <1>3, <1>4, <1>5, <1>6
<1>8. InStep(p, q)
  BY <1>7 DEF InStep
<1> QED BY <1>2, <1>5, <1>6, <1>7, <1>8 DEF NormInv

LEMMA EndKeeps ==
  ASSUME NormInv, EndOfStream
  PROVE  NormInv'
<1>1. SinglePass(single) /\ ManyPass(onePass) /\ InStep(single, onePass)
  BY DEF NormInv
<1>2. Reading /\ moved' = moved
  BY DEF EndOfStream
<1>3. /\ single.status \in {"reading", "failed"} /\ onePass.status \in {"reading", "failed"}
      /\ moved = {}
  BY <1>2, BothRead
<1>4. PICK p : p = single'
  OBVIOUS
<1>5. PICK q : q = onePass'
  OBVIOUS
<1>6. \/ single.status = "reading" /\ p = [single EXCEPT !.status = "done"]
      \/ p = FailSingle
  BY <1>4 DEF EndOfStream
<1>7. \/ /\ onePass.status = "reading" /\ q = [onePass EXCEPT !.status = "done"]
         /\ \A s \in Symbols : onePass.normals[s].rows > 0
      \/ q = FailOnePass
  BY <1>5 DEF EndOfStream
<1>8. SinglePass(p) /\ p.status \in {"done", "failed"}
      /\ (p.status = "done" => single.status = "reading" /\ p.normal = single.normal)
  <2>1. CASE p = FailSingle
    BY <1>1, <1>3, <2>1, SingleFails
  <2>2. CASE single.status = "reading" /\ p = [single EXCEPT !.status = "done"]
    <3>1. DOMAIN p = {"status", "normal"} /\ p.status = "done" /\ p.normal = single.normal
      BY <1>1, <2>2 DEF SinglePass
    <3> QED BY <1>1, <2>2, <3>1 DEF SinglePass, Statuses
  <2> QED BY <1>6, <2>1, <2>2
<1>9. ManyPass(q) /\ q.status \in {"done", "failed"}
      /\ (q.status = "done" => onePass.status = "reading" /\ q.normals = onePass.normals)
  <2>1. CASE q = FailOnePass
    BY <1>1, <1>3, <2>1, OnePassFails
  <2>2. CASE /\ onePass.status = "reading" /\ q = [onePass EXCEPT !.status = "done"]
             /\ \A s \in Symbols : onePass.normals[s].rows > 0
    <3>1. DOMAIN q = {"status", "normals"} /\ q.status = "done" /\ q.normals = onePass.normals
      BY <1>1, <2>2 DEF ManyPass
    <3> QED BY <1>1, <2>2, <3>1 DEF ManyPass, Statuses
  <2> QED BY <1>7, <2>1, <2>2
<1>10. InStep(p, q)
  BY <1>1, <1>8, <1>9 DEF InStep
<1> QED BY <1>2, <1>3, <1>4, <1>5, <1>8, <1>9, <1>10 DEF NormInv

LEMMA MoveKeeps ==
  ASSUME NormInv, MoveDataSets
  PROVE  NormInv'
<1>1. SinglePass(single) /\ ManyPass(onePass) /\ InStep(single, onePass)
  BY DEF NormInv
<1>2. onePass.status = "done" /\ single' = single
  BY DEF MoveDataSets
<1>3. PICK q : q = onePass'
  OBVIOUS
<1>4. \/ q = onePass
      \/ q = [onePass EXCEPT !.status = "failed"] /\ moved' = {}
      \/ q = [onePass EXCEPT !.status = "killed"]
  BY <1>3 DEF MoveDataSets
<1>5. CASE q = onePass
  BY <1>1, <1>2, <1>3, <1>5 DEF NormInv
<1>6. CASE q = [onePass EXCEPT !.status = "failed"] /\ moved' = {}
  <2>1. DOMAIN q = {"status", "normals"} /\ q.status = "failed" /\ q.normals = onePass.normals
    BY <1>1, <1>6 DEF ManyPass
  <2>2. ManyPass(q) /\ InStep(single, q)
    BY <1>1, <2>1 DEF ManyPass, InStep, Statuses
  <2> QED BY <1>1, <1>2, <1>3, <1>6, <2>2 DEF NormInv
<1>7. CASE q = [onePass EXCEPT !.status = "killed"]
  <2>1. DOMAIN q = {"status", "normals"} /\ q.status = "killed" /\ q.normals = onePass.normals
    BY <1>1, <1>7 DEF ManyPass
  <2>2. ManyPass(q) /\ InStep(single, q)
    BY <1>1, <1>2, <2>1 DEF ManyPass, InStep, Statuses
  <2> QED BY <1>1, <1>2, <1>3, <2>1, <2>2 DEF NormInv
<1> QED BY <1>4, <1>5, <1>6, <1>7

LEMMA NormInitially == ItchInit => NormInv
<1> SUFFICES ASSUME ItchInit PROVE NormInv
  OBVIOUS
<1>1. /\ single = [status |-> "reading", normal |-> Fresh]
      /\ onePass = [status |-> "reading", normals |-> [s \in Symbols |-> Fresh]] /\ moved = {}
  BY DEF ItchInit
<1>2. SinglePass(single) /\ ManyPass(onePass)
  BY <1>1, FreshIsGood DEF SinglePass, ManyPass, Statuses
<1>3. InStep(single, onePass)
  BY <1>1, ChosenIsSymbol DEF InStep
<1> QED BY <1>1, <1>2, <1>3 DEF NormInv

LEMMA NormSteps == NormInv /\ [ItchNext]_itchVars => NormInv'
<1> SUFFICES ASSUME NormInv, [ItchNext]_itchVars PROVE NormInv'
  OBVIOUS
<1>1. CASE BadRecord
  BY <1>1, FailureKeeps DEF BadRecord
<1>2. CASE OutOfSpace
  BY <1>2, FailureKeeps DEF OutOfSpace
<1>3. ASSUME NEW l \in Locates, NEW s \in Symbols, NEW t \in 0..MaxTime, DirectoryRecord(l, s, t)
      PROVE  NormInv'
  <2>1. Reading /\ moved' = moved
    BY <1>3 DEF DirectoryRecord, NextRecord
  <2>2. \/ single' = single /\ onePass' = onePass
        \/ single' = FailSingle /\ onePass' = FailOnePass
    BY <1>3 DEF DirectoryRecord
  <2>3. CASE single' = single /\ onePass' = onePass
    BY <2>1, <2>3 DEF NormInv
  <2> QED BY <2>1, <2>2, <2>3, FailureKeeps
<1>4. CASE UNCHANGED itchVars
  BY <1>4 DEF itchVars, NormInv
<1> QED BY <1>1, <1>2, <1>3, <1>4, EndKeeps, MoveKeeps, MessageKeeps DEF ItchNext

\* Every pass that has not failed holds a book that is its orders, and both
\* passes read in step.
THEOREM NormInvariant == ItchSpec => []NormInv
  BY NormInitially, NormSteps, PTL DEF ItchSpec

LEMMA NormFollows == NormInv => NormalizationIsExact
<1> SUFFICES ASSUME NormInv PROVE NormalizationIsExact
  OBVIOUS
<1>1. SinglePass(single) /\ ManyPass(onePass) /\ InStep(single, onePass)
      /\ (moved # {} => onePass.status \in {"done", "killed"})
  BY DEF NormInv
<1>2. VisibleBookIsActiveOrders
  BY <1>1, GoodIsExact DEF SinglePass, ManyPass, VisibleBookIsActiveOrders
<1>3. PassesAgree
  BY <1>1 DEF ManyPass, InStep, PassesAgree
<1> QED BY <1>2, <1>3 DEF NormalizationIsExact

\* Whatever the stream, the visible book is the active orders after every
\* message, and a symbol normalized alone has the rows it has among others.
THEOREM NormalizationExact == ItchSpec => []NormalizationIsExact
  BY NormInvariant, NormFollows, PTL

--------------------------------------------------------------------------------
(***************************************************************************)
(* What a comparison has counted when it has consumed the predictions U    *)
(* and closed the shards of some replays.                                  *)
(***************************************************************************)
RowsOfRun(U, d) == {r \in U : r.run = d}
TicksOf(U, d) == {TickOf(r) : r \in RowsOfRun(U, d)}
PositivesOf(U, d) == {r \in U : r.run = d /\ r.label = 1}

ModelAlerts(U) == {r \in U : r.alert}
RuleAlerts(f, U) == {r \in U : TickOf(r) \in f.alerts[r.run]}

CountsOf(U, A) ==
    [tp |-> Cardinality({r \in U : r.label = 1 /\ r \in A}),
     fp |-> Cardinality({r \in U : r.label = 0 /\ r \in A}),
     fn |-> Cardinality({r \in U : r.label = 1 /\ r \notin A}),
     tn |-> Cardinality({r \in U : r.label = 0 /\ r \notin A})]

AttackReplays == {d \in Replays : CampaignOf[d] # NoCampaign}

CampaignRecord(f, U, d) ==
    [campaign |-> CampaignOf[d], run |-> d,
     model |-> \E r \in PositivesOf(U, d) : r \in ModelAlerts(U),
     rules |-> \E r \in PositivesOf(U, d) : r \in RuleAlerts(f, U)]

CampaignsOf(f, U) ==
    {CampaignRecord(f, U, d) : d \in {e \in AttackReplays : PositivesOf(U, e) # {}}}

SilentOf(U, closed) ==
    {CampaignOf[d] : d \in {e \in AttackReplays \cap closed : PositivesOf(U, e) = {}}}

AlertsBeside(f, U) ==
    [d \in Replays |-> Cardinality({t \in f.alerts[d] : ~\E r \in U : r.run = d /\ TickOf(r) = t})]

SumOfRows(f, U, closed) ==
    [model |-> CountsOf(U, ModelAlerts(U)), rules |-> CountsOf(U, RuleAlerts(f, U)),
     campaigns |-> CampaignsOf(f, U), silent |-> SilentOf(U, closed),
     outside |-> Total(AlertsBeside(f, U), closed)]

LEMMA AlertsAdded ==
  ASSUME NEW f, NEW U
  PROVE  MapThenSumSet(LAMBDA d : Cardinality({t \in f.alerts[d] :
                            ~\E r \in U : r.run = d /\ TickOf(r) = t}), Replays)
           = Total(AlertsBeside(f, U), Replays)
<1> DEFINE Beside(d) == Cardinality({t \in f.alerts[d] : ~\E r \in U : r.run = d /\ TickOf(r) = t})
           Adds(g) == g = [s \in SUBSET Replays |-> IF s = {} THEN 0
                            ELSE Beside(CHOOSE x \in s : TRUE) + g[s \ {CHOOSE x \in s : TRUE}]]
<1>0. IsFiniteSet(Replays)
  BY C4ComparisonAssumption, Zenon
<1>1. PICK w : w = CHOOSE g : Adds(g)
  OBVIOUS
<1>2. MapThenSumSet(LAMBDA d : Cardinality({t \in f.alerts[d] :
                            ~\E r \in U : r.run = d /\ TickOf(r) = t}), Replays) = w[Replays]
  BY <1>1 DEF MapThenSumSet, MapThenFoldSet
<1>3. PICK h : h = CHOOSE g : SumsTo(g, AlertsBeside(f, U), SUBSET Replays)
  OBVIOUS
<1>4. SumsTo(h, AlertsBeside(f, U), SUBSET Replays)
  BY <1>0, <1>3, SumsExist
<1>5. ASSUME NEW s \in SUBSET Replays, s # {}
      PROVE  AlertsBeside(f, U)[AnyOf(s)] = Beside(CHOOSE x \in s : TRUE)
  <2>1. AnyOf(s) \in s
    BY <1>5 DEF AnyOf
  <2>2. AnyOf(s) \in Replays
    BY <2>1
  <2> QED BY <2>2 DEF AlertsBeside, AnyOf
<1> HIDE DEF Beside
<1>6. Adds(h)
  BY <1>4, <1>5 DEF SumsTo, AnyOf
<1>7. Adds(w)
  BY <1>1, <1>6, ZenonT(60)
<1>8. SumsTo(w, AlertsBeside(f, U), SUBSET Replays)
  BY <1>5, <1>7 DEF SumsTo, AnyOf
<1>9. w[Replays] = h[Replays]
  BY <1>0, <1>4, <1>8, SumsAgree
<1>10. Total(AlertsBeside(f, U), Replays) = h[Replays]
  BY <1>3, TotalIsRecursive
<1> QED BY <1>2, <1>9, <1>10

LEMMA ExpectedIsSum ==
  ASSUME NEW U
  PROVE  Expected(U) = SumOfRows(frozen, U, Replays)
<1> DEFINE ByModel(r) == r.alert
           ByRules(r) == TickOf(r) \in frozen.alerts[r.run]
           attacks == {d \in Replays : CampaignOf[d] # NoCampaign}
           Positive(d) == {r \in U : r.run = d /\ r.label = 1}
           silent == {d \in attacks : Positive(d) = {}}
           campaigns == {[campaign |-> CampaignOf[d], run |-> d,
                         model |-> \E r \in Positive(d) : ByModel(r),
                         rules |-> \E r \in Positive(d) : ByRules(r)] : d \in attacks \ silent}
<1>1. Confusion(U, ByModel) = CountsOf(U, ModelAlerts(U))
  BY DEF Confusion, CountsOf, ModelAlerts
<1>2. Confusion(U, ByRules) = CountsOf(U, RuleAlerts(frozen, U))
  BY DEF Confusion, CountsOf, RuleAlerts
<1>3. campaigns = CampaignsOf(frozen, U)
  <2>1. attacks \ silent = {e \in AttackReplays : PositivesOf(U, e) # {}}
    BY DEF AttackReplays, PositivesOf
  <2>2. ASSUME NEW d
        PROVE  CampaignRecord(frozen, U, d) =
                 [campaign |-> CampaignOf[d], run |-> d,
                  model |-> \E r \in Positive(d) : ByModel(r),
                  rules |-> \E r \in Positive(d) : ByRules(r)]
    <3>1. (\E r \in PositivesOf(U, d) : r \in ModelAlerts(U)) <=> (\E r \in Positive(d) : ByModel(r))
      BY DEF PositivesOf, ModelAlerts
    <3>2. (\E r \in PositivesOf(U, d) : r \in RuleAlerts(frozen, U)) <=> (\E r \in Positive(d) : ByRules(r))
      BY DEF PositivesOf, RuleAlerts
    <3> QED BY <3>1, <3>2 DEF CampaignRecord
  <2>3. CampaignsOf(frozen, U) = {CampaignRecord(frozen, U, d) : d \in attacks \ silent}
    BY <2>1 DEF CampaignsOf
  <2>4. campaigns = {CampaignRecord(frozen, U, d) : d \in attacks \ silent}
    <3> HIDE DEF attacks, silent, Positive
    <3>1. \A d \in attacks \ silent : CampaignRecord(frozen, U, d) =
                 [campaign |-> CampaignOf[d], run |-> d,
                  model |-> \E r \in Positive(d) : ByModel(r),
                  rules |-> \E r \in Positive(d) : ByRules(r)]
      BY <2>2
    <3> QED BY <3>1, Zenon
  <2> QED BY <2>3, <2>4
<1>4. {CampaignOf[d] : d \in silent} = SilentOf(U, Replays)
  <2>1. silent = {e \in AttackReplays \cap Replays : PositivesOf(U, e) = {}}
    BY DEF AttackReplays, PositivesOf
  <2> QED BY <2>1 DEF SilentOf
<1>5. MapThenSumSet(LAMBDA d : Cardinality({t \in frozen.alerts[d] :
                            ~\E r \in U : r.run = d /\ TickOf(r) = t}), Replays)
        = Total(AlertsBeside(frozen, U), Replays)
  BY AlertsAdded
<1> QED BY <1>1, <1>2, <1>3, <1>4, <1>5 DEF Expected, SumOfRows
--------------------------------------------------------------------------------
(***************************************************************************)
(* One prediction more.                                                    *)
(***************************************************************************)
LEMMA OneMore ==
  ASSUME NEW S, IsFiniteSet(S), NEW r, r \notin S, NEW T, NEW B \in BOOLEAN,
         T = IF B THEN S \cup {r} ELSE S
  PROVE  Cardinality(T) = Cardinality(S) + (IF B THEN 1 ELSE 0) /\ Cardinality(S) \in Nat
<1>1. Cardinality(S) \in Nat
  BY FS_CardinalityType
<1>2. CASE B
  <2>1. Cardinality(S \cup {r}) = Cardinality(S) + 1
    BY FS_AddElement
  <2> QED BY <1>1, <1>2, <2>1
<1>3. CASE ~B
  BY <1>1, <1>3
<1> QED BY <1>2, <1>3

LEMMA AddAdds ==
  ASSUME NEW a, NEW b, NEW c, NEW d, NEW label, NEW alert
  PROVE  AddRow([tp |-> a, fp |-> b, fn |-> c, tn |-> d], label, alert) =
           [tp |-> a + (IF label = 1 /\ alert THEN 1 ELSE 0),
            fp |-> b + (IF label = 0 /\ alert THEN 1 ELSE 0),
            fn |-> c + (IF label = 1 /\ ~alert THEN 1 ELSE 0),
            tn |-> d + (IF label = 0 /\ ~alert THEN 1 ELSE 0)]
<1>1. PICK n : n = [tp |-> a, fp |-> b, fn |-> c, tn |-> d]
  OBVIOUS
<1>2. PICK m : m = AddRow(n, label, alert)
  OBVIOUS
<1>3. /\ m = [x \in {"tp", "fp", "fn", "tn"} |-> m[x]]
      /\ m.tp = a + (IF label = 1 /\ alert THEN 1 ELSE 0)
      /\ m.fp = b + (IF label = 0 /\ alert THEN 1 ELSE 0)
      /\ m.fn = c + (IF label = 1 /\ ~alert THEN 1 ELSE 0)
      /\ m.tn = d + (IF label = 0 /\ ~alert THEN 1 ELSE 0)
  BY <1>1, <1>2 DEF AddRow
<1> QED BY <1>1, <1>2, <1>3

LEMMA CountsGrow ==
  ASSUME NEW U, IsFiniteSet(U), NEW r, r \notin U, NEW A, NEW D,
         \A x \in U : x \in D <=> x \in A,
         NEW alert \in BOOLEAN, alert <=> r \in D
  PROVE  CountsOf(U \cup {r}, D) = AddRow(CountsOf(U, A), r.label, alert)
<1>1. PICK tp : tp = {x \in U : x.label = 1 /\ x \in A}
  OBVIOUS
<1>2. PICK fp : fp = {x \in U : x.label = 0 /\ x \in A}
  OBVIOUS
<1>3. PICK fn : fn = {x \in U : x.label = 1 /\ x \notin A}
  OBVIOUS
<1>4. PICK tn : tn = {x \in U : x.label = 0 /\ x \notin A}
  OBVIOUS
<1>5. IsFiniteSet(tp) /\ IsFiniteSet(fp) /\ IsFiniteSet(fn) /\ IsFiniteSet(tn)
  BY <1>1, <1>2, <1>3, <1>4, FS_Subset
<1>6. r \notin tp /\ r \notin fp /\ r \notin fn /\ r \notin tn
  BY <1>1, <1>2, <1>3, <1>4
<1>7. /\ {x \in U \cup {r} : x.label = 1 /\ x \in D} = IF r.label = 1 /\ alert THEN tp \cup {r} ELSE tp
      /\ {x \in U \cup {r} : x.label = 0 /\ x \in D} = IF r.label = 0 /\ alert THEN fp \cup {r} ELSE fp
      /\ {x \in U \cup {r} : x.label = 1 /\ x \notin D} = IF r.label = 1 /\ ~alert THEN fn \cup {r} ELSE fn
      /\ {x \in U \cup {r} : x.label = 0 /\ x \notin D} = IF r.label = 0 /\ ~alert THEN tn \cup {r} ELSE tn
  BY <1>1, <1>2, <1>3, <1>4
<1>8. /\ Cardinality({x \in U \cup {r} : x.label = 1 /\ x \in D})
            = Cardinality(tp) + (IF r.label = 1 /\ alert THEN 1 ELSE 0)
      /\ Cardinality({x \in U \cup {r} : x.label = 0 /\ x \in D})
            = Cardinality(fp) + (IF r.label = 0 /\ alert THEN 1 ELSE 0)
      /\ Cardinality({x \in U \cup {r} : x.label = 1 /\ x \notin D})
            = Cardinality(fn) + (IF r.label = 1 /\ ~alert THEN 1 ELSE 0)
      /\ Cardinality({x \in U \cup {r} : x.label = 0 /\ x \notin D})
            = Cardinality(tn) + (IF r.label = 0 /\ ~alert THEN 1 ELSE 0)
  <2>1. /\ (r.label = 1 /\ alert) \in BOOLEAN /\ (r.label = 0 /\ alert) \in BOOLEAN
        /\ (r.label = 1 /\ ~alert) \in BOOLEAN /\ (r.label = 0 /\ ~alert) \in BOOLEAN
    OBVIOUS
  <2>2. PICK b1 \in BOOLEAN : b1 = (r.label = 1 /\ alert)
    BY <2>1
  <2>3. PICK b2 \in BOOLEAN : b2 = (r.label = 0 /\ alert)
    BY <2>1
  <2>4. PICK b3 \in BOOLEAN : b3 = (r.label = 1 /\ ~alert)
    BY <2>1
  <2>5. PICK b4 \in BOOLEAN : b4 = (r.label = 0 /\ ~alert)
    BY <2>1
  <2>6. Cardinality(IF b1 THEN tp \cup {r} ELSE tp) = Cardinality(tp) + (IF b1 THEN 1 ELSE 0)
    BY <1>5, <1>6, OneMore
  <2>7. Cardinality(IF b2 THEN fp \cup {r} ELSE fp) = Cardinality(fp) + (IF b2 THEN 1 ELSE 0)
    BY <1>5, <1>6, OneMore
  <2>8. Cardinality(IF b3 THEN fn \cup {r} ELSE fn) = Cardinality(fn) + (IF b3 THEN 1 ELSE 0)
    BY <1>5, <1>6, OneMore
  <2>9. Cardinality(IF b4 THEN tn \cup {r} ELSE tn) = Cardinality(tn) + (IF b4 THEN 1 ELSE 0)
    BY <1>5, <1>6, OneMore
  <2> QED BY <1>7, <2>2, <2>3, <2>4, <2>5, <2>6, <2>7, <2>8, <2>9, Zenon
<1>9. PICK c : c = CountsOf(U, A)
  OBVIOUS
<1>10. c = [tp |-> Cardinality(tp), fp |-> Cardinality(fp), fn |-> Cardinality(fn), tn |-> Cardinality(tn)]
  BY <1>1, <1>2, <1>3, <1>4, <1>9 DEF CountsOf
<1>11. AddRow(c, r.label, alert) =
        [tp |-> Cardinality(tp) + (IF r.label = 1 /\ alert THEN 1 ELSE 0),
         fp |-> Cardinality(fp) + (IF r.label = 0 /\ alert THEN 1 ELSE 0),
         fn |-> Cardinality(fn) + (IF r.label = 1 /\ ~alert THEN 1 ELSE 0),
         tn |-> Cardinality(tn) + (IF r.label = 0 /\ ~alert THEN 1 ELSE 0)]
  BY <1>10, AddAdds
<1> QED BY <1>8, <1>9, <1>11 DEF CountsOf

LEMMA CampaignsGrow ==
  ASSUME NEW f, NEW U, NEW r, r.label = 1, CampaignOf[r.run] # NoCampaign, r.run \in Replays,
         \A c \in CampaignsOf(f, U) : c.campaign = CampaignOf[r.run] => c.run = r.run,
         NEW model \in BOOLEAN, model <=> r.alert,
         NEW rules \in BOOLEAN, rules <=> TickOf(r) \in f.alerts[r.run]
  PROVE  CampaignsOf(f, U \cup {r}) = AddCampaign(CampaignsOf(f, U), r.run, model, rules)
<1>1. PICK C : C = CampaignsOf(f, U)
  OBVIOUS
<1>2. PICK known : known = {c \in C : c.campaign = CampaignOf[r.run]}
  OBVIOUS
<1>3. r.run \in AttackReplays /\ r \in PositivesOf(U \cup {r}, r.run)
  BY DEF AttackReplays, PositivesOf
<1>4. \A d : d # r.run => PositivesOf(U \cup {r}, d) = PositivesOf(U, d)
  BY DEF PositivesOf
<1>5. ASSUME NEW d, d # r.run
      PROVE  CampaignRecord(f, U \cup {r}, d) = CampaignRecord(f, U, d)
  <2>1. PositivesOf(U \cup {r}, d) = PositivesOf(U, d)
    BY <1>4, <1>5
  <2>2. \A x \in PositivesOf(U, d) :
            /\ x \in ModelAlerts(U \cup {r}) <=> x \in ModelAlerts(U)
            /\ x \in RuleAlerts(f, U \cup {r}) <=> x \in RuleAlerts(f, U)
    BY DEF PositivesOf, ModelAlerts, RuleAlerts
  <2>3. /\ (\E x \in PositivesOf(U \cup {r}, d) : x \in ModelAlerts(U \cup {r}))
             <=> (\E x \in PositivesOf(U, d) : x \in ModelAlerts(U))
        /\ (\E x \in PositivesOf(U \cup {r}, d) : x \in RuleAlerts(f, U \cup {r}))
             <=> (\E x \in PositivesOf(U, d) : x \in RuleAlerts(f, U))
    BY <2>1, <2>2
  <2> QED BY <2>3 DEF CampaignRecord
<1>6. PICK new : new = [campaign |-> CampaignOf[r.run], run |-> r.run,
                        model |-> model \/ \E c \in known : c.model,
                        rules |-> rules \/ \E c \in known : c.rules]
  OBVIOUS
<1>7. known = IF PositivesOf(U, r.run) # {} THEN {CampaignRecord(f, U, r.run)} ELSE {}
  <2>1. \A c \in known : c = CampaignRecord(f, U, r.run) /\ PositivesOf(U, r.run) # {}
    <3> TAKE c \in known
    <3>1. c \in C /\ c.campaign = CampaignOf[r.run] /\ c.run = r.run
      BY <1>1, <1>2
    <3>2. PICK d \in AttackReplays : PositivesOf(U, d) # {} /\ c = CampaignRecord(f, U, d)
      BY <1>1, <3>1 DEF CampaignsOf
    <3>3. c.run = d
      BY <3>2 DEF CampaignRecord
    <3> QED BY <3>1, <3>2, <3>3
  <2>2. ASSUME PositivesOf(U, r.run) # {}
        PROVE  CampaignRecord(f, U, r.run) \in known
    <3>1. CampaignRecord(f, U, r.run) \in C
      BY <1>1, <1>3, <2>2 DEF CampaignsOf
    <3>2. CampaignRecord(f, U, r.run).campaign = CampaignOf[r.run]
      BY DEF CampaignRecord
    <3> QED BY <1>2, <3>1, <3>2
  <2> QED BY <2>1, <2>2
<1>8. new = CampaignRecord(f, U \cup {r}, r.run)
  <2>1. PositivesOf(U \cup {r}, r.run) = PositivesOf(U, r.run) \cup {r}
    BY DEF PositivesOf
  <2>2. \A x \in PositivesOf(U, r.run) :
            /\ x \in ModelAlerts(U \cup {r}) <=> x \in ModelAlerts(U)
            /\ x \in RuleAlerts(f, U \cup {r}) <=> x \in RuleAlerts(f, U)
    BY DEF PositivesOf, ModelAlerts, RuleAlerts
  <2>3. /\ r \in ModelAlerts(U \cup {r}) <=> model
        /\ r \in RuleAlerts(f, U \cup {r}) <=> rules
    BY DEF ModelAlerts, RuleAlerts
  <2>4. /\ (\E x \in PositivesOf(U \cup {r}, r.run) : x \in ModelAlerts(U \cup {r}))
             <=> model \/ \E x \in PositivesOf(U, r.run) : x \in ModelAlerts(U)
        /\ (\E x \in PositivesOf(U \cup {r}, r.run) : x \in RuleAlerts(f, U \cup {r}))
             <=> rules \/ \E x \in PositivesOf(U, r.run) : x \in RuleAlerts(f, U)
    BY <2>1, <2>2, <2>3
  <2>5. /\ (\E c \in known : c.model) <=> \E x \in PositivesOf(U, r.run) : x \in ModelAlerts(U)
        /\ (\E c \in known : c.rules) <=> \E x \in PositivesOf(U, r.run) : x \in RuleAlerts(f, U)
    <3>1. CASE PositivesOf(U, r.run) = {}
      BY <1>7, <3>1
    <3>2. CASE PositivesOf(U, r.run) # {}
      <4>1. known = {CampaignRecord(f, U, r.run)}
        BY <1>7, <3>2
      <4>2. /\ CampaignRecord(f, U, r.run).model = \E x \in PositivesOf(U, r.run) : x \in ModelAlerts(U)
            /\ CampaignRecord(f, U, r.run).rules = \E x \in PositivesOf(U, r.run) : x \in RuleAlerts(f, U)
        BY DEF CampaignRecord
      <4> QED BY <4>1, <4>2
    <3> QED BY <3>1, <3>2
  <2> QED BY <1>6, <2>4, <2>5 DEF CampaignRecord
<1>9. CampaignsOf(f, U \cup {r}) = (C \ known) \cup {new}
  <2>1. ASSUME NEW c \in CampaignsOf(f, U \cup {r})  PROVE c \in (C \ known) \cup {new}
    <3>1. PICK d \in AttackReplays : PositivesOf(U \cup {r}, d) # {} /\ c = CampaignRecord(f, U \cup {r}, d)
      BY DEF CampaignsOf
    <3>2. CASE d = r.run
      BY <1>8, <3>1, <3>2
    <3>3. CASE d # r.run
      <4>1. c = CampaignRecord(f, U, d) /\ PositivesOf(U, d) # {}
        BY <1>4, <1>5, <3>1, <3>3
      <4>2. c \in C /\ c.run = d
        BY <1>1, <4>1 DEF CampaignsOf, CampaignRecord
      <4>3. c \notin known
        BY <1>1, <1>2, <3>3, <4>2
      <4> QED BY <4>2, <4>3
    <3> QED BY <3>2, <3>3
  <2>2. new \in CampaignsOf(f, U \cup {r})
    BY <1>3, <1>8 DEF CampaignsOf
  <2>3. ASSUME NEW c \in C, c \notin known  PROVE c \in CampaignsOf(f, U \cup {r})
    <3>1. PICK d \in AttackReplays : PositivesOf(U, d) # {} /\ c = CampaignRecord(f, U, d)
      BY <1>1 DEF CampaignsOf
    <3>2. c.campaign = CampaignOf[d]
      BY <3>1 DEF CampaignRecord
    <3>3. d # r.run
      BY <1>2, <2>3, <3>2
    <3>4. PositivesOf(U \cup {r}, d) # {} /\ c = CampaignRecord(f, U \cup {r}, d)
      BY <1>4, <1>5, <3>1, <3>3
    <3> QED BY <3>4 DEF CampaignsOf
  <2> QED BY <2>1, <2>2, <2>3
<1> QED BY <1>1, <1>2, <1>6, <1>9 DEF AddCampaign

LEMMA JoinCounts ==
  ASSUME NEW f, NEW U, IsFiniteSet(U), NEW closed \in SUBSET Replays,
         NEW r, r \notin U, r.run \in Replays, r.run \notin closed, r.alert \in BOOLEAN,
         NEW rules \in BOOLEAN, rules <=> TickOf(r) \in f.alerts[r.run],
         r.label = 1 => /\ CampaignOf[r.run] # NoCampaign
                        /\ \A c \in CampaignsOf(f, U) : c.campaign = CampaignOf[r.run] => c.run = r.run
  PROVE  SumOfRows(f, U \cup {r}, closed) = Counted(SumOfRows(f, U, closed), r, rules)
<1>1. PICK W : W = U \cup {r}
  OBVIOUS
<1>2. CountsOf(W, ModelAlerts(W)) = AddRow(CountsOf(U, ModelAlerts(U)), r.label, r.alert)
  <2>1. PICK alert \in BOOLEAN : alert = r.alert
    OBVIOUS
  <2>2. PICK A : A = ModelAlerts(U)
    OBVIOUS
  <2>3. PICK D : D = ModelAlerts(W)
    OBVIOUS
  <2>4. \A x \in U : x \in D <=> x \in A
    BY <1>1, <2>2, <2>3 DEF ModelAlerts
  <2>5. alert <=> r \in D
    BY <1>1, <2>1, <2>3 DEF ModelAlerts
  <2>6. CountsOf(U \cup {r}, D) = AddRow(CountsOf(U, A), r.label, alert)
    BY <2>4, <2>5, CountsGrow
  <2> QED BY <1>1, <2>1, <2>2, <2>3, <2>6
<1>3. CountsOf(W, RuleAlerts(f, W)) = AddRow(CountsOf(U, RuleAlerts(f, U)), r.label, rules)
  <2>2. PICK A : A = RuleAlerts(f, U)
    OBVIOUS
  <2>3. PICK D : D = RuleAlerts(f, W)
    OBVIOUS
  <2>4. \A x \in U : x \in D <=> x \in A
    BY <1>1, <2>2, <2>3 DEF RuleAlerts
  <2>5. rules <=> r \in D
    BY <1>1, <2>3 DEF RuleAlerts
  <2>6. CountsOf(U \cup {r}, D) = AddRow(CountsOf(U, A), r.label, rules)
    BY <2>4, <2>5, CountsGrow
  <2> QED BY <1>1, <2>2, <2>3, <2>6
<1>4. CampaignsOf(f, W) = IF r.label = 1 THEN AddCampaign(CampaignsOf(f, U), r.run, r.alert, rules)
                          ELSE CampaignsOf(f, U)
  <2>1. CASE r.label = 1
    <3>1. PICK model \in BOOLEAN : model = r.alert
      OBVIOUS
    <3>2. CampaignsOf(f, W) = AddCampaign(CampaignsOf(f, U), r.run, model, rules)
      BY <1>1, <2>1, <3>1, CampaignsGrow
    <3> QED BY <2>1, <3>1, <3>2
  <2>2. CASE r.label # 1
    <3>1. \A d : PositivesOf(W, d) = PositivesOf(U, d)
      BY <1>1, <2>2 DEF PositivesOf
    <3>2. \A d : CampaignRecord(f, W, d) = CampaignRecord(f, U, d)
      <4> TAKE d
      <4>1. \A x \in PositivesOf(U, d) :
               /\ x \in ModelAlerts(W) <=> x \in ModelAlerts(U)
               /\ x \in RuleAlerts(f, W) <=> x \in RuleAlerts(f, U)
        BY <1>1 DEF PositivesOf, ModelAlerts, RuleAlerts
      <4>2. /\ (\E x \in PositivesOf(W, d) : x \in ModelAlerts(W))
                  <=> (\E x \in PositivesOf(U, d) : x \in ModelAlerts(U))
            /\ (\E x \in PositivesOf(W, d) : x \in RuleAlerts(f, W))
                  <=> (\E x \in PositivesOf(U, d) : x \in RuleAlerts(f, U))
        BY <3>1, <4>1
      <4> QED BY <4>2 DEF CampaignRecord
    <3>3. CampaignsOf(f, W) = CampaignsOf(f, U)
      BY <3>1, <3>2 DEF CampaignsOf
    <3> QED BY <2>2, <3>3
  <2> QED BY <2>1, <2>2
<1>5. SilentOf(W, closed) = SilentOf(U, closed)
  <2>1. \A d \in closed : PositivesOf(W, d) = PositivesOf(U, d)
    BY <1>1 DEF PositivesOf
  <2>2. {e \in AttackReplays \cap closed : PositivesOf(W, e) = {}}
          = {e \in AttackReplays \cap closed : PositivesOf(U, e) = {}}
    BY <2>1
  <2> QED BY <2>2 DEF SilentOf
<1>6. Total(AlertsBeside(f, W), closed) = Total(AlertsBeside(f, U), closed)
  <2>1. IsFiniteSet(closed)
    BY C4ComparisonAssumption, FS_Subset
  <2>2. ASSUME NEW d \in closed  PROVE AlertsBeside(f, W)[d] = AlertsBeside(f, U)[d]
    <3>1. \A t : (\E x \in W : x.run = d /\ TickOf(x) = t) <=> (\E x \in U : x.run = d /\ TickOf(x) = t)
      BY <1>1
    <3>2. {t \in f.alerts[d] : ~\E x \in W : x.run = d /\ TickOf(x) = t}
            = {t \in f.alerts[d] : ~\E x \in U : x.run = d /\ TickOf(x) = t}
      BY <3>1
    <3> QED BY <3>2 DEF AlertsBeside
  <2> QED BY <2>1, <2>2, TotalSame
<1>7. PICK s : s = SumOfRows(f, U, closed)
  OBVIOUS
<1>8. PICK z : z = Counted(s, r, rules)
  OBVIOUS
<1>9. /\ z = [x \in {"model", "rules", "campaigns", "silent", "outside"} |-> z[x]]
      /\ z.model = AddRow(CountsOf(U, ModelAlerts(U)), r.label, r.alert)
      /\ z.rules = AddRow(CountsOf(U, RuleAlerts(f, U)), r.label, rules)
      /\ z.campaigns = IF r.label = 1 THEN AddCampaign(CampaignsOf(f, U), r.run, r.alert, rules)
                       ELSE CampaignsOf(f, U)
      /\ z.silent = SilentOf(U, closed) /\ z.outside = Total(AlertsBeside(f, U), closed)
  BY <1>7, <1>8 DEF Counted, SumOfRows
<1>10. z = SumOfRows(f, W, closed)
  BY <1>2, <1>3, <1>4, <1>5, <1>6, <1>9 DEF SumOfRows
<1> QED BY <1>1, <1>7, <1>8, <1>10

LEMMA CloseCounts ==
  ASSUME NEW f \in Profiles, NEW U, NEW closed \in SUBSET Replays, NEW d \in Replays, d \notin closed
  PROVE  /\ SilentOf(U, closed \cup {d}) =
              SilentOf(U, closed) \cup IF CampaignOf[d] # NoCampaign /\ PositivesOf(U, d) = {}
                                       THEN {CampaignOf[d]} ELSE {}
         /\ Total(AlertsBeside(f, U), closed \cup {d})
              = Total(AlertsBeside(f, U), closed) + Cardinality(f.alerts[d] \ TicksOf(U, d))
<1>1. SilentOf(U, closed \cup {d}) =
        SilentOf(U, closed) \cup IF CampaignOf[d] # NoCampaign /\ PositivesOf(U, d) = {} THEN {CampaignOf[d]} ELSE {}
  BY DEF SilentOf, AttackReplays
<1>2. /\ IsFiniteSet(closed)
      /\ \A e \in closed \cup {d} : AlertsBeside(f, U)[e] \in Int
  <2>1. IsFiniteSet(Replays) /\ \A e \in Replays : IsFiniteSet(f.alerts[e])
    BY C4ComparisonAssumption
  <2>2. IsFiniteSet(closed)
    BY <2>1, FS_Subset
  <2>3. ASSUME NEW e \in Replays  PROVE AlertsBeside(f, U)[e] \in Int
    <3>1. PICK T : T = {t \in f.alerts[e] : ~\E r \in U : r.run = e /\ TickOf(r) = t}
      OBVIOUS
    <3>2. IsFiniteSet(T)
      BY <2>1, <3>1, FS_Subset
    <3>3. Cardinality(T) \in Nat
      BY <3>2, FS_CardinalityType
    <3>4. AlertsBeside(f, U)[e] = Cardinality(T)
      BY <3>1 DEF AlertsBeside
    <3> QED BY <3>3, <3>4
  <2> QED BY <2>2, <2>3
<1>3. AlertsBeside(f, U)[d] = Cardinality(f.alerts[d] \ TicksOf(U, d))
  <2>1. {t \in f.alerts[d] : ~\E r \in U : r.run = d /\ TickOf(r) = t} = f.alerts[d] \ TicksOf(U, d)
    BY DEF RowsOfRun, TicksOf
  <2> QED BY <2>1 DEF AlertsBeside
<1>4. Total(AlertsBeside(f, U), closed \cup {d})
        = Total(AlertsBeside(f, U), closed) + Cardinality(f.alerts[d] \ TicksOf(U, d))
  <2>1. Total(AlertsBeside(f, U), closed \cup {d})
          = AlertsBeside(f, U)[d] + Total(AlertsBeside(f, U), closed)
    BY <1>2, TotalWith
  <2>2. PICK t \in Int : t = Total(AlertsBeside(f, U), closed)
    BY <1>2, TotalInt
  <2>3. PICK k \in Int : k = Cardinality(f.alerts[d] \ TicksOf(U, d))
    BY <1>2, <1>3
  <2>4. k + t = t + k
    OBVIOUS
  <2> QED BY <1>3, <2>1, <2>2, <2>3, <2>4, Zenon
<1> QED BY <1>1, <1>4

LEMMA NothingYet ==
  ASSUME NEW f
  PROVE  SumOfRows(f, {}, {}) = NothingCounted
<1>1. IsFiniteSet({}) /\ Cardinality({}) = 0
  BY FS_EmptySet
<1>2. Total(AlertsBeside(f, {}), {}) = 0
  BY <1>1, TotalSteps
<1>3. \A A : CountsOf({}, A) = NoCounts
  <2> TAKE A
  <2>1. /\ {r \in {} : r.label = 1 /\ r \in A} = {} /\ {r \in {} : r.label = 0 /\ r \in A} = {}
        /\ {r \in {} : r.label = 1 /\ r \notin A} = {} /\ {r \in {} : r.label = 0 /\ r \notin A} = {}
    OBVIOUS
  <2> QED BY <1>1, <2>1 DEF CountsOf, NoCounts
<1>4. CampaignsOf(f, {}) = {} /\ SilentOf({}, {}) = {}
  BY DEF CampaignsOf, SilentOf, PositivesOf
<1> QED BY <1>2, <1>3, <1>4 DEF SumOfRows, NothingCounted

(***************************************************************************)
(* Observations and predictions.                                           *)
(***************************************************************************)
OwnRows(U, d, o) == {r \in U : r.run = d /\ r.seq = o.seq /\ r.ts = o.ts /\ r.label = o.label}

PairedIn(f, U, d) ==
    /\ Cardinality(RowsOfRun(U, d)) = Cardinality(f.rows[d])
    /\ \A o \in f.rows[d] : Cardinality(OwnRows(U, d, o)) = 1

\* The same while observations are left.
JoinedIn(f, U, d, left) ==
    /\ left \subseteq f.rows[d] /\ IsFiniteSet(f.rows[d] \ left)
    /\ Cardinality(RowsOfRun(U, d)) = Cardinality(f.rows[d] \ left)
    /\ \A o \in f.rows[d] \ left : OwnRows(U, d, o) # {}

LEMMA PairedStays ==
  ASSUME NEW f, NEW U, NEW r, NEW d, r.run # d, PairedIn(f, U, d)
  PROVE  PairedIn(f, U \cup {r}, d)
<1>1. RowsOfRun(U \cup {r}, d) = RowsOfRun(U, d)
  BY DEF RowsOfRun
<1>2. \A o : OwnRows(U \cup {r}, d, o) = OwnRows(U, d, o)
  BY DEF OwnRows
<1> QED BY <1>1, <1>2 DEF PairedIn

LEMMA JoinedGrows ==
  ASSUME NEW f, NEW U, IsFiniteSet(U), NEW r, r \notin U, NEW d, r.run = d, NEW left, JoinedIn(f, U, d, left),
         NEW o \in left, r.seq = o.seq, r.ts = o.ts, r.label = o.label
  PROVE  JoinedIn(f, U \cup {r}, d, left \ {o})
<1>1. f.rows[d] \ (left \ {o}) = (f.rows[d] \ left) \cup {o} /\ o \notin f.rows[d] \ left
  BY DEF JoinedIn
<1>2. /\ IsFiniteSet((f.rows[d] \ left) \cup {o})
      /\ Cardinality((f.rows[d] \ left) \cup {o}) = Cardinality(f.rows[d] \ left) + 1
  BY <1>1, FS_AddElement DEF JoinedIn
<1>3. RowsOfRun(U \cup {r}, d) = RowsOfRun(U, d) \cup {r} /\ r \notin RowsOfRun(U, d)
  BY DEF RowsOfRun
<1>4. IsFiniteSet(RowsOfRun(U, d))
  BY FS_Subset DEF RowsOfRun
<1>5. Cardinality(RowsOfRun(U \cup {r}, d)) = Cardinality(RowsOfRun(U, d)) + 1
  BY <1>3, <1>4, FS_AddElement
<1>6. \A x : OwnRows(U, d, x) \subseteq OwnRows(U \cup {r}, d, x)
  BY DEF OwnRows
<1>7. r \in OwnRows(U \cup {r}, d, o)
  BY DEF OwnRows
<1>8. \A x \in f.rows[d] \ (left \ {o}) : OwnRows(U \cup {r}, d, x) # {}
  BY <1>1, <1>6, <1>7 DEF JoinedIn
<1> QED BY <1>1, <1>2, <1>5, <1>8 DEF JoinedIn

LEMMA JoinedPairs ==
  ASSUME NEW f, NEW rows, UniquePredictions(rows), NEW U \in SUBSET rows, NEW d, JoinedIn(f, U, d, {})
  PROVE  PairedIn(f, U, d)
<1>1. f.rows[d] \ {} = f.rows[d]
  OBVIOUS
<1>2. ASSUME NEW o \in f.rows[d]  PROVE Cardinality(OwnRows(U, d, o)) = 1
  <2>1. PICK r : r \in OwnRows(U, d, o)
    BY <1>1 DEF JoinedIn
  <2>2. \A s \in OwnRows(U, d, o) : s = r
    BY <2>1 DEF OwnRows, UniquePredictions
  <2>3. OwnRows(U, d, o) = {r}
    BY <2>1, <2>2
  <2> QED BY <2>3, FS_Singleton
<1> QED BY <1>1, <1>2 DEF JoinedIn, PairedIn

(***************************************************************************)
(* A call under way: what it has consumed it has counted, and while no     *)
(* shard has changed, the shards it has closed are paired.                 *)
(***************************************************************************)
CallFields == {"phase", "reuse", "manifest", "todo", "unused", "sum", "altered"}
JoinFields == CallFields \cup {"at", "run", "left", "retained", "positive"}

Counting(c, f, rows) ==
    /\ c.unused \subseteq rows /\ c.todo \subseteq Replays
    /\ c.sum = SumOfRows(f, rows \ c.unused, Replays \ c.todo)
    /\ \A r \in rows \ c.unused :
          r.run \in Replays \ c.todo \/ (c.phase = "join" /\ r.run = c.run)

Pairing(c, f, rows, sh) ==
    \/ c.altered
    \/ /\ sh = f.rows
       /\ \A d \in Replays \ c.todo : PairedIn(f, rows \ c.unused, d)
       /\ c.phase = "join" => JoinedIn(f, rows \ c.unused, c.run, c.left)

Joining(c, rows) ==
    c.phase = "join" =>
      /\ DOMAIN c = JoinFields /\ c.run \in c.todo
      /\ c.retained = TicksOf(rows \ c.unused, c.run)
      /\ c.positive \in BOOLEAN
      /\ c.positive <=> PositivesOf(rows \ c.unused, c.run) # {}

Running(c, f, rows, sh) ==
    /\ c.phase \in {"open", "join"} /\ c.manifest \in Manifests
    /\ CallFields \subseteq DOMAIN c
    /\ IsFiniteSet(rows) /\ UniquePredictions(rows)
    /\ Counting(c, f, rows) /\ Pairing(c, f, rows, sh) /\ Joining(c, rows)

LEMMA RunningBegins ==
  ASSUME NEW c, NEW f, NEW rows, NEW sh, sh = f.rows, IsFiniteSet(rows), UniquePredictions(rows),
         NEW m \in Manifests, NEW reuse,
         c = [phase |-> "open", reuse |-> reuse, manifest |-> m, todo |-> Replays, unused |-> rows,
              sum |-> NothingCounted, altered |-> FALSE]
  PROVE  Running(c, f, rows, sh) /\ c.manifest = m
<1>1. rows \ rows = {} /\ Replays \ Replays = {}
  OBVIOUS
<1>2. Counting(c, f, rows)
  BY <1>1, NothingYet DEF Counting
<1>3. Pairing(c, f, rows, sh) /\ Joining(c, rows)
  BY <1>1 DEF Pairing, Joining
<1> QED BY <1>2, <1>3 DEF Running, CallFields

LEMMA RunningOpens ==
  ASSUME NEW c, NEW n, NEW f, NEW rows, NEW sh, Running(c, f, rows, sh), c.phase = "open",
         NEW d \in c.todo,
         n = [phase |-> "join", reuse |-> c.reuse, manifest |-> c.manifest,
              todo |-> c.todo, unused |-> c.unused, sum |-> c.sum, altered |-> c.altered,
              at |-> 1, run |-> d, left |-> sh[d], retained |-> {}, positive |-> FALSE]
  PROVE  Running(n, f, rows, sh) /\ n.manifest = c.manifest
<1>1. \A r \in rows \ c.unused : r.run # d
  BY DEF Running, Counting
<1>2. RowsOfRun(rows \ c.unused, d) = {} /\ PositivesOf(rows \ c.unused, d) = {}
  BY <1>1 DEF RowsOfRun, PositivesOf
<1>3. Counting(n, f, rows)
  BY DEF Running, Counting
<1>4. DOMAIN n = JoinFields
  BY DEF JoinFields, CallFields
<1>5. Joining(n, rows)
  BY <1>2, <1>4 DEF Joining, TicksOf
<1>6. sh = f.rows => JoinedIn(f, rows \ c.unused, d, sh[d])
  <2>1. f.rows[d] \ f.rows[d] = {}
    OBVIOUS
  <2>2. IsFiniteSet({}) /\ Cardinality({}) = 0
    BY FS_EmptySet
  <2> QED BY <1>2, <2>1, <2>2 DEF JoinedIn
<1>7. Pairing(n, f, rows, sh)
  BY <1>6 DEF Running, Pairing
<1> QED BY <1>3, <1>4, <1>5, <1>7 DEF Running, JoinFields

LEMMA RunningReads ==
  ASSUME NEW c, NEW n, NEW f, NEW rows, NEW sh, Running(c, f, rows, sh), c.phase = "join",
         DOMAIN n = DOMAIN c, n.phase = c.phase, n.manifest = c.manifest, n.todo = c.todo,
         n.unused = c.unused, n.sum = c.sum, n.altered = c.altered, n.run = c.run,
         n.left = c.left, n.retained = c.retained, n.positive = c.positive
  PROVE  Running(n, f, rows, sh)
<1>1. Counting(n, f, rows)
  BY DEF Running, Counting
<1>2. Pairing(n, f, rows, sh)
  BY DEF Running, Pairing
<1>3. Joining(n, rows)
  BY DEF Running, Joining
<1> QED BY <1>1, <1>2, <1>3 DEF Running

LEMMA RunningAltered ==
  ASSUME NEW c, NEW n, NEW f, NEW rows, NEW sh, NEW other, Running(c, f, rows, sh),
         DOMAIN n = DOMAIN c, n.altered = TRUE,
         \A x \in DOMAIN c : x # "altered" => n[x] = c[x]
  PROVE  Running(n, f, rows, other) /\ n.manifest = c.manifest
<1>1. /\ n.phase = c.phase /\ n.manifest = c.manifest /\ n.todo = c.todo
      /\ n.unused = c.unused /\ n.sum = c.sum
  BY DEF Running, CallFields
<1>2. c.phase = "join" => /\ n.run = c.run /\ n.left = c.left
                          /\ n.retained = c.retained /\ n.positive = c.positive
  BY DEF Running, Joining, JoinFields
<1>3. Counting(n, f, rows)
  BY <1>1, <1>2 DEF Running, Counting
<1>4. Joining(n, rows)
  BY <1>1, <1>2 DEF Running, Joining
<1> QED BY <1>1, <1>3, <1>4 DEF Running, Pairing

LEMMA RunningJoins ==
  ASSUME NEW c, NEW n, NEW f, NEW rows, NEW sh, Running(c, f, rows, sh), c.phase = "join",
         NEW r \in c.unused, r.run = c.run, r.alert \in BOOLEAN,
         r.label = 1 => /\ CampaignOf[r.run] # NoCampaign
                        /\ \A x \in c.sum.campaigns : x.campaign = CampaignOf[r.run] => x.run = r.run,
         NEW rules \in BOOLEAN, rules <=> TickOf(r) \in f.alerts[r.run],
         NEW o \in c.left, r.seq = o.seq, r.ts = o.ts, r.label = o.label,
         DOMAIN n = DOMAIN c, n.phase = c.phase, n.manifest = c.manifest, n.todo = c.todo,
         n.altered = c.altered, n.run = c.run,
         n.unused = c.unused \ {r}, n.left = c.left \ {o},
         n.sum = Counted(c.sum, r, rules), n.retained = c.retained \cup {TickOf(r)},
         n.positive = (c.positive \/ o.label = 1)
  PROVE  Running(n, f, rows, sh)
<1>1. PICK U : U = rows \ c.unused
  OBVIOUS
<1>2. PICK closed \in SUBSET Replays : closed = Replays \ c.todo
  OBVIOUS
<1>3. /\ rows \ n.unused = U \cup {r} /\ r \notin U /\ n.unused \subseteq rows
  BY <1>1 DEF Running, Counting
<1>4. IsFiniteSet(U)
  BY <1>1, FS_Subset DEF Running
<1>5. c.run \in Replays /\ c.run \notin closed
  BY <1>2 DEF Running, Counting, Joining
<1>6. c.sum = SumOfRows(f, U, closed)
  BY <1>1, <1>2 DEF Running, Counting
<1>7. c.sum.campaigns = CampaignsOf(f, U)
  BY <1>6 DEF SumOfRows
<1>8. r.label = 1 => /\ CampaignOf[r.run] # NoCampaign
                     /\ \A x \in CampaignsOf(f, U) : x.campaign = CampaignOf[r.run] => x.run = r.run
  BY <1>7
<1>9. n.sum = SumOfRows(f, U \cup {r}, closed)
  <2>1. r.run \in Replays /\ r.run \notin closed
    BY <1>5
  <2>2. SumOfRows(f, U \cup {r}, closed) = Counted(SumOfRows(f, U, closed), r, rules)
    BY <1>3, <1>4, <1>8, <2>1, JoinCounts, SMTT(60)
  <2> QED BY <1>6, <2>2
<1>10. Counting(n, f, rows)
  <2>1. \A x \in U \cup {r} : x.run \in Replays \ c.todo \/ x.run = c.run
    BY <1>1 DEF Running, Counting
  <2>2. n.todo \subseteq Replays
    BY DEF Running, Counting
  <2> QED BY <1>2, <1>3, <1>9, <2>1, <2>2 DEF Counting
<1>11. Pairing(n, f, rows, sh)
  <2>1. ASSUME ~c.altered
        PROVE  /\ sh = f.rows
               /\ \A d \in closed : PairedIn(f, U \cup {r}, d)
               /\ JoinedIn(f, U \cup {r}, c.run, c.left \ {o})
    <3>1. /\ sh = f.rows /\ \A d \in closed : PairedIn(f, U, d)
          /\ JoinedIn(f, U, c.run, c.left)
      BY <1>1, <1>2, <2>1 DEF Running, Pairing
    <3>2. \A d \in closed : PairedIn(f, U \cup {r}, d)
      BY <1>5, <3>1, PairedStays
    <3>3. PICK left : left = c.left
      OBVIOUS
    <3>4. PICK d : d = c.run
      OBVIOUS
    <3>5. JoinedIn(f, U, d, left) /\ r.run = d /\ o \in left
      BY <3>1, <3>3, <3>4
    <3>6. JoinedIn(f, U \cup {r}, d, left \ {o})
      BY <1>3, <1>4, <3>5, JoinedGrows
    <3> QED BY <3>1, <3>2, <3>3, <3>4, <3>6
  <2> QED BY <1>2, <1>3, <2>1 DEF Pairing
<1>12. Joining(n, rows)
  <2>1. /\ DOMAIN c = JoinFields /\ c.run \in c.todo
        /\ c.retained = TicksOf(U, c.run)
        /\ c.positive \in BOOLEAN /\ (c.positive <=> PositivesOf(U, c.run) # {})
    BY <1>1 DEF Running, Joining
  <2>2. RowsOfRun(U \cup {r}, c.run) = RowsOfRun(U, c.run) \cup {r}
    BY DEF RowsOfRun
  <2>3. n.retained = TicksOf(U \cup {r}, c.run)
    BY <2>1, <2>2 DEF TicksOf
  <2>4. PositivesOf(U \cup {r}, c.run) # {} <=> PositivesOf(U, c.run) # {} \/ r.label = 1
    BY DEF PositivesOf
  <2>5. n.positive \in BOOLEAN /\ (n.positive <=> PositivesOf(U \cup {r}, c.run) # {})
    BY <2>1, <2>4
  <2> QED BY <1>3, <2>1, <2>3, <2>5 DEF Joining
<1> QED BY <1>10, <1>11, <1>12 DEF Running

LEMMA RunningCloses ==
  ASSUME NEW c, NEW n, NEW f \in Profiles, NEW rows, NEW sh, Running(c, f, rows, sh),
         c.phase = "join", c.left = {},
         n = [phase |-> "open", reuse |-> c.reuse, manifest |-> c.manifest,
              todo |-> c.todo \ {c.run}, unused |-> c.unused, altered |-> c.altered,
              sum |-> [c.sum EXCEPT
                         !.outside = @ + Cardinality(f.alerts[c.run] \ c.retained),
                         !.silent = @ \cup IF CampaignOf[c.run] # NoCampaign /\ ~c.positive
                                           THEN {CampaignOf[c.run]} ELSE {}]]
  PROVE  Running(n, f, rows, sh) /\ n.manifest = c.manifest
<1>1. PICK U : U = rows \ c.unused
  OBVIOUS
<1>2. PICK closed \in SUBSET Replays : closed = Replays \ c.todo
  OBVIOUS
<1>3. PICK d \in Replays : d = c.run
  BY DEF Running, Counting, Joining
<1>4. d \notin closed /\ Replays \ (c.todo \ {d}) = closed \cup {d}
  BY <1>2, <1>3 DEF Running, Joining
<1>5. PICK retained : retained = c.retained
  OBVIOUS
<1>6. PICK positive \in BOOLEAN : positive = c.positive
  BY DEF Running, Joining
<1>7. /\ retained = TicksOf(U, d)
      /\ positive <=> PositivesOf(U, d) # {}
  BY <1>1, <1>3, <1>5, <1>6 DEF Running, Joining
<1>8. PICK s : s = c.sum
  OBVIOUS
<1>9. PICK z : z = [s EXCEPT
                      !.outside = @ + Cardinality(f.alerts[d] \ TicksOf(U, d)),
                      !.silent = @ \cup IF CampaignOf[d] # NoCampaign /\ PositivesOf(U, d) = {}
                                        THEN {CampaignOf[d]} ELSE {}]
  OBVIOUS
<1>10. n.sum = z
  BY <1>3, <1>5, <1>6, <1>7, <1>8, <1>9
<1>11. n.sum = SumOfRows(f, U, closed \cup {d})
  <2>1. d \notin closed
    BY <1>4
  <2>2. s = SumOfRows(f, U, closed)
    BY <1>1, <1>2, <1>8 DEF Running, Counting
  <2>3. /\ SilentOf(U, closed \cup {d}) =
             SilentOf(U, closed) \cup IF CampaignOf[d] # NoCampaign /\ PositivesOf(U, d) = {}
                                      THEN {CampaignOf[d]} ELSE {}
        /\ Total(AlertsBeside(f, U), closed \cup {d})
             = Total(AlertsBeside(f, U), closed) + Cardinality(f.alerts[d] \ TicksOf(U, d))
    <3>1. f \in Profiles /\ closed \in SUBSET Replays /\ d \in Replays /\ d \notin closed
      BY <2>1
    <3> QED BY ONLY <3>1, CloseCounts, ZenonT(60)
  <2>4. /\ z = [x \in {"model", "rules", "campaigns", "silent", "outside"} |-> z[x]]
        /\ z.model = CountsOf(U, ModelAlerts(U)) /\ z.rules = CountsOf(U, RuleAlerts(f, U))
        /\ z.campaigns = CampaignsOf(f, U)
        /\ z.silent = SilentOf(U, closed) \cup IF CampaignOf[d] # NoCampaign /\ PositivesOf(U, d) = {}
                                               THEN {CampaignOf[d]} ELSE {}
        /\ z.outside = Total(AlertsBeside(f, U), closed) + Cardinality(f.alerts[d] \ TicksOf(U, d))
    BY <1>9, <2>2 DEF SumOfRows
  <2>5. z = SumOfRows(f, U, closed \cup {d})
    BY <2>3, <2>4 DEF SumOfRows
  <2> QED BY <1>10, <2>5
<1>12. Counting(n, f, rows)
  <2>1. n.todo \subseteq Replays /\ n.unused \subseteq rows
    BY DEF Running, Counting
  <2>2. \A r \in U : r.run \in closed \cup {d}
    BY <1>1, <1>2, <1>3 DEF Running, Counting
  <2>3. Replays \ n.todo = closed \cup {d} /\ rows \ n.unused = U
    BY <1>1, <1>3, <1>4
  <2> QED BY <1>11, <2>1, <2>2, <2>3 DEF Counting
<1>13. Pairing(n, f, rows, sh)
  <2>1. ASSUME ~c.altered
        PROVE  sh = f.rows /\ \A e \in closed \cup {d} : PairedIn(f, U, e)
    <3>1. /\ sh = f.rows /\ \A e \in closed : PairedIn(f, U, e)
          /\ JoinedIn(f, U, d, {})
      BY <1>1, <1>2, <1>3, <2>1 DEF Running, Pairing
    <3>2. UniquePredictions(rows) /\ U \in SUBSET rows
      BY <1>1 DEF Running
    <3>3. PairedIn(f, U, d)
      BY <3>1, <3>2, JoinedPairs
    <3> QED BY <3>1, <3>3
  <2>2. Replays \ n.todo = closed \cup {d} /\ rows \ n.unused = U
    BY <1>1, <1>3, <1>4
  <2> QED BY <2>1, <2>2 DEF Pairing
<1> QED BY <1>12, <1>13 DEF Running, Joining, CallFields
--------------------------------------------------------------------------------
SumIsExact(f, t, m, counted, altered) ==
    /\ m \in Manifests /\ counted = SumOfRows(f, t[m], Replays)
    /\ altered \/ \A d \in Replays : PairedIn(f, t[m], d)

\* The invariant: what was returned, what is kept and what is under way.
ComparisonInv ==
    /\ frozen \in Profiles /\ table \in Predictions
    /\ call = NoCall \/ Running(call, frozen, table[call.manifest], shard)
    /\ cache = <<>> \/ \E m \in Manifests :
                          cache[1] = Key(m) /\ SumIsExact(frozen, table, m, cache[2], cache[3])
    /\ \A a \in comparisons : SumIsExact(frozen, table, a.manifest, a.result, a.altered)

LEMMA RunningEnds ==
  ASSUME NEW c, NEW f, NEW t, NEW sh, Running(c, f, t[c.manifest], sh),
         c.phase = "open", c.todo = {}, c.unused = {}
  PROVE  SumIsExact(f, t, c.manifest, c.sum, c.altered)
<1>1. PICK rows : rows = t[c.manifest]
  OBVIOUS
<1>2. rows \ c.unused = rows /\ Replays \ c.todo = Replays
  OBVIOUS
<1>3. Running(c, f, rows, sh)
  BY <1>1
<1>4. c.sum = SumOfRows(f, rows, Replays)
  BY <1>2, <1>3 DEF Running, Counting
<1>5. c.altered \/ \A d \in Replays : PairedIn(f, rows, d)
  BY <1>2, <1>3 DEF Running, Pairing
<1>6. c.manifest \in Manifests
  BY <1>3 DEF Running
<1> QED BY <1>1, <1>4, <1>5, <1>6 DEF SumIsExact

\* The call moves on, and nothing is kept or returned.
LEMMA MovesOn ==
  ASSUME ComparisonInv, UNCHANGED <<frozen, table, cache, comparisons>>,
         call' = NoCall \/ Running(call', frozen, table[call'.manifest], shard')
  PROVE  ComparisonInv'
BY DEF ComparisonInv

LEMMA ComparisonStarts ==
  ASSUME ComparisonInv, NEW reuse \in BOOLEAN, NEW m \in Manifests, StartComparison(reuse, m)
  PROVE  ComparisonInv'
<1>1. UNCHANGED <<frozen, table, shard, cache>> /\ call = NoCall
  BY DEF StartComparison
<1>2. CASE UNCHANGED <<call, comparisons>>
  BY <1>1, <1>2 DEF ComparisonInv
<1>3. CASE /\ cache # <<>> /\ cache[1] = Key(m) /\ UNCHANGED call
           /\ comparisons' = comparisons \cup {[manifest |-> m, result |-> cache[2], altered |-> cache[3]]}
  <2>1. PICK k \in Manifests : cache[1] = Key(k) /\ SumIsExact(frozen, table, k, cache[2], cache[3])
    BY <1>3 DEF ComparisonInv
  <2>2. k = m
    BY <1>3, <2>1 DEF Key
  <2>3. \A a \in comparisons' : SumIsExact(frozen, table, a.manifest, a.result, a.altered)
    BY <1>3, <2>1, <2>2 DEF ComparisonInv
  <2> QED BY <1>1, <1>3, <2>3 DEF ComparisonInv
<1>4. CASE /\ ProjectionVerifies /\ UNCHANGED comparisons
           /\ call' = IF UniquePredictions(table[m])
                     THEN [phase |-> "open", reuse |-> reuse, manifest |-> m,
                           todo |-> Replays, unused |-> table[m], sum |-> NothingCounted,
                           altered |-> FALSE]
                     ELSE NoCall
  <2>1. CASE ~UniquePredictions(table[m])
    BY <1>1, <1>4, <2>1, MovesOn
  <2>2. CASE UniquePredictions(table[m])
    <3>1. PICK c : c = call'
      OBVIOUS
    <3>2. PICK rows : rows = table[m]
      OBVIOUS
    <3>3. IsFiniteSet(rows)
      BY <3>2, C4ComparisonAssumption DEF ComparisonInv
    <3>4. PICK f : f = frozen
      OBVIOUS
    <3>5. PICK sh : sh = shard
      OBVIOUS
    <3>6. sh = f.rows
      BY <1>4, <3>4, <3>5 DEF ProjectionVerifies
    <3>7. c = [phase |-> "open", reuse |-> reuse, manifest |-> m, todo |-> Replays, unused |-> rows,
               sum |-> NothingCounted, altered |-> FALSE]
      BY <1>4, <2>2, <3>1, <3>2
    <3>8. UniquePredictions(rows)
      BY <2>2, <3>2
    <3>9. Running(c, f, rows, sh) /\ c.manifest = m
      BY <3>3, <3>6, <3>7, <3>8, RunningBegins
    <3>10. Running(call', frozen, table[call'.manifest], shard')
      BY <1>1, <3>1, <3>2, <3>4, <3>5, <3>9
    <3> QED BY <1>1, <1>4, <3>10, MovesOn
  <2> QED BY <2>1, <2>2
<1> QED BY <1>2, <1>3, <1>4 DEF StartComparison

LEMMA ShardOpens ==
  ASSUME ComparisonInv, OpenShard
  PROVE  ComparisonInv'
<1>1. PICK d : d = CHOOSE e \in call.todo : TRUE
  OBVIOUS
<1>2. d \in call.todo /\ call.phase = "open" /\ UNCHANGED <<frozen, table, shard>>
  BY <1>1 DEF OpenShard
<1>3. PICK c : c = call
  OBVIOUS
<1>4. PICK f : f = frozen
  OBVIOUS
<1>5. PICK sh : sh = shard
  OBVIOUS
<1>6. PICK rows : rows = table[c.manifest]
  OBVIOUS
<1>7. Running(c, f, rows, sh)
  BY <1>2, <1>3, <1>4, <1>5, <1>6 DEF ComparisonInv, NoCall
<1>8. CASE Refuse
  BY <1>2, <1>8, MovesOn DEF Refuse
<1>9. CASE /\ UNCHANGED <<cache, comparisons>>
           /\ call' = [phase |-> "join", reuse |-> c.reuse, manifest |-> c.manifest,
                       todo |-> c.todo, unused |-> c.unused, sum |-> c.sum, altered |-> c.altered,
                       at |-> 1, run |-> d, left |-> sh[d], retained |-> {}, positive |-> FALSE]
  <2>1. PICK n : n = call'
    OBVIOUS
  <2>2. d \in c.todo /\ c.phase = "open"
    BY <1>2, <1>3
  <2>3. n = [phase |-> "join", reuse |-> c.reuse, manifest |-> c.manifest,
             todo |-> c.todo, unused |-> c.unused, sum |-> c.sum, altered |-> c.altered,
             at |-> 1, run |-> d, left |-> sh[d], retained |-> {}, positive |-> FALSE]
    BY <1>9, <2>1
  <2>4. Running(n, f, rows, sh) /\ n.manifest = c.manifest
    BY <1>7, <2>2, <2>3, RunningOpens
  <2>5. Running(call', frozen, table[call'.manifest], shard')
    BY <1>2, <1>4, <1>5, <1>6, <2>1, <2>4
  <2> QED BY <1>2, <1>9, <2>5, MovesOn
<1> QED BY <1>1, <1>3, <1>5, <1>8, <1>9 DEF OpenShard

LEMMA EventJoins ==
  ASSUME ComparisonInv, JoinEvent
  PROVE  ComparisonInv'
<1>1. call.phase = "join" /\ UNCHANGED <<frozen, table, shard>>
  BY DEF JoinEvent
<1>2. PICK c : c = call
  OBVIOUS
<1>3. PICK f : f = frozen
  OBVIOUS
<1>4. PICK sh : sh = shard
  OBVIOUS
<1>5. PICK rows : rows = table[c.manifest]
  OBVIOUS
<1>6. Running(c, f, rows, sh) /\ c.phase = "join"
  BY <1>1, <1>2, <1>3, <1>4, <1>5 DEF ComparisonInv, NoCall
<1>7. DOMAIN c = JoinFields
  BY <1>6 DEF Running, Joining
<1> DEFINE event == Events[call.run][call.at]
           observed == {o \in call.left : o.seq = call.at}
           predicted == {r \in call.unused : r.run = call.run /\ r.seq = call.at /\ r.ts = event.ts}
<1>8. \/ observed = {} /\ call' = [call EXCEPT !.at = @ + 1] /\ UNCHANGED <<cache, comparisons>>
      \/ Refuse
      \/ \E o \in observed :
            /\ event.ts = o.ts
            /\ \E s \in predicted : s.label = o.label /\ RowAccepted(s, o.source, call.sum.campaigns)
            /\ \E r \in predicted :
                 call' = [call EXCEPT !.at = @ + 1, !.left = @ \ {o},
                            !.unused = @ \ {r}, !.retained = @ \cup {event.tick},
                            !.positive = @ \/ o.label = 1,
                            !.sum = Counted(@, r, event.tick \in frozen.alerts[call.run])]
            /\ UNCHANGED <<cache, comparisons>>
  BY Zenon DEF JoinEvent
<1>9. /\ \A o \in observed : o \in c.left /\ o.seq = c.at
      /\ \A r \in predicted : r \in c.unused /\ r.run = c.run /\ r.seq = c.at /\ r.ts = event.ts
      /\ event = Events[c.run][c.at]
  BY <1>2
<1> HIDE DEF event, observed, predicted
<1>10. CASE Refuse
  BY <1>1, <1>10, MovesOn DEF Refuse
<1>11. CASE call' = [call EXCEPT !.at = @ + 1] /\ UNCHANGED <<cache, comparisons>>
  <2>1. PICK n : n = call'
    OBVIOUS
  <2>2. /\ DOMAIN n = DOMAIN c /\ n.phase = c.phase /\ n.manifest = c.manifest /\ n.todo = c.todo
        /\ n.unused = c.unused /\ n.sum = c.sum /\ n.altered = c.altered /\ n.run = c.run
        /\ n.left = c.left /\ n.retained = c.retained /\ n.positive = c.positive
    BY <1>2, <1>7, <1>11, <2>1 DEF JoinFields, CallFields
  <2>3. Running(n, f, rows, sh)
    BY <1>6, <2>2, RunningReads
  <2>4. Running(call', frozen, table[call'.manifest], shard')
    BY <1>1, <1>3, <1>4, <1>5, <2>1, <2>2, <2>3
  <2> QED BY <1>1, <1>11, <2>4, MovesOn
<1>12. ASSUME NEW o \in observed, event.ts = o.ts,
              NEW s \in predicted, s.label = o.label, RowAccepted(s, o.source, call.sum.campaigns),
              NEW r \in predicted, UNCHANGED <<cache, comparisons>>,
              call' = [call EXCEPT !.at = @ + 1, !.left = @ \ {o},
                                   !.unused = @ \ {r}, !.retained = @ \cup {event.tick},
                                   !.positive = @ \/ o.label = 1,
                                   !.sum = Counted(@, r, event.tick \in frozen.alerts[call.run])]
       PROVE  ComparisonInv'
  <2>0. /\ o \in c.left /\ o.seq = c.at /\ RowAccepted(s, o.source, c.sum.campaigns)
        /\ call' = [c EXCEPT !.at = @ + 1, !.left = @ \ {o},
                             !.unused = @ \ {r}, !.retained = @ \cup {event.tick},
                             !.positive = @ \/ o.label = 1,
                             !.sum = Counted(@, r, event.tick \in f.alerts[c.run])]
    BY <1>2, <1>3, <1>9, <1>12
  <2>1. PICK n : n = call'
    OBVIOUS
  <2>2. r = s
    <3>1. r \in rows /\ s \in rows /\ <<r.run, r.seq, r.ts>> = <<s.run, s.seq, s.ts>>
      BY <1>6, <1>9, <1>12 DEF Running, Counting
    <3> QED BY <1>6, <3>1 DEF Running, UniquePredictions
  <2>3. /\ r \in c.unused /\ r.run = c.run /\ r.seq = o.seq /\ r.ts = o.ts /\ r.label = o.label
        /\ TickOf(r) = event.tick
    BY <1>9, <1>12, <2>0, <2>2 DEF TickOf
  <2>4. r.alert \in BOOLEAN
    <3>1. r.alert = (r.score >= Threshold)
      BY <2>0, <2>2 DEF RowAccepted
    <3>2. (r.score >= Threshold) \in BOOLEAN
      OBVIOUS
    <3> QED BY <3>1, <3>2, Zenon
  <2>5. r.label = 1 => /\ CampaignOf[r.run] # NoCampaign
                       /\ \A x \in c.sum.campaigns : x.campaign = CampaignOf[r.run] => x.run = r.run
    BY <2>0, <2>2 DEF RowAccepted
  <2>6. PICK rules \in BOOLEAN : rules = (event.tick \in f.alerts[c.run])
    <3>1. (event.tick \in f.alerts[c.run]) \in BOOLEAN
      OBVIOUS
    <3> QED BY <3>1
  <2>7. rules <=> TickOf(r) \in f.alerts[r.run]
    BY <2>3, <2>6
  <2>8. /\ DOMAIN n = DOMAIN c /\ n.phase = c.phase /\ n.manifest = c.manifest /\ n.todo = c.todo
        /\ n.altered = c.altered /\ n.run = c.run
        /\ n.unused = c.unused \ {r} /\ n.left = c.left \ {o}
        /\ n.retained = c.retained \cup {event.tick}
    BY <1>7, <2>0, <2>1 DEF JoinFields, CallFields
  <2>9. n.sum = Counted(c.sum, r, rules) /\ n.retained = c.retained \cup {TickOf(r)}
    BY <1>7, <2>0, <2>1, <2>3, <2>6, <2>8 DEF JoinFields, CallFields
  <2>10. n.positive = (c.positive \/ o.label = 1)
    BY <1>7, <2>0, <2>1 DEF JoinFields, CallFields
  <2>11. Running(n, f, rows, sh)
    BY <1>6, <2>0, <2>3, <2>4, <2>5, <2>7, <2>8, <2>9, <2>10, RunningJoins
  <2>12. Running(call', frozen, table[call'.manifest], shard')
    BY <1>1, <1>3, <1>4, <1>5, <2>1, <2>8, <2>11
  <2> QED BY <1>1, <1>12, <2>12, MovesOn
<1> QED BY <1>8, <1>10, <1>11, <1>12

LEMMA ShardCloses ==
  ASSUME ComparisonInv, CloseShard
  PROVE  ComparisonInv'
<1>1. call.phase = "join" /\ UNCHANGED <<frozen, table, shard>>
  BY DEF CloseShard
<1>2. PICK c : c = call
  OBVIOUS
<1>3. PICK f \in Profiles : f = frozen
  BY DEF ComparisonInv
<1>4. PICK sh : sh = shard
  OBVIOUS
<1>5. PICK rows : rows = table[c.manifest]
  OBVIOUS
<1>6. Running(c, f, rows, sh) /\ c.phase = "join"
  BY <1>1, <1>2, <1>3, <1>4, <1>5 DEF ComparisonInv, NoCall
<1>7. CASE Refuse
  BY <1>1, <1>7, MovesOn DEF Refuse
<1>8. CASE /\ c.left = {} /\ UNCHANGED <<cache, comparisons>>
           /\ call' = [phase |-> "open", reuse |-> c.reuse, manifest |-> c.manifest,
                       todo |-> c.todo \ {c.run}, unused |-> c.unused, altered |-> c.altered,
                       sum |-> [c.sum EXCEPT
                                  !.outside = @ + Cardinality(f.alerts[c.run] \ c.retained),
                                  !.silent = @ \cup IF CampaignOf[c.run] # NoCampaign /\ ~c.positive
                                                    THEN {CampaignOf[c.run]} ELSE {}]]
  <2>1. PICK n : n = call'
    OBVIOUS
  <2>2. n = [phase |-> "open", reuse |-> c.reuse, manifest |-> c.manifest,
             todo |-> c.todo \ {c.run}, unused |-> c.unused, altered |-> c.altered,
             sum |-> [c.sum EXCEPT
                        !.outside = @ + Cardinality(f.alerts[c.run] \ c.retained),
                        !.silent = @ \cup IF CampaignOf[c.run] # NoCampaign /\ ~c.positive
                                          THEN {CampaignOf[c.run]} ELSE {}]]
    BY <1>8, <2>1
  <2>3. Running(n, f, rows, sh) /\ n.manifest = c.manifest
    BY <1>6, <1>8, <2>2, RunningCloses
  <2>4. Running(call', frozen, table[call'.manifest], shard')
    BY <1>1, <1>3, <1>4, <1>5, <2>1, <2>3
  <2> QED BY <1>1, <1>8, <2>4, MovesOn
<1> QED BY <1>2, <1>3, <1>7, <1>8 DEF CloseShard

LEMMA ComparisonEnds ==
  ASSUME ComparisonInv, EndComparison
  PROVE  ComparisonInv'
<1>1. call.phase = "open" /\ call.todo = {} /\ UNCHANGED <<frozen, table, shard>>
  BY DEF EndComparison
<1>2. CASE Refuse
  BY <1>1, <1>2, MovesOn DEF Refuse
<1>3. CASE /\ call.unused = {} /\ call' = NoCall
           /\ comparisons' = comparisons \cup {[manifest |-> call.manifest, result |-> call.sum, altered |-> call.altered]}
           /\ cache' = IF call.reuse THEN <<Key(call.manifest), call.sum, call.altered>> ELSE cache
  <2>1. Running(call, frozen, table[call.manifest], shard)
    BY <1>1 DEF ComparisonInv, NoCall
  <2>2. SumIsExact(frozen, table, call.manifest, call.sum, call.altered)
    BY <1>1, <1>3, <2>1, RunningEnds
  <2>3. call.manifest \in Manifests
    BY <2>1 DEF Running
  <2>4. \A a \in comparisons' : SumIsExact(frozen, table, a.manifest, a.result, a.altered)
    BY <1>3, <2>2 DEF ComparisonInv
  <2>5. cache' = <<>> \/ \E m \in Manifests :
                          cache'[1] = Key(m) /\ SumIsExact(frozen, table, m, cache'[2], cache'[3])
    <3>1. CASE call.reuse
      <4>1. cache' = <<Key(call.manifest), call.sum, call.altered>>
        BY <1>3, <3>1
      <4>2. /\ cache'[1] = Key(call.manifest) /\ cache'[2] = call.sum /\ cache'[3] = call.altered
        BY <4>1
      <4> QED BY <2>2, <2>3, <4>2
    <3>2. CASE ~call.reuse
      BY <1>3, <3>2 DEF ComparisonInv
    <3> QED BY <3>1, <3>2
  <2> QED BY <1>1, <1>3, <2>4, <2>5 DEF ComparisonInv
<1> QED BY <1>2, <1>3 DEF EndComparison

LEMMA ShardIsOverwritten ==
  ASSUME ComparisonInv, NEW d \in Replays, ShardChanges(d)
  PROVE  ComparisonInv'
<1>1. UNCHANGED <<frozen, table, cache, comparisons>>
  BY DEF ShardChanges
<1>2. CASE call = NoCall
  BY <1>1, <1>2, MovesOn DEF ShardChanges
<1>3. CASE call # NoCall
  <2>1. PICK c : c = call
    OBVIOUS
  <2>2. PICK n : n = call'
    OBVIOUS
  <2>3. PICK f : f = frozen
    OBVIOUS
  <2>4. PICK sh : sh = shard
    OBVIOUS
  <2>5. PICK other : other = shard'
    OBVIOUS
  <2>6. PICK rows : rows = table[c.manifest]
    OBVIOUS
  <2>7. Running(c, f, rows, sh)
    BY <1>3, <2>1, <2>3, <2>4, <2>6 DEF ComparisonInv
  <2>8. n = [c EXCEPT !.altered = TRUE]
    BY <1>3, <2>1, <2>2 DEF ShardChanges
  <2>9. /\ DOMAIN n = DOMAIN c /\ n.altered = TRUE
        /\ \A x \in DOMAIN c : x # "altered" => n[x] = c[x]
    BY <2>7, <2>8 DEF Running, CallFields
  <2>10. Running(n, f, rows, other) /\ n.manifest = c.manifest
    BY <2>7, <2>9, RunningAltered
  <2>11. Running(call', frozen, table[call'.manifest], shard')
    BY <1>1, <2>2, <2>3, <2>5, <2>6, <2>10
  <2> QED BY <1>1, <2>11, MovesOn
<1> QED BY <1>2, <1>3

LEMMA ComparisonStep ==
  ASSUME ComparisonInv, [C4Next]_c4Vars
  PROVE  ComparisonInv'
<1>1. CASE UNCHANGED c4Vars
  BY <1>1 DEF c4Vars, ComparisonInv
<1> QED
  BY <1>1, ComparisonStarts, ShardIsOverwritten, ShardOpens, EventJoins, ShardCloses,
     ComparisonEnds DEF C4Next

LEMMA ComparisonInit ==
  ASSUME C4Init
  PROVE  ComparisonInv
BY DEF C4Init, ComparisonInv

LEMMA ExactFollows ==
  ASSUME ComparisonInv
  PROVE  ComparisonIsExact
<1> SUFFICES ASSUME NEW a \in comparisons
             PROVE  /\ a.result = Expected(table[a.manifest])
                    /\ a.altered \/ Paired(table[a.manifest])
  BY DEF ComparisonIsExact
<1>1. SumIsExact(frozen, table, a.manifest, a.result, a.altered)
  BY DEF ComparisonInv
<1>2. PICK rows : rows = table[a.manifest]
  OBVIOUS
<1>3. Expected(rows) = SumOfRows(frozen, rows, Replays)
  BY ExpectedIsSum
<1>4. a.result = Expected(table[a.manifest])
  BY <1>1, <1>2, <1>3 DEF SumIsExact
<1>5. (\A d \in Replays : PairedIn(frozen, rows, d)) => Paired(rows)
  <2> SUFFICES ASSUME \A d \in Replays : PairedIn(frozen, rows, d)
               PROVE  Paired(rows)
    OBVIOUS
  <2>1. ASSUME NEW d \in Replays
        PROVE  /\ Cardinality({r \in rows : r.run = d}) = Cardinality(frozen.rows[d])
               /\ \A o \in frozen.rows[d] :
                    Cardinality({r \in rows : r.run = d /\ r.seq = o.seq /\ r.ts = o.ts
                                              /\ r.label = o.label}) = 1
    BY DEF PairedIn, RowsOfRun, OwnRows
  <2> QED BY <2>1 DEF Paired
<1> QED BY <1>1, <1>2, <1>4, <1>5 DEF SumIsExact

\* What is under way counts what it has consumed, and what is kept and what was
\* returned is the whole sum (evaluate_c4_release, c4_replay_evidence.py).
THEOREM ComparisonInvariant == C4Spec => []ComparisonInv
BY ComparisonInit, ComparisonStep, PTL DEF C4Spec

\* What evaluate_c4_release returns counts each prediction once, as the
\* definition counts it, for every corpus, every set of predictions and every
\* rewriting of the shards between its verification and its reading of them.
THEOREM ComparisonExact == C4Spec => []ComparisonIsExact
BY ComparisonInvariant, ExactFollows, PTL
================================================================================
