------------------------------- MODULE SumProofs -------------------------------
(***************************************************************************)
(* Sums over finite sets: what SumFunctionOnSet of the community modules   *)
(* adds up to, whatever the order in which its fold takes the elements.    *)
(***************************************************************************)
EXTENDS Integers, FiniteSets, Functions, FiniteSetTheorems, WellFoundedInduction, TLAPS

\* The element that the fold takes first, and the sum as it unfolds it: total
\* is the fold, on the subsets of the set summed over.
First(s) == CHOOSE x \in s : TRUE
Unfolded(f, total, s) == IF s = {} THEN 0 ELSE f[First(s)] + total[s \ {First(s)}]

IsFold(f, total, S) == total = [s \in SUBSET S |-> Unfolded(f, total, s)]

LEMMA FirstIsIn == ASSUME NEW s, s # {} PROVE First(s) \in s
  BY DEF First

-----------------------------------------------------------------------------
(* Induction, by way of the least counterexample *)

LEMMA Least ==
  ASSUME NEW N \in SUBSET Nat, N # {}
  PROVE  \E n \in N : \A m \in N : n <= m
<1> DEFINE R == OpToRel(<, Nat)
<1>1. PICK n \in N : \A m \in N : ~(<<m, n>> \in R)
  <2>1. IsWellFoundedOn(R, Nat)
    BY NatLessThanWellFounded
  <2> HIDE DEF R
  <2> QED BY <2>1, WFMin
<1>2. ASSUME NEW m \in N PROVE n <= m
  <2>1. m \in Nat /\ n \in Nat /\ ~(m < n)
    BY <1>1 DEF OpToRel
  <2> QED BY <2>1
<1> QED BY <1>2

LEMMA NatSetInduction ==
  ASSUME NEW G, 0 \in G, \A n \in Nat : n \in G => n + 1 \in G
  PROVE  Nat \subseteq G
<1> SUFFICES ASSUME Nat \ G # {} PROVE FALSE
  OBVIOUS
<1>1. PICK n \in Nat \ G : \A m \in Nat \ G : n <= m
  BY Least
<1>2. n # 0 /\ n - 1 \in Nat
  BY <1>1
<1>3. n - 1 \in G
  BY <1>1, <1>2
<1>4. (n - 1) + 1 = n
  BY <1>1
<1> QED BY <1>1, <1>2, <1>3, <1>4

\* A set of subsets that holds each subset whose smaller ones it holds.
LEMMA SubsetInduction ==
  ASSUME NEW S, IsFiniteSet(S), NEW G,
         \A t \in SUBSET S : (\A x \in t : t \ {x} \in G) => t \in G
  PROVE  SUBSET S \subseteq G
<1> DEFINE N == {n \in Nat : \E t \in SUBSET S : Cardinality(t) = n /\ t \notin G}
<1>1. \A t \in SUBSET S : IsFiniteSet(t) /\ Cardinality(t) \in Nat
  BY FS_Subset, FS_CardinalityType
<1> SUFFICES ASSUME NEW t \in SUBSET S, t \notin G PROVE FALSE
  OBVIOUS
<1>2. N # {} /\ N \subseteq Nat
  BY <1>1
<1>3. PICK n \in N : \A m \in N : n <= m
  <2> HIDE DEF N
  <2> QED BY <1>2, Least
<1>4. PICK u \in SUBSET S : Cardinality(u) = n /\ u \notin G
  BY <1>3
<1>5. PICK x \in u : u \ {x} \notin G
  BY <1>4
<1>6. u \ {x} \in SUBSET S /\ Cardinality(u \ {x}) = n - 1
  BY <1>1, <1>4, FS_RemoveElement
<1>7. n - 1 \in N
  BY <1>1, <1>5, <1>6
<1> QED BY <1>2, <1>3, <1>7

-----------------------------------------------------------------------------
(* The fold *)

\* The function that the fold is defined by exists: it is built on sets of one
\* element more at a time.
LEMMA FoldExists ==
  ASSUME NEW S, IsFiniteSet(S), NEW f
  PROVE  \E total : IsFold(f, total, S)
<1> DEFINE Small(n) == {s \in SUBSET S : Cardinality(s) <= n}
           G == {n \in Nat : \E total : total = [s \in Small(n) |-> Unfolded(f, total, s)]}
<1>1. \A s \in SUBSET S : IsFiniteSet(s) /\ Cardinality(s) \in Nat
  BY FS_Subset, FS_CardinalityType
<1>2. 0 \in G
  <2>1. \A s \in Small(0) : s = {}
    <3> SUFFICES ASSUME NEW s \in Small(0) PROVE s = {}
      OBVIOUS
    <3>1. Cardinality(s) = 0
      BY <1>1
    <3> QED BY <1>1, <3>1, FS_EmptySet
  <2> DEFINE zero == [s \in Small(0) |-> 0]
  <2>2. \A s \in Small(0) : Unfolded(f, zero, s) = 0
    BY <2>1 DEF Unfolded
  <2>3. zero = [s \in Small(0) |-> Unfolded(f, zero, s)]
    <3> HIDE DEF Small
    <3> QED BY <2>2
  <2> HIDE DEF zero
  <2> QED BY <2>3
<1>3. ASSUME NEW n \in Nat, n \in G PROVE n + 1 \in G
  <2>1. PICK g : g = [s \in Small(n) |-> Unfolded(f, g, s)]
    BY <1>3
  <2> DEFINE h == [s \in Small(n + 1) |-> IF s \in Small(n) THEN g[s] ELSE Unfolded(f, g, s)]
  <2>2. ASSUME NEW s \in Small(n + 1), s # {} PROVE s \ {First(s)} \in Small(n)
    <3>1. First(s) \in s
      BY <2>2, FirstIsIn
    <3>2. Cardinality(s \ {First(s)}) = Cardinality(s) - 1
      BY <1>1, <3>1, FS_RemoveElement
    <3> QED BY <1>1, <3>2
  <2>3. Small(n) \subseteq Small(n + 1)
    BY <1>1
  <2> HIDE DEF Small
  <2>4. ASSUME NEW s \in Small(n + 1) PROVE Unfolded(f, h, s) = Unfolded(f, g, s)
    BY <2>2, <2>3 DEF Unfolded
  <2>5. ASSUME NEW s \in Small(n + 1) PROVE h[s] = Unfolded(f, g, s)
    <3>1. s \in Small(n) => g[s] = Unfolded(f, g, s)
      BY <2>1
    <3> QED BY <3>1
  <2>6. h = [s \in Small(n + 1) |-> Unfolded(f, h, s)]
    <3>1. \A s \in Small(n + 1) : h[s] = Unfolded(f, h, s)
      BY <2>4, <2>5
    <3>2. h = [s \in Small(n + 1) |-> h[s]]
      OBVIOUS
    <3> HIDE DEF h
    <3> QED BY <3>1, <3>2
  <2> HIDE DEF h
  <2> QED BY <2>6
<1>4. Cardinality(S) \in G
  <2> HIDE DEF G
  <2>1. Nat \subseteq G
    BY <1>2, <1>3, NatSetInduction
  <2> QED BY <1>1, <2>1
<1>5. Small(Cardinality(S)) = SUBSET S
  <2>1. \A s \in SUBSET S : Cardinality(s) <= Cardinality(S)
    BY FS_Subset
  <2> QED BY <2>1
<1> QED BY <1>4, <1>5 DEF IsFold

\* The fold over S, on all subsets of S.
Total(f, S) == CHOOSE total : IsFold(f, total, S)

LEMMA SumIsTotal == ASSUME NEW f, NEW S PROVE SumFunctionOnSet(f, S) = Total(f, S)[S]
  BY DEF SumFunctionOnSet, FoldFunctionOnSet, MapThenFoldSet, Total, IsFold, Unfolded, First

LEMMA TotalUnfolds ==
  ASSUME NEW S, IsFiniteSet(S), NEW f, NEW s \in SUBSET S
  PROVE  Total(f, S)[s] = Unfolded(f, Total(f, S), s)
<1>1. \E total : IsFold(f, total, S)
  BY FoldExists
<1>2. IsFold(f, Total(f, S), S)
  BY <1>1 DEF Total
<1> HIDE DEF Total
<1> QED BY <1>2 DEF IsFold

\* A subset has the same sum in the fold over the whole set.
LEMMA TotalOfSubset ==
  ASSUME NEW S, IsFiniteSet(S), NEW f, NEW T \in SUBSET S
  PROVE  SumFunctionOnSet(f, T) = Total(f, S)[T]
<1> DEFINE G == {t \in SUBSET T : Total(f, T)[t] = Total(f, S)[t]}
<1>0. IsFiniteSet(T)
  BY FS_Subset
<1>1. ASSUME NEW t \in SUBSET T, \A x \in t : t \ {x} \in G PROVE t \in G
  <2>1. /\ Total(f, T)[t] = Unfolded(f, Total(f, T), t)
        /\ Total(f, S)[t] = Unfolded(f, Total(f, S), t)
    BY <1>0, TotalUnfolds
  <2>2. t # {} => First(t) \in t
    BY FirstIsIn
  <2>3. Unfolded(f, Total(f, T), t) = Unfolded(f, Total(f, S), t)
    BY <1>1, <2>2 DEF Unfolded
  <2> QED BY <2>1, <2>3
<1>2. SUBSET T \subseteq G
  <2> HIDE DEF G
  <2> QED BY <1>0, <1>1, SubsetInduction
<1> QED BY <1>2, SumIsTotal

LEMMA SumUnfolds ==
  ASSUME NEW S, IsFiniteSet(S), NEW f
  PROVE  SumFunctionOnSet(f, S) =
           IF S = {} THEN 0 ELSE f[First(S)] + SumFunctionOnSet(f, S \ {First(S)})
<1>1. SumFunctionOnSet(f, S) = Unfolded(f, Total(f, S), S)
  BY SumIsTotal, TotalUnfolds
<1>2. SumFunctionOnSet(f, S \ {First(S)}) = Total(f, S)[S \ {First(S)}]
  BY TotalOfSubset
<1> QED BY <1>1, <1>2 DEF Unfolded

-----------------------------------------------------------------------------
(* What the sums are *)

LEMMA SumOfNothing == ASSUME NEW f PROVE SumFunctionOnSet(f, {}) = 0
  BY SumUnfolds, FS_EmptySet

LEMMA SumType ==
  ASSUME NEW S, IsFiniteSet(S), NEW f, NEW V, V \in {Nat, Int}, \A x \in S : f[x] \in V
  PROVE  SumFunctionOnSet(f, S) \in V
<1> DEFINE G == {t \in SUBSET S : SumFunctionOnSet(f, t) \in V}
<1>1. ASSUME NEW t \in SUBSET S, \A x \in t : t \ {x} \in G PROVE t \in G
  <2>1. IsFiniteSet(t)
    BY FS_Subset
  <2>2. CASE t = {}
    BY <2>2, SumOfNothing
  <2>3. CASE t # {}
    <3>1. First(t) \in t
      BY <2>3, FirstIsIn
    <3>2. f[First(t)] \in V /\ SumFunctionOnSet(f, t \ {First(t)}) \in V
      BY <1>1, <3>1
    <3>3. SumFunctionOnSet(f, t) = f[First(t)] + SumFunctionOnSet(f, t \ {First(t)})
      BY <2>1, <2>3, SumUnfolds
    <3> QED BY <3>2, <3>3
  <2> QED BY <2>2, <2>3
<1>2. SUBSET S \subseteq G
  <2> HIDE DEF G
  <2> QED BY <1>1, SubsetInduction
<1> QED BY <1>2

\* Whichever element is taken out, the sum is its value and that of the rest.
LEMMA SumWithout ==
  ASSUME NEW S, IsFiniteSet(S), NEW f, \A x \in S : f[x] \in Int, NEW x \in S
  PROVE  SumFunctionOnSet(f, S) = f[x] + SumFunctionOnSet(f, S \ {x})
<1> DEFINE G == {t \in SUBSET S :
                   \A y \in t : SumFunctionOnSet(f, t) = f[y] + SumFunctionOnSet(f, t \ {y})}
<1>1. ASSUME NEW t \in SUBSET S, \A y \in t : t \ {y} \in G PROVE t \in G
  <2> SUFFICES ASSUME NEW y \in t
               PROVE  SumFunctionOnSet(f, t) = f[y] + SumFunctionOnSet(f, t \ {y})
    OBVIOUS
  <2> DEFINE c == First(t)
             rest == (t \ {c}) \ {y}
  <2>1. IsFiniteSet(t) /\ IsFiniteSet(t \ {y}) /\ IsFiniteSet(t \ {c}) /\ IsFiniteSet(rest)
    BY FS_Subset
  <2>2. c \in t
    BY FirstIsIn
  <2>3. SumFunctionOnSet(f, t) = f[c] + SumFunctionOnSet(f, t \ {c})
    BY <2>1, <2>2, SumUnfolds
  <2>4. CASE c = y
    BY <2>3, <2>4
  <2>5. CASE c # y
    <3>1. SumFunctionOnSet(f, t \ {c}) = f[y] + SumFunctionOnSet(f, rest)
      BY <1>1, <2>2, <2>5
    <3>2. SumFunctionOnSet(f, t \ {y}) = f[c] + SumFunctionOnSet(f, rest)
      <4>1. (t \ {y}) \ {c} = rest
        OBVIOUS
      <4>2. SumFunctionOnSet(f, t \ {y}) = f[c] + SumFunctionOnSet(f, (t \ {y}) \ {c})
        BY <1>1, <2>2, <2>5
      <4> QED BY <4>1, <4>2
    <3>3. SumFunctionOnSet(f, rest) \in Int
      <4>1. \A z \in rest : f[z] \in Int
        OBVIOUS
      <4> HIDE DEF rest
      <4> QED BY <2>1, <4>1, SumType
    <3>4. f[c] \in Int /\ f[y] \in Int
      BY <2>2
    <3> DEFINE all == SumFunctionOnSet(f, t)
               butC == SumFunctionOnSet(f, t \ {c})
               butY == SumFunctionOnSet(f, t \ {y})
               others == SumFunctionOnSet(f, rest)
               fc == f[c]
               fy == f[y]
    <3>5. /\ others \in Int /\ fc \in Int /\ fy \in Int
          /\ all = fc + butC /\ butC = fy + others /\ butY = fc + others
      BY <2>3, <3>1, <3>2, <3>3, <3>4
    <3>6. all = fy + butY
      <4> HIDE DEF all, butC, butY, others, fc, fy
      <4> QED BY <3>5
    <3> QED BY <3>6
  <2> QED BY <2>4, <2>5
<1>2. SUBSET S \subseteq G
  <2> HIDE DEF G
  <2> QED BY <1>1, SubsetInduction
<1> QED BY <1>2

\* ... and the same of an element that joins.
LEMMA SumWith ==
  ASSUME NEW S, IsFiniteSet(S), NEW f, NEW x, x \notin S, \A y \in S \cup {x} : f[y] \in Int
  PROVE  SumFunctionOnSet(f, S \cup {x}) = SumFunctionOnSet(f, S) + f[x]
<1>1. IsFiniteSet(S \cup {x}) /\ (S \cup {x}) \ {x} = S
  BY FS_AddElement
<1>2. SumFunctionOnSet(f, S) \in Int
  BY SumType
<1>3. SumFunctionOnSet(f, S \cup {x}) = f[x] + SumFunctionOnSet(f, (S \cup {x}) \ {x})
  BY <1>1, SumWithout
<1>4. f[x] \in Int
  OBVIOUS
<1>5. SumFunctionOnSet(f, S \cup {x}) = f[x] + SumFunctionOnSet(f, S)
  BY <1>1, <1>3
<1> QED BY <1>2, <1>4, <1>5

\* Sums compare as their terms do.
LEMMA SumAtMost ==
  ASSUME NEW S, IsFiniteSet(S), NEW f, NEW g,
         \A x \in S : f[x] \in Int /\ g[x] \in Int /\ f[x] <= g[x]
  PROVE  SumFunctionOnSet(f, S) <= SumFunctionOnSet(g, S)
<1> DEFINE G == {t \in SUBSET S : SumFunctionOnSet(f, t) <= SumFunctionOnSet(g, t)}
<1>1. ASSUME NEW t \in SUBSET S, \A x \in t : t \ {x} \in G PROVE t \in G
  <2>1. IsFiniteSet(t)
    BY FS_Subset
  <2>2. CASE t = {}
    BY <2>2, SumOfNothing
  <2>3. CASE t # {}
    <3>1. PICK x \in t : TRUE
      BY <2>3
    <3> DEFINE r == t \ {x}
    <3>2. IsFiniteSet(r) /\ SumFunctionOnSet(f, r) <= SumFunctionOnSet(g, r)
      BY <1>1, <2>1, FS_Subset
    <3>3. SumFunctionOnSet(f, r) \in Int /\ SumFunctionOnSet(g, r) \in Int
      <4>1. \A y \in r : f[y] \in Int /\ g[y] \in Int
        OBVIOUS
      <4> HIDE DEF r
      <4> QED BY <3>2, <4>1, SumType
    <3>4. /\ SumFunctionOnSet(f, t) = f[x] + SumFunctionOnSet(f, r)
          /\ SumFunctionOnSet(g, t) = g[x] + SumFunctionOnSet(g, r)
      <4>1. \A y \in t : f[y] \in Int /\ g[y] \in Int
        OBVIOUS
      <4> QED BY <2>1, <4>1, SumWithout
    <3>5. f[x] \in Int /\ g[x] \in Int /\ f[x] <= g[x]
      OBVIOUS
    <3> HIDE DEF r
    <3>6. SumFunctionOnSet(f, t) <= SumFunctionOnSet(g, t)
      BY <3>2, <3>3, <3>4, <3>5
    <3> QED BY <3>6
  <2> QED BY <2>2, <2>3
<1>2. SUBSET S \subseteq G
  <2> HIDE DEF G
  <2> QED BY <1>1, SubsetInduction
<1> QED BY <1>2

\* A sum depends on the terms it adds up and on no others.
LEMMA SumAgrees ==
  ASSUME NEW S, IsFiniteSet(S), NEW f, NEW g, \A x \in S : f[x] = g[x]
  PROVE  SumFunctionOnSet(f, S) = SumFunctionOnSet(g, S)
<1> DEFINE G == {t \in SUBSET S : SumFunctionOnSet(f, t) = SumFunctionOnSet(g, t)}
<1>1. ASSUME NEW t \in SUBSET S, \A x \in t : t \ {x} \in G PROVE t \in G
  <2>1. IsFiniteSet(t)
    BY FS_Subset
  <2>2. t # {} => First(t) \in t
    BY FirstIsIn
  <2> QED BY <1>1, <2>1, <2>2, SumUnfolds
<1>2. SUBSET S \subseteq G
  <2> HIDE DEF G
  <2> QED BY <1>1, SubsetInduction
<1> QED BY <1>2

\* Two sets without a common element.
LEMMA SumOfUnion ==
  ASSUME NEW S, IsFiniteSet(S), NEW T, IsFiniteSet(T), S \cap T = {},
         NEW f, \A x \in S \cup T : f[x] \in Int
  PROVE  SumFunctionOnSet(f, S \cup T) = SumFunctionOnSet(f, S) + SumFunctionOnSet(f, T)
<1> DEFINE G == {t \in SUBSET T :
                   SumFunctionOnSet(f, S \cup t) = SumFunctionOnSet(f, S) + SumFunctionOnSet(f, t)}
<1>0. SumFunctionOnSet(f, S) \in Int
  BY SumType
<1>1. ASSUME NEW t \in SUBSET T, \A x \in t : t \ {x} \in G PROVE t \in G
  <2>1. IsFiniteSet(t) /\ IsFiniteSet(S \cup t)
    BY FS_Subset, FS_Union
  <2>2. CASE t = {}
    <3>1. S \cup t = S
      BY <2>2
    <3> QED BY <1>0, <2>2, <3>1, SumOfNothing
  <2>3. CASE t # {}
    <3>1. PICK x \in t : TRUE
      BY <2>3
    <3> DEFINE r == t \ {x}
    <3>2. /\ IsFiniteSet(r)
          /\ SumFunctionOnSet(f, S \cup r) = SumFunctionOnSet(f, S) + SumFunctionOnSet(f, r)
      BY <1>1, <2>1, FS_Subset
    <3>3. SumFunctionOnSet(f, r) \in Int
      <4>1. \A y \in r : f[y] \in Int
        OBVIOUS
      <4> HIDE DEF r
      <4> QED BY <3>2, <4>1, SumType
    <3>4. (S \cup t) \ {x} = S \cup r
      OBVIOUS
    <3>5. /\ SumFunctionOnSet(f, t) = f[x] + SumFunctionOnSet(f, r)
          /\ SumFunctionOnSet(f, S \cup t) = f[x] + SumFunctionOnSet(f, (S \cup t) \ {x})
      <4>1. \A y \in S \cup t : f[y] \in Int
        OBVIOUS
      <4> QED BY <2>1, <4>1, SumWithout
    <3>6. f[x] \in Int
      OBVIOUS
    <3> DEFINE ofS == SumFunctionOnSet(f, S)
               ofR == SumFunctionOnSet(f, r)
               both == SumFunctionOnSet(f, S \cup r)
               ofT == SumFunctionOnSet(f, t)
               all == SumFunctionOnSet(f, S \cup t)
               fx == f[x]
    <3>7. /\ ofS \in Int /\ ofR \in Int /\ fx \in Int
          /\ both = ofS + ofR /\ ofT = fx + ofR /\ all = fx + both
      <4>1. all = fx + SumFunctionOnSet(f, (S \cup t) \ {x})
        BY <3>5
      <4>2. all = fx + both
        BY <3>4, <4>1
      <4> HIDE DEF r
      <4> QED BY <1>0, <3>2, <3>3, <3>5, <3>6, <4>2
    <3>8. all = ofS + ofT
      <4> HIDE DEF ofS, ofR, both, ofT, all, fx
      <4> QED BY <3>7
    <3> QED BY <3>8
  <2> QED BY <2>2, <2>3
<1>2. SUBSET T \subseteq G
  <2> HIDE DEF G
  <2> QED BY <1>1, SubsetInduction
<1> QED BY <1>2

LEMMA SumOfSubset ==
  ASSUME NEW S, IsFiniteSet(S), NEW f, \A x \in S : f[x] \in Nat, NEW T \in SUBSET S
  PROVE  SumFunctionOnSet(f, T) <= SumFunctionOnSet(f, S)
<1>1. IsFiniteSet(T) /\ IsFiniteSet(S \ T)
  BY FS_Subset
<1>2. S = T \cup (S \ T) /\ T \cap (S \ T) = {}
  OBVIOUS
<1>3. SumFunctionOnSet(f, T) \in Nat /\ SumFunctionOnSet(f, S \ T) \in Nat
  BY <1>1, SumType
<1>4. SumFunctionOnSet(f, T \cup (S \ T)) = SumFunctionOnSet(f, T) + SumFunctionOnSet(f, S \ T)
  BY <1>1, <1>2, SumOfUnion
<1> DEFINE part == SumFunctionOnSet(f, T)
           other == SumFunctionOnSet(f, S \ T)
           all == SumFunctionOnSet(f, S)
<1>5. part \in Nat /\ other \in Nat /\ all = part + other
  BY <1>2, <1>3, <1>4
<1>6. part <= all
  <2> HIDE DEF part, other, all
  <2> QED BY <1>5
<1> QED BY <1>6

\* Terms that are nothing.
LEMMA SumOfZeros ==
  ASSUME NEW S, IsFiniteSet(S), NEW f, \A x \in S : f[x] = 0
  PROVE  SumFunctionOnSet(f, S) = 0
<1> DEFINE G == {t \in SUBSET S : SumFunctionOnSet(f, t) = 0}
<1>1. ASSUME NEW t \in SUBSET S, \A x \in t : t \ {x} \in G PROVE t \in G
  <2>1. IsFiniteSet(t)
    BY FS_Subset
  <2>2. t # {} => f[First(t)] = 0 /\ SumFunctionOnSet(f, t \ {First(t)}) = 0
    BY <1>1, FirstIsIn
  <2>3. SumFunctionOnSet(f, t) = 0
    <3>1. t # {} => SumFunctionOnSet(f, t) = f[First(t)] + SumFunctionOnSet(f, t \ {First(t)})
      BY <2>1, SumUnfolds
    <3>2. t = {} => SumFunctionOnSet(f, t) = 0
      BY SumOfNothing
    <3> QED BY <2>2, <3>1, <3>2
  <2> QED BY <2>3
<1>2. SUBSET S \subseteq G
  <2> HIDE DEF G
  <2> QED BY <1>1, SubsetInduction
<1> QED BY <1>2

================================================================================
