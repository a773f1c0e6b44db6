---------------------------- MODULE FairshareProofs ----------------------------
(***************************************************************************)
(* Theorems of Fairshare: what the walk of the fair-share calculation, and *)
(* that of its emulator, rank on any tree of banks and associations; that  *)
(* every run of the script ranks so, whatever happens to the tables; and   *)
(* what becomes of an association that has used less.                      *)
(*                                                                         *)
(* Standing is defined without a walk.  What stands between the two is a   *)
(* list of associations that is Orderly: none is before one that is ahead  *)
(* of it.                                                                  *)
(***************************************************************************)
EXTENDS Fairshare, SumProofs, SequenceTheorems

---------------------------------------------------------------------------
(* Weights: fractions that cross products compare *)

IsWeight(v) == v \in Nat \X Nat /\ (v[1] # 0 \/ v[2] # 0)

LEMMA ProductMonotone ==
  ASSUME NEW x \in Nat, NEW y \in Nat, NEW k \in Nat, x <= y
  PROVE  x * k <= y * k
<1>1. y * k = x * k + (y - x) * k
  OBVIOUS
<1>2. (y - x) * k \in Nat /\ x * k \in Nat
  <2>1. y - x \in Nat
    OBVIOUS
  <2> QED BY <2>1
<1> QED BY <1>1, <1>2

LEMMA ProductCancels ==
  ASSUME NEW x \in Nat, NEW y \in Nat, NEW k \in Nat \ {0}, x * k <= y * k
  PROVE  x <= y
<1> SUFFICES ASSUME y < x PROVE FALSE
  OBVIOUS
<1>1. (y + 1) * k <= x * k
  BY ProductMonotone
<1>2. (y + 1) * k = y * k + k
  OBVIOUS
<1> QED BY <1>1, <1>2

LEMMA NotExceededTransitive ==
  ASSUME NEW u, NEW v, NEW w, IsWeight(u), IsWeight(v), IsWeight(w),
         ~Exceeds(v, u), ~Exceeds(w, v)
  PROVE  ~Exceeds(w, u)
<1> DEFINE u1 == u[1]  u2 == u[2]  v1 == v[1]  v2 == v[2]  w1 == w[1]  w2 == w[2]
<1>1. /\ u1 \in Nat /\ u2 \in Nat /\ v1 \in Nat /\ v2 \in Nat /\ w1 \in Nat /\ w2 \in Nat
      /\ v1 # 0 \/ v2 # 0
      /\ v1 * u2 <= u1 * v2
      /\ w1 * v2 <= v1 * w2
  BY DEF IsWeight, Exceeds
<1> SUFFICES w1 * u2 <= u1 * w2
  BY <1>1 DEF Exceeds
<1> HIDE DEF u1, u2, v1, v2, w1, w2
<1>2. CASE v2 # 0
  <2>1. (v1 * u2) * w2 <= (u1 * v2) * w2
    BY <1>1, ProductMonotone
  <2>2. (w1 * v2) * u2 <= (v1 * w2) * u2
    BY <1>1, ProductMonotone
  <2>3. (v1 * w2) * u2 = (v1 * u2) * w2 /\ (w1 * v2) * u2 = (w1 * u2) * v2
        /\ (u1 * v2) * w2 = (u1 * w2) * v2
    BY <1>1
  <2>4. (w1 * u2) * v2 <= (u1 * w2) * v2
    <3>1. (w1 * u2) * v2 \in Nat /\ (v1 * u2) * w2 \in Nat /\ (u1 * w2) * v2 \in Nat
      BY <1>1
    <3> HIDE DEF u1, u2
    <3> QED BY <2>1, <2>2, <2>3, <3>1
  <2>5. w1 * u2 \in Nat /\ u1 * w2 \in Nat /\ v2 \in Nat \ {0}
    BY <1>1, <1>2
  <2> QED BY <2>4, <2>5, ProductCancels
<1>3. CASE v2 = 0
  <2>1. v1 * u2 <= 0
    BY <1>1, <1>3
  <2>2. u2 = 0
    <3> SUFFICES ASSUME u2 # 0 PROVE FALSE
      OBVIOUS
    <3>1. 1 * u2 <= v1 * u2
      BY <1>1, <1>3, ProductMonotone
    <3> QED BY <1>1, <2>1, <3>1
  <2> QED BY <1>1, <2>2
<1> QED BY <1>2, <1>3

LEMMA WeightsCompare ==
  ASSUME NEW v, NEW w, IsWeight(v), IsWeight(w)
  PROVE  /\ Ties(v, w) <=> ~Exceeds(v, w) /\ ~Exceeds(w, v)
         /\ ~(Exceeds(v, w) /\ Exceeds(w, v))
<1>1. v[1] * w[2] \in Nat /\ w[1] * v[2] \in Nat
  BY DEF IsWeight
<1> QED BY <1>1 DEF Ties, Exceeds

---------------------------------------------------------------------------
(* The tree of the banks *)

Inner == Nodes \ {Root}

LEMMA TreeFacts ==
  /\ Inner = (Banks \ {Root}) \cup Assocs /\ Root \in Nodes /\ ~IsUser(Root)
  /\ \A n \in Nodes : ~IsUser(n) <=> n \in Banks
  /\ \A n \in Inner : ParentOf(n) \in Banks /\ ParentOf(n) \in Nodes
  /\ IsFiniteSet(Nodes) /\ IsFiniteSet(Inner)
<1>1. Inner = (Banks \ {Root}) \cup Assocs /\ Root \in Nodes /\ ~IsUser(Root)
      /\ \A n \in Nodes : ~IsUser(n) <=> n \in Banks
  BY TreeAssumption DEF Inner, Nodes, IsUser
<1>2. \A n \in Inner : ParentOf(n) \in Banks /\ ParentOf(n) \in Nodes
  BY <1>1, TreeAssumption DEF ParentOf, Leaves, IsUser, Nodes
<1>3. IsFiniteSet(Nodes) /\ IsFiniteSet(Inner)
  BY TreeAssumption, FS_Union, FS_Subset DEF Nodes, Inner
<1> QED BY <1>1, <1>2, <1>3

\* How deep a node can be.
MaxDepth == Cardinality(Banks) + 1

LEMMA MaxDepthType == MaxDepth \in Nat /\ Cardinality(Banks) \in Nat
  BY TreeAssumption, FS_CardinalityType DEF MaxDepth

LEMMA DepthExists ==
  \E depth \in [Nodes -> 0..MaxDepth] : \A n \in Inner : depth[ParentOf(n)] < depth[n]
<1>1. PICK d \in [Banks -> 0..Cardinality(Banks)] :
        \A b \in Banks \ {Root} : Parent[b] \in Banks /\ d[Parent[b]] < d[b]
  BY TreeAssumption
<1> DEFINE depth == [n \in Nodes |-> IF IsUser(n) THEN MaxDepth ELSE d[n]]
<1>2. \A n \in Nodes : depth[n] \in 0..MaxDepth
  BY <1>1, TreeFacts, MaxDepthType DEF MaxDepth
<1>3. ASSUME NEW n \in Inner PROVE depth[ParentOf(n)] < depth[n]
  <2>1. ParentOf(n) \in Banks /\ depth[ParentOf(n)] = d[ParentOf(n)]
    BY TreeFacts
  <2>2. CASE IsUser(n)
    BY <1>1, <2>1, <2>2, TreeFacts, MaxDepthType DEF MaxDepth, Inner
  <2>3. CASE ~IsUser(n)
    BY <1>1, <2>1, <2>3, TreeFacts DEF ParentOf, Inner
  <2> QED BY <2>2, <2>3
<1> HIDE DEF depth
<1>4. depth \in [Nodes -> 0..MaxDepth]
  BY <1>2 DEF depth
<1> QED BY <1>3, <1>4

\* A set that holds the root, and each node whose parent it holds.
LEMMA NodeInduction ==
  ASSUME NEW G, Root \in G, \A n \in Inner : ParentOf(n) \in G => n \in G
  PROVE  Nodes \subseteq G
<1> SUFFICES ASSUME NEW bad \in Nodes, bad \notin G PROVE FALSE
  OBVIOUS
<1>1. PICK depth \in [Nodes -> 0..MaxDepth] : \A n \in Inner : depth[ParentOf(n)] < depth[n]
  BY DepthExists
<1> DEFINE N == {depth[n] : n \in Nodes \ G}
<1>2. N \subseteq Nat /\ depth[bad] \in N
  BY <1>1
<1>3. PICK least \in N : \A m \in N : least <= m
  <2> HIDE DEF N
  <2> QED BY <1>2, Least
<1>4. PICK n \in Nodes \ G : depth[n] = least
  BY <1>3
<1>5. n \in Inner
  BY <1>4 DEF Inner
<1>6. ParentOf(n) \in Nodes \ G
  BY <1>4, <1>5, TreeFacts
<1>7. depth[ParentOf(n)] < least /\ depth[ParentOf(n)] \in N
  BY <1>1, <1>4, <1>5, <1>6
<1>8. depth[ParentOf(n)] \in Nat /\ least \in Nat
  BY <1>2, <1>3, <1>7
<1> QED BY <1>3, <1>7, <1>8

Up(up, n) == IF n = Root THEN <<>> ELSE Append(up[ParentOf(n)], n)

LEMMA PathExists == \E up : up = [n \in Nodes |-> Up(up, n)]
<1>1. PICK depth \in [Nodes -> 0..MaxDepth] : \A n \in Inner : depth[ParentOf(n)] < depth[n]
  BY DepthExists
<1> DEFINE Low(k) == {n \in Nodes : depth[n] < k}
           G == {k \in Nat : \E up : up = [n \in Low(k) |-> Up(up, n)]}
<1>2. \A n \in Nodes : depth[n] \in Nat
  BY <1>1
<1>3. 0 \in G
  <2>1. Low(0) = {}
    BY <1>2
  <2> DEFINE none == [n \in Low(0) |-> 0]
  <2>2. none = [n \in Low(0) |-> Up(none, n)]
    BY <2>1
  <2> HIDE DEF none, Low
  <2> QED BY <2>2
<1>4. ASSUME NEW k \in Nat, k \in G PROVE k + 1 \in G
  <2>1. PICK f : f = [n \in Low(k) |-> Up(f, n)]
    BY <1>4
  <2> DEFINE g == [n \in Low(k + 1) |-> Up(f, n)]
  <2>2. ASSUME NEW n \in Low(k + 1), n # Root PROVE ParentOf(n) \in Low(k)
    <3>1. n \in Inner /\ depth[n] < k + 1
      BY <2>2 DEF Inner
    <3>2. ParentOf(n) \in Nodes /\ depth[ParentOf(n)] < depth[n]
      BY <1>1, <3>1, TreeFacts
    <3> QED BY <1>2, <3>1, <3>2
  <2>3. Low(k) \subseteq Low(k + 1)
    BY <1>2
  <2> HIDE DEF Low
  <2>4. ASSUME NEW n \in Low(k + 1) PROVE Up(g, n) = Up(f, n)
    <3>1. CASE n = Root
      BY <3>1 DEF Up
    <3>2. CASE n # Root
      <4>1. ParentOf(n) \in Low(k)
        BY <2>2, <3>2
      <4>2. g[ParentOf(n)] = Up(f, ParentOf(n))
        BY <2>3, <4>1
      <4>3. f[ParentOf(n)] = Up(f, ParentOf(n))
        BY <2>1, <4>1
      <4> QED BY <4>2, <4>3 DEF Up
    <3> QED BY <3>1, <3>2
  <2>5. g = [n \in Low(k + 1) |-> Up(g, n)]
    BY <2>4
  <2> HIDE DEF g
  <2> QED BY <2>5
<1>5. MaxDepth + 1 \in G
  <2> HIDE DEF G
  <2>1. Nat \subseteq G
    BY <1>3, <1>4, NatSetInduction
  <2> QED BY <2>1, MaxDepthType
<1>6. Low(MaxDepth + 1) = Nodes
  BY <1>1, MaxDepthType
<1> QED BY <1>5, <1>6

LEMMA PathUnfolds ==
  Path[Root] = <<>> /\ \A n \in Inner : Path[n] = Append(Path[ParentOf(n)], n)
<1> DEFINE up == CHOOSE up : up = [n \in Nodes |-> Up(up, n)]
<1>1. up = [n \in Nodes |-> Up(up, n)]
  BY PathExists
<1>2. Path = [n \in Nodes |-> up[n]]
  BY DEF Path, Up
<1> HIDE DEF up
<1>3. \A n \in Nodes : Path[n] = Up(up, n)
  BY <1>1, <1>2
<1>4. \A n \in Inner : Path[ParentOf(n)] = up[ParentOf(n)]
  BY <1>2, TreeFacts
<1> QED BY <1>3, <1>4, TreeFacts DEF Up, Inner

\* What the path of a node is.
PathIsSound(n) ==
  /\ Path[n] \in Seq(Inner)
  /\ n # Root => Len(Path[n]) >= 1 /\ Path[n][Len(Path[n])] = n
  /\ \A i \in 1..Len(Path[n]) :
       /\ Len(Path[Path[n][i]]) = i
       /\ \A j \in 1..i : Path[Path[n][i]][j] = Path[n][j]
       /\ ParentOf(Path[n][i]) = IF i = 1 THEN Root ELSE Path[n][i - 1]

LEMMA PathExtends ==
  ASSUME NEW n \in Inner, Path[ParentOf(n)] \in Seq(Inner)
  PROVE  /\ Path[n] \in Seq(Inner) /\ Len(Path[n]) = Len(Path[ParentOf(n)]) + 1
         /\ Path[n][Len(Path[n])] = n
         /\ \A i \in 1..Len(Path[ParentOf(n)]) : Path[n][i] = Path[ParentOf(n)][i]
<1> DEFINE p == Path[ParentOf(n)]
<1>1. Path[n] = Append(p, n) /\ p \in Seq(Inner)
  BY PathUnfolds
<1> HIDE DEF p
<1>2. /\ Append(p, n) \in Seq(Inner) /\ Len(Append(p, n)) = Len(p) + 1
      /\ Append(p, n)[Len(p) + 1] = n
      /\ \A i \in 1..Len(p) : Append(p, n)[i] = p[i]
  BY <1>1, AppendProperties
<1> QED BY <1>1, <1>2 DEF p

LEMMA PathsAreSound == \A n \in Nodes : PathIsSound(n)
<1> DEFINE G == {n \in Nodes : PathIsSound(n)}
<1>1. Root \in G
  <2>1. Path[Root] = <<>> /\ Root \in Nodes
    BY PathUnfolds, TreeFacts
  <2>2. <<>> \in Seq(Inner) /\ Len(<<>>) = 0 /\ 1..0 = {}
    OBVIOUS
  <2>3. PathIsSound(Root)
    <3>1. Path[Root] \in Seq(Inner) /\ 1..Len(Path[Root]) = {}
      BY <2>1, <2>2
    <3> QED BY <3>1 DEF PathIsSound
  <2> QED BY <2>1, <2>3
<1>2. ASSUME NEW n \in Inner, ParentOf(n) \in G PROVE n \in G
  <2> DEFINE b == ParentOf(n)
             k == Len(Path[b])
  <2>1. PathIsSound(b) /\ Path[b] \in Seq(Inner) /\ k \in Nat
    BY <1>2, LenProperties DEF PathIsSound
  <2>2. /\ Path[n] \in Seq(Inner) /\ Len(Path[n]) = k + 1 /\ Path[n][k + 1] = n
        /\ \A i \in 1..k : Path[n][i] = Path[b][i]
    BY <2>1, PathExtends
  <2>3. ASSUME NEW i \in 1..k + 1
        PROVE  /\ Len(Path[Path[n][i]]) = i
               /\ \A j \in 1..i : Path[Path[n][i]][j] = Path[n][j]
               /\ ParentOf(Path[n][i]) = IF i = 1 THEN Root ELSE Path[n][i - 1]
    <3>1. CASE i = k + 1
      <4>1. ParentOf(n) = IF k + 1 = 1 THEN Root ELSE Path[n][k]
        <5>1. CASE k = 0
          <6>1. b = Root
            BY <2>1, <5>1 DEF PathIsSound
          <6> QED BY <5>1, <6>1
        <5>2. CASE k # 0
          <6>1. b # Root
            <7>1. Len(Path[Root]) = 0
              BY PathUnfolds
            <7> QED BY <5>2, <7>1
          <6>2. Path[b][k] = b
            BY <2>1, <6>1 DEF PathIsSound
          <6> QED BY <2>1, <2>2, <5>2, <6>2
        <5> QED BY <5>1, <5>2
      <4> QED BY <2>1, <2>2, <3>1, <4>1
    <3>2. CASE i # k + 1
      <4>1. i \in 1..k /\ Path[n][i] = Path[b][i]
        BY <2>1, <2>2, <3>2
      <4>2. /\ Len(Path[Path[b][i]]) = i
            /\ \A j \in 1..i : Path[Path[b][i]][j] = Path[b][j]
            /\ ParentOf(Path[b][i]) = IF i = 1 THEN Root ELSE Path[b][i - 1]
        BY <2>1, <4>1 DEF PathIsSound
      <4>3. \A j \in 1..i : Path[n][j] = Path[b][j]
        BY <2>1, <2>2, <4>1
      <4>4. i # 1 => Path[n][i - 1] = Path[b][i - 1]
        BY <2>1, <2>2, <4>1
      <4> HIDE DEF b, k
      <4> QED BY <4>1, <4>2, <4>3, <4>4
    <3> QED BY <3>1, <3>2
  <2>4. PathIsSound(n)
    BY <2>1, <2>2, <2>3 DEF PathIsSound
  <2> QED BY <2>4 DEF Inner
<1> HIDE DEF G
<1>3. Nodes \subseteq G
  BY <1>1, <1>2, NodeInduction
<1> QED BY <1>3 DEF G

LEMMA PathFacts ==
  ASSUME NEW n \in Inner
  PROVE  /\ Path[n] \in Seq(Inner) /\ Len(Path[n]) \in Nat \ {0}
         /\ Path[n][Len(Path[n])] = n
         /\ \A i \in 1..Len(Path[n]) :
              /\ Path[n][i] \in Inner /\ Len(Path[Path[n][i]]) = i
              /\ \A j \in 1..i : Path[Path[n][i]][j] = Path[n][j]
              /\ ParentOf(Path[n][i]) = IF i = 1 THEN Root ELSE Path[n][i - 1]
         /\ \A i \in 1..Len(Path[n]) - 1 : Path[n][i] \in Banks
<1>1. n \in Nodes /\ n # Root /\ PathIsSound(n)
  BY PathsAreSound DEF Inner
<1>2. Path[n] \in Seq(Inner) /\ Len(Path[n]) \in Nat /\ Len(Path[n]) >= 1
      /\ \A i \in 1..Len(Path[n]) : Path[n][i] \in Inner
  BY <1>1, LenProperties, ElementOfSeq DEF PathIsSound
<1>3. ASSUME NEW i \in 1..Len(Path[n]) - 1 PROVE Path[n][i] \in Banks
  <2>1. i + 1 \in 1..Len(Path[n]) /\ i + 1 # 1 /\ (i + 1) - 1 = i
    BY <1>2
  <2>2. ParentOf(Path[n][i + 1]) = Path[n][i]
    BY <1>1, <2>1 DEF PathIsSound
  <2> QED BY <1>2, <2>1, <2>2, TreeFacts
<1> QED BY <1>1, <1>2, <1>3 DEF PathIsSound

\* A node is as deep as its parent, and one more.
LEMMA PathOfChild ==
  ASSUME NEW n \in Inner
  PROVE  /\ Len(Path[n]) = Len(Path[ParentOf(n)]) + 1 /\ Len(Path[ParentOf(n)]) \in Nat
         /\ \A i \in 1..Len(Path[ParentOf(n)]) : Path[n][i] = Path[ParentOf(n)][i]
<1>1. PathIsSound(ParentOf(n))
  BY TreeFacts, PathsAreSound
<1> QED BY <1>1, PathExtends, LenProperties DEF PathIsSound

LEMMA PathIsShort == \A n \in Nodes : Len(Path[n]) <= MaxDepth
<1>1. PICK depth \in [Nodes -> 0..MaxDepth] : \A n \in Inner : depth[ParentOf(n)] < depth[n]
  BY DepthExists
<1> DEFINE G == {n \in Nodes : Len(Path[n]) <= depth[n]}
<1>2. Root \in G
  <2>1. Len(Path[Root]) = 0
    BY PathUnfolds
  <2> QED BY <1>1, <2>1, TreeFacts, MaxDepthType
<1>3. ASSUME NEW n \in Inner, ParentOf(n) \in G PROVE n \in G
  <2>1. Len(Path[n]) = Len(Path[ParentOf(n)]) + 1 /\ Len(Path[ParentOf(n)]) \in Nat
    BY PathOfChild
  <2>2. depth[ParentOf(n)] < depth[n] /\ depth[n] \in Nat /\ depth[ParentOf(n)] \in Nat
        /\ n \in Nodes
    BY <1>1, TreeFacts DEF Inner
  <2> QED BY <1>3, <2>1, <2>2
<1>4. Nodes \subseteq G
  <2> HIDE DEF G
  <2> QED BY <1>2, <1>3, NodeInduction
<1>5. ASSUME NEW n \in Nodes PROVE Len(Path[n]) <= MaxDepth
  <2>1. Len(Path[n]) <= depth[n] /\ depth[n] \in 0..MaxDepth
    BY <1>1, <1>4
  <2>2. Len(Path[n]) \in Nat
    BY PathsAreSound, LenProperties DEF PathIsSound
  <2> QED BY <2>1, <2>2, MaxDepthType
<1> QED BY <1>5

---------------------------------------------------------------------------
(* Arranging a set *)

\* R is a strict total order of S.
IsStrictOrder(R, S) ==
  /\ \A x \in S : <<x, x>> \notin R
  /\ \A x, y, z \in S : <<x, y>> \in R /\ <<y, z>> \in R => <<x, z>> \in R
  /\ \A x, y \in S : x # y => <<x, y>> \in R \/ <<y, x>> \in R

\* list holds each element of S once, and each before those that R puts after it.
IsArranged(list, S, R) ==
  /\ list \in Seq(S) /\ Len(list) = Cardinality(S)
  /\ \A x \in S : \E i \in 1..Len(list) : list[i] = x
  /\ \A i, j \in 1..Len(list) : i < j => <<list[i], list[j]>> \in R
  /\ \A i, j \in 1..Len(list) : list[i] = list[j] => i = j

LEMMA SetIsArranged ==
  ASSUME NEW S, IsFiniteSet(S), NEW R, IsStrictOrder(R, S)
  PROVE  IsArranged(Arranged(S, R), S, R)
<1> DEFINE Earlier(n) == {m \in S : <<m, n>> \in R}
           place(n) == 1 + Cardinality(Earlier(n))
           N == Cardinality(S)
           list == [i \in 1..N |-> CHOOSE n \in S : place(n) = i]
<1>1. N \in Nat
  BY FS_CardinalityType
<1>2. \A n \in S : IsFiniteSet(Earlier(n)) /\ Cardinality(Earlier(n)) \in Nat
                   /\ Cardinality(Earlier(n)) < N
  <2> TAKE n \in S
  <2>1. Earlier(n) \in SUBSET (S \ {n})
    BY DEF IsStrictOrder
  <2>2. IsFiniteSet(S \ {n}) /\ Cardinality(S \ {n}) = N - 1
    BY FS_RemoveElement
  <2>3. IsFiniteSet(Earlier(n)) /\ Cardinality(Earlier(n)) <= N - 1
    <3> HIDE DEF Earlier, N
    <3> QED BY <2>1, <2>2, FS_Subset
  <2>4. Cardinality(Earlier(n)) \in Nat
    BY <2>3, FS_CardinalityType
  <2> QED BY <1>1, <2>3, <2>4
<1>3. ASSUME NEW x \in S, NEW y \in S, <<x, y>> \in R PROVE place(x) < place(y)
  <2>1. Earlier(x) \in SUBSET Earlier(y) /\ x \in Earlier(y) /\ x \notin Earlier(x)
    BY <1>3 DEF IsStrictOrder
  <2>2. /\ Cardinality(Earlier(x)) <= Cardinality(Earlier(y))
        /\ Cardinality(Earlier(y)) = Cardinality(Earlier(x)) => Earlier(x) = Earlier(y)
    <3> HIDE DEF Earlier
    <3> QED BY <1>2, <2>1, FS_Subset
  <2>3. Earlier(x) # Earlier(y)
    BY <2>1
  <2>4. Cardinality(Earlier(x)) \in Nat /\ Cardinality(Earlier(y)) \in Nat
    BY <1>2
  <2> HIDE DEF Earlier
  <2> QED BY <2>2, <2>3, <2>4
<1>4. \A x \in S : place(x) \in 1..N
  BY <1>1, <1>2
<1>5. \A x, y \in S : place(x) = place(y) => x = y
  <2> TAKE x \in S, y \in S
  <2>1. place(x) \in Nat /\ place(y) \in Nat
    BY <1>1, <1>4
  <2>2. x # y => place(x) < place(y) \/ place(y) < place(x)
    <3> HIDE DEF place
    <3> QED BY <1>3 DEF IsStrictOrder
  <2> HIDE DEF place
  <2> QED BY <2>1, <2>2
<1> HIDE DEF Earlier, place, N
<1>6. \A i \in 1..N : \E x \in S : place(x) = i
  <2> DEFINE f == [x \in S |-> place(x)]
  <2>1. f \in Injection(S, 1..N)
    <3>1. f \in [S -> 1..N] /\ \A x, y \in S : f[x] = f[y] => x = y
      BY <1>4, <1>5
    <3> HIDE DEF f
    <3> QED BY <3>1 DEF Injection, IsInjective
  <2>2. IsFiniteSet(1..N) /\ Cardinality(1..N) = N
    BY <1>1, FS_Interval
  <2>3. f \in Surjection(S, 1..N)
    <3> HIDE DEF f
    <3> QED BY <2>1, <2>2, FS_Injection DEF N
  <2>4. \A i \in 1..N : \E x \in S : f[x] = i
    <3> HIDE DEF f
    <3> QED BY <2>3 DEF Surjection
  <2> QED BY <2>4
<1>7. Arranged(S, R) = SubSeq(list, 1, N)
  BY DEF Arranged, Earlier, place, N
<1>8. \A i \in 1..N : list[i] \in S /\ place(list[i]) = i
  BY <1>6
<1> HIDE DEF list
<1>9. list \in [1..N -> S]
  BY <1>8 DEF list
<1>10. Arranged(S, R) \in Seq(S) /\ Len(Arranged(S, R)) = N
       /\ \A i \in 1..N : Arranged(S, R)[i] = list[i]
  BY <1>1, <1>7, <1>9
<1>11. \A x \in S : \E i \in 1..N : Arranged(S, R)[i] = x
  BY <1>4, <1>5, <1>8, <1>10
<1>12. ASSUME NEW i \in 1..N, NEW j \in 1..N, i < j
       PROVE  <<Arranged(S, R)[i], Arranged(S, R)[j]>> \in R
  <2>1. list[i] \in S /\ list[j] \in S /\ place(list[i]) = i /\ place(list[j]) = j
    BY <1>8
  <2>2. list[i] # list[j]
    BY <1>12, <2>1
  <2>3. ~(<<list[j], list[i]>> \in R)
    BY <1>1, <1>3, <1>12, <2>1
  <2>4. <<list[i], list[j]>> \in R
    BY <2>1, <2>2, <2>3 DEF IsStrictOrder
  <2> QED BY <1>10, <2>4
<1>13. \A i, j \in 1..N : Arranged(S, R)[i] = Arranged(S, R)[j] => i = j
  BY <1>8, <1>10
<1> QED BY <1>10, <1>11, <1>12, <1>13 DEF IsArranged, N

---------------------------------------------------------------------------
(* The order of the nodes of a tree *)

\* A tree that a run can have read: with a node it has those above.
IsTree(tree) ==
  /\ DOMAIN tree \subseteq Inner
  /\ \A n \in DOMAIN tree : /\ IsWeight(tree[n])
                            /\ \A i \in 1..Len(Path[n]) : Path[n][i] \in DOMAIN tree

Alike(tree, m, n) == ~Before(tree, m, n) /\ ~Before(tree, n, m)

LEMMA BeforeFacts ==
  ASSUME NEW tree, IsTree(tree), NEW m \in DOMAIN tree, NEW n \in DOMAIN tree
  PROVE  /\ ~(Before(tree, m, n) /\ Before(tree, n, m))
         /\ Alike(tree, m, n) <=> TieIn(tree, m, n) /\ IsUser(m) = IsUser(n)
         /\ TieIn(tree, m, n) <=> TieIn(tree, n, m)
         /\ TieIn(tree, m, n) <=> ~Exceeds(tree[m], tree[n]) /\ ~Exceeds(tree[n], tree[m])
<1>1. IsWeight(tree[m]) /\ IsWeight(tree[n])
  BY DEF IsTree
<1>2. /\ Ties(tree[m], tree[n]) <=> ~Exceeds(tree[m], tree[n]) /\ ~Exceeds(tree[n], tree[m])
      /\ Ties(tree[n], tree[m]) <=> ~Exceeds(tree[m], tree[n]) /\ ~Exceeds(tree[n], tree[m])
      /\ ~(Exceeds(tree[m], tree[n]) /\ Exceeds(tree[n], tree[m]))
  BY <1>1, WeightsCompare
<1> QED BY <1>2 DEF Alike, Before, TieIn, IsUser

LEMMA NotBeforeTransitive ==
  ASSUME NEW tree, IsTree(tree),
         NEW x \in DOMAIN tree, NEW y \in DOMAIN tree, NEW z \in DOMAIN tree,
         ~Before(tree, y, x), ~Before(tree, z, y)
  PROVE  ~Before(tree, z, x)
<1>1. IsWeight(tree[x]) /\ IsWeight(tree[y]) /\ IsWeight(tree[z])
  BY DEF IsTree
<1>2. ~Exceeds(tree[y], tree[x]) /\ ~Exceeds(tree[z], tree[y])
  BY DEF Before
<1>3. ~Exceeds(tree[z], tree[x])
  BY <1>1, <1>2, NotExceededTransitive
<1>4. ASSUME TieIn(tree, z, x) PROVE TieIn(tree, y, x) /\ TieIn(tree, z, y)
  <2>1. ~Exceeds(tree[x], tree[z])
    BY <1>1, <1>4, WeightsCompare DEF TieIn
  <2>2. ~Exceeds(tree[x], tree[y]) /\ ~Exceeds(tree[y], tree[z])
    BY <1>1, <1>2, <2>1, NotExceededTransitive
  <2> QED BY <1>1, <1>2, <2>2, WeightsCompare DEF TieIn
<1> QED BY <1>3, <1>4 DEF Before

LEMMA TiesTransitive ==
  ASSUME NEW tree, IsTree(tree),
         NEW x \in DOMAIN tree, NEW y \in DOMAIN tree, NEW z \in DOMAIN tree,
         TieIn(tree, x, y), TieIn(tree, y, z)
  PROVE  TieIn(tree, x, z)
<1>1. IsWeight(tree[x]) /\ IsWeight(tree[y]) /\ IsWeight(tree[z])
  BY DEF IsTree
<1>2. /\ ~Exceeds(tree[x], tree[y]) /\ ~Exceeds(tree[y], tree[x])
      /\ ~Exceeds(tree[y], tree[z]) /\ ~Exceeds(tree[z], tree[y])
  BY BeforeFacts
<1>3. ~Exceeds(tree[x], tree[z]) /\ ~Exceeds(tree[z], tree[x])
  BY <1>1, <1>2, NotExceededTransitive
<1> QED BY <1>3, BeforeFacts

IsOrder(order) == order \in [Inner -> Int] /\ IsInjective(order)

\* list holds each element of S once.
Lists(list, S) ==
  /\ list \in Seq(S)
  /\ \A x \in S : \E i \in 1..Len(list) : list[i] = x
  /\ \A i, j \in 1..Len(list) : list[i] = list[j] => i = j

LEMMA SortedLists ==
  ASSUME NEW tree, IsTree(tree), NEW order, IsOrder(order), NEW S \in SUBSET DOMAIN tree
  PROVE  /\ Lists(Sorted(tree, order, S), S)
         /\ \A i, j \in 1..Len(Sorted(tree, order, S)) : i < j =>
              ~Before(tree, Sorted(tree, order, S)[j], Sorted(tree, order, S)[i])
<1> DEFINE R == {p \in S \X S : Precedes(tree, order, p[1], p[2])}
           list == Sorted(tree, order, S)
<1>1. IsFiniteSet(S)
  BY TreeFacts, FS_Subset DEF IsTree
<1>2. \A x, y \in S : <<x, y>> \in R <=> Precedes(tree, order, x, y)
  OBVIOUS
<1>3. \A x \in S : x \in DOMAIN tree /\ order[x] \in Int
  BY DEF IsOrder, IsTree
<1>4. \A x, y \in S : order[x] = order[y] => x = y
  BY DEF IsOrder, IsTree, IsInjective
<1>5. \A x, y \in S : Precedes(tree, order, x, y) => ~Before(tree, y, x)
  BY <1>3, BeforeFacts DEF Precedes
<1> HIDE DEF R
<1>6. IsStrictOrder(R, S)
  <2>1. \A x \in S : <<x, x>> \notin R
    <3> TAKE x \in S
    <3>1. ~Before(tree, x, x) /\ ~(order[x] < order[x])
      BY <1>3, BeforeFacts
    <3> QED BY <1>2, <3>1 DEF Precedes
  <2>2. ASSUME NEW x \in S, NEW y \in S, NEW z \in S, <<x, y>> \in R, <<y, z>> \in R
        PROVE  <<x, z>> \in R
    <3>1. Precedes(tree, order, x, y) /\ Precedes(tree, order, y, z)
      BY <1>2, <2>2
    <3>2. ~Before(tree, y, x) /\ ~Before(tree, z, y)
      BY <1>5, <3>1
    <3>3. ~Before(tree, z, x)
      BY <1>3, <3>2, NotBeforeTransitive
    <3>4. ASSUME ~Before(tree, x, z) PROVE order[x] < order[z]
      <4>1. ~Before(tree, x, y)
        BY <1>3, <3>2, <3>4, NotBeforeTransitive
      <4>2. ~Before(tree, y, z)
        BY <1>3, <3>2, <3>4, NotBeforeTransitive
      <4>3. order[x] < order[y] /\ order[y] < order[z]
        BY <3>1, <4>1, <4>2 DEF Precedes
      <4>4. order[x] \in Int /\ order[y] \in Int /\ order[z] \in Int
        BY <1>3
      <4> QED BY <4>3, <4>4
    <3> QED BY <1>2, <3>3, <3>4 DEF Precedes
  <2>3. ASSUME NEW x \in S, NEW y \in S, x # y PROVE <<x, y>> \in R \/ <<y, x>> \in R
    <3>1. order[x] < order[y] \/ order[y] < order[x]
      <4>1. order[x] \in Int /\ order[y] \in Int /\ order[x] # order[y]
        BY <1>3, <1>4, <2>3
      <4> QED BY <4>1
    <3> QED BY <1>2, <3>1 DEF Precedes
  <2> QED BY <2>1, <2>2, <2>3 DEF IsStrictOrder
<1>7. list = Arranged(S, R)
  BY DEF Sorted, R
<1> HIDE DEF list
<1>8. IsArranged(list, S, R)
  BY <1>1, <1>6, <1>7, SetIsArranged
<1>9. Lists(list, S)
  BY <1>8 DEF IsArranged, Lists
<1>10. \A i, j \in 1..Len(list) : i < j => ~Before(tree, list[j], list[i])
  <2> TAKE i, j \in 1..Len(list)
  <2> HAVE i < j
  <2>1. <<list[i], list[j]>> \in R /\ list[i] \in S /\ list[j] \in S
    BY <1>8, ElementOfSeq DEF IsArranged
  <2> QED BY <1>2, <1>5, <2>1
<1> QED BY <1>9, <1>10 DEF list

LEMMA SortedByWeightLists ==
  ASSUME NEW tree, IsTree(tree), NEW S \in SUBSET DOMAIN tree, NEW place,
         \A x \in S : place[x] \in Int, \A x, y \in S : place[x] = place[y] => x = y
  PROVE  /\ Lists(SortedByWeight(tree, place, S), S)
         /\ \A i, j \in 1..Len(SortedByWeight(tree, place, S)) : i < j =>
              ~Exceeds(tree[SortedByWeight(tree, place, S)[j]],
                       tree[SortedByWeight(tree, place, S)[i]])
<1> DEFINE Comes(m, n) == \/ Exceeds(tree[m], tree[n])
                          \/ TieIn(tree, m, n) /\ place[m] < place[n]
           R == {p \in S \X S : Comes(p[1], p[2])}
           list == SortedByWeight(tree, place, S)
<1>1. IsFiniteSet(S)
  BY TreeFacts, FS_Subset DEF IsTree
<1>2. \A x, y \in S : <<x, y>> \in R <=> \/ Exceeds(tree[x], tree[y])
                                         \/ TieIn(tree, x, y) /\ place[x] < place[y]
  OBVIOUS
<1>3. \A x \in S : x \in DOMAIN tree /\ IsWeight(tree[x])
  BY DEF IsTree
<1>4. \A x, y \in S : /\ TieIn(tree, x, y) <=> ~Exceeds(tree[x], tree[y]) /\ ~Exceeds(tree[y], tree[x])
                      /\ ~(Exceeds(tree[x], tree[y]) /\ Exceeds(tree[y], tree[x]))
  BY <1>3, WeightsCompare DEF TieIn
<1>5. \A x, y \in S : <<x, y>> \in R => ~Exceeds(tree[y], tree[x])
  BY <1>2, <1>4
<1>6. \A x, y, z \in S : ~Exceeds(tree[y], tree[x]) /\ ~Exceeds(tree[z], tree[y])
                         => ~Exceeds(tree[z], tree[x])
  BY <1>3, NotExceededTransitive
<1> HIDE DEF R
<1>7. IsStrictOrder(R, S)
  <2>1. \A x \in S : <<x, x>> \notin R
    <3> TAKE x \in S
    <3>1. ~Exceeds(tree[x], tree[x]) /\ ~(place[x] < place[x])
      BY <1>4
    <3> QED BY <1>2, <3>1
  <2>2. ASSUME NEW x \in S, NEW y \in S, NEW z \in S, <<x, y>> \in R, <<y, z>> \in R
        PROVE  <<x, z>> \in R
    <3>2. ~Exceeds(tree[y], tree[x]) /\ ~Exceeds(tree[z], tree[y])
      BY <1>5, <2>2
    <3>3. ~Exceeds(tree[z], tree[x])
      BY <1>6, <3>2
    <3>4. ASSUME ~Exceeds(tree[x], tree[z]) PROVE place[x] < place[z] /\ TieIn(tree, x, z)
      <4>1. ~Exceeds(tree[x], tree[y])
        BY <1>6, <3>2, <3>4
      <4>2. ~Exceeds(tree[y], tree[z])
        BY <1>6, <3>2, <3>4
      <4>3. place[x] < place[y] /\ place[y] < place[z]
        BY <1>2, <2>2, <4>1, <4>2
      <4>4. place[x] \in Int /\ place[y] \in Int /\ place[z] \in Int
        OBVIOUS
      <4> QED BY <1>4, <3>3, <3>4, <4>3, <4>4
    <3> QED BY <1>2, <3>4
  <2>3. ASSUME NEW x \in S, NEW y \in S, x # y PROVE <<x, y>> \in R \/ <<y, x>> \in R
    <3>1. place[x] < place[y] \/ place[y] < place[x]
      <4>1. place[x] \in Int /\ place[y] \in Int /\ place[x] # place[y]
        BY <2>3
      <4> QED BY <4>1
    <3> QED BY <1>2, <1>4, <3>1
  <2> QED BY <2>1, <2>2, <2>3 DEF IsStrictOrder
<1>8. list = Arranged(S, R)
  BY DEF SortedByWeight, R
<1> HIDE DEF list
<1>9. IsArranged(list, S, R)
  BY <1>1, <1>7, <1>8, SetIsArranged
<1>10. Lists(list, S)
  BY <1>9 DEF IsArranged, Lists
<1>11. \A i, j \in 1..Len(list) : i < j => ~Exceeds(tree[list[j]], tree[list[i]])
  <2> TAKE i, j \in 1..Len(list)
  <2> HAVE i < j
  <2>1. <<list[i], list[j]>> \in R /\ list[i] \in S /\ list[j] \in S
    BY <1>9, ElementOfSeq DEF IsArranged
  <2> QED BY <1>5, <2>1
<1> QED BY <1>10, <1>11 DEF list

---------------------------------------------------------------------------
(* Flattening *)

\* Each element of the first m lists of ss is at a place of g, in their order: at
\* k is the element col[k] of the list row[k].
Spread(g, ss, m, row, col) ==
  /\ row \in [1..Len(g) -> 1..m]
  /\ \A k \in 1..Len(g) : col[k] \in 1..Len(ss[row[k]]) /\ g[k] = ss[row[k]][col[k]]
  /\ \A k, l \in 1..Len(g) : k < l => row[k] < row[l] \/ (row[k] = row[l] /\ col[k] < col[l])
  /\ \A i \in 1..m : \A j \in 1..Len(ss[i]) : \E k \in 1..Len(g) : row[k] = i /\ col[k] = j

Joined(flat, ss, i) == IF i = 1 THEN ss[i] ELSE flat[i - 1] \o ss[i]

LEMMA FlattenExists ==
  ASSUME NEW ss, NEW n \in Nat
  PROVE  \E flat : flat = [i \in 1..n |-> Joined(flat, ss, i)]
<1> DEFINE G == {k \in Nat : \E flat : flat = [i \in 1..k |-> Joined(flat, ss, i)]}
<1>1. 0 \in G
  <2> DEFINE none == [i \in 1..0 |-> 0]
  <2>1. none = [i \in 1..0 |-> Joined(none, ss, i)]
    OBVIOUS
  <2> HIDE DEF none
  <2> QED BY <2>1
<1>2. ASSUME NEW k \in Nat, k \in G PROVE k + 1 \in G
  <2>1. PICK f : f = [i \in 1..k |-> Joined(f, ss, i)]
    BY <1>2
  <2> DEFINE g == [i \in 1..k + 1 |-> Joined(f, ss, i)]
  <2>2. ASSUME NEW i \in 1..k + 1 PROVE Joined(g, ss, i) = Joined(f, ss, i)
    <3>1. CASE i = 1
      BY <3>1 DEF Joined
    <3>2. CASE i # 1
      <4>1. i - 1 \in 1..k /\ i - 1 \in 1..k + 1
        BY <3>2
      <4>2. g[i - 1] = Joined(f, ss, i - 1)
        BY <4>1
      <4>3. f[i - 1] = Joined(f, ss, i - 1)
        BY <2>1, <4>1
      <4> HIDE DEF g
      <4> QED BY <3>2, <4>2, <4>3 DEF Joined
    <3> QED BY <3>1, <3>2
  <2>3. g = [i \in 1..k + 1 |-> Joined(g, ss, i)]
    BY <2>2
  <2> HIDE DEF g
  <2> QED BY <2>3
<1>3. Nat \subseteq G
  <2> HIDE DEF G
  <2> QED BY <1>1, <1>2, NatSetInduction
<1> QED BY <1>3

LEMMA SpreadOfOne ==
  ASSUME NEW ss, NEW m \in Nat, NEW X, ss[m] \in Seq(X), m = 1
  PROVE  \E row, col : Spread(ss[m], ss, 1, row, col)
<1> DEFINE row == [k \in 1..Len(ss[1]) |-> 1]
           col == [k \in 1..Len(ss[1]) |-> k]
<1>1. Spread(ss[1], ss, 1, row, col)
  <2>1. Len(ss[1]) \in Nat
    BY LenProperties
  <2>2. \A k \in 1..Len(ss[1]) : row[k] = 1 /\ col[k] = k
    OBVIOUS
  <2>3. row \in [1..Len(ss[1]) -> 1..1]
    OBVIOUS
  <2> HIDE DEF row, col
  <2>4. \A i \in 1..1 : i = 1
    OBVIOUS
  <2>5. \A i \in 1..1 : \A j \in 1..Len(ss[i]) : \E k \in 1..Len(ss[1]) : row[k] = i /\ col[k] = j
    BY <2>2, <2>4
  <2> QED BY <2>1, <2>2, <2>3, <2>5 DEF Spread
<1> QED BY <1>1

LEMMA SpreadOfMore ==
  ASSUME NEW X, NEW ss, NEW m \in Nat \ {0}, NEW g \in Seq(X), ss[m + 1] \in Seq(X),
         NEW row, NEW col, Spread(g, ss, m, row, col)
  PROVE  \E rows, cols : Spread(g \o ss[m + 1], ss, m + 1, rows, cols)
<1> DEFINE t == ss[m + 1]
           h == g \o t
           a == Len(g)
           b == Len(t)
           rows == [k \in 1..Len(h) |-> IF k <= a THEN row[k] ELSE m + 1]
           cols == [k \in 1..Len(h) |-> IF k <= a THEN col[k] ELSE k - a]
<1>1. /\ a \in Nat /\ b \in Nat /\ Len(h) = a + b
      /\ \A k \in 1..a : h[k] = g[k]
      /\ \A k \in a + 1..a + b : h[k] = t[k - a]
  BY LenProperties, ConcatProperties
<1>2. /\ \A k \in 1..a : k \in 1..Len(h) /\ rows[k] = row[k] /\ cols[k] = col[k] /\ row[k] \in 1..m
      /\ \A k \in a + 1..a + b : k \in 1..Len(h) /\ rows[k] = m + 1 /\ cols[k] = k - a
      /\ \A k \in 1..Len(h) : k \in 1..a \/ k \in a + 1..a + b
  BY <1>1 DEF Spread
<1>3. rows \in [1..Len(h) -> 1..m + 1]
  <2>1. \A i \in 1..m : i \in 1..m + 1
    OBVIOUS
  <2>2. m + 1 \in 1..m + 1
    OBVIOUS
  <2>3. ASSUME NEW k \in 1..Len(h) PROVE rows[k] \in 1..m + 1
    <3>1. CASE k \in 1..a
      BY <1>2, <2>1, <3>1
    <3>2. CASE k \in a + 1..a + b
      <4>1. rows[k] = m + 1
        BY <1>2, <3>2
      <4> QED BY <2>2, <4>1
    <3> HIDE DEF rows, a, b, h
    <3> QED BY <1>2, <3>1, <3>2
  <2> QED BY <2>3
<1> HIDE DEF rows, cols, h, a, b, t
<1>4. ASSUME NEW k \in 1..Len(h)
      PROVE  cols[k] \in 1..Len(ss[rows[k]]) /\ h[k] = ss[rows[k]][cols[k]]
  <2>1. CASE k \in 1..a
    BY <1>1, <1>2, <2>1 DEF Spread, a
  <2>2. CASE k \in a + 1..a + b
    <3>1. k - a \in 1..b /\ rows[k] = m + 1 /\ cols[k] = k - a /\ h[k] = t[k - a]
      BY <1>1, <1>2, <2>2
    <3> QED BY <3>1 DEF t, b
  <2> QED BY <1>2, <2>1, <2>2
<1>5. ASSUME NEW k \in 1..Len(h), NEW l \in 1..Len(h), k < l
      PROVE  rows[k] < rows[l] \/ (rows[k] = rows[l] /\ cols[k] < cols[l])
  <2>1. CASE k \in 1..a /\ l \in 1..a
    <3>1. row[k] < row[l] \/ (row[k] = row[l] /\ col[k] < col[l])
      BY <1>5, <2>1 DEF Spread, a
    <3> QED BY <1>2, <2>1, <3>1
  <2>2. CASE k \in 1..a /\ l \in a + 1..a + b
    BY <1>2, <2>2
  <2>3. CASE k \in a + 1..a + b /\ l \in a + 1..a + b
    BY <1>1, <1>2, <1>5, <2>3
  <2>4. ~(k \in a + 1..a + b /\ l \in 1..a)
    BY <1>1, <1>5
  <2> QED BY <1>2, <2>1, <2>2, <2>3, <2>4
<1>6. ASSUME NEW i \in 1..m + 1, NEW j \in 1..Len(ss[i])
      PROVE  \E k \in 1..Len(h) : rows[k] = i /\ cols[k] = j
  <2>1. CASE i \in 1..m
    <3>1. PICK k \in 1..a : row[k] = i /\ col[k] = j
      BY <2>1 DEF Spread, a
    <3> QED BY <1>2, <3>1
  <2>2. CASE i = m + 1
    <3>1. a + j \in a + 1..a + b /\ (a + j) - a = j
      BY <1>1, <2>2 DEF t, b
    <3> QED BY <1>2, <2>2, <3>1
  <2> QED BY <2>1, <2>2
<1>7. Spread(h, ss, m + 1, rows, cols)
  BY <1>3, <1>4, <1>5, <1>6 DEF Spread
<1> QED BY <1>7 DEF h, t

LEMMA Flattening ==
  ASSUME NEW X, NEW ss \in Seq(Seq(X))
  PROVE  /\ FlattenSeq(ss) \in Seq(X)
         /\ \E row, col : Spread(FlattenSeq(ss), ss, Len(ss), row, col)
<1> DEFINE n == Len(ss)
           flat == CHOOSE flat : flat = [i \in 1..n |-> Joined(flat, ss, i)]
<1>1. n \in Nat /\ \A i \in 1..n : ss[i] \in Seq(X)
  BY LenProperties, ElementOfSeq
<1>2. CASE n = 0
  <2>1. FlattenSeq(ss) = ss /\ ss = <<>>
    BY <1>2, EmptySeq DEF FlattenSeq
  <2> DEFINE none == [k \in 1..0 |-> 0]
  <2>2. <<>> \in Seq(X) /\ Len(<<>>) = 0 /\ 1..0 = {}
    OBVIOUS
  <2>3. none \in [1..0 -> 1..0]
    BY <2>2
  <2>4. Spread(<<>>, <<>>, 0, none, none)
    <3> HIDE DEF none
    <3> QED BY <2>2, <2>3 DEF Spread
  <2> QED BY <1>2, <2>1, <2>2, <2>4
<1>3. CASE n # 0
  <2>1. FlattenSeq(ss) = flat[n]
    BY <1>3 DEF FlattenSeq, Joined
  <2>2. flat = [i \in 1..n |-> Joined(flat, ss, i)]
    BY <1>1, FlattenExists
  <2> DEFINE Holds(m) == flat[m] \in Seq(X) /\ \E row, col : Spread(flat[m], ss, m, row, col)
             G == {m \in Nat : m \in 1..n => Holds(m)}
  <2> HIDE DEF flat
  <2>3. \A i \in 1..n : flat[i] = Joined(flat, ss, i)
    BY <2>2
  <2>4. 0 \in G
    OBVIOUS
  <2>5. ASSUME NEW m \in Nat, m \in G PROVE m + 1 \in G
    <3> SUFFICES ASSUME m + 1 \in 1..n PROVE Holds(m + 1)
      OBVIOUS
    <3>1. CASE m = 0
      <4>1. flat[1] = ss[1] /\ ss[1] \in Seq(X)
        BY <1>1, <2>3, <3>1 DEF Joined
      <4>2. \E row, col : Spread(ss[1], ss, 1, row, col)
        BY <4>1, SpreadOfOne
      <4> QED BY <3>1, <4>1, <4>2
    <3>2. CASE m # 0
      <4>1. m \in 1..n /\ m \in Nat \ {0} /\ Holds(m)
        BY <1>1, <2>5, <3>2
      <4>2. flat[m + 1] = flat[m] \o ss[m + 1] /\ ss[m + 1] \in Seq(X)
        <5>1. m + 1 # 1 /\ (m + 1) - 1 = m
          BY <3>2
        <5>2. flat[m + 1] = Joined(flat, ss, m + 1)
          BY <2>3
        <5> QED BY <1>1, <5>1, <5>2 DEF Joined
      <4>3. \E row, col : Spread(flat[m] \o ss[m + 1], ss, m + 1, row, col)
        BY <4>1, <4>2, SpreadOfMore
      <4>4. flat[m] \o ss[m + 1] \in Seq(X)
        BY <4>1, <4>2, ConcatProperties
      <4> QED BY <4>2, <4>3, <4>4
    <3> QED BY <3>1, <3>2
  <2>6. Nat \subseteq G
    <3> HIDE DEF G
    <3> QED BY <2>4, <2>5, NatSetInduction
  <2>7. Holds(n)
    BY <1>1, <1>3, <2>6
  <2> QED BY <2>1, <2>7
<1> QED BY <1>2, <1>3

---------------------------------------------------------------------------
(* The standing of associations *)

LEMMA UserPath ==
  ASSUME NEW tree, IsTree(tree), NEW a \in Users(tree)
  PROVE  /\ a \in Inner /\ IsUser(a) /\ Len(Path[a]) \in Nat \ {0} /\ Path[a][Len(Path[a])] = a
         /\ \A i \in 1..Len(Path[a]) : Path[a][i] \in DOMAIN tree
         /\ \A i \in 1..Len(Path[a]) : IsUser(Path[a][i]) <=> i = Len(Path[a])
<1>1. a \in DOMAIN tree /\ a \in Inner /\ IsUser(a)
  BY DEF Users, IsTree, IsUser
<1>2. /\ Len(Path[a]) \in Nat \ {0} /\ Path[a][Len(Path[a])] = a
      /\ \A i \in 1..Len(Path[a]) - 1 : Path[a][i] \in Banks
  BY <1>1, PathFacts
<1>3. \A i \in 1..Len(Path[a]) : Path[a][i] \in DOMAIN tree
  BY <1>1 DEF IsTree
<1>4. \A b \in Banks : ~IsUser(b)
  BY TreeFacts DEF Nodes
<1> QED BY <1>1, <1>2, <1>3, <1>4

\* Ahead, without the minimum.
LEMMA AheadMeans ==
  ASSUME NEW tree, IsTree(tree), NEW a \in Users(tree), NEW c \in Users(tree)
  PROVE  Ahead(tree, a, c) <=>
           \E i \in 1..Len(Path[a]) :
             /\ i \in 1..Len(Path[c])
             /\ Before(tree, Path[a][i], Path[c][i])
             /\ \A j \in 1..i - 1 : TieIn(tree, Path[a][j], Path[c][j])
<1>1. Len(Path[a]) \in Nat /\ Len(Path[c]) \in Nat
  BY UserPath
<1>2. \A i : i \in 1..(IF Len(Path[a]) < Len(Path[c]) THEN Len(Path[a]) ELSE Len(Path[c]))
             <=> i \in 1..Len(Path[a]) /\ i \in 1..Len(Path[c])
  BY <1>1
<1> QED BY <1>2 DEF Ahead

LEMMA NotAheadOfItself ==
  ASSUME NEW tree, IsTree(tree), NEW a \in Users(tree)
  PROVE  ~Ahead(tree, a, a)
<1>1. \A i \in 1..Len(Path[a]) : ~Before(tree, Path[a][i], Path[a][i])
  BY UserPath, BeforeFacts
<1> QED BY <1>1, AheadMeans

LEMMA NotAheadTransitive ==
  ASSUME NEW tree, IsTree(tree),
         NEW x \in Users(tree), NEW y \in Users(tree), NEW z \in Users(tree),
         ~Ahead(tree, y, x), ~Ahead(tree, z, y)
  PROVE  ~Ahead(tree, z, x)
<1> SUFFICES ASSUME Ahead(tree, z, x) PROVE FALSE
  OBVIOUS
<1> DEFINE p == Path[x]  q == Path[y]  r == Path[z]
<1>1. PICK i \in 1..Len(r) : /\ i \in 1..Len(p) /\ Before(tree, r[i], p[i])
                             /\ \A j \in 1..i - 1 : TieIn(tree, r[j], p[j])
  BY AheadMeans
<1>2. /\ Len(p) \in Nat \ {0} /\ Len(q) \in Nat \ {0} /\ Len(r) \in Nat \ {0}
      /\ \A j \in 1..Len(p) : p[j] \in DOMAIN tree /\ (IsUser(p[j]) <=> j = Len(p))
      /\ \A j \in 1..Len(q) : q[j] \in DOMAIN tree /\ (IsUser(q[j]) <=> j = Len(q))
      /\ \A j \in 1..Len(r) : r[j] \in DOMAIN tree /\ (IsUser(r[j]) <=> j = Len(r))
  BY UserPath
<1> DEFINE Level(j) == j \in 1..Len(q) /\ TieIn(tree, q[j], p[j]) /\ TieIn(tree, r[j], q[j])
           Odd == {j \in 1..i - 1 : ~(Level(j) /\ ~IsUser(q[j]))}
<1> HIDE DEF p, q, r
\* Where all above tie, y is between x and z.
<1>3. ASSUME NEW j \in 1..i, j \in 1..Len(q), \A k \in 1..j - 1 : Level(k)
      PROVE  ~Before(tree, q[j], p[j]) /\ ~Before(tree, r[j], q[j])
  <2>1. j \in 1..Len(p) /\ j \in 1..Len(r)
    BY <1>1, <1>2
  <2>2. ~Before(tree, q[j], p[j])
    BY <1>3, <2>1, AheadMeans DEF p, q
  <2>3. ~Before(tree, r[j], q[j])
    BY <1>3, <2>1, AheadMeans DEF r, q
  <2> QED BY <2>2, <2>3
<1>4. Odd = {}
  <2> SUFFICES ASSUME Odd # {} PROVE FALSE
    OBVIOUS
  <2>1. Odd \subseteq Nat
    BY <1>1
  <2>2. PICK j \in Odd : \A k \in Odd : j <= k
    <3> HIDE DEF Odd
    <3> QED BY <2>1, Least
  <2>3. j \in Nat /\ j >= 1 /\ j < i /\ j \in 1..i /\ j \in 1..i - 1
    BY <1>1, <2>2
  <2>4. \A k \in 1..j - 1 : Level(k) /\ ~IsUser(q[k])
    <3> TAKE k \in 1..j - 1
    <3>1. k \in 1..i - 1 /\ ~(j <= k)
      BY <1>1, <2>3
    <3>2. k \notin Odd
      BY <2>2, <3>1
    <3> QED BY <3>1, <3>2
  <2>5. j \in 1..Len(q)
    <3>1. CASE j = 1
      BY <1>2, <3>1
    <3>2. CASE j # 1
      <4>1. j - 1 \in 1..j - 1 /\ j - 1 \in 1..Len(q) /\ ~IsUser(q[j - 1])
        BY <2>3, <2>4, <3>2
      <4>2. j - 1 # Len(q)
        BY <1>2, <4>1
      <4> QED BY <1>2, <2>3, <4>1, <4>2
    <3> QED BY <3>1, <3>2
  <2>6. ~Before(tree, q[j], p[j]) /\ ~Before(tree, r[j], q[j])
    BY <1>3, <2>3, <2>4, <2>5
  <2>7. j \in 1..Len(p) /\ j # Len(p) /\ j \in 1..Len(r) /\ j # Len(r)
    BY <1>1, <1>2, <2>3
  <2>8. /\ p[j] \in DOMAIN tree /\ q[j] \in DOMAIN tree /\ r[j] \in DOMAIN tree
        /\ ~IsUser(p[j]) /\ ~IsUser(r[j])
    BY <1>2, <2>5, <2>7
  <2>9. TieIn(tree, r[j], p[j])
    BY <1>1, <2>3
  <2>10. Alike(tree, r[j], p[j])
    BY <2>8, <2>9, BeforeFacts DEF IsUser
  <2>11. ~Before(tree, p[j], r[j])
    BY <2>10 DEF Alike
  <2>12. ~Before(tree, p[j], q[j])
    BY <2>6, <2>8, <2>11, NotBeforeTransitive
  <2>13. ~Before(tree, q[j], r[j])
    BY <2>6, <2>8, <2>11, NotBeforeTransitive
  <2>14. Alike(tree, q[j], p[j]) /\ Alike(tree, r[j], q[j])
    BY <2>6, <2>12, <2>13 DEF Alike
  <2>15. TieIn(tree, q[j], p[j]) /\ TieIn(tree, r[j], q[j]) /\ ~IsUser(q[j])
    BY <2>8, <2>14, BeforeFacts
  <2> QED BY <2>2, <2>5, <2>15
<1>5. \A j \in 1..i - 1 : Level(j) /\ ~IsUser(q[j])
  BY <1>4
<1>6. i \in 1..Len(q)
  <2>1. CASE i = 1
    BY <1>2, <2>1
  <2>2. CASE i # 1
    <3>1. i \in Nat /\ i - 1 \in 1..i - 1
      BY <1>1, <2>2
    <3>2. i - 1 \in 1..Len(q) /\ ~IsUser(q[i - 1])
      BY <1>5, <3>1
    <3>3. i - 1 # Len(q)
      BY <1>2, <3>2
    <3> QED BY <1>2, <3>1, <3>2, <3>3
  <2> QED BY <2>1, <2>2
<1>7. ~Before(tree, q[i], p[i]) /\ ~Before(tree, r[i], q[i])
  <2>1. i \in 1..i
    BY <1>1
  <2> QED BY <1>3, <1>5, <1>6, <2>1
<1>8. p[i] \in DOMAIN tree /\ q[i] \in DOMAIN tree /\ r[i] \in DOMAIN tree
  BY <1>1, <1>2, <1>6
<1> QED BY <1>1, <1>7, <1>8, NotBeforeTransitive

---------------------------------------------------------------------------
(* Ranks *)

Visits == Seq([user : Nodes, tied : BOOLEAN])

\* visits meets each of the associations of U once, none before one that is
\* ahead of it, and marks those that a later one is not behind.
Orderly(tree, visits, U) ==
  /\ visits \in Visits
  /\ \A k \in 1..Len(visits) : visits[k].user \in U
  /\ \A a \in U : \E k \in 1..Len(visits) : visits[k].user = a
  /\ \A k, l \in 1..Len(visits) : visits[k].user = visits[l].user => k = l
  /\ \A k, l \in 1..Len(visits) : k < l => ~Ahead(tree, visits[l].user, visits[k].user)
  /\ \A k \in 1..Len(visits) :
       visits[k].tied <=> \E l \in 1..Len(visits) :
                            k < l /\ ~Ahead(tree, visits[k].user, visits[l].user)

RankAt(at, visits, i) ==
  IF i = 1 THEN [rank |-> Len(visits), stride |-> 0] ELSE NextRank(at[i - 1], visits[i - 1].tied)

LEMMA RanksExist ==
  ASSUME NEW visits, NEW n \in Nat
  PROVE  \E at : at = [i \in 1..n |-> RankAt(at, visits, i)]
<1> DEFINE G == {k \in Nat : \E at : at = [i \in 1..k |-> RankAt(at, visits, i)]}
<1>1. 0 \in G
  <2> DEFINE none == [i \in 1..0 |-> 0]
  <2>1. none = [i \in 1..0 |-> RankAt(none, visits, i)]
    OBVIOUS
  <2> HIDE DEF none
  <2> QED BY <2>1
<1>2. ASSUME NEW k \in Nat, k \in G PROVE k + 1 \in G
  <2>1. PICK f : f = [i \in 1..k |-> RankAt(f, visits, i)]
    BY <1>2
  <2> DEFINE g == [i \in 1..k + 1 |-> RankAt(f, visits, i)]
  <2>2. ASSUME NEW i \in 1..k + 1 PROVE RankAt(g, visits, i) = RankAt(f, visits, i)
    <3>1. CASE i = 1
      BY <3>1 DEF RankAt
    <3>2. CASE i # 1
      <4>1. i - 1 \in 1..k /\ i - 1 \in 1..k + 1
        BY <3>2
      <4>2. g[i - 1] = RankAt(f, visits, i - 1)
        BY <4>1
      <4>3. f[i - 1] = RankAt(f, visits, i - 1)
        BY <2>1, <4>1
      <4> HIDE DEF g
      <4> QED BY <3>2, <4>2, <4>3 DEF RankAt
    <3> QED BY <3>1, <3>2
  <2>3. g = [i \in 1..k + 1 |-> RankAt(g, visits, i)]
    BY <2>2
  <2> HIDE DEF g
  <2> QED BY <2>3
<1>3. Nat \subseteq G
  <2> HIDE DEF G
  <2> QED BY <1>1, <1>2, NatSetInduction
<1> QED BY <1>3

\* f is the first place of those that the association at i stands with, and at
\* says so.
StandsFrom(tree, visits, at, i, f) ==
  /\ f \in 1..i
  /\ at[i] = [rank |-> Len(visits) + 1 - f, stride |-> i - f]
  /\ \A k \in 1..f - 1 : Ahead(tree, visits[k].user, visits[i].user)
  /\ \A k \in f..i : ~Ahead(tree, visits[k].user, visits[i].user)

LEMMA EachStands ==
  ASSUME NEW tree, IsTree(tree), NEW visits, Orderly(tree, visits, Users(tree)),
         NEW at, at = [i \in 1..Len(visits) |-> RankAt(at, visits, i)]
  PROVE  \A i \in 1..Len(visits) : \E f : StandsFrom(tree, visits, at, i, f)
<1> DEFINE n == Len(visits)
           u(k) == visits[k].user
           G == {i \in Nat : i \in 1..n => \E f : StandsFrom(tree, visits, at, i, f)}
<1>1. n \in Nat
  BY LenProperties DEF Orderly, Visits
<1>2. \A i \in 1..n : at[i] = RankAt(at, visits, i)
  OBVIOUS
<1>3. /\ \A k \in 1..n : u(k) \in Users(tree) /\ ~Ahead(tree, u(k), u(k))
      /\ \A k, l \in 1..n : k < l => ~Ahead(tree, u(l), u(k))
      /\ \A k \in 1..n : visits[k].tied <=> \E l \in 1..n : k < l /\ ~Ahead(tree, u(k), u(l))
  BY NotAheadOfItself DEF Orderly
<1>4. \A x, y, z \in Users(tree) : ~Ahead(tree, y, x) /\ ~Ahead(tree, z, y) => ~Ahead(tree, z, x)
  BY NotAheadTransitive
<1>5. 0 \in G
  OBVIOUS
<1>6. ASSUME NEW i \in Nat, i \in G PROVE i + 1 \in G
  <2> SUFFICES ASSUME i + 1 \in 1..n PROVE \E f : StandsFrom(tree, visits, at, i + 1, f)
    OBVIOUS
  <2>1. CASE i = 0
    <3>1. at[1] = [rank |-> n, stride |-> 0] /\ 1 \in 1..n
      BY <1>2, <2>1 DEF RankAt
    <3>2. n + 1 - 1 = n /\ 1 - 1 = 0 /\ 1 \in 1..1 /\ \A k \in 1..1 : k = 1
      BY <1>1
    <3>3. StandsFrom(tree, visits, at, 1, 1)
      <4> HIDE DEF n
      <4>1. at[1] = [rank |-> Len(visits) + 1 - 1, stride |-> 1 - 1]
        BY <3>1, <3>2 DEF n
      <4> QED BY <1>3, <3>1, <3>2, <4>1 DEF StandsFrom
    <3> QED BY <2>1, <3>3
  <2>2. CASE i # 0
    <3>1. i \in 1..n /\ i # 0 /\ (i + 1) - 1 = i /\ i + 1 # 1
      BY <1>1, <2>2
    <3>2. PICK f : StandsFrom(tree, visits, at, i, f)
      BY <1>6, <3>1
    <3>3. /\ f \in 1..i /\ at[i].rank = n + 1 - f /\ at[i].stride = i - f
          /\ \A k \in 1..f - 1 : Ahead(tree, u(k), u(i))
          /\ \A k \in f..i : ~Ahead(tree, u(k), u(i))
      BY <3>2 DEF StandsFrom
    <3>4. at[i + 1] = NextRank(at[i], visits[i].tied)
      <4>1. at[i + 1] = RankAt(at, visits, i + 1)
        BY <1>2
      <4> QED BY <3>1, <4>1 DEF RankAt
    <3> HIDE DEF G, u, n
    <3>5. CASE visits[i].tied
      <4>1. at[i + 1] = [rank |-> n + 1 - f, stride |-> (i + 1) - f]
        <5>1. (i - f) + 1 = (i + 1) - f
          BY <3>3
        <5> QED BY <3>3, <3>4, <3>5, <5>1 DEF NextRank
      <4>2. PICK l \in 1..n : i < l /\ ~Ahead(tree, u(i), u(l))
        BY <1>3, <3>1, <3>5
      <4>3. ~Ahead(tree, u(l), u(i + 1))
        <5>1. l = i + 1 \/ i + 1 < l
          BY <1>1, <4>2
        <5> QED BY <1>3, <5>1
      <4>4. ~Ahead(tree, u(i), u(i + 1))
        BY <1>3, <1>4, <3>1, <4>2, <4>3
      <4>5. ~Ahead(tree, u(i + 1), u(i))
        BY <1>3, <3>1
      <4>6. ASSUME NEW k \in 1..f - 1 PROVE Ahead(tree, u(k), u(i + 1))
        <5>1. k \in 1..n /\ Ahead(tree, u(k), u(i))
          BY <1>1, <3>1, <3>3
        <5> QED BY <1>3, <1>4, <3>1, <4>5, <5>1
      <4>7. ASSUME NEW k \in f..i + 1 PROVE ~Ahead(tree, u(k), u(i + 1))
        <5>1. CASE k = i + 1
          BY <1>3, <5>1
        <5>2. CASE k \in f..i
          <6>1. k \in 1..n /\ ~Ahead(tree, u(k), u(i))
            BY <1>1, <3>1, <3>3, <5>2
          <6> QED BY <1>3, <1>4, <3>1, <4>4, <6>1
        <5> QED BY <3>1, <3>3, <5>1, <5>2
      <4>8. f \in 1..i + 1
        BY <3>3
      <4> QED BY <4>1, <4>6, <4>7, <4>8 DEF StandsFrom, u, n
    <3>6. CASE ~visits[i].tied
      <4>1. at[i + 1] = [rank |-> n + 1 - (i + 1), stride |-> (i + 1) - (i + 1)]
        <5>1. (n + 1 - f) - 1 - (i - f) = n + 1 - (i + 1) /\ 0 = (i + 1) - (i + 1)
          BY <1>1, <3>3
        <5> QED BY <3>3, <3>4, <3>6, <5>1 DEF NextRank
      <4>2. Ahead(tree, u(i), u(i + 1))
        <5>1. i < i + 1
          OBVIOUS
        <5> QED BY <1>3, <3>1, <3>6, <5>1
      <4>3. ASSUME NEW k \in 1..i PROVE Ahead(tree, u(k), u(i + 1))
        <5>1. k \in 1..n /\ (k = i \/ k < i)
          BY <1>1, <3>1
        <5>2. ~Ahead(tree, u(i), u(k))
          BY <1>3, <3>1, <5>1
        <5> QED BY <1>3, <1>4, <3>1, <4>2, <5>1, <5>2
      <4>4. i + 1 \in 1..i + 1 /\ 1..(i + 1) - 1 = 1..i /\ \A k \in i + 1..i + 1 : k = i + 1
        OBVIOUS
      <4>5. ~Ahead(tree, u(i + 1), u(i + 1))
        BY <1>3
      <4> QED BY <4>1, <4>3, <4>4, <4>5 DEF StandsFrom, u, n
    <3> QED BY <3>5, <3>6
  <2> QED BY <2>1, <2>2
<1>7. Nat \subseteq G
  <2> HIDE DEF G
  <2> QED BY <1>5, <1>6, NatSetInduction
<1>8. ASSUME NEW i \in 1..n PROVE \E f : StandsFrom(tree, visits, at, i, f)
  <2>1. i \in Nat /\ i \in G
    <3> HIDE DEF G, n
    <3> QED BY <1>1, <1>7
  <2> QED BY <2>1
<1> QED BY <1>8

\* The visits up to i count their associations.
LEMMA VisitsCount ==
  ASSUME NEW m \in Nat, NEW u, \A k, l \in 1..m : u[k] = u[l] => k = l
  PROVE  Cardinality({u[k] : k \in 1..m}) = m
<1> DEFINE S == {u[k] : k \in 1..m}
           f == [k \in 1..m |-> u[k]]
<1>1. f \in Surjection(1..m, S) /\ f \in Injection(1..m, S)
  <2>1. f \in [1..m -> S] /\ \A x \in S : \E k \in 1..m : f[k] = x
    OBVIOUS
  <2>2. \A k, l \in DOMAIN f : f[k] = f[l] => k = l
    OBVIOUS
  <2> HIDE DEF f, S
  <2> QED BY <2>1, <2>2 DEF Surjection, Injection, IsInjective
<1>2. IsFiniteSet(1..m) /\ Cardinality(1..m) = m
  BY FS_Interval
<1> HIDE DEF f, S
<1>3. Cardinality(S) = Cardinality(1..m)
  BY <1>1, <1>2, FS_Surjection
<1> QED BY <1>2, <1>3 DEF S

\* Those who are met in order get the ranks of their standing.
LEMMA OrderlyRanks ==
  ASSUME NEW tree, IsTree(tree), NEW visits, Orderly(tree, visits, Users(tree))
  PROVE  Ranks(visits) = Standing(tree)
<1> DEFINE n == Len(visits)
           at == CHOOSE at : at = [i \in 1..n |-> RankAt(at, visits, i)]
           user == [k \in 1..n |-> visits[k].user]
           position(a) == CHOOSE i \in 1..n : visits[i].user = a
<1>1. visits \in Visits /\ n \in Nat
  BY LenProperties DEF Orderly, Visits
<1>2. at = [i \in 1..n |-> RankAt(at, visits, i)]
  BY <1>1, RanksExist
<1>3. Ranks(visits) = [a \in {visits[i].user : i \in 1..n} |-> at[position(a)].rank]
  BY <1>1 DEF Ranks, Visits, RankAt
<1> HIDE DEF at
<1>4. {visits[i].user : i \in 1..n} = Users(tree)
  BY DEF Orderly
<1>5. \A k, l \in 1..n : user[k] = user[l] => k = l
  BY DEF Orderly
<1>6. Cardinality(Users(tree)) = n
  <2>1. {user[k] : k \in 1..n} = Users(tree)
    BY <1>4
  <2> HIDE DEF user
  <2>2. Cardinality({user[k] : k \in 1..n}) = n
    <3> HIDE DEF n
    <3> QED BY <1>1, <1>5, VisitsCount
  <2> QED BY <2>1, <2>2
<1>7. ASSUME NEW a \in Users(tree)
      PROVE  at[position(a)].rank
             = Cardinality(Users(tree)) - Cardinality({c \in Users(tree) : Ahead(tree, c, a)})
  <2> DEFINE i == position(a)
  <2>1. i \in 1..n /\ visits[i].user = a
    BY DEF Orderly
  <2> HIDE DEF position
  <2>2. PICK f : StandsFrom(tree, visits, at, i, f)
    BY <1>2, <2>1, EachStands
  <2>3. /\ f \in 1..i /\ at[i].rank = n + 1 - f
        /\ \A k \in 1..f - 1 : Ahead(tree, visits[k].user, a)
        /\ \A k \in f..i : ~Ahead(tree, visits[k].user, a)
    BY <2>1, <2>2 DEF StandsFrom
  <2>4. \A k \in 1..n : i < k => ~Ahead(tree, visits[k].user, a)
    BY <2>1 DEF Orderly
  <2>5. {c \in Users(tree) : Ahead(tree, c, a)} = {user[k] : k \in 1..f - 1}
    <3>1. ASSUME NEW c \in Users(tree), Ahead(tree, c, a) PROVE c \in {user[k] : k \in 1..f - 1}
      <4>1. PICK k \in 1..n : visits[k].user = c
        BY <1>4
      <4>2. ~(i < k) /\ ~(k \in f..i)
        BY <2>3, <2>4, <3>1, <4>1
      <4>3. k \in 1..f - 1
        BY <1>1, <2>1, <2>3, <4>1, <4>2
      <4> QED BY <4>1, <4>3
    <3>2. ASSUME NEW k \in 1..f - 1 PROVE user[k] \in Users(tree) /\ Ahead(tree, user[k], a)
      <4>1. k \in 1..n /\ user[k] = visits[k].user
        BY <1>1, <2>1, <2>3
      <4> QED BY <1>4, <2>3, <4>1
    <3> QED BY <3>1, <3>2
  <2>6. f - 1 \in Nat /\ \A k, l \in 1..f - 1 : user[k] = user[l] => k = l
    <3>1. \A k \in 1..f - 1 : k \in 1..n
      BY <1>1, <2>1, <2>3
    <3> HIDE DEF user
    <3> QED BY <1>5, <2>1, <2>3, <3>1
  <2>7. Cardinality({c \in Users(tree) : Ahead(tree, c, a)}) = f - 1
    <3> HIDE DEF user
    <3> QED BY <2>5, <2>6, VisitsCount
  <2>8. n + 1 - f = n - (f - 1)
    BY <1>1, <2>1, <2>3
  <2> QED BY <1>6, <2>3, <2>7, <2>8
<1> HIDE DEF position, user
<1> QED BY <1>3, <1>4, <1>7 DEF Standing

---------------------------------------------------------------------------
(* Visits put together *)

\* The place <<i, j>> in a list of lists comes before <<k, l>>.
Earlier(i, j, k, l) == i < k \/ (i = k /\ j < l)

\* None behind the place <<i, j>> is the same or ahead of it; and some one behind
\* does not differ from it.
FirstInPieces(tree, pieces, i, j) ==
  \A k \in 1..Len(pieces) : \A l \in 1..Len(pieces[k]) :
    Earlier(i, j, k, l) => /\ pieces[i][j].user # pieces[k][l].user
                           /\ ~Ahead(tree, pieces[k][l].user, pieces[i][j].user)
TiesInPieces(tree, pieces, i, j) ==
  \E k \in 1..Len(pieces) : \E l \in 1..Len(pieces[k]) :
    Earlier(i, j, k, l) /\ ~Ahead(tree, pieces[i][j].user, pieces[k][l].user)

\* What pieces must be to be orderly one after the other.
InPieces(tree, pieces, U) ==
  /\ pieces \in Seq(Visits)
  /\ \A i \in 1..Len(pieces) : \A j \in 1..Len(pieces[i]) : pieces[i][j].user \in U
  /\ \A a \in U : \E i \in 1..Len(pieces) : \E j \in 1..Len(pieces[i]) : pieces[i][j].user = a
  /\ \A i \in 1..Len(pieces) : \A j \in 1..Len(pieces[i]) : FirstInPieces(tree, pieces, i, j)
  /\ \A i \in 1..Len(pieces) : \A j \in 1..Len(pieces[i]) :
       pieces[i][j].tied <=> TiesInPieces(tree, pieces, i, j)

LEMMA PieceFacts ==
  ASSUME NEW tree, NEW pieces, NEW U, InPieces(tree, pieces, U),
         NEW i \in 1..Len(pieces), NEW j \in 1..Len(pieces[i])
  PROVE  /\ pieces[i][j].user \in U
         /\ pieces[i][j].tied <=>
              \E k \in 1..Len(pieces) : \E l \in 1..Len(pieces[k]) :
                Earlier(i, j, k, l) /\ ~Ahead(tree, pieces[i][j].user, pieces[k][l].user)
         /\ \A k \in 1..Len(pieces) : \A l \in 1..Len(pieces[k]) :
              Earlier(i, j, k, l) => /\ pieces[i][j].user # pieces[k][l].user
                                     /\ ~Ahead(tree, pieces[k][l].user, pieces[i][j].user)
<1>1. /\ pieces[i][j].user \in U /\ FirstInPieces(tree, pieces, i, j)
      /\ pieces[i][j].tied <=> TiesInPieces(tree, pieces, i, j)
  BY DEF InPieces
<1>2. pieces[i][j].user \in U
  BY <1>1
<1>3. pieces[i][j].tied <=>
        \E k \in 1..Len(pieces) : \E l \in 1..Len(pieces[k]) :
          Earlier(i, j, k, l) /\ ~Ahead(tree, pieces[i][j].user, pieces[k][l].user)
  BY <1>1, Zenon DEF TiesInPieces
<1>4. \A k \in 1..Len(pieces) : \A l \in 1..Len(pieces[k]) :
        Earlier(i, j, k, l) => /\ pieces[i][j].user # pieces[k][l].user
                               /\ ~Ahead(tree, pieces[k][l].user, pieces[i][j].user)
  BY <1>1, Zenon DEF FirstInPieces
<1> QED BY <1>2, <1>3, <1>4

LEMMA FlattenOrderly ==
  ASSUME NEW tree, NEW pieces, NEW U, InPieces(tree, pieces, U)
  PROVE  Orderly(tree, FlattenSeq(pieces), U)
<1> DEFINE v == FlattenSeq(pieces)
           n == Len(pieces)
<1>1. v \in Visits /\ \E row, col : Spread(v, pieces, n, row, col)
  BY Flattening DEF InPieces, Visits
<1>2. PICK row, col : Spread(v, pieces, n, row, col)
  BY <1>1
<1> HIDE DEF v
<1>3. /\ n \in Nat /\ Len(v) \in Nat
      /\ \A i \in 1..n : pieces[i] \in Visits /\ Len(pieces[i]) \in Nat
  BY <1>1, LenProperties, ElementOfSeq DEF InPieces, Visits
<1>4. /\ \A k \in 1..Len(v) : row[k] \in 1..n /\ col[k] \in 1..Len(pieces[row[k]])
                              /\ v[k] = pieces[row[k]][col[k]]
      /\ \A k, l \in 1..Len(v) : k < l => Earlier(row[k], col[k], row[l], col[l])
      /\ \A i \in 1..n : \A j \in 1..Len(pieces[i]) : \E k \in 1..Len(v) : row[k] = i /\ col[k] = j
  BY <1>2 DEF Spread, Earlier
<1>5. \A k, l \in 1..Len(v) : Earlier(row[k], col[k], row[l], col[l]) => k < l
  <2> TAKE k, l \in 1..Len(v)
  <2>1. row[k] \in Int /\ row[l] \in Int /\ col[k] \in Int /\ col[l] \in Int
    BY <1>3, <1>4
  <2>2. l < k => Earlier(row[l], col[l], row[k], col[k])
    BY <1>4
  <2>3. ~(Earlier(row[k], col[k], row[l], col[l]) /\ Earlier(row[l], col[l], row[k], col[k]))
        /\ ~Earlier(row[k], col[k], row[k], col[k])
    BY <2>1 DEF Earlier
  <2>4. k < l \/ k = l \/ l < k
    BY <1>3
  <2> QED BY <2>2, <2>3, <2>4
<1>6. ASSUME NEW k \in 1..Len(v) PROVE v[k].user \in U
  <2>1. row[k] \in 1..n /\ col[k] \in 1..Len(pieces[row[k]]) /\ v[k] = pieces[row[k]][col[k]]
    BY <1>4
  <2>2. pieces[row[k]][col[k]].user \in U
    BY <2>1, PieceFacts
  <2> QED BY <2>1, <2>2
<1>7. ASSUME NEW a \in U PROVE \E k \in 1..Len(v) : v[k].user = a
  <2>1. PICK i \in 1..n : \E j \in 1..Len(pieces[i]) : pieces[i][j].user = a
    BY DEF InPieces
  <2>2. PICK j \in 1..Len(pieces[i]) : pieces[i][j].user = a
    BY <2>1
  <2> HIDE DEF n
  <2>3. PICK k \in 1..Len(v) : row[k] = i /\ col[k] = j
    BY <1>4
  <2>4. v[k] = pieces[i][j]
    BY <1>4, <2>3
  <2> QED BY <2>2, <2>4
<1>8. \A k, l \in 1..Len(v) : k < l => v[k].user # v[l].user /\ ~Ahead(tree, v[l].user, v[k].user)
  <2> TAKE k, l \in 1..Len(v)
  <2> HAVE k < l
  <2>1. row[k] \in 1..n /\ col[k] \in 1..Len(pieces[row[k]]) /\ v[k] = pieces[row[k]][col[k]]
        /\ row[l] \in 1..n /\ col[l] \in 1..Len(pieces[row[l]]) /\ v[l] = pieces[row[l]][col[l]]
        /\ Earlier(row[k], col[k], row[l], col[l])
    BY <1>4
  <2>2. ASSUME NEW i \in 1..n, NEW j \in 1..Len(pieces[i]),
               NEW m \in 1..n, NEW q \in 1..Len(pieces[m]), Earlier(i, j, m, q)
        PROVE  /\ pieces[i][j].user # pieces[m][q].user
               /\ ~Ahead(tree, pieces[m][q].user, pieces[i][j].user)
    BY <2>2, PieceFacts
  <2> QED BY <2>1, <2>2
<1>9. \A k, l \in 1..Len(v) : v[k].user = v[l].user => k = l
  <2> TAKE k, l \in 1..Len(v)
  <2>1. k < l \/ k = l \/ l < k
    BY <1>3
  <2> QED BY <1>8, <2>1
<1>10. ASSUME NEW k \in 1..Len(v)
       PROVE  v[k].tied <=> \E l \in 1..Len(v) : k < l /\ ~Ahead(tree, v[k].user, v[l].user)
  <2> DEFINE i == row[k]
             j == col[k]
  <2>1. i \in 1..n /\ j \in 1..Len(pieces[i]) /\ v[k] = pieces[i][j]
    BY <1>4
  <2>2. v[k].tied <=> \E m \in 1..n : \E q \in 1..Len(pieces[m]) :
                        Earlier(i, j, m, q) /\ ~Ahead(tree, v[k].user, pieces[m][q].user)
    <3>1. pieces[i][j].tied <=>
            \E m \in 1..n : \E q \in 1..Len(pieces[m]) :
              Earlier(i, j, m, q) /\ ~Ahead(tree, pieces[i][j].user, pieces[m][q].user)
      <4> HIDE DEF i, j
      <4> QED BY <2>1, PieceFacts
    <3> HIDE DEF i, j
    <3> QED BY <2>1, <3>1
  <2>3. ASSUME v[k].tied PROVE \E l \in 1..Len(v) : k < l /\ ~Ahead(tree, v[k].user, v[l].user)
    <3>1. PICK m \in 1..n : \E q \in 1..Len(pieces[m]) :
                        Earlier(i, j, m, q) /\ ~Ahead(tree, v[k].user, pieces[m][q].user)
      BY <2>2, <2>3
    <3>2. PICK q \in 1..Len(pieces[m]) :
                        Earlier(i, j, m, q) /\ ~Ahead(tree, v[k].user, pieces[m][q].user)
      BY <3>1
    <3>3. PICK l \in 1..Len(v) : row[l] = m /\ col[l] = q
      BY <1>4
    <3> QED BY <1>4, <1>5, <3>2, <3>3
  <2>4. ASSUME NEW l \in 1..Len(v), k < l, ~Ahead(tree, v[k].user, v[l].user) PROVE v[k].tied
    <3>1. Earlier(i, j, row[l], col[l]) /\ row[l] \in 1..n /\ col[l] \in 1..Len(pieces[row[l]])
          /\ v[l] = pieces[row[l]][col[l]]
      BY <1>4, <2>4
    <3> QED BY <2>2, <2>4, <3>1
  <2>5. v[k].tied \in BOOLEAN
    <3>1. v[k] \in [user : Nodes, tied : BOOLEAN]
      BY <1>1, ElementOfSeq DEF Visits
    <3> QED BY <3>1
  <2> QED BY <2>3, <2>4, <2>5
<1>11. Orderly(tree, v, U)
  BY <1>1, <1>6, <1>7, <1>8, <1>9, <1>10 DEF Orderly
<1> QED BY <1>11 DEF v

---------------------------------------------------------------------------
(* The associations under a node *)

Under(tree, x) == {a \in Users(tree) : \E i \in 1..Len(Path[a]) : Path[a][i] = x}
UnderAll(tree, S) == {a \in Users(tree) : \E x \in S : a \in Under(tree, x)}

LEMMA UnderMeans ==
  ASSUME NEW tree, IsTree(tree), NEW x \in DOMAIN tree, NEW a \in Under(tree, x)
  PROVE  /\ a \in Users(tree) /\ Len(Path[x]) \in 1..Len(Path[a]) /\ Path[a][Len(Path[x])] = x
         /\ \A j \in 1..Len(Path[x]) : Path[a][j] = Path[x][j]
<1>1. a \in Users(tree) /\ a \in Inner
  BY UserPath DEF Under
<1>2. PICK i \in 1..Len(Path[a]) : Path[a][i] = x
  BY DEF Under
<1>3. Len(Path[x]) = i /\ \A j \in 1..i : Path[x][j] = Path[a][j]
  BY <1>1, <1>2, PathFacts
<1> QED BY <1>1, <1>2, <1>3

LEMMA UnderUser ==
  ASSUME NEW tree, IsTree(tree), NEW x \in DOMAIN tree, IsUser(x)
  PROVE  Under(tree, x) = {x}
<1>1. x \in Users(tree)
  BY DEF Users, IsUser
<1>2. x \in Under(tree, x)
  BY <1>1, UserPath DEF Under
<1>3. ASSUME NEW a \in Under(tree, x) PROVE a = x
  <2>1. a \in Users(tree) /\ Len(Path[x]) \in 1..Len(Path[a]) /\ Path[a][Len(Path[x])] = x
    BY UnderMeans
  <2> QED BY <2>1, UserPath
<1> QED BY <1>2, <1>3

LEMMA UnderChildren ==
  ASSUME NEW tree, IsTree(tree), NEW x \in DOMAIN tree, ~IsUser(x)
  PROVE  Under(tree, x) = UnderAll(tree, Children(tree, x))
<1>1. ASSUME NEW a \in Under(tree, x) PROVE a \in UnderAll(tree, Children(tree, x))
  <2> DEFINE k == Len(Path[x])
  <2>1. a \in Users(tree) /\ k \in 1..Len(Path[a]) /\ Path[a][k] = x
    BY UnderMeans
  <2>2. /\ a \in Inner /\ Len(Path[a]) \in Nat /\ k # Len(Path[a])
        /\ \A i \in 1..Len(Path[a]) : Path[a][i] \in DOMAIN tree
    BY <2>1, UserPath
  <2>3. k + 1 \in 1..Len(Path[a]) /\ k + 1 # 1 /\ (k + 1) - 1 = k
    BY <2>1, <2>2
  <2> DEFINE y == Path[a][k + 1]
  <2>4. y \in DOMAIN tree /\ ParentOf(y) = x
    BY <2>1, <2>2, <2>3, PathFacts
  <2>5. y \in Children(tree, x) /\ a \in Under(tree, y)
    BY <2>1, <2>3, <2>4 DEF Children, Under
  <2> QED BY <2>1, <2>5 DEF UnderAll
<1>2. ASSUME NEW a \in UnderAll(tree, Children(tree, x)) PROVE a \in Under(tree, x)
  <2>1. PICK y \in Children(tree, x) : a \in Under(tree, y)
    BY DEF UnderAll
  <2>2. y \in DOMAIN tree /\ ParentOf(y) = x /\ y \in Inner
    BY DEF Children, IsTree
  <2>3. a \in Users(tree) /\ \A j \in 1..Len(Path[y]) : Path[a][j] = Path[y][j]
        /\ Len(Path[y]) \in 1..Len(Path[a])
    BY <2>1, <2>2, UnderMeans
  <2>4. Len(Path[y]) = Len(Path[x]) + 1 /\ Len(Path[x]) \in Nat
        /\ \A j \in 1..Len(Path[x]) : Path[y][j] = Path[x][j]
    BY <2>2, PathOfChild
  <2>5. x \in Inner /\ Len(Path[x]) \in Nat \ {0} /\ Path[x][Len(Path[x])] = x
    BY PathFacts DEF IsTree
  <2> DEFINE k == Len(Path[x])
  <2>6. k \in 1..Len(Path[a]) /\ k \in 1..Len(Path[y]) /\ k \in 1..k
    <3>1. Len(Path[a]) \in Nat
      BY <2>3, UserPath
    <3> QED BY <2>3, <2>4, <2>5, <3>1
  <2>7. Path[a][k] = x
    BY <2>3, <2>4, <2>5, <2>6
  <2> QED BY <2>3, <2>6, <2>7 DEF Under
<1> QED BY <1>1, <1>2

\* The nodes of S are k levels below the root, and the banks above them tie.
IsLevel(tree, k, S) ==
  /\ S \subseteq DOMAIN tree
  /\ \A x \in S : Len(Path[x]) = k
  /\ \A x, y \in S : \A j \in 1..k - 1 : TieIn(tree, Path[x][j], Path[y][j])

\* An association is under one node of a level.
LEMMA UnderOne ==
  ASSUME NEW tree, IsTree(tree), NEW x \in DOMAIN tree, NEW y \in DOMAIN tree,
         Len(Path[x]) = Len(Path[y]), NEW a \in Under(tree, x), a \in Under(tree, y)
  PROVE  x = y
<1>1. Path[a][Len(Path[x])] = x /\ Path[a][Len(Path[y])] = y
  BY UnderMeans
<1> QED BY <1>1

\* Who is under the node that comes first is ahead.
LEMMA AheadOfLevel ==
  ASSUME NEW tree, IsTree(tree), NEW k \in Nat, NEW S, IsLevel(tree, k, S),
         NEW x \in S, NEW y \in S, Before(tree, x, y),
         NEW a \in Under(tree, x), NEW c \in Under(tree, y)
  PROVE  Ahead(tree, a, c) /\ ~Ahead(tree, c, a)
<1>1. /\ x \in DOMAIN tree /\ y \in DOMAIN tree /\ Len(Path[x]) = k /\ Len(Path[y]) = k
      /\ \A j \in 1..k - 1 : TieIn(tree, Path[x][j], Path[y][j])
  BY DEF IsLevel
<1>2. /\ a \in Users(tree) /\ k \in 1..Len(Path[a]) /\ Path[a][k] = x
      /\ \A j \in 1..k : Path[a][j] = Path[x][j]
  BY <1>1, UnderMeans
<1>3. /\ c \in Users(tree) /\ k \in 1..Len(Path[c]) /\ Path[c][k] = y
      /\ \A j \in 1..k : Path[c][j] = Path[y][j]
  BY <1>1, UnderMeans
<1>4. \A j \in 1..k - 1 : TieIn(tree, Path[a][j], Path[c][j])
  <2>1. \A j \in 1..k - 1 : j \in 1..k
    BY <1>2
  <2> QED BY <1>1, <1>2, <1>3, <2>1
<1>5. Ahead(tree, a, c)
  BY <1>2, <1>3, <1>4, AheadMeans
<1>6. ASSUME Ahead(tree, c, a) PROVE FALSE
  <2>1. PICK i \in 1..Len(Path[c]) : /\ i \in 1..Len(Path[a]) /\ Before(tree, Path[c][i], Path[a][i])
                                     /\ \A j \in 1..i - 1 : TieIn(tree, Path[c][j], Path[a][j])
    BY <1>2, <1>3, <1>6, AheadMeans
  <2>2. Len(Path[c]) \in Nat /\ Len(Path[a]) \in Nat
    BY <1>2, <1>3, UserPath
  <2>3. CASE i < k
    <3>1. i \in 1..k - 1 /\ i # Len(Path[c]) /\ i # Len(Path[a])
      BY <1>2, <1>3, <2>1, <2>2, <2>3
    <3>2. TieIn(tree, Path[a][i], Path[c][i])
      BY <1>4, <3>1
    <3>3. /\ Path[a][i] \in DOMAIN tree /\ Path[c][i] \in DOMAIN tree
          /\ ~IsUser(Path[a][i]) /\ ~IsUser(Path[c][i])
      BY <1>2, <1>3, <2>1, <3>1, UserPath
    <3>4. ~Before(tree, Path[c][i], Path[a][i])
      BY <3>2, <3>3, BeforeFacts DEF Alike, IsUser
    <3> QED BY <2>1, <3>4
  <2>4. CASE i = k
    BY <1>1, <1>2, <1>3, <2>1, <2>4, BeforeFacts
  <2>5. CASE k < i
    <3>1. k \in 1..i - 1 /\ k # Len(Path[c]) /\ k # Len(Path[a])
      BY <2>1, <2>2, <2>5, <1>2, <1>3
    <3>2. TieIn(tree, y, x)
      BY <1>2, <1>3, <2>1, <3>1
    <3>3. ~IsUser(x) /\ ~IsUser(y)
      BY <1>2, <1>3, <3>1, UserPath
    <3>4. Alike(tree, y, x)
      BY <1>1, <3>2, <3>3, BeforeFacts DEF IsUser
    <3> QED BY <3>4 DEF Alike
  <2> QED BY <1>2, <2>1, <2>2, <2>3, <2>4, <2>5
<1> QED BY <1>5, <1>6

\* Associations of one level that are alike do not come one before the other.
LEMMA AlikeNotAhead ==
  ASSUME NEW tree, IsTree(tree), NEW k \in Nat, NEW S, IsLevel(tree, k, S),
         NEW x \in S, NEW y \in S, IsUser(x), IsUser(y), Alike(tree, x, y)
  PROVE  ~Ahead(tree, x, y)
<1>1. /\ x \in Users(tree) /\ y \in Users(tree) /\ Len(Path[x]) = k /\ Len(Path[y]) = k
      /\ \A j \in 1..k - 1 : TieIn(tree, Path[x][j], Path[y][j])
  BY DEF IsLevel, Users, IsUser
<1>2. Path[x][k] = x /\ Path[y][k] = y
  BY <1>1, UserPath
<1>3. ASSUME NEW i \in 1..k PROVE ~Before(tree, Path[x][i], Path[y][i])
  <2>1. CASE i = k
    BY <1>2, <2>1 DEF Alike
  <2>2. CASE i # k
    <3>1. i \in 1..k - 1
      BY <2>2
    <3>2. /\ Path[x][i] \in DOMAIN tree /\ Path[y][i] \in DOMAIN tree
          /\ ~IsUser(Path[x][i]) /\ ~IsUser(Path[y][i])
      BY <1>1, <1>3, <2>2, UserPath
    <3>3. Alike(tree, Path[x][i], Path[y][i])
      BY <1>1, <3>1, <3>2, BeforeFacts DEF IsUser
    <3> QED BY <3>3 DEF Alike
  <2> QED BY <2>1, <2>2
<1> QED BY <1>1, <1>3, AheadMeans

\* The children of banks of a level that tie are a level.
LEMMA NextLevel ==
  ASSUME NEW tree, IsTree(tree), NEW k \in Nat, NEW S, IsLevel(tree, k, S),
         NEW T, T \subseteq S, \A x, y \in T : TieIn(tree, x, y)
  PROVE  IsLevel(tree, k + 1, UNION {Children(tree, x) : x \in T})
<1> DEFINE U == UNION {Children(tree, x) : x \in T}
<1>1. ASSUME NEW m \in U
      PROVE  /\ m \in DOMAIN tree /\ ParentOf(m) \in T /\ ParentOf(m) \in Inner
             /\ Len(Path[m]) = k + 1
             /\ \A i \in 1..k : Path[m][i] = Path[ParentOf(m)][i]
             /\ k > 0 => Path[m][k] = ParentOf(m)
  <2>1. m \in DOMAIN tree /\ ParentOf(m) \in T /\ m \in Inner
    BY DEF Children, IsTree
  <2>2. Len(Path[ParentOf(m)]) = k /\ ParentOf(m) \in Inner
    BY <2>1 DEF IsLevel, IsTree
  <2>3. Len(Path[m]) = k + 1 /\ \A i \in 1..k : Path[m][i] = Path[ParentOf(m)][i]
    BY <2>1, <2>2, PathOfChild
  <2>4. Path[ParentOf(m)][k] = ParentOf(m)
    BY <2>2, PathFacts
  <2>5. k > 0 => k \in 1..k
    OBVIOUS
  <2> QED BY <2>1, <2>2, <2>3, <2>4, <2>5
<1>2. ASSUME NEW m \in U, NEW n \in U, NEW j \in 1..(k + 1) - 1
      PROVE  TieIn(tree, Path[m][j], Path[n][j])
  <2>1. j \in 1..k /\ (j = k \/ j \in 1..k - 1) /\ k > 0
    BY <1>2
  <2>2. CASE j = k
    BY <1>1, <2>1, <2>2
  <2>3. CASE j \in 1..k - 1
    <3>1. TieIn(tree, Path[ParentOf(m)][j], Path[ParentOf(n)][j])
      BY <1>1, <2>3 DEF IsLevel
    <3> QED BY <1>1, <2>1, <3>1
  <2> QED BY <2>1, <2>2, <2>3
<1> HIDE DEF U
<1>3. IsLevel(tree, k + 1, U)
  BY <1>1, <1>2 DEF IsLevel
<1> QED BY <1>3 DEF U

---------------------------------------------------------------------------
(* Rows of nodes that tie *)

\* The row that ends with the i-th begins with the first-th.
RowBegins(tree, list, i, first) ==
  /\ first \in 1..i
  /\ \A j \in first..i - 1 : TiedWithNext(tree, list, j)
  /\ \A k \in 1..i : (\A j \in k..i - 1 : TiedWithNext(tree, list, j)) => first <= k
  /\ Row(tree, list, i) = SubSeq(list, first, i)

LEMMA RowExists ==
  ASSUME NEW tree, NEW list, NEW i \in Nat \ {0}
  PROVE  \E first \in Nat : RowBegins(tree, list, i, first)
<1> DEFINE Joins(k) == \A j \in k..i - 1 : TiedWithNext(tree, list, j)
           M == {k \in 1..i : Joins(k)}
<1>1. i \in M
  BY DEF TiedWithNext
<1>2. M \subseteq Nat /\ M # {}
  BY <1>1
<1> HIDE DEF Joins
<1>3. \E m \in M : \A k \in M : m <= k
  <2> HIDE DEF M
  <2> QED BY <1>2, Least
<1>4. Min(M) \in M /\ \A k \in M : Min(M) <= k
  <2> HIDE DEF M
  <2> QED BY <1>3 DEF Min
<1>5. Row(tree, list, i) = SubSeq(list, Min(M), i)
  BY DEF Row, Joins
<1> HIDE DEF M
<1>6. Min(M) \in 1..i /\ Min(M) \in Nat /\ Joins(Min(M))
  BY <1>4 DEF M
<1>7. \A k \in 1..i : Joins(k) => Min(M) <= k
  BY <1>4 DEF M
<1> QED BY <1>5, <1>6, <1>7 DEF RowBegins, Joins

LEMMA RowRange ==
  ASSUME NEW tree, NEW list \in Seq(Nodes), NEW i \in 1..Len(list),
         NEW first \in Nat, RowBegins(tree, list, i, first)
  PROVE  /\ \A x \in Range(Row(tree, list, i)) : \E p \in first..i : x = list[p]
         /\ \A p \in first..i : list[p] \in Range(Row(tree, list, i))
<1> DEFINE row == SubSeq(list, first, i)
<1>1. first \in 1..i /\ Row(tree, list, i) = row /\ Len(list) \in Nat
  BY LenProperties DEF RowBegins
<1>2. first \in Nat /\ i \in Nat /\ first >= 1 /\ first <= i /\ i <= Len(list)
  BY <1>1
<1>3. /\ row \in Seq(Nodes) /\ Len(row) = i - first + 1
      /\ \A j \in 1..i - first + 1 : row[j] = list[first + j - 1]
  <2>1. first \in 1..Len(list) + 1 /\ i \in first - 1..Len(list)
    BY <1>1, <1>2
  <2> QED BY <1>2, <2>1, SubSeqProperties
<1> HIDE DEF row
<1>4. DOMAIN row = 1..i - first + 1
  BY <1>3, LenProperties
<1>5. \A p \in first..i : p - first + 1 \in 1..i - first + 1 /\ first + (p - first + 1) - 1 = p
  BY <1>2
<1>6. \A j \in 1..i - first + 1 : first + j - 1 \in first..i
  BY <1>2
<1>7. ASSUME NEW x \in Range(row) PROVE \E p \in first..i : x = list[p]
  <2>1. PICK j \in 1..i - first + 1 : x = row[j]
    BY <1>4 DEF Range
  <2> QED BY <1>3, <1>6, <2>1
<1>8. ASSUME NEW p \in first..i PROVE list[p] \in Range(row)
  <2>1. row[p - first + 1] = list[p] /\ p - first + 1 \in DOMAIN row
    BY <1>3, <1>4, <1>5
  <2> QED BY <2>1 DEF Range
<1> QED BY <1>1, <1>7, <1>8

LEMMA RowFrom ==
  ASSUME NEW tree, NEW list \in Seq(Nodes), NEW i \in 1..Len(list),
         NEW first \in Nat, RowBegins(tree, list, i, first), NEW x \in Range(Row(tree, list, i))
  PROVE  \E p \in first..i : x = list[p]
<1>1. (\A y \in Range(Row(tree, list, i)) : \E p \in first..i : y = list[p])
      /\ \A p \in first..i : list[p] \in Range(Row(tree, list, i))
  BY RowRange, Zenon
<1> QED BY <1>1, Zenon

\* Neighbours that tie one by one are all alike.
LEMMA TiesInARow ==
  ASSUME NEW tree, IsTree(tree), NEW list \in Seq(DOMAIN tree),
         NEW p \in 1..Len(list), NEW q \in p..Len(list),
         \A j \in p..q - 1 : TiedWithNext(tree, list, j)
  PROVE  TieIn(tree, list[p], list[q]) /\ IsUser(list[p]) = IsUser(list[q])
<1>1. Len(list) \in Nat /\ \A j \in 1..Len(list) : list[j] \in DOMAIN tree
  BY LenProperties, ElementOfSeq
<1> DEFINE Like(j) == TieIn(tree, list[p], list[j]) /\ (IsUser(list[p]) <=> IsUser(list[j]))
           G == {n \in Nat : p + n <= q => Like(p + n)}
<1>2. 0 \in G
  <2>1. TieIn(tree, list[p], list[p])
    BY <1>1, BeforeFacts DEF TieIn, Ties
  <2> QED BY <2>1
<1>3. ASSUME NEW n \in G PROVE n + 1 \in G
  <2>1. n \in Nat /\ n + 1 \in Nat
    OBVIOUS
  <2>2. ASSUME p + (n + 1) <= q PROVE Like(p + (n + 1))
    <3>1. p + n <= q /\ p + n \in p..q - 1 /\ p + n \in 1..Len(list) /\ p + (n + 1) = (p + n) + 1
          /\ (p + n) + 1 \in 1..Len(list)
      BY <1>1, <2>1, <2>2
    <3>2. Like(p + n)
      BY <2>1, <3>1
    <3>3. TiedWithNext(tree, list, p + n)
      BY <3>1
    <3>4. TieIn(tree, list[p + n], list[(p + n) + 1])
          /\ (IsUser(list[p + n]) <=> IsUser(list[(p + n) + 1]))
      BY <3>3 DEF TiedWithNext
    <3>5. TieIn(tree, list[p], list[(p + n) + 1])
      BY <1>1, <3>1, <3>2, <3>4, TiesTransitive
    <3> QED BY <3>1, <3>2, <3>4, <3>5
  <2> HIDE DEF Like
  <2> QED BY <2>1, <2>2
<1>4. \A n \in Nat : n \in G
  <2> HIDE DEF G
  <2> QED BY <1>2, <1>3, NatSetInduction
<1>5. q - p \in Nat /\ p + (q - p) = q
  BY <1>1
<1>6. Like(q)
  <2> HIDE DEF Like
  <2> QED BY <1>4, <1>5
<1> QED BY <1>6 DEF IsUser

\* Between two that are alike, a list that is in order has only ties.
LEMMA TiesBetween ==
  ASSUME NEW tree, IsTree(tree), NEW list \in Seq(DOMAIN tree),
         \A i, j \in 1..Len(list) : i < j => ~Before(tree, list[j], list[i]),
         NEW p \in 1..Len(list), NEW q \in 1..Len(list), Alike(tree, list[p], list[q]),
         NEW i \in p..q - 1
  PROVE  TiedWithNext(tree, list, i)
<1>1. Len(list) \in Nat /\ \A j \in 1..Len(list) : list[j] \in DOMAIN tree
  BY LenProperties, ElementOfSeq
<1>2. i \in Nat /\ i \in 1..Len(list) /\ i + 1 \in 1..Len(list) /\ i < Len(list)
      /\ p <= i /\ i + 1 <= q /\ i < i + 1
  BY <1>1
<1>3. \A x \in DOMAIN tree : ~Before(tree, x, x)
  BY BeforeFacts
<1>4. ~Before(tree, list[i], list[p])
  <2>1. p = i \/ p < i
    BY <1>2
  <2> QED BY <1>1, <1>2, <1>3, <2>1
<1>5. ~Before(tree, list[q], list[i + 1])
  <2>1. i + 1 = q \/ i + 1 < q
    BY <1>2
  <2> QED BY <1>1, <1>2, <1>3, <2>1
<1>6. ~Before(tree, list[p], list[q])
  BY DEF Alike
<1>7. ~Before(tree, list[i], list[q])
  BY <1>1, <1>2, <1>4, <1>6, NotBeforeTransitive
<1>8. ~Before(tree, list[i], list[i + 1])
  BY <1>1, <1>2, <1>5, <1>7, NotBeforeTransitive
<1>9. ~Before(tree, list[i + 1], list[i])
  BY <1>2
<1>10. Alike(tree, list[i], list[i + 1])
  BY <1>8, <1>9 DEF Alike
<1> QED BY <1>1, <1>2, <1>10, BeforeFacts DEF TiedWithNext

---------------------------------------------------------------------------
(* The pieces of the walk of a level *)

\* list holds a level in order.
IsLevelList(tree, k, S, list) ==
  /\ IsLevel(tree, k, S) /\ Lists(list, S)
  /\ \A i, j \in 1..Len(list) : i < j => ~Before(tree, list[j], list[i])

\* What is visited for the i-th of list.
IsPiece(tree, list, i, piece) ==
  /\ piece \in Visits
  /\ IsUser(list[i]) => piece = <<[user |-> list[i], tied |-> TiedWithNext(tree, list, i)]>>
  /\ ~IsUser(list[i]) /\ TiedWithNext(tree, list, i) => piece = <<>>
  /\ ~IsUser(list[i]) /\ ~TiedWithNext(tree, list, i) =>
       Orderly(tree, piece, UnderAll(tree, Range(Row(tree, list, i))))

LEMMA LevelListFacts ==
  ASSUME NEW tree, IsTree(tree), NEW k, NEW S, NEW list, IsLevelList(tree, k, S, list)
  PROVE  /\ list \in Seq(DOMAIN tree) /\ list \in Seq(Nodes) /\ Len(list) \in Nat
         /\ \A i \in 1..Len(list) : list[i] \in S /\ list[i] \in DOMAIN tree
         /\ \A i, j \in 1..Len(list) : list[i] = list[j] => i = j
<1>1. list \in Seq(S) /\ S \subseteq DOMAIN tree
  BY DEF IsLevelList, Lists, IsLevel
<1>2. Len(list) \in Nat /\ \A i \in 1..Len(list) : list[i] \in S
  BY <1>1, LenProperties, ElementOfSeq
<1>3. DOMAIN tree \subseteq Nodes
  BY DEF IsTree, Inner
<1>4. list \in Seq(DOMAIN tree) /\ list \in Seq(Nodes)
  BY <1>1, <1>2, <1>3
<1> QED BY <1>1, <1>2, <1>4 DEF IsLevelList, Lists

\* The associations of a piece are under one of the row it ends.
LEMMA PieceIsBelow ==
  ASSUME NEW tree, IsTree(tree), NEW k, NEW S, NEW list, IsLevelList(tree, k, S, list),
         NEW i \in 1..Len(list), NEW piece, IsPiece(tree, list, i, piece),
         NEW j \in 1..Len(piece)
  PROVE  /\ \E p \in 1..i : /\ \A t \in p..i - 1 : TiedWithNext(tree, list, t)
                            /\ piece[j].user \in Under(tree, list[p])
         /\ IsUser(list[i]) => /\ piece[j].user = list[i] /\ j = 1
                               /\ piece[j].tied = TiedWithNext(tree, list, i)
         /\ ~IsUser(list[i]) => ~TiedWithNext(tree, list, i)
<1>1. /\ list \in Seq(DOMAIN tree) /\ Len(list) \in Nat
      /\ \A m \in 1..Len(list) : list[m] \in DOMAIN tree
  BY LevelListFacts
<1>2. CASE IsUser(list[i])
  <2> DEFINE visit == [user |-> list[i], tied |-> TiedWithNext(tree, list, i)]
  <2>1. piece = <<visit>>
    BY <1>2 DEF IsPiece
  <2> HIDE DEF visit
  <2>2. j = 1 /\ piece[j] = visit
    BY <2>1
  <2>3. Under(tree, list[i]) = {list[i]}
    BY <1>1, <1>2, UnderUser
  <2>4. piece[j].user = list[i] /\ piece[j].tied = TiedWithNext(tree, list, i)
    BY <2>2 DEF visit
  <2>5. i \in 1..i /\ \A t \in i..i - 1 : TiedWithNext(tree, list, t)
    BY <1>1
  <2> QED BY <1>2, <2>2, <2>3, <2>4, <2>5
<1>3. CASE ~IsUser(list[i])
  <2>1. ~TiedWithNext(tree, list, i)
    <3>1. piece # <<>>
      OBVIOUS
    <3> QED BY <1>3, <3>1 DEF IsPiece
  <2>2. Orderly(tree, piece, UnderAll(tree, Range(Row(tree, list, i))))
    BY <1>3, <2>1 DEF IsPiece
  <2>3. piece[j].user \in UnderAll(tree, Range(Row(tree, list, i)))
    BY <2>2 DEF Orderly
  <2>4. i \in Nat \ {0}
    BY <1>1
  <2>5. PICK first \in Nat : RowBegins(tree, list, i, first)
    BY <2>4, RowExists
  <2>6. \A x \in Range(Row(tree, list, i)) : \E p \in first..i : x = list[p]
    <3>1. list \in Seq(Nodes)
      BY LevelListFacts
    <3> QED BY <2>5, <3>1, RowFrom
  <2>7. PICK x \in Range(Row(tree, list, i)) : piece[j].user \in Under(tree, x)
    BY <2>3 DEF UnderAll
  <2>8. PICK p \in first..i : x = list[p]
    BY <2>6, <2>7
  <2>9. p \in 1..i /\ \A t \in p..i - 1 : TiedWithNext(tree, list, t)
    <3>1. first \in 1..i /\ \A t \in first..i - 1 : TiedWithNext(tree, list, t)
      BY <2>5 DEF RowBegins
    <3>2. \A t \in p..i - 1 : t \in first..i - 1
      BY <2>4, <2>8, <3>1
    <3> QED BY <2>4, <2>8, <3>1, <3>2
  <2> QED BY <1>3, <2>1, <2>7, <2>8, <2>9
<1> QED BY <1>2, <1>3

LEMMA CrossPieces ==
  ASSUME NEW tree, IsTree(tree), NEW k \in Nat, NEW S, NEW list, IsLevelList(tree, k, S, list),
         NEW i \in 1..Len(list), NEW piece, IsPiece(tree, list, i, piece), NEW j \in 1..Len(piece),
         NEW m \in 1..Len(list), NEW later, IsPiece(tree, list, m, later), NEW l \in 1..Len(later),
         i < m
  PROVE  /\ piece[j].user # later[l].user
         /\ ~Ahead(tree, later[l].user, piece[j].user)
         /\ ~Ahead(tree, piece[j].user, later[l].user) =>
              IsUser(list[i]) /\ TiedWithNext(tree, list, i)
<1> DEFINE a == piece[j].user
           c == later[l].user
<1>1. /\ list \in Seq(DOMAIN tree) /\ Len(list) \in Nat
      /\ \A p \in 1..Len(list) : list[p] \in S /\ list[p] \in DOMAIN tree
      /\ \A p, q \in 1..Len(list) : list[p] = list[q] => p = q
  BY LevelListFacts
<1>2. /\ \E p \in 1..i : a \in Under(tree, list[p]) /\ \A t \in p..i - 1 : TiedWithNext(tree, list, t)
      /\ IsUser(list[i]) => a = list[i]
      /\ ~IsUser(list[i]) => ~TiedWithNext(tree, list, i)
  BY PieceIsBelow
<1>3. /\ \E q \in 1..m : c \in Under(tree, list[q]) /\ \A t \in q..m - 1 : TiedWithNext(tree, list, t)
      /\ IsUser(list[m]) => c = list[m]
  BY PieceIsBelow
<1>4. PICK p \in 1..i : a \in Under(tree, list[p]) /\ \A t \in p..i - 1 : TiedWithNext(tree, list, t)
  BY <1>2
<1>5. PICK q \in 1..m : c \in Under(tree, list[q]) /\ \A t \in q..m - 1 : TiedWithNext(tree, list, t)
  BY <1>3
<1> HIDE DEF a, c
<1>6. i \in Nat /\ m \in Nat /\ p \in 1..Len(list) /\ q \in 1..Len(list) /\ p <= i
  BY <1>1
<1>7. i < q
  <2> SUFFICES ASSUME q <= i PROVE FALSE
    BY <1>6
  <2>1. i \in q..m - 1 /\ i \in q..Len(list) /\ m \in i..Len(list) /\ \A t \in i..m - 1 : t \in q..m - 1
    BY <1>6
  <2>2. TiedWithNext(tree, list, i) /\ \A t \in i..m - 1 : TiedWithNext(tree, list, t)
    BY <1>5, <2>1
  <2>3. IsUser(list[i])
    BY <1>2, <2>2
  <2>4. IsUser(list[i]) = IsUser(list[m])
    BY <1>1, <2>1, <2>2, TiesInARow
  <2>5. c = list[m] /\ IsUser(list[m])
    BY <1>3, <2>3, <2>4 DEF IsUser
  <2>6. Under(tree, list[m]) = {list[m]}
    BY <1>1, <2>5, UnderUser
  <2>7. /\ Len(Path[list[m]]) = Len(Path[list[q]]) /\ c \in Under(tree, list[m])
        /\ list[m] \in DOMAIN tree /\ list[q] \in DOMAIN tree
    <3>1. IsLevel(tree, k, S)
      BY DEF IsLevelList
    <3> QED BY <1>1, <1>6, <2>5, <2>6, <3>1 DEF IsLevel
  <2>8. list[m] = list[q]
    BY <1>5, <2>7, UnderOne
  <2>9. m \in 1..Len(list) /\ q < m
    BY <1>6
  <2>10. m = q
    BY <1>1, <1>6, <2>8, <2>9
  <2> QED BY <1>6, <2>9, <2>10
<1>8. p < q /\ p # q
  BY <1>6, <1>7
<1>9. IsLevel(tree, k, S) /\ list[p] \in S /\ list[q] \in S
      /\ list[p] \in DOMAIN tree /\ list[q] \in DOMAIN tree
  BY <1>1, <1>6 DEF IsLevelList
<1>10. a # c
  <2>1. Len(Path[list[p]]) = Len(Path[list[q]])
    BY <1>9 DEF IsLevel
  <2>2. a = c => list[p] = list[q]
    BY <1>4, <1>5, <1>9, <2>1, UnderOne
  <2> QED BY <1>1, <1>6, <1>8, <2>2
<1>11. CASE Before(tree, list[p], list[q])
  <2>1. Ahead(tree, a, c) /\ ~Ahead(tree, c, a)
    BY <1>4, <1>5, <1>9, <1>11, AheadOfLevel
  <2> QED BY <1>10, <2>1 DEF a, c
<1>12. CASE ~Before(tree, list[p], list[q])
  <2>1. Alike(tree, list[p], list[q])
    BY <1>6, <1>8, <1>12 DEF Alike, IsLevelList
  <2>2. i \in p..q - 1
    BY <1>6, <1>7
  <2>3. TiedWithNext(tree, list, i)
    BY <1>1, <1>6, <2>1, <2>2, TiesBetween DEF IsLevelList
  <2>4. IsUser(list[i]) /\ a = list[i]
    BY <1>2, <2>3
  <2>5. IsUser(list[p])
    <3>1. i \in p..Len(list)
      BY <1>6
    <3>2. IsUser(list[p]) = IsUser(list[i])
      BY <1>1, <1>4, <1>6, <3>1, TiesInARow
    <3> QED BY <2>4, <3>2 DEF IsUser
  <2>6. IsUser(list[q])
    <3>1. IsUser(list[p]) = IsUser(list[q])
      BY <1>9, <2>1, BeforeFacts
    <3> QED BY <2>5, <3>1 DEF IsUser
  <2>7. a = list[p] /\ c = list[q]
    <3>1. Under(tree, list[p]) = {list[p]} /\ Under(tree, list[q]) = {list[q]}
      BY <1>9, <2>5, <2>6, UnderUser
    <3> QED BY <1>4, <1>5, <3>1
  <2>8. Alike(tree, list[q], list[p])
    BY <2>1 DEF Alike
  <2>9. ~Ahead(tree, c, a)
    BY <1>9, <2>5, <2>6, <2>7, <2>8, AlikeNotAhead
  <2> QED BY <1>10, <2>3, <2>4, <2>9 DEF a, c
<1> QED BY <1>11, <1>12

\* Everybody under a level is in the pieces of its list.
LEMMA PiecesCover ==
  ASSUME NEW tree, IsTree(tree), NEW k \in Nat, NEW S, NEW list, IsLevelList(tree, k, S, list),
         NEW pieces, \A i \in 1..Len(list) : IsPiece(tree, list, i, pieces[i]),
         NEW a \in UnderAll(tree, S)
  PROVE  \E i \in 1..Len(list) : \E j \in 1..Len(pieces[i]) : pieces[i][j].user = a
<1>1. /\ list \in Seq(DOMAIN tree) /\ list \in Seq(Nodes) /\ Len(list) \in Nat
      /\ \A p \in 1..Len(list) : list[p] \in S /\ list[p] \in DOMAIN tree
  BY LevelListFacts
<1>2. PICK p \in 1..Len(list) : a \in Under(tree, list[p])
  <2>1. PICK x \in S : a \in Under(tree, x)
    BY DEF UnderAll
  <2> QED BY <2>1 DEF IsLevelList, Lists
<1>3. CASE IsUser(list[p])
  <2> DEFINE visit == [user |-> list[p], tied |-> TiedWithNext(tree, list, p)]
  <2>1. pieces[p] = <<visit>>
    BY <1>3 DEF IsPiece
  <2>2. visit.user = a
    <3>1. Under(tree, list[p]) = {list[p]}
      BY <1>1, <1>3, UnderUser
    <3> QED BY <1>2, <3>1
  <2> HIDE DEF visit
  <2>3. 1 \in 1..Len(pieces[p]) /\ pieces[p][1].user = a
    BY <2>1, <2>2
  <2> QED BY <2>3
<1>4. CASE ~IsUser(list[p])
  <2> DEFINE E == {i \in p..Len(list) : ~TiedWithNext(tree, list, i)}
  <2>1. Len(list) \in E
    BY <1>1 DEF TiedWithNext
  <2>2. E \subseteq Nat /\ E # {}
    BY <1>1, <2>1
  <2>3. PICK i \in E : \A m \in E : i <= m
    <3> HIDE DEF E
    <3> QED BY <2>2, Least
  <2>4. i \in p..Len(list) /\ i \in 1..Len(list) /\ i \in Nat \ {0} /\ ~TiedWithNext(tree, list, i)
    BY <1>1, <2>3
  <2>5. \A t \in p..i - 1 : TiedWithNext(tree, list, t)
    <3> TAKE t \in p..i - 1
    <3>1. t \in p..Len(list) /\ ~(i <= t)
      BY <1>1, <2>4
    <3> QED BY <2>3, <3>1
  <2>6. ~IsUser(list[i])
    <3>1. IsUser(list[p]) = IsUser(list[i])
      BY <1>1, <2>4, <2>5, TiesInARow
    <3> QED BY <1>4, <3>1 DEF IsUser
  <2>7. Orderly(tree, pieces[i], UnderAll(tree, Range(Row(tree, list, i))))
    BY <2>4, <2>6 DEF IsPiece
  <2>8. PICK first \in Nat : RowBegins(tree, list, i, first)
    BY <2>4, RowExists
  <2>9. p \in first..i
    <3>1. p \in 1..i
      BY <1>1, <2>4
    <3>2. first <= p
      BY <2>5, <2>8, <3>1 DEF RowBegins
    <3> QED BY <2>4, <3>1, <3>2
  <2>10. list[p] \in Range(Row(tree, list, i))
    BY <1>1, <2>4, <2>8, <2>9, RowRange
  <2>11. a \in UnderAll(tree, Range(Row(tree, list, i)))
    BY <1>2, <2>10 DEF UnderAll, Under
  <2>12. \E j \in 1..Len(pieces[i]) : pieces[i][j].user = a
    BY <2>7, <2>11 DEF Orderly
  <2> QED BY <2>4, <2>12
<1> QED BY <1>3, <1>4

\* A mark says what it should of those who come later in any piece.
LEMMA PiecesMark ==
  ASSUME NEW tree, IsTree(tree), NEW k \in Nat, NEW S, NEW list, IsLevelList(tree, k, S, list),
         NEW pieces, \A i \in 1..Len(list) : IsPiece(tree, list, i, pieces[i]),
         NEW i \in 1..Len(list), NEW j \in 1..Len(pieces[i])
  PROVE  pieces[i][j].tied <=>
           \E m \in 1..Len(list) : \E l \in 1..Len(pieces[m]) :
             Earlier(i, j, m, l) /\ ~Ahead(tree, pieces[i][j].user, pieces[m][l].user)
<1> DEFINE v == pieces[i][j]
           Later == \E m \in 1..Len(list) : \E l \in 1..Len(pieces[m]) :
                      Earlier(i, j, m, l) /\ ~Ahead(tree, v.user, pieces[m][l].user)
<1>1. /\ list \in Seq(DOMAIN tree) /\ Len(list) \in Nat
      /\ \A p \in 1..Len(list) : list[p] \in S /\ list[p] \in DOMAIN tree
  BY LevelListFacts
<1>2. IsPiece(tree, list, i, pieces[i])
  OBVIOUS
<1>3. ASSUME NEW m \in 1..Len(list), i < m, NEW l \in 1..Len(pieces[m]),
             ~Ahead(tree, v.user, pieces[m][l].user)
      PROVE  IsUser(list[i]) /\ TiedWithNext(tree, list, i)
  <2>1. IsPiece(tree, list, m, pieces[m])
    OBVIOUS
  <2> QED BY <1>2, <1>3, <2>1, CrossPieces
<1>4. CASE IsUser(list[i])
  <2>1. v.user = list[i] /\ j = 1 /\ v.tied = TiedWithNext(tree, list, i)
    BY <1>2, <1>4, PieceIsBelow
  <2>2. Len(pieces[i]) = 1
    <3> DEFINE visit == [user |-> list[i], tied |-> TiedWithNext(tree, list, i)]
    <3>1. pieces[i] = <<visit>>
      BY <1>2, <1>4 DEF IsPiece
    <3> HIDE DEF visit
    <3> QED BY <3>1
  <2>3. ASSUME Later PROVE TiedWithNext(tree, list, i)
    <3>1. PICK m \in 1..Len(list) : \E l \in 1..Len(pieces[m]) :
                      Earlier(i, j, m, l) /\ ~Ahead(tree, v.user, pieces[m][l].user)
      BY <2>3
    <3>2. PICK l \in 1..Len(pieces[m]) :
                      Earlier(i, j, m, l) /\ ~Ahead(tree, v.user, pieces[m][l].user)
      BY <3>1
    <3>3. i < m
      <4>1. i = m => l = 1
        BY <2>2
      <4> QED BY <2>1, <3>2, <4>1 DEF Earlier
    <3> QED BY <1>3, <3>2, <3>3
  <2>4. ASSUME TiedWithNext(tree, list, i) PROVE Later
    <3>1. i + 1 \in 1..Len(list) /\ i < i + 1
      BY <1>1, <2>4 DEF TiedWithNext
    <3>2. TieIn(tree, list[i], list[i + 1]) /\ IsUser(list[i]) = IsUser(list[i + 1])
      BY <2>4 DEF TiedWithNext
    <3>3. IsUser(list[i + 1])
      BY <1>4, <3>2 DEF IsUser
    <3>4. Alike(tree, list[i], list[i + 1])
      BY <1>1, <3>1, <3>2, BeforeFacts
    <3>5. ~Ahead(tree, list[i], list[i + 1])
      BY <1>1, <1>4, <3>1, <3>3, <3>4, AlikeNotAhead DEF IsLevelList
    <3>6. IsPiece(tree, list, i + 1, pieces[i + 1])
      BY <3>1
    <3>7. pieces[i + 1] = <<[user |-> list[i + 1], tied |-> TiedWithNext(tree, list, i + 1)]>>
      BY <3>3, <3>6 DEF IsPiece
    <3>8. 1 \in 1..Len(pieces[i + 1]) /\ pieces[i + 1][1].user = list[i + 1]
      BY <3>7
    <3> QED BY <2>1, <3>1, <3>5, <3>8 DEF Earlier
  <2>5. v.tied \in BOOLEAN
    BY <2>1 DEF TiedWithNext
  <2> HIDE DEF v, Later
  <2>6. v.tied <=> Later
    <3>1. v.tied => TiedWithNext(tree, list, i)
      BY <2>1
    <3>2. TiedWithNext(tree, list, i) => v.tied
      BY <2>1
    <3> QED BY <2>3, <2>4, <2>5, <3>1, <3>2
  <2> QED BY <2>6 DEF v, Later
<1>5. CASE ~IsUser(list[i])
  <2>1. ~TiedWithNext(tree, list, i)
    BY <1>2, <1>5, PieceIsBelow
  <2>2. Orderly(tree, pieces[i], UnderAll(tree, Range(Row(tree, list, i))))
    BY <1>2, <1>5, <2>1 DEF IsPiece
  <2>3. v.tied <=> \E l \in 1..Len(pieces[i]) : j < l /\ ~Ahead(tree, v.user, pieces[i][l].user)
    BY <2>2 DEF Orderly
  <2>4. ASSUME Later PROVE v.tied
    <3>1. PICK m \in 1..Len(list) : \E l \in 1..Len(pieces[m]) :
                      Earlier(i, j, m, l) /\ ~Ahead(tree, v.user, pieces[m][l].user)
      BY <2>4
    <3>2. PICK l \in 1..Len(pieces[m]) :
                      Earlier(i, j, m, l) /\ ~Ahead(tree, v.user, pieces[m][l].user)
      BY <3>1
    <3>3. ~(i < m)
      BY <1>3, <1>5, <3>2
    <3>4. i = m /\ j < l
      BY <3>2, <3>3 DEF Earlier
    <3> QED BY <2>3, <3>2, <3>4
  <2>5. ASSUME v.tied PROVE Later
    <3>1. PICK l \in 1..Len(pieces[i]) : j < l /\ ~Ahead(tree, v.user, pieces[i][l].user)
      BY <2>3, <2>5
    <3>2. Earlier(i, j, i, l)
      BY <3>1 DEF Earlier
    <3> QED BY <3>1, <3>2
  <2>6. v.tied \in BOOLEAN
    <3>1. pieces[i] \in Visits
      BY <1>2 DEF IsPiece
    <3>2. v \in [user : Nodes, tied : BOOLEAN]
      BY <3>1, ElementOfSeq DEF Visits
    <3> QED BY <3>2
  <2> HIDE DEF v, Later
  <2>7. v.tied <=> Later
    BY <2>4, <2>5, <2>6
  <2> QED BY <2>7 DEF v, Later
<1> QED BY <1>4, <1>5

\* The pieces of a list that holds a level in order are orderly together.
LEMMA PiecesOrderly ==
  ASSUME NEW tree, IsTree(tree), NEW k \in Nat, NEW S, NEW list, IsLevelList(tree, k, S, list),
         NEW pieces \in Seq(Visits), Len(pieces) = Len(list),
         \A i \in 1..Len(list) : IsPiece(tree, list, i, pieces[i])
  PROVE  Orderly(tree, FlattenSeq(pieces), UnderAll(tree, S))
<1>1. /\ Len(list) \in Nat
      /\ \A p \in 1..Len(list) : list[p] \in S /\ list[p] \in DOMAIN tree
  BY LevelListFacts
<1>2. ASSUME NEW i \in 1..Len(pieces), NEW j \in 1..Len(pieces[i])
      PROVE  pieces[i][j].user \in UnderAll(tree, S)
  <2>1. IsPiece(tree, list, i, pieces[i]) /\ i \in 1..Len(list)
    OBVIOUS
  <2>2. PICK p \in 1..i : pieces[i][j].user \in Under(tree, list[p])
    BY <2>1, PieceIsBelow
  <2>3. p \in 1..Len(list)
    BY <1>1, <2>1
  <2>4. list[p] \in S /\ pieces[i][j].user \in Users(tree)
    BY <1>1, <2>2, <2>3 DEF Under
  <2> QED BY <2>2, <2>4 DEF UnderAll
<1>3. ASSUME NEW a \in UnderAll(tree, S)
      PROVE  \E i \in 1..Len(pieces) : \E j \in 1..Len(pieces[i]) : pieces[i][j].user = a
  <2>1. \E i \in 1..Len(list) : \E j \in 1..Len(pieces[i]) : pieces[i][j].user = a
    BY PiecesCover
  <2> QED BY <2>1
<1>4. ASSUME NEW i \in 1..Len(pieces), NEW m \in 1..Len(pieces),
             NEW j \in 1..Len(pieces[i]), NEW l \in 1..Len(pieces[m]), Earlier(i, j, m, l)
      PROVE  /\ pieces[i][j].user # pieces[m][l].user
             /\ ~Ahead(tree, pieces[m][l].user, pieces[i][j].user)
  <2>1. /\ i \in 1..Len(list) /\ m \in 1..Len(list)
        /\ IsPiece(tree, list, i, pieces[i]) /\ IsPiece(tree, list, m, pieces[m])
    OBVIOUS
  <2>2. CASE i < m
    BY <2>1, <2>2, CrossPieces
  <2>3. CASE i = m /\ j < l
    <3>1. ~IsUser(list[i])
      <4>1. IsUser(list[i]) => j = 1 /\ l = 1
        BY <2>1, <2>3, PieceIsBelow
      <4> QED BY <2>3, <4>1
    <3>2. ~TiedWithNext(tree, list, i)
      BY <2>1, <3>1, PieceIsBelow
    <3>3. Orderly(tree, pieces[i], UnderAll(tree, Range(Row(tree, list, i))))
      BY <2>1, <3>1, <3>2 DEF IsPiece
    <3>4. j # l
      BY <2>3
    <3> QED BY <2>3, <3>3, <3>4 DEF Orderly
  <2> QED BY <1>4, <2>2, <2>3 DEF Earlier
<1>5. ASSUME NEW i \in 1..Len(pieces), NEW j \in 1..Len(pieces[i])
      PROVE  pieces[i][j].tied <=>
               TiesInPieces(tree, pieces, i, j)
  <2>1. pieces[i][j].tied <=>
               \E m \in 1..Len(list) : \E l \in 1..Len(pieces[m]) :
                 Earlier(i, j, m, l) /\ ~Ahead(tree, pieces[i][j].user, pieces[m][l].user)
    BY PiecesMark
  <2> QED BY <2>1 DEF TiesInPieces
<1>6. \A i \in 1..Len(pieces) : \A j \in 1..Len(pieces[i]) : FirstInPieces(tree, pieces, i, j)
  BY <1>4 DEF FirstInPieces
<1>7. InPieces(tree, pieces, UnderAll(tree, S))
  BY <1>2, <1>3, <1>5, <1>6 DEF InPieces
<1> QED BY <1>7, FlattenOrderly

---------------------------------------------------------------------------
(* The walk *)

VisitPiece(visit, tree, order, list, i) ==
  IF IsUser(list[i]) THEN <<[user |-> list[i], tied |-> TiedWithNext(tree, list, i)]>>
  ELSE IF TiedWithNext(tree, list, i) THEN <<>>
  ELSE visit[Merge(tree, order, Row(tree, list, i))]
VisitList(visit, tree, order, list) ==
  FlattenSeq([i \in 1..Len(list) |-> VisitPiece(visit, tree, order, list, i)])

\* The children of a row are one level below some bank of the row.
LEMMA MergedLists ==
  ASSUME NEW tree, IsTree(tree), NEW order, IsOrder(order), NEW row
  PROVE  /\ Lists(Merge(tree, order, row), UNION {Children(tree, b) : b \in Range(row)})
         /\ \A i, j \in 1..Len(Merge(tree, order, row)) : i < j =>
              ~Before(tree, Merge(tree, order, row)[j], Merge(tree, order, row)[i])
<1> DEFINE S == UNION {Children(tree, b) : b \in Range(row)}
<1>1. S \in SUBSET DOMAIN tree
  BY DEF Children
<1>2. Merge(tree, order, row) = Sorted(tree, order, S)
  BY DEF Merge
<1> HIDE DEF S
<1>3. /\ Lists(Sorted(tree, order, S), S)
      /\ \A i, j \in 1..Len(Sorted(tree, order, S)) : i < j =>
           ~Before(tree, Sorted(tree, order, S)[j], Sorted(tree, order, S)[i])
  BY <1>1, SortedLists
<1> QED BY <1>2, <1>3 DEF S

\* Lists of nodes with at most n levels from them down.
Low(n) == {list \in Seq(Nodes) : \A i \in 1..Len(list) : Len(Path[list[i]]) + n > MaxDepth}

LEMMA MergeIsLower ==
  ASSUME NEW tree, IsTree(tree), NEW order, IsOrder(order), NEW n \in Nat,
         NEW list \in Low(n + 1), NEW i \in 1..Len(list)
  PROVE  Merge(tree, order, Row(tree, list, i)) \in Low(n)
<1> DEFINE row == Row(tree, list, i)
           S == UNION {Children(tree, b) : b \in Range(row)}
           merged == Merge(tree, order, row)
<1>1. list \in Seq(Nodes) /\ Len(list) \in Nat
      /\ \A p \in 1..Len(list) : list[p] \in Nodes /\ Len(Path[list[p]]) + (n + 1) > MaxDepth
  BY LenProperties, ElementOfSeq DEF Low
<1>2. i \in Nat \ {0}
  BY <1>1
<1>3. PICK first \in Nat : RowBegins(tree, list, i, first)
  BY <1>2, RowExists
<1>4. ASSUME NEW m \in S PROVE m \in Nodes /\ Len(Path[m]) + n > MaxDepth
  <2>1. PICK b \in Range(row) : m \in Children(tree, b)
    OBVIOUS
  <2>2. PICK p \in first..i : b = list[p]
    BY <1>1, <1>3, <2>1, RowFrom
  <2>3. p \in 1..Len(list)
    BY <1>1, <1>2, <1>3, <2>2 DEF RowBegins
  <2>4. m \in Inner /\ ParentOf(m) = b
    BY <2>1 DEF Children, IsTree
  <2>5. Len(Path[m]) = Len(Path[b]) + 1 /\ Len(Path[b]) \in Nat
    BY <2>4, PathOfChild
  <2>6. \A u, v, d \in Nat : u + (n + 1) > d /\ v = u + 1 => v + n > d
    OBVIOUS
  <2>7. Len(Path[m]) \in Nat /\ Len(Path[b]) + (n + 1) > MaxDepth
    <3>1. Len(Path[list[p]]) + (n + 1) > MaxDepth
      BY <1>1, <2>3
    <3>2. Len(Path[m]) \in Nat
      BY <2>5
    <3> QED BY <2>2, <3>1, <3>2
  <2> QED BY <2>4, <2>5, <2>6, <2>7, MaxDepthType DEF Inner
<1>5. Lists(merged, S)
  BY MergedLists
<1> HIDE DEF S, merged
<1>6. merged \in Seq(S) /\ S \subseteq Nodes
  BY <1>4, <1>5 DEF Lists
<1>7. Len(merged) \in Nat /\ \A j \in 1..Len(merged) : merged[j] \in S
  BY <1>6, LenProperties, ElementOfSeq
<1>8. merged \in Seq(Nodes)
  BY <1>6, <1>7
<1> QED BY <1>4, <1>7, <1>8 DEF Low, merged

\* What is visited depends on the visits of the lower lists only.
LEMMA VisitListAgrees ==
  ASSUME NEW tree, IsTree(tree), NEW order, IsOrder(order), NEW n \in Nat,
         NEW f, NEW g, \A list \in Low(n) : f[list] = g[list],
         NEW list \in Low(n + 1)
  PROVE  VisitList(f, tree, order, list) = VisitList(g, tree, order, list)
<1>1. ASSUME NEW i \in 1..Len(list)
      PROVE  VisitPiece(f, tree, order, list, i) = VisitPiece(g, tree, order, list, i)
  <2>1. Merge(tree, order, Row(tree, list, i)) \in Low(n)
    BY MergeIsLower
  <2> QED BY <2>1 DEF VisitPiece
<1>2. [i \in 1..Len(list) |-> VisitPiece(f, tree, order, list, i)]
      = [i \in 1..Len(list) |-> VisitPiece(g, tree, order, list, i)]
  BY <1>1
<1> QED BY <1>2 DEF VisitList

LEMMA LowGrows == \A n \in Nat : Low(n) \subseteq Low(n + 1)
<1> SUFFICES ASSUME NEW n \in Nat, NEW list \in Low(n) PROVE list \in Low(n + 1)
  OBVIOUS
<1>1. list \in Seq(Nodes) /\ \A i \in 1..Len(list) : list[i] \in Nodes
  BY ElementOfSeq DEF Low
<1>2. \A m \in Nodes : Len(Path[m]) \in Nat
  BY PathsAreSound, LenProperties DEF PathIsSound
<1>3. ASSUME NEW i \in 1..Len(list) PROVE Len(Path[list[i]]) + (n + 1) > MaxDepth
  <2>1. Len(Path[list[i]]) + n > MaxDepth /\ Len(Path[list[i]]) \in Nat
    BY <1>1, <1>2 DEF Low
  <2>2. \A u, d \in Nat : u + n > d => u + (n + 1) > d
    OBVIOUS
  <2> QED BY <2>1, <2>2, MaxDepthType
<1> QED BY <1>1, <1>3 DEF Low

LEMMA LowIsAll == Low(MaxDepth + 1) = Seq(Nodes)
<1> SUFFICES ASSUME NEW list \in Seq(Nodes), NEW i \in 1..Len(list)
             PROVE  Len(Path[list[i]]) + (MaxDepth + 1) > MaxDepth
  BY DEF Low
<1>1. list[i] \in Nodes
  BY ElementOfSeq
<1>2. Len(Path[list[i]]) \in Nat
  BY <1>1, PathsAreSound, LenProperties DEF PathIsSound
<1>3. \A u, d \in Nat : u + (d + 1) > d
  OBVIOUS
<1> QED BY <1>2, <1>3, MaxDepthType

LEMMA VisitExists ==
  ASSUME NEW tree, IsTree(tree), NEW order, IsOrder(order)
  PROVE  \E visit : visit = [list \in Seq(Nodes) |-> VisitList(visit, tree, order, list)]
<1> DEFINE G == {n \in Nat : \E f : f = [list \in Low(n) |-> VisitList(f, tree, order, list)]}
<1>1. 0 \in G
  <2> DEFINE f == [list \in Low(0) |-> VisitList(<<>>, tree, order, list)]
  <2>1. ASSUME NEW list \in Low(0)
        PROVE  VisitList(f, tree, order, list) = VisitList(<<>>, tree, order, list)
    <3>1. ASSUME NEW i \in 1..Len(list) PROVE FALSE
      <4>1. list[i] \in Nodes /\ Len(Path[list[i]]) + 0 > MaxDepth
        BY ElementOfSeq DEF Low
      <4>2. Len(Path[list[i]]) <= MaxDepth /\ Len(Path[list[i]]) \in Nat
        BY <4>1, PathIsShort, PathsAreSound, LenProperties DEF PathIsSound
      <4> QED BY <4>1, <4>2, MaxDepthType
    <3> HIDE DEF f
    <3>2. [i \in 1..Len(list) |-> VisitPiece(f, tree, order, list, i)]
          = [i \in 1..Len(list) |-> VisitPiece(<<>>, tree, order, list, i)]
      BY <3>1
    <3> QED BY <3>2 DEF VisitList
  <2>2. f = [list \in Low(0) |-> VisitList(f, tree, order, list)]
    <3> HIDE DEF f
    <3>1. f = [list \in Low(0) |-> VisitList(<<>>, tree, order, list)]
      BY DEF f
    <3> QED BY <2>1, <3>1
  <2> HIDE DEF f
  <2> QED BY <2>2
<1>2. ASSUME NEW n \in Nat, n \in G PROVE n + 1 \in G
  <2>1. PICK f : f = [list \in Low(n) |-> VisitList(f, tree, order, list)]
    BY <1>2
  <2> DEFINE g == [list \in Low(n + 1) |-> VisitList(f, tree, order, list)]
  <2>2. \A list \in Low(n + 1) : g[list] = VisitList(f, tree, order, list)
    OBVIOUS
  <2>3. g = [list \in Low(n + 1) |-> g[list]]
    OBVIOUS
  <2> HIDE DEF g
  <2>4. \A list \in Low(n) : g[list] = f[list]
    <3> TAKE list \in Low(n)
    <3>1. list \in Low(n + 1)
      BY LowGrows
    <3>2. f[list] = VisitList(f, tree, order, list)
      BY <2>1
    <3> QED BY <2>2, <3>1, <3>2
  <2>5. ASSUME NEW list \in Low(n + 1)
        PROVE  g[list] = VisitList(g, tree, order, list)
    <3>1. VisitList(g, tree, order, list) = VisitList(f, tree, order, list)
      BY <2>4, VisitListAgrees
    <3> QED BY <2>2, <3>1
  <2>6. g = [list \in Low(n + 1) |-> VisitList(g, tree, order, list)]
    BY <2>3, <2>5
  <2> QED BY <2>6
<1>3. \A n \in Nat : n \in G
  <2> HIDE DEF G
  <2> QED BY <1>1, <1>2, NatSetInduction
<1>4. MaxDepth + 1 \in G
  <2> HIDE DEF G
  <2> QED BY <1>3, MaxDepthType
<1> QED BY <1>4, LowIsAll

LEMMA VisitUnfolds ==
  ASSUME NEW tree, IsTree(tree), NEW order, IsOrder(order), NEW list \in Seq(Nodes)
  PROVE  Visit(tree, order, list)
         = FlattenSeq([i \in 1..Len(list) |->
             IF IsUser(list[i]) THEN <<[user |-> list[i], tied |-> TiedWithNext(tree, list, i)]>>
             ELSE IF TiedWithNext(tree, list, i) THEN <<>>
             ELSE Visit(tree, order, Merge(tree, order, Row(tree, list, i)))])
<1> DEFINE visit == CHOOSE visit : visit = [l \in Seq(Nodes) |-> VisitList(visit, tree, order, l)]
<1>1. visit = [l \in Seq(Nodes) |-> VisitList(visit, tree, order, l)]
  BY VisitExists
<1>2. \A l : Visit(tree, order, l) = visit[l]
  BY DEF Visit, VisitList, VisitPiece
<1> HIDE DEF visit
<1>3. Visit(tree, order, list) = VisitList(visit, tree, order, list)
  BY <1>1, <1>2
<1> QED BY <1>2, <1>3 DEF VisitList, VisitPiece

\* The associations under the children of banks are those under the banks.
LEMMA UnderAllChildren ==
  ASSUME NEW tree, IsTree(tree), NEW T, T \subseteq DOMAIN tree, \A b \in T : ~IsUser(b)
  PROVE  UnderAll(tree, UNION {Children(tree, b) : b \in T}) = UnderAll(tree, T)
<1>1. \A b \in T : Under(tree, b) = UnderAll(tree, Children(tree, b))
  BY UnderChildren
<1>2. ASSUME NEW a \in UnderAll(tree, UNION {Children(tree, b) : b \in T})
      PROVE  a \in UnderAll(tree, T)
  <2>1. PICK x \in UNION {Children(tree, b) : b \in T} : a \in Under(tree, x)
    BY DEF UnderAll
  <2>2. PICK b \in T : x \in Children(tree, b)
    BY <2>1
  <2>3. a \in UnderAll(tree, Children(tree, b))
    BY <2>1, <2>2 DEF UnderAll, Under
  <2>4. a \in Under(tree, b) /\ a \in Users(tree)
    BY <1>1, <2>3 DEF Under
  <2> QED BY <2>4 DEF UnderAll
<1>3. ASSUME NEW a \in UnderAll(tree, T)
      PROVE  a \in UnderAll(tree, UNION {Children(tree, b) : b \in T})
  <2>1. PICK b \in T : a \in Under(tree, b)
    BY DEF UnderAll
  <2>2. a \in UnderAll(tree, Children(tree, b))
    BY <1>1, <2>1
  <2>3. PICK x \in Children(tree, b) : a \in Under(tree, x)
    BY <2>2 DEF UnderAll
  <2>4. a \in Users(tree) /\ x \in UNION {Children(tree, c) : c \in T}
    BY <2>1, <2>3 DEF Under
  <2> QED BY <2>3, <2>4 DEF UnderAll
<1> QED BY <1>2, <1>3

\* The row that ends with a bank is of banks that tie, all of the level.
LEMMA RowIsLevel ==
  ASSUME NEW tree, IsTree(tree), NEW k \in Nat, NEW S, NEW list, IsLevelList(tree, k, S, list),
         NEW i \in 1..Len(list), ~IsUser(list[i])
  PROVE  /\ Range(Row(tree, list, i)) \subseteq S /\ list[i] \in Range(Row(tree, list, i))
         /\ \A b \in Range(Row(tree, list, i)) : ~IsUser(b)
         /\ \A b, c \in Range(Row(tree, list, i)) : TieIn(tree, b, c)
<1>1. /\ list \in Seq(DOMAIN tree) /\ list \in Seq(Nodes) /\ Len(list) \in Nat
      /\ \A p \in 1..Len(list) : list[p] \in S /\ list[p] \in DOMAIN tree
  BY LevelListFacts
<1>2. i \in Nat \ {0}
  BY <1>1
<1>3. PICK first \in Nat : RowBegins(tree, list, i, first)
  BY <1>2, RowExists
<1>4. first \in 1..i /\ \A t \in first..i - 1 : TiedWithNext(tree, list, t)
  BY <1>3 DEF RowBegins
<1>5. ASSUME NEW p \in first..i
      PROVE  /\ list[p] \in S /\ list[p] \in DOMAIN tree
             /\ ~IsUser(list[p]) /\ TieIn(tree, list[p], list[i])
  <2>1. p \in 1..Len(list) /\ i \in p..Len(list) /\ \A t \in p..i - 1 : t \in first..i - 1
    BY <1>1, <1>2, <1>4
  <2>2. TieIn(tree, list[p], list[i]) /\ IsUser(list[p]) = IsUser(list[i])
    BY <1>1, <1>4, <2>1, TiesInARow
  <2> QED BY <1>1, <2>1, <2>2 DEF IsUser
<1>6. \A b \in Range(Row(tree, list, i)) : \E p \in first..i : b = list[p]
  BY <1>1, <1>3, RowFrom
<1>7. \A b \in Range(Row(tree, list, i)) : b \in S /\ b \in DOMAIN tree /\ ~IsUser(b)
                                           /\ TieIn(tree, b, list[i])
  BY <1>5, <1>6
<1>8. ASSUME NEW b \in Range(Row(tree, list, i)), NEW c \in Range(Row(tree, list, i))
      PROVE  TieIn(tree, b, c)
  <2>1. TieIn(tree, list[i], c)
    BY <1>1, <1>7, BeforeFacts
  <2> QED BY <1>1, <1>7, <2>1, TiesTransitive
<1>9. i \in first..i
  BY <1>2, <1>4
<1>10. list[i] \in Range(Row(tree, list, i))
  BY <1>1, <1>3, <1>9, RowRange
<1> QED BY <1>7, <1>8, <1>10

\* A level is visited in order when the levels below are.
LEMMA VisitLevel ==
  ASSUME NEW tree, IsTree(tree), NEW order, IsOrder(order), NEW k \in Nat,
         NEW S, NEW list, IsLevelList(tree, k, S, list),
         S # {} => \A T, lower : IsLevelList(tree, k + 1, T, lower) =>
                     Orderly(tree, Visit(tree, order, lower), UnderAll(tree, T))
  PROVE  Orderly(tree, Visit(tree, order, list), UnderAll(tree, S))
<1> DEFINE piece(i) ==
             IF IsUser(list[i]) THEN <<[user |-> list[i], tied |-> TiedWithNext(tree, list, i)]>>
             ELSE IF TiedWithNext(tree, list, i) THEN <<>>
             ELSE Visit(tree, order, Merge(tree, order, Row(tree, list, i)))
           pieces == [i \in 1..Len(list) |-> piece(i)]
<1>1. /\ list \in Seq(Nodes) /\ Len(list) \in Nat
      /\ \A p \in 1..Len(list) : list[p] \in S /\ list[p] \in DOMAIN tree
  BY LevelListFacts
<1>2. Visit(tree, order, list) = FlattenSeq(pieces)
  BY <1>1, VisitUnfolds
<1>3. ASSUME NEW i \in 1..Len(list), ~IsUser(list[i]), ~TiedWithNext(tree, list, i)
      PROVE  Orderly(tree, piece(i), UnderAll(tree, Range(Row(tree, list, i))))
  <2> DEFINE row == Row(tree, list, i)
             B == Range(row)
             T == UNION {Children(tree, b) : b \in B}
             lower == Merge(tree, order, row)
  <2>1. /\ B \subseteq S /\ B \subseteq DOMAIN tree
        /\ \A b \in B : ~IsUser(b)
        /\ \A b, c \in B : TieIn(tree, b, c)
    <3>1. S \subseteq DOMAIN tree
      BY DEF IsLevelList, IsLevel
    <3> QED BY <1>3, <3>1, RowIsLevel
  <2>2. IsLevel(tree, k + 1, T)
    <3>1. IsLevel(tree, k, S)
      BY DEF IsLevelList
    <3> HIDE DEF B
    <3> QED BY <2>1, <3>1, NextLevel
  <2>3. /\ Lists(lower, T)
        /\ \A m, j \in 1..Len(lower) : m < j => ~Before(tree, lower[j], lower[m])
    <3> HIDE DEF row
    <3> QED BY MergedLists
  <2>4. piece(i) = Visit(tree, order, lower)
    BY <1>3
  <2>5. UnderAll(tree, T) = UnderAll(tree, B)
    <3> HIDE DEF B
    <3> QED BY <2>1, UnderAllChildren
  <2> HIDE DEF T, lower
  <2>6. IsLevelList(tree, k + 1, T, lower)
    BY <2>2, <2>3 DEF IsLevelList
  <2>7. S # {}
    BY <1>1, <1>3
  <2> HIDE DEF piece
  <2> QED BY <2>4, <2>5, <2>6, <2>7
<1>4. ASSUME NEW i \in 1..Len(list) PROVE IsPiece(tree, list, i, piece(i))
  <2>1. piece(i) \in Visits
    <3>1. CASE IsUser(list[i])
      <4>1. [user |-> list[i], tied |-> TiedWithNext(tree, list, i)]
              \in [user : Nodes, tied : BOOLEAN]
        <5>1. list[i] \in Nodes /\ TiedWithNext(tree, list, i) \in BOOLEAN
          BY <1>1, ElementOfSeq DEF TiedWithNext
        <5> QED BY <5>1
      <4> QED BY <3>1, <4>1 DEF Visits
    <3>2. CASE ~IsUser(list[i]) /\ TiedWithNext(tree, list, i)
      <4>1. piece(i) = <<>>
        BY <3>2
      <4>2. <<>> \in Visits
        BY DEF Visits
      <4> HIDE DEF piece
      <4> QED BY <4>1, <4>2
    <3>3. CASE ~IsUser(list[i]) /\ ~TiedWithNext(tree, list, i)
      BY <1>3, <3>3 DEF Orderly
    <3> QED BY <3>1, <3>2, <3>3
  <2> QED BY <1>3, <2>1 DEF IsPiece
<1> HIDE DEF piece
<1>5. pieces \in Seq(Visits) /\ Len(pieces) = Len(list)
      /\ \A i \in 1..Len(list) : IsPiece(tree, list, i, pieces[i])
  BY <1>1, <1>4 DEF IsPiece
<1> HIDE DEF pieces
<1> QED BY <1>2, <1>5, PiecesOrderly

\* Every level is visited in order.
LEMMA VisitOrderly ==
  ASSUME NEW tree, IsTree(tree), NEW order, IsOrder(order)
  PROVE  \A k \in Nat : \A S, list : IsLevelList(tree, k, S, list) =>
           Orderly(tree, Visit(tree, order, list), UnderAll(tree, S))
<1> DEFINE Visited(k) == \A S, list : IsLevelList(tree, k, S, list) =>
                           Orderly(tree, Visit(tree, order, list), UnderAll(tree, S))
           G == {n \in Nat : \A k \in Nat : k + n > MaxDepth => Visited(k)}
<1>1. 0 \in G
  <2> SUFFICES ASSUME NEW k \in Nat, k > MaxDepth, NEW S, NEW list, IsLevelList(tree, k, S, list)
               PROVE  Orderly(tree, Visit(tree, order, list), UnderAll(tree, S))
    OBVIOUS
  <2>1. S = {}
    <3> SUFFICES ASSUME NEW x \in S PROVE FALSE
      OBVIOUS
    <3>1. x \in Nodes /\ Len(Path[x]) = k
      BY DEF IsLevelList, IsLevel, IsTree, Inner
    <3> QED BY <3>1, PathIsShort, MaxDepthType
  <2> QED BY <2>1, VisitLevel
<1>2. ASSUME NEW n \in Nat, n \in G PROVE n + 1 \in G
  <2> SUFFICES ASSUME NEW k \in Nat, k + (n + 1) > MaxDepth PROVE Visited(k)
    OBVIOUS
  <2>1. k + 1 \in Nat /\ (k + 1) + n > MaxDepth
    BY MaxDepthType
  <2>2. Visited(k + 1)
    <3> HIDE DEF Visited
    <3> QED BY <1>2, <2>1
  <2> QED BY <2>2, VisitLevel
<1>3. \A n \in Nat : n \in G
  <2> HIDE DEF G
  <2> QED BY <1>1, <1>2, NatSetInduction
<1> SUFFICES ASSUME NEW k \in Nat PROVE Visited(k)
  OBVIOUS
<1>4. MaxDepth + 1 \in G /\ k + (MaxDepth + 1) > MaxDepth
  <2> HIDE DEF G
  <2> QED BY <1>3, MaxDepthType
<1> HIDE DEF Visited
<1> QED BY <1>4

\* The children of the root are a level, above all associations.
LEMMA TopLevel ==
  ASSUME NEW tree, IsTree(tree)
  PROVE  IsLevel(tree, 1, Children(tree, Root)) /\ UnderAll(tree, Children(tree, Root)) = Users(tree)
<1> DEFINE S == Children(tree, Root)
<1>1. S \subseteq DOMAIN tree
  BY DEF Children
<1>2. ASSUME NEW x \in S PROVE Len(Path[x]) = 1
  <2>1. x \in Inner /\ ParentOf(x) = Root
    BY DEF Children, IsTree
  <2>2. Len(Path[Root]) = 0
    BY PathUnfolds
  <2>3. Len(Path[x]) = Len(Path[ParentOf(x)]) + 1
    BY <2>1, PathOfChild
  <2> QED BY <2>1, <2>2, <2>3
<1>3. ASSUME NEW a \in Users(tree) PROVE a \in UnderAll(tree, S)
  <2>1. /\ a \in Inner /\ Len(Path[a]) \in Nat \ {0}
        /\ \A i \in 1..Len(Path[a]) : Path[a][i] \in DOMAIN tree
    BY UserPath
  <2>2. 1 \in 1..Len(Path[a])
    BY <2>1
  <2>3. Path[a][1] \in S
    <3>1. ParentOf(Path[a][1]) = Root
      BY <2>1, <2>2, PathFacts
    <3> QED BY <2>1, <2>2, <3>1 DEF Children
  <2> QED BY <2>2, <2>3 DEF UnderAll, Under
<1>4. UnderAll(tree, S) \subseteq Users(tree)
  BY DEF UnderAll
<1>5. \A x, y \in S : \A j \in 1..1 - 1 : TieIn(tree, Path[x][j], Path[y][j])
  OBVIOUS
<1> HIDE DEF S
<1>6. IsLevel(tree, 1, S)
  BY <1>1, <1>2, <1>5 DEF IsLevel
<1>7. UnderAll(tree, S) = Users(tree)
  BY <1>3, <1>4
<1> QED BY <1>6, <1>7 DEF S

\* The walk gives everybody the rank of its standing, in whatever order std::sort
\* has left equals (weighted_walk_t::run).
THEOREM WalkIsStanding ==
  ASSUME NEW tree, IsTree(tree), NEW order, IsOrder(order)
  PROVE  Walk(tree, order) = Standing(tree)
<1> DEFINE S == Children(tree, Root)
           list == SortedChildren(tree, order, Root)
<1>1. IsLevel(tree, 1, S) /\ UnderAll(tree, S) = Users(tree)
  BY TopLevel
<1>2. S \in SUBSET DOMAIN tree /\ list = Sorted(tree, order, S)
  BY DEF Children, SortedChildren
<1> HIDE DEF S, list
<1>3. Lists(list, S) /\ \A i, j \in 1..Len(list) : i < j => ~Before(tree, list[j], list[i])
  BY <1>2, SortedLists
<1>4. IsLevelList(tree, 1, S, list)
  BY <1>1, <1>3 DEF IsLevelList
<1>5. Orderly(tree, Visit(tree, order, list), Users(tree))
  BY <1>1, <1>4, VisitOrderly
<1> QED BY <1>5, OrderlyRanks DEF Walk, list

---------------------------------------------------------------------------
(* Lists of lists, piece by piece *)

\* h holds what the first lists of ss are, put together.
Steps(ss, X, h) ==
  /\ h \in [0..Len(ss) -> Seq(X)] /\ h[0] = <<>>
  /\ \A i \in 1..Len(ss) : h[i] = h[i - 1] \o ss[i]

LEMMA FlattenIs ==
  ASSUME NEW X, NEW ss \in Seq(Seq(X)), NEW h, Steps(ss, X, h)
  PROVE  FlattenSeq(ss) = h[Len(ss)]
<1> DEFINE n == Len(ss)
           flat == CHOOSE flat : flat = [i \in 1..n |-> Joined(flat, ss, i)]
<1>1. n \in Nat /\ (\A i \in 1..n : ss[i] \in Seq(X)) /\ \A i \in 0..n : h[i] \in Seq(X)
  BY LenProperties, ElementOfSeq DEF Steps
<1>2. CASE n = 0
  <2>1. FlattenSeq(ss) = ss /\ ss = <<>>
    BY <1>2, EmptySeq DEF FlattenSeq
  <2> QED BY <1>2, <2>1 DEF Steps
<1>3. CASE n # 0
  <2>1. FlattenSeq(ss) = flat[n]
    BY <1>3 DEF FlattenSeq, Joined
  <2>2. flat = [i \in 1..n |-> Joined(flat, ss, i)]
    BY <1>1, FlattenExists
  <2> HIDE DEF flat
  <2>3. \A i \in 1..n : flat[i] = Joined(flat, ss, i)
    BY <2>2
  <2> DEFINE G == {m \in Nat : m \in 1..n => flat[m] = h[m]}
  <2>4. 0 \in G
    OBVIOUS
  <2>5. ASSUME NEW m \in Nat, m \in G PROVE m + 1 \in G
    <3> SUFFICES ASSUME m + 1 \in 1..n PROVE flat[m + 1] = h[m + 1]
      OBVIOUS
    <3>1. h[m + 1] = h[m] \o ss[m + 1]
      <4>1. (m + 1) - 1 = m
        OBVIOUS
      <4>2. h[m + 1] = h[(m + 1) - 1] \o ss[m + 1]
        BY DEF Steps
      <4> QED BY <4>1, <4>2
    <3>2. CASE m = 0
      <4>1. flat[1] = ss[1] /\ h[1] = <<>> \o ss[1] /\ ss[1] \in Seq(X)
        <5>1. 1 \in 1..n
          BY <1>1, <1>3
        <5>2. flat[1] = Joined(flat, ss, 1) /\ ss[1] \in Seq(X)
          BY <1>1, <2>3, <5>1
        <5>3. h[0 + 1] = <<>> \o ss[0 + 1]
          BY <3>1, <3>2 DEF Steps
        <5> QED BY <5>2, <5>3 DEF Joined
      <4> QED BY <3>2, <4>1, ConcatEmptySeq
    <3>3. CASE m # 0
      <4>1. m \in 1..n /\ m + 1 # 1 /\ (m + 1) - 1 = m
        BY <1>1, <3>3
      <4>2. flat[m + 1] = Joined(flat, ss, m + 1) /\ flat[m] = h[m]
        BY <2>3, <2>5, <4>1
      <4> QED BY <3>1, <4>1, <4>2 DEF Joined
    <3> QED BY <3>2, <3>3
  <2>6. Nat \subseteq G
    <3> HIDE DEF G
    <3> QED BY <2>4, <2>5, NatSetInduction
  <2>7. flat[n] = h[n]
    BY <1>1, <1>3, <2>6
  <2> QED BY <2>1, <2>7
<1> QED BY <1>2, <1>3

LEMMA StepsExist ==
  ASSUME NEW X, NEW ss \in Seq(Seq(X))
  PROVE  \E h : Steps(ss, X, h)
<1> DEFINE n == Len(ss)
           flat == CHOOSE flat : flat = [i \in 1..n |-> Joined(flat, ss, i)]
           h == [i \in 0..n |-> IF i = 0 THEN <<>> ELSE flat[i]]
<1>1. n \in Nat /\ \A i \in 1..n : ss[i] \in Seq(X)
  BY LenProperties, ElementOfSeq
<1>2. flat = [i \in 1..n |-> Joined(flat, ss, i)]
  BY <1>1, FlattenExists
<1> HIDE DEF flat
<1>3. \A i \in 1..n : flat[i] = Joined(flat, ss, i)
  BY <1>2
<1> DEFINE Put(m) == m \in 1..n => flat[m] \in Seq(X) /\ h[m] = h[m - 1] \o ss[m]
           G == {m \in Nat : Put(m)}
<1>4. 0 \in G
  <2>1. 0 \notin 1..n
    BY <1>1
  <2> HIDE DEF h, n
  <2> QED BY <2>1
<1>5. ASSUME NEW m \in Nat, m \in G PROVE m + 1 \in G
  <2> HIDE DEF h, n
  <2> SUFFICES Put(m + 1)
    <3> HIDE DEF Put
    <3> QED OBVIOUS
  <2> SUFFICES ASSUME m + 1 \in 1..n
               PROVE  flat[m + 1] \in Seq(X) /\ h[m + 1] = h[(m + 1) - 1] \o ss[m + 1]
    BY Zenon
  <2>1. h[m + 1] = flat[m + 1] /\ (m + 1) - 1 = m /\ h[m] = IF m = 0 THEN <<>> ELSE flat[m]
    BY <1>1 DEF h
  <2>2. flat[m + 1] = Joined(flat, ss, m + 1) /\ ss[m + 1] \in Seq(X)
    BY <1>1, <1>3
  <2>3. CASE m = 0
    <3>1. flat[m + 1] = ss[m + 1] /\ <<>> \o ss[m + 1] = ss[m + 1]
      BY <2>2, <2>3, ConcatEmptySeq DEF Joined
    <3> QED BY <2>1, <2>2, <2>3, <3>1
  <2>4. CASE m # 0
    <3>1. m \in 1..n /\ m + 1 # 1
      BY <1>1, <2>4
    <3>2. flat[m] \in Seq(X)
      BY <1>5, <3>1
    <3>3. flat[m + 1] = flat[m] \o ss[m + 1]
      BY <2>1, <2>2, <3>1 DEF Joined
    <3>4. flat[m] \o ss[m + 1] \in Seq(X)
      BY <2>2, <3>2, ConcatProperties
    <3> QED BY <2>1, <2>4, <3>3, <3>4
  <2> QED BY <2>3, <2>4
<1>6. Nat \subseteq G
  <2> HIDE DEF G
  <2> QED BY <1>4, <1>5, NatSetInduction
<1>7. \A i \in 1..n : flat[i] \in Seq(X) /\ h[i] = h[i - 1] \o ss[i]
  <2>1. \A i \in 1..n : i \in Nat
    BY <1>1
  <2> HIDE DEF h
  <2> QED BY <1>6, <2>1
<1>8. h \in [0..n -> Seq(X)] /\ h[0] = <<>>
  <2>1. <<>> \in Seq(X) /\ 0 \in 0..n
    BY <1>1
  <2>2. \A i \in 0..n : i # 0 => i \in 1..n
    BY <1>1
  <2> QED BY <1>7, <2>1, <2>2
<1> HIDE DEF h
<1> QED BY <1>7, <1>8 DEF Steps

LEMMA FlattenConcat ==
  ASSUME NEW X, NEW ss \in Seq(Seq(X)), NEW tt \in Seq(Seq(X))
  PROVE  FlattenSeq(ss \o tt) = FlattenSeq(ss) \o FlattenSeq(tt)
<1> DEFINE m == Len(ss)
           n == Len(tt)
<1>1. /\ m \in Nat /\ n \in Nat /\ ss \o tt \in Seq(Seq(X)) /\ Len(ss \o tt) = m + n
      /\ \A i \in 1..m : ss[i] \in Seq(X) /\ (ss \o tt)[i] = ss[i]
      /\ \A i \in 1..n : tt[i] \in Seq(X) /\ (ss \o tt)[m + i] = tt[i]
  <2>1. m \in Nat /\ n \in Nat /\ ss \o tt \in Seq(Seq(X)) /\ Len(ss \o tt) = m + n
        /\ \A i \in 1..m + n : (ss \o tt)[i] = IF i <= m THEN ss[i] ELSE tt[i - m]
    BY LenProperties, ConcatProperties
  <2>2. \A i \in 1..m : i \in 1..m + n /\ i <= m
    BY <2>1
  <2>3. \A i \in 1..n : m + i \in 1..m + n /\ ~(m + i <= m) /\ (m + i) - m = i
    BY <2>1
  <2>4. (\A i \in 1..m : ss[i] \in Seq(X)) /\ \A i \in 1..n : tt[i] \in Seq(X)
    BY ElementOfSeq
  <2> HIDE DEF m, n
  <2>5. \A i \in 1..m : (ss \o tt)[i] = ss[i]
    BY <2>1, <2>2
  <2>6. \A i \in 1..n : (ss \o tt)[m + i] = tt[i]
    BY <2>1, <2>3
  <2> QED BY <2>1, <2>4, <2>5, <2>6
<1>2. PICK f : Steps(ss, X, f)
  BY StepsExist
<1>3. PICK g : Steps(tt, X, g)
  BY StepsExist
<1>4. FlattenSeq(ss) = f[m] /\ FlattenSeq(tt) = g[n]
  BY <1>2, <1>3, FlattenIs
<1>5. /\ \A i \in 0..m : f[i] \in Seq(X)
      /\ f[0] = <<>> /\ \A i \in 1..m : f[i] = f[i - 1] \o ss[i]
      /\ \A i \in 0..n : g[i] \in Seq(X)
      /\ g[0] = <<>> /\ \A i \in 1..n : g[i] = g[i - 1] \o tt[i]
  BY <1>2, <1>3 DEF Steps
<1> DEFINE h == [i \in 0..m + n |-> IF i <= m THEN f[i] ELSE f[m] \o g[i - m]]
<1> HIDE DEF m, n
<1>6. \A i \in 0..n : f[m] \o g[i] \in Seq(X)
  <2>1. m \in 0..m
    BY <1>1
  <2> QED BY <1>5, <2>1, ConcatProperties
<1>7. f[m] \o g[0] = f[m]
  <2>1. f[m] \in Seq(X)
    BY <1>1, <1>5
  <2> QED BY <1>5, <2>1, ConcatEmptySeq
<1>8. \A i \in 0..n : h[m + i] = f[m] \o g[i]
  <2> TAKE i \in 0..n
  <2>1. m + i \in 0..m + n /\ (m + i <= m <=> i = 0) /\ (m + i) - m = i
    BY <1>1
  <2>2. CASE i = 0
    <3>1. m + i = m /\ m \in 0..m + n /\ m <= m
      BY <1>1, <2>2
    <3>2. h[m] = f[m]
      BY <3>1
    <3> HIDE DEF h
    <3> QED BY <1>7, <2>2, <3>1, <3>2
  <2>3. CASE i # 0
    BY <2>1, <2>3
  <2> QED BY <2>2, <2>3
<1>9. \A i \in 0..m : h[i] = f[i]
  <2>1. \A i \in 0..m : i \in 0..m + n /\ i <= m
    BY <1>1
  <2> QED BY <2>1
<1>10. h \in [0..m + n -> Seq(X)]
  <2>1. \A i \in 0..m + n : (i <= m => i \in 0..m) /\ (~(i <= m) => i - m \in 0..n)
    BY <1>1
  <2> QED BY <1>5, <1>6, <2>1
<1> HIDE DEF h
<1>11. ASSUME NEW i \in 1..m + n PROVE h[i] = h[i - 1] \o (ss \o tt)[i]
  <2>1. CASE i \in 1..m
    <3>1. i \in 0..m /\ i - 1 \in 0..m
      BY <1>1, <2>1
    <3> QED BY <1>1, <1>5, <1>9, <2>1, <3>1
  <2>2. CASE i \notin 1..m
    <3> DEFINE j == i - m
    <3>1. j \in 1..n /\ m + j = i /\ j \in 0..n /\ j - 1 \in 0..n /\ m + (j - 1) = i - 1
      BY <1>1, <2>2
    <3> HIDE DEF j
    <3>2. h[i] = f[m] \o g[j] /\ h[i - 1] = f[m] \o g[j - 1] /\ (ss \o tt)[i] = tt[j]
          /\ g[j] = g[j - 1] \o tt[j]
      <4>1. h[m + j] = f[m] \o g[j] /\ h[m + (j - 1)] = f[m] \o g[j - 1]
        BY <1>8, <3>1
      <4>2. (ss \o tt)[m + j] = tt[j]
        BY <1>1, <3>1
      <4> QED BY <1>5, <3>1, <4>1, <4>2
    <3>3. f[m] \in Seq(X) /\ g[j - 1] \in Seq(X) /\ tt[j] \in Seq(X)
      BY <1>1, <1>5, <3>1
    <3>4. (f[m] \o g[j - 1]) \o tt[j] = f[m] \o (g[j - 1] \o tt[j])
      <4> DEFINE a == f[m]
                 b == g[j - 1]
                 c == tt[j]
      <4>1. a \in Seq(X) /\ b \in Seq(X) /\ c \in Seq(X)
        BY <3>3
      <4> HIDE DEF a, b, c
      <4>2. (a \o b) \o c = a \o (b \o c)
        BY <4>1
      <4> QED BY <4>2 DEF a, b, c
    <3> QED BY <3>2, <3>4
  <2> QED BY <2>1, <2>2
<1>12. Steps(ss \o tt, X, h)
  <2>1. h[0] = <<>>
    BY <1>1, <1>5, <1>9
  <2> QED BY <1>1, <1>10, <1>11, <2>1 DEF Steps
<1>13. FlattenSeq(ss \o tt) = h[m + n]
  BY <1>1, <1>12, FlattenIs
<1>14. h[m + n] = f[m] \o g[n]
  <2>1. n \in 0..n
    BY <1>1
  <2> QED BY <1>8, <2>1
<1> QED BY <1>4, <1>13, <1>14

\* The lists that F gives for the elements of s.
MapList(F, s) == [i \in 1..Len(s) |-> F[s[i]]]

\* Q holds, for each of the lists ss, the lists that F gives for its elements.
IsMapped(F, X, Y, ss, Q) ==
  /\ F \in [X -> Seq(Y)] /\ ss \in Seq(Seq(X))
  /\ Q = [i \in 1..Len(ss) |-> FlattenSeq(MapList(F, ss[i]))]

LEMMA FlattenMap ==
  ASSUME NEW X, NEW Y, NEW F, NEW ss, NEW Q, IsMapped(F, X, Y, ss, Q)
  PROVE  FlattenSeq(MapList(F, FlattenSeq(ss))) = FlattenSeq(Q)
<1> DEFINE n == Len(ss)
<1>0. /\ F \in [X -> Seq(Y)] /\ ss \in Seq(Seq(X))
      /\ Q = [i \in 1..Len(ss) |-> FlattenSeq(MapList(F, ss[i]))]
  BY DEF IsMapped
<1>1. n \in Nat /\ \A i \in 1..n : ss[i] \in Seq(X)
  BY <1>0, LenProperties, ElementOfSeq
<1>2. ASSUME NEW s \in Seq(X)
      PROVE  /\ MapList(F, s) \in Seq(Seq(Y)) /\ FlattenSeq(MapList(F, s)) \in Seq(Y)
             /\ Len(MapList(F, s)) = Len(s)
  <2>1. Len(s) \in Nat /\ \A i \in 1..Len(s) : F[s[i]] \in Seq(Y)
    BY <1>0, LenProperties, ElementOfSeq
  <2>2. MapList(F, s) \in Seq(Seq(Y)) /\ Len(MapList(F, s)) = Len(s)
    BY <2>1 DEF MapList
  <2> QED BY <2>2, Flattening
<1>3. ASSUME NEW s \in Seq(X), NEW t \in Seq(X)
      PROVE  FlattenSeq(MapList(F, s \o t)) = FlattenSeq(MapList(F, s)) \o FlattenSeq(MapList(F, t))
  <2>1. /\ MapList(F, s) \in Seq(Seq(Y)) /\ MapList(F, t) \in Seq(Seq(Y))
        /\ Len(MapList(F, s)) = Len(s) /\ Len(MapList(F, t)) = Len(t)
    BY <1>2
  <2>2. /\ s \o t \in Seq(X) /\ Len(s \o t) = Len(s) + Len(t)
        /\ Len(s) \in Nat /\ Len(t) \in Nat
        /\ \A i \in 1..Len(s) + Len(t) : (s \o t)[i] = IF i <= Len(s) THEN s[i] ELSE t[i - Len(s)]
    BY LenProperties, ConcatProperties
  <2>3. /\ MapList(F, s) \o MapList(F, t) \in Seq(Seq(Y))
        /\ Len(MapList(F, s) \o MapList(F, t)) = Len(s) + Len(t)
        /\ \A i \in 1..Len(s) + Len(t) :
             (MapList(F, s) \o MapList(F, t))[i]
             = IF i <= Len(s) THEN MapList(F, s)[i] ELSE MapList(F, t)[i - Len(s)]
    <3> DEFINE a == MapList(F, s)
               b == MapList(F, t)
               Z == Seq(Y)
    <3>1. a \in Seq(Z) /\ b \in Seq(Z) /\ Len(a) = Len(s) /\ Len(b) = Len(t)
      BY <2>1
    <3> HIDE DEF a, b, Z
    <3>2. /\ a \o b \in Seq(Z) /\ Len(a \o b) = Len(a) + Len(b)
          /\ \A i \in 1..Len(a) + Len(b) : (a \o b)[i] = IF i <= Len(a) THEN a[i] ELSE b[i - Len(a)]
      BY <3>1, ConcatProperties
    <3> QED BY <3>1, <3>2 DEF a, b, Z
  <2>4. MapList(F, s \o t) \in Seq(Seq(Y)) /\ Len(MapList(F, s \o t)) = Len(s) + Len(t)
    BY <1>2, <2>2
  <2>5. ASSUME NEW i \in 1..Len(s) + Len(t)
        PROVE  MapList(F, s \o t)[i] = (MapList(F, s) \o MapList(F, t))[i]
    <3>1. MapList(F, s \o t)[i] = F[(s \o t)[i]]
      BY <2>2 DEF MapList
    <3>2. CASE i <= Len(s)
      <4>1. i \in 1..Len(s)
        BY <2>2, <3>2
      <4>2. MapList(F, s)[i] = F[s[i]]
        BY <4>1 DEF MapList
      <4> QED BY <2>2, <2>3, <3>1, <3>2, <4>2
    <3>3. CASE ~(i <= Len(s))
      <4>1. i - Len(s) \in 1..Len(t)
        BY <2>2, <3>3
      <4>2. MapList(F, t)[i - Len(s)] = F[t[i - Len(s)]]
        BY <4>1 DEF MapList
      <4> QED BY <2>2, <2>3, <3>1, <3>3, <4>2
    <3> QED BY <3>2, <3>3
  <2>6. MapList(F, s \o t) = MapList(F, s) \o MapList(F, t)
    BY <2>3, <2>4, <2>5, SeqEqual
  <2> QED BY <2>1, <2>6, FlattenConcat
<1>4. PICK h : Steps(ss, X, h)
  BY <1>0, StepsExist
<1>5. FlattenSeq(ss) = h[n]
  BY <1>0, <1>4, FlattenIs
<1>6. /\ \A i \in 0..n : h[i] \in Seq(X)
      /\ h[0] = <<>> /\ \A i \in 1..n : h[i] = h[i - 1] \o ss[i]
  BY <1>4 DEF Steps
<1> DEFINE H == [i \in 0..n |-> FlattenSeq(MapList(F, h[i]))]
<1>7. Q \in Seq(Seq(Y)) /\ Len(Q) = n
  BY <1>0, <1>1, <1>2
<1>8. H \in [0..n -> Seq(Y)] /\ H[0] = <<>>
  <2>1. H \in [0..n -> Seq(Y)]
    BY <1>2, <1>6
  <2>2. MapList(F, <<>>) = <<>>
    BY DEF MapList
  <2>3. FlattenSeq(<<>>) = <<>>
    BY DEF FlattenSeq
  <2>4. 0 \in 0..n
    BY <1>1
  <2> QED BY <1>6, <2>1, <2>2, <2>3, <2>4
<1>9. ASSUME NEW i \in 1..n PROVE H[i] = H[i - 1] \o Q[i]
  <2>1. i \in 0..n /\ i - 1 \in 0..n
    BY <1>1
  <2>2. FlattenSeq(MapList(F, h[i - 1] \o ss[i]))
        = FlattenSeq(MapList(F, h[i - 1])) \o FlattenSeq(MapList(F, ss[i]))
    BY <1>1, <1>3, <1>6, <2>1
  <2> QED BY <1>0, <1>6, <2>1, <2>2
<1> HIDE DEF H
<1>10. Steps(Q, Y, H)
  BY <1>7, <1>8, <1>9 DEF Steps
<1>11. FlattenSeq(Q) = H[n]
  BY <1>7, <1>10, FlattenIs
<1>12. H[n] = FlattenSeq(MapList(F, h[n]))
  BY <1>1 DEF H
<1> QED BY <1>5, <1>11, <1>12

---------------------------------------------------------------------------
(* The emulator's lists *)

\* list holds S by weight.
IsByWeight(tree, S, list) ==
  /\ Lists(list, S)
  /\ \A i, j \in 1..Len(list) : i < j => ~Exceeds(tree[list[j]], tree[list[i]])

LEMMA ListedLists ==
  ASSUME NEW tree, IsTree(tree), NEW order, IsOrder(order), NEW b
  PROVE  IsByWeight(tree, Children(tree, b), ListedChildren(tree, order, b))
<1> DEFINE S == Children(tree, b)
<1>1. S \in SUBSET DOMAIN tree
  BY DEF Children
<1> HIDE DEF S
<1>2. (\A x \in S : order[x] \in Int) /\ \A x, y \in S : order[x] = order[y] => x = y
  <2>1. \A x \in S : x \in Inner /\ order[x] \in Int
    BY <1>1 DEF IsTree, IsOrder
  <2>2. DOMAIN order = Inner
    BY DEF IsOrder
  <2> QED BY <2>1, <2>2 DEF IsOrder, IsInjective
<1>3. ListedChildren(tree, order, b) = SortedByWeight(tree, order, S)
  BY DEF ListedChildren, S
<1>4. IsByWeight(tree, S, SortedByWeight(tree, order, S))
  BY <1>1, <1>2, SortedByWeightLists DEF IsByWeight
<1> QED BY <1>3, <1>4 DEF S

Kids(tree, order, row) == FlattenSeq([i \in 1..Len(row) |-> ListedChildren(tree, order, row[i])])
FlatMerge(tree, order, row) ==
  SortedByWeight(tree, Places(Kids(tree, order, row)), Range(Kids(tree, order, row)))

LEMMA KidsOfRow ==
  ASSUME NEW tree, IsTree(tree), NEW order, IsOrder(order), NEW row \in Seq(Nodes)
  PROVE  /\ Kids(tree, order, row) \in Seq(DOMAIN tree)
         /\ Range(Kids(tree, order, row)) = UNION {Children(tree, b) : b \in Range(row)}
<1> DEFINE ss == [i \in 1..Len(row) |-> ListedChildren(tree, order, row[i])]
           X == DOMAIN tree
           kids == Kids(tree, order, row)
<1>1. Len(row) \in Nat /\ DOMAIN row = 1..Len(row)
  BY LenProperties
<1>2. ASSUME NEW i \in 1..Len(row) PROVE Lists(ss[i], Children(tree, row[i])) /\ ss[i] \in Seq(X)
  <2>1. ss[i] = ListedChildren(tree, order, row[i])
    OBVIOUS
  <2> HIDE DEF ss
  <2>2. Lists(ss[i], Children(tree, row[i]))
    BY <2>1, ListedLists DEF IsByWeight
  <2>3. Children(tree, row[i]) \subseteq X
    BY DEF Children
  <2>4. ss[i] \in Seq(X)
    BY <2>2, <2>3 DEF Lists
  <2> QED BY <2>2, <2>4
<1>3. ss \in Seq(Seq(X)) /\ Len(ss) = Len(row)
  BY <1>1, <1>2
<1>4. kids = FlattenSeq(ss)
  BY DEF Kids
<1> HIDE DEF ss, kids, X
<1>5. kids \in Seq(X) /\ \E at, col : Spread(kids, ss, Len(row), at, col)
  BY <1>3, <1>4, Flattening
<1>6. PICK at, col : Spread(kids, ss, Len(row), at, col)
  BY <1>5
<1>7. DOMAIN kids = 1..Len(kids)
  BY <1>5, LenProperties
<1>8. ASSUME NEW x \in Range(kids) PROVE x \in UNION {Children(tree, b) : b \in Range(row)}
  <2>1. PICK k \in 1..Len(kids) : x = kids[k]
    BY <1>7 DEF Range
  <2>2. at[k] \in 1..Len(row) /\ col[k] \in 1..Len(ss[at[k]]) /\ x = ss[at[k]][col[k]]
    BY <1>6, <2>1 DEF Spread
  <2> DEFINE i == at[k]
             j == col[k]
  <2>3. ss[i] \in Seq(Children(tree, row[i])) /\ i \in DOMAIN row
    BY <1>1, <1>2, <2>2 DEF Lists
  <2>4. i \in 1..Len(row) /\ j \in 1..Len(ss[i]) /\ x = ss[i][j]
    BY <2>2
  <2> HIDE DEF i, j
  <2>5. x \in Children(tree, row[i])
    BY <2>3, <2>4, ElementOfSeq
  <2>6. row[i] \in Range(row)
    BY <2>3 DEF Range
  <2> QED BY <2>5, <2>6
<1>9. ASSUME NEW b \in Range(row), NEW x \in Children(tree, b) PROVE x \in Range(kids)
  <2>1. PICK i \in 1..Len(row) : b = row[i]
    BY <1>1 DEF Range
  <2>2. PICK j \in 1..Len(ss[i]) : ss[i][j] = x
    BY <1>2, <2>1 DEF Lists
  <2>3. PICK k \in 1..Len(kids) : at[k] = i /\ col[k] = j
    BY <1>6, <2>2 DEF Spread
  <2>4. kids[k] = x
    BY <1>6, <2>2, <2>3 DEF Spread
  <2> QED BY <1>7, <2>4 DEF Range
<1>10. Range(kids) = UNION {Children(tree, b) : b \in Range(row)}
  BY <1>8, <1>9
<1> QED BY <1>5, <1>10 DEF X, kids

LEMMA FlatMergeLists ==
  ASSUME NEW tree, IsTree(tree), NEW order, IsOrder(order), NEW row \in Seq(Nodes)
  PROVE  IsByWeight(tree, UNION {Children(tree, b) : b \in Range(row)}, FlatMerge(tree, order, row))
<1> DEFINE kids == Kids(tree, order, row)
           S == Range(kids)
           place == Places(kids)
<1>1. kids \in Seq(DOMAIN tree) /\ S = UNION {Children(tree, b) : b \in Range(row)}
  BY KidsOfRow
<1> HIDE DEF kids
<1>2. Len(kids) \in Nat /\ DOMAIN kids = 1..Len(kids) /\ \A i \in 1..Len(kids) : kids[i] \in DOMAIN tree
  BY <1>1, LenProperties, ElementOfSeq
<1>3. S \in SUBSET DOMAIN tree /\ \A x \in S : \E i \in 1..Len(kids) : kids[i] = x
  BY <1>2 DEF Range
<1>4. ASSUME NEW x \in S PROVE place[x] \in 1..Len(kids) /\ kids[place[x]] = x
  <2>1. place[x] = CHOOSE i \in 1..Len(kids) : kids[i] = x
    BY DEF Places
  <2> HIDE DEF place, S
  <2> QED BY <1>3, <2>1
<1>5. FlatMerge(tree, order, row) = SortedByWeight(tree, place, S)
  BY DEF FlatMerge, kids
<1> HIDE DEF place, S
<1>6. (\A x \in S : place[x] \in Int) /\ \A x, y \in S : place[x] = place[y] => x = y
  BY <1>2, <1>4
<1>7. IsByWeight(tree, S, SortedByWeight(tree, place, S))
  BY <1>3, <1>6, SortedByWeightLists DEF IsByWeight
<1> QED BY <1>1, <1>5, <1>7

Item == [node : Nodes, tied : BOOLEAN]

FlatPiece(tree, order, list, i) ==
  IF IsUser(list[i]) THEN <<[node |-> list[i], tied |-> TiedWithNext(tree, list, i)]>>
  ELSE IF TiedWithNext(tree, list, i) THEN <<>>
  ELSE IF Len(Row(tree, list, i)) = 1 THEN <<[node |-> list[i], tied |-> FALSE]>>
  ELSE Marked(tree, FlatMerge(tree, order, Row(tree, list, i)))

LEMMA FlatChildrenIs ==
  \A tree, order, b :
    FlatChildren(tree, order, b)
    = FlattenSeq([i \in 1..Len(ListedChildren(tree, order, b)) |->
        FlatPiece(tree, order, ListedChildren(tree, order, b), i)])
BY DEF FlatChildren, FlatPiece, FlatMerge, Kids, Concatenation

LEMMA MarkedType ==
  ASSUME NEW tree, NEW list \in Seq(Nodes)
  PROVE  /\ Marked(tree, list) \in Seq(Item) /\ Len(Marked(tree, list)) = Len(list)
         /\ \A i \in 1..Len(list) : Marked(tree, list)[i].node = list[i]
<1> DEFINE item(i) == [node |-> list[i], tied |-> i < Len(list) /\ TieIn(tree, list[i], list[i + 1])]
<1>1. Len(list) \in Nat /\ \A i \in 1..Len(list) : list[i] \in Nodes
  BY LenProperties, ElementOfSeq
<1>2. \A i \in 1..Len(list) : item(i) \in Item /\ item(i).node = list[i]
  BY <1>1 DEF Item
<1>3. Marked(tree, list) = [i \in 1..Len(list) |-> item(i)]
  BY DEF Marked
<1> HIDE DEF item
<1> QED BY <1>1, <1>2, <1>3

LEMMA ListedIsBelow ==
  ASSUME NEW tree, IsTree(tree), NEW order, IsOrder(order), NEW b
  PROVE  /\ ListedChildren(tree, order, b) \in Seq(Nodes)
         /\ Len(ListedChildren(tree, order, b)) \in Nat
         /\ \A i \in 1..Len(ListedChildren(tree, order, b)) :
              /\ ListedChildren(tree, order, b)[i] \in DOMAIN tree
              /\ ListedChildren(tree, order, b)[i] \in Inner
              /\ ParentOf(ListedChildren(tree, order, b)[i]) = b
<1> DEFINE list == ListedChildren(tree, order, b)
<1>1. list \in Seq(Children(tree, b))
  BY ListedLists DEF IsByWeight, Lists
<1>2. \A x \in Children(tree, b) : x \in DOMAIN tree /\ x \in Inner /\ x \in Nodes /\ ParentOf(x) = b
  BY DEF Children, IsTree, Inner
<1> HIDE DEF list
<1>3. Len(list) \in Nat /\ \A i \in 1..Len(list) : list[i] \in Children(tree, b)
  BY <1>1, LenProperties, ElementOfSeq
<1>4. list \in Seq(Nodes)
  BY <1>1, <1>2, <1>3
<1> QED BY <1>2, <1>3, <1>4 DEF list

\* What takes the place of a child is below its parent.
LEMMA FlatPieceType ==
  ASSUME NEW tree, IsTree(tree), NEW order, IsOrder(order), NEW b \in Nodes,
         NEW list, list = ListedChildren(tree, order, b), NEW i \in 1..Len(list)
  PROVE  /\ FlatPiece(tree, order, list, i) \in Seq(Item)
         /\ \A j \in 1..Len(FlatPiece(tree, order, list, i)) :
              Len(Path[FlatPiece(tree, order, list, i)[j].node]) > Len(Path[b])
<1> DEFINE piece == FlatPiece(tree, order, list, i)
           row == Row(tree, list, i)
<1>1. /\ list \in Seq(Nodes) /\ Len(list) \in Nat
      /\ \A p \in 1..Len(list) : list[p] \in Inner /\ list[p] \in Nodes /\ ParentOf(list[p]) = b
  BY ListedIsBelow DEF Inner
<1>2. ASSUME NEW m \in Inner, ParentOf(m) = b
      PROVE  Len(Path[m]) > Len(Path[b]) /\ Len(Path[b]) \in Nat /\ Len(Path[m]) \in Nat
  <2>1. Len(Path[m]) = Len(Path[ParentOf(m)]) + 1 /\ Len(Path[ParentOf(m)]) \in Nat
    BY PathOfChild
  <2> QED BY <1>2, <2>1
<1>3. ASSUME NEW tied \in BOOLEAN, piece = <<[node |-> list[i], tied |-> tied]>>
      PROVE  piece \in Seq(Item) /\ \A j \in 1..Len(piece) : Len(Path[piece[j].node]) > Len(Path[b])
  <2> DEFINE item == [node |-> list[i], tied |-> tied]
  <2>1. item \in Item /\ item.node = list[i]
    BY <1>1 DEF Item
  <2>2. piece = <<item>>
    BY <1>3
  <2> HIDE DEF item, piece
  <2>3. piece \in Seq(Item) /\ \A j \in 1..Len(piece) : piece[j] = item
    BY <2>1, <2>2
  <2> QED BY <1>1, <1>2, <2>1, <2>3
<1>4. CASE IsUser(list[i])
  <2>1. TiedWithNext(tree, list, i) \in BOOLEAN
    BY DEF TiedWithNext
  <2>2. piece = <<[node |-> list[i], tied |-> TiedWithNext(tree, list, i)]>>
    BY <1>4 DEF FlatPiece
  <2> HIDE DEF piece
  <2> QED BY <1>3, <2>1, <2>2 DEF piece
<1>5. CASE ~IsUser(list[i]) /\ TiedWithNext(tree, list, i)
  <2>1. piece = <<>>
    BY <1>5 DEF FlatPiece
  <2> HIDE DEF piece
  <2>2. piece \in Seq(Item) /\ \A j \in 1..Len(piece) : FALSE
    BY <2>1
  <2> QED BY <2>2 DEF piece
<1>6. CASE ~IsUser(list[i]) /\ ~TiedWithNext(tree, list, i) /\ Len(row) = 1
  <2>1. piece = <<[node |-> list[i], tied |-> FALSE]>>
    BY <1>6 DEF FlatPiece
  <2> HIDE DEF piece
  <2> QED BY <1>3, <2>1 DEF piece
<1>7. CASE ~IsUser(list[i]) /\ ~TiedWithNext(tree, list, i) /\ Len(row) # 1
  <2> DEFINE T == UNION {Children(tree, c) : c \in Range(row)}
             kids == FlatMerge(tree, order, row)
  <2>1. piece = Marked(tree, kids)
    BY <1>7 DEF FlatPiece
  <2>2. i \in Nat \ {0}
    BY <1>1
  <2>3. PICK first \in Nat : RowBegins(tree, list, i, first)
    BY <2>2, RowExists
  <2>4. row \in Seq(Nodes)
    <3>1. Row(tree, list, i) = SubSeq(list, first, i) /\ first \in 1..i
      BY <2>3 DEF RowBegins
    <3>2. \A j \in first..i : list[j] \in Nodes
      BY <1>1, <2>2, <3>1
    <3>3. SubSeq(list, first, i) \in Seq(Nodes)
      BY <2>2, <3>1, <3>2, SubSeqProperties
    <3> QED BY <3>1, <3>3
  <2>5. IsByWeight(tree, T, kids)
    BY <2>4, FlatMergeLists
  <2>6. ASSUME NEW x \in T
        PROVE  x \in Nodes /\ Len(Path[x]) > Len(Path[b])
    <3>1. PICK c \in Range(row) : x \in Children(tree, c)
      OBVIOUS
    <3>2. PICK p \in first..i : c = list[p]
      BY <1>1, <2>3, <3>1, RowFrom
    <3>3. p \in 1..Len(list)
      BY <1>1, <2>2, <2>3, <3>2 DEF RowBegins
    <3>4. x \in Inner /\ ParentOf(x) = c /\ x \in Nodes
      BY <3>1 DEF Children, IsTree, Inner
    <3>5. Len(Path[x]) = Len(Path[c]) + 1
      BY <3>4, PathOfChild
    <3>6. Len(Path[c]) > Len(Path[b]) /\ Len(Path[b]) \in Nat /\ Len(Path[c]) \in Nat
      BY <1>1, <1>2, <3>2, <3>3
    <3> QED BY <3>4, <3>5, <3>6
  <2> HIDE DEF T, kids, row
  <2>7. kids \in Seq(T)
    BY <2>5 DEF IsByWeight, Lists
  <2>8. Len(kids) \in Nat /\ \A j \in 1..Len(kids) : kids[j] \in T
    BY <2>7, LenProperties, ElementOfSeq
  <2>9. kids \in Seq(Nodes)
    BY <2>6, <2>7, <2>8
  <2>10. /\ Marked(tree, kids) \in Seq(Item) /\ Len(Marked(tree, kids)) = Len(kids)
         /\ \A j \in 1..Len(kids) : Marked(tree, kids)[j].node = kids[j]
    BY <2>9, MarkedType
  <2> HIDE DEF piece
  <2>11. piece \in Seq(Item) /\ \A j \in 1..Len(piece) : Len(Path[piece[j].node]) > Len(Path[b])
    BY <2>1, <2>6, <2>8, <2>10
  <2> QED BY <2>11 DEF piece
<1> QED BY <1>4, <1>5, <1>6, <1>7

LEMMA FlatChildrenType ==
  ASSUME NEW tree, IsTree(tree), NEW order, IsOrder(order), NEW b \in Nodes
  PROVE  /\ FlatChildren(tree, order, b) \in Seq(Item)
         /\ \A j \in 1..Len(FlatChildren(tree, order, b)) :
              Len(Path[FlatChildren(tree, order, b)[j].node]) > Len(Path[b])
<1> DEFINE list == ListedChildren(tree, order, b)
           ss == [i \in 1..Len(list) |-> FlatPiece(tree, order, list, i)]
           flat == FlatChildren(tree, order, b)
<1>1. flat = FlattenSeq(ss)
  BY FlatChildrenIs
<1>2. Len(list) \in Nat
  BY ListedIsBelow
<1>3. ASSUME NEW i \in 1..Len(list)
      PROVE  ss[i] \in Seq(Item) /\ \A j \in 1..Len(ss[i]) : Len(Path[ss[i][j].node]) > Len(Path[b])
  <2>1. ss[i] = FlatPiece(tree, order, list, i)
    OBVIOUS
  <2> HIDE DEF ss, list
  <2>2. list = ListedChildren(tree, order, b)
    BY DEF list
  <2>3. /\ FlatPiece(tree, order, list, i) \in Seq(Item)
        /\ \A j \in 1..Len(FlatPiece(tree, order, list, i)) :
              Len(Path[FlatPiece(tree, order, list, i)[j].node]) > Len(Path[b])
    BY <2>2, FlatPieceType
  <2> QED BY <2>1, <2>3
<1>4. ss \in Seq(Seq(Item)) /\ Len(ss) = Len(list)
  BY <1>2, <1>3
<1> HIDE DEF ss, flat, list
<1>5. flat \in Seq(Item) /\ \E row, col : Spread(flat, ss, Len(ss), row, col)
  BY <1>1, <1>4, Flattening
<1>6. PICK row, col : Spread(flat, ss, Len(ss), row, col)
  BY <1>5
<1>7. ASSUME NEW k \in 1..Len(flat) PROVE Len(Path[flat[k].node]) > Len(Path[b])
  <2>1. row[k] \in 1..Len(ss) /\ col[k] \in 1..Len(ss[row[k]]) /\ flat[k] = ss[row[k]][col[k]]
    BY <1>6 DEF Spread
  <2> QED BY <1>3, <1>4, <2>1
<1> QED BY <1>5, <1>7 DEF flat

---------------------------------------------------------------------------
(* The emulator's walk *)

TraverseItem(f, tree, order, item) ==
  IF IsUser(item.node) THEN <<[user |-> item.node, tied |-> item.tied]>>
  ELSE f[FlatChildren(tree, order, item.node)]
TraverseList(f, tree, order, items) ==
  FlattenSeq([i \in 1..Len(items) |-> TraverseItem(f, tree, order, items[i])])

\* Lists of items with at most n levels from them down.
LowItems(n) == {items \in Seq(Item) : \A i \in 1..Len(items) : Len(Path[items[i].node]) + n > MaxDepth}

LEMMA ItemFacts ==
  ASSUME NEW items \in Seq(Item), NEW i \in 1..Len(items)
  PROVE  /\ items[i] \in Item /\ items[i].node \in Nodes /\ items[i].tied \in BOOLEAN
         /\ Len(Path[items[i].node]) \in Nat /\ Len(Path[items[i].node]) <= MaxDepth
<1>1. items[i] \in Item
  BY ElementOfSeq
<1>2. items[i].node \in Nodes /\ items[i].tied \in BOOLEAN
  BY <1>1 DEF Item
<1>3. Len(Path[items[i].node]) \in Nat
  BY <1>2, PathsAreSound, LenProperties DEF PathIsSound
<1> QED BY <1>1, <1>2, <1>3, PathIsShort

LEMMA LowItemsFacts ==
  /\ \A n \in Nat : LowItems(n) \subseteq LowItems(n + 1)
  /\ LowItems(MaxDepth + 1) = Seq(Item)
<1>1. ASSUME NEW n \in Nat, NEW items \in LowItems(n) PROVE items \in LowItems(n + 1)
  <2>1. items \in Seq(Item) /\ \A i \in 1..Len(items) : Len(Path[items[i].node]) + n > MaxDepth
    BY DEF LowItems
  <2>2. \A u, d \in Nat : u + n > d => u + (n + 1) > d
    OBVIOUS
  <2>3. \A i \in 1..Len(items) : Len(Path[items[i].node]) + (n + 1) > MaxDepth
    BY <2>1, <2>2, ItemFacts, MaxDepthType
  <2> QED BY <2>1, <2>3 DEF LowItems
<1>2. ASSUME NEW items \in Seq(Item) PROVE items \in LowItems(MaxDepth + 1)
  <2>1. \A u, d \in Nat : u + (d + 1) > d
    OBVIOUS
  <2>2. \A i \in 1..Len(items) : Len(Path[items[i].node]) + (MaxDepth + 1) > MaxDepth
    BY <2>1, ItemFacts, MaxDepthType
  <2> QED BY <2>2 DEF LowItems
<1>3. LowItems(MaxDepth + 1) \subseteq Seq(Item)
  BY DEF LowItems
<1> QED BY <1>1, <1>2, <1>3

LEMMA NoLowItems ==
  ASSUME NEW items \in LowItems(0), NEW i \in 1..Len(items) PROVE FALSE
<1>1. items \in Seq(Item) /\ Len(Path[items[i].node]) + 0 > MaxDepth
  BY DEF LowItems
<1>2. Len(Path[items[i].node]) \in Nat /\ Len(Path[items[i].node]) <= MaxDepth
  BY <1>1, ItemFacts
<1> QED BY <1>1, <1>2, MaxDepthType

LEMMA FlatIsLower ==
  ASSUME NEW tree, IsTree(tree), NEW order, IsOrder(order), NEW n \in Nat,
         NEW items \in LowItems(n + 1), NEW i \in 1..Len(items)
  PROVE  FlatChildren(tree, order, items[i].node) \in LowItems(n)
<1> DEFINE b == items[i].node
           flat == FlatChildren(tree, order, b)
<1>1. items \in Seq(Item) /\ Len(Path[b]) + (n + 1) > MaxDepth
  BY DEF LowItems
<1>2. b \in Nodes /\ Len(Path[b]) \in Nat
  BY <1>1, ItemFacts
<1> HIDE DEF b
<1>3. flat \in Seq(Item) /\ \A j \in 1..Len(flat) : Len(Path[flat[j].node]) > Len(Path[b])
  BY <1>2, FlatChildrenType
<1> HIDE DEF flat
<1>4. \A u, v, d \in Nat : u + (n + 1) > d /\ v > u => v + n > d
  OBVIOUS
<1>5. ASSUME NEW j \in 1..Len(flat) PROVE Len(Path[flat[j].node]) + n > MaxDepth
  <2>1. Len(Path[flat[j].node]) \in Nat
    BY <1>3, ItemFacts
  <2> QED BY <1>1, <1>2, <1>3, <1>4, <2>1, MaxDepthType
<1>6. flat \in LowItems(n)
  BY <1>3, <1>5 DEF LowItems
<1> QED BY <1>6 DEF flat, b

LEMMA TraverseListAgrees ==
  ASSUME NEW tree, IsTree(tree), NEW order, IsOrder(order), NEW n \in Nat,
         NEW f, NEW g, \A items \in LowItems(n) : f[items] = g[items],
         NEW items \in LowItems(n + 1)
  PROVE  TraverseList(f, tree, order, items) = TraverseList(g, tree, order, items)
<1>1. ASSUME NEW i \in 1..Len(items)
      PROVE  TraverseItem(f, tree, order, items[i]) = TraverseItem(g, tree, order, items[i])
  <2>1. FlatChildren(tree, order, items[i].node) \in LowItems(n)
    BY FlatIsLower
  <2> QED BY <2>1 DEF TraverseItem
<1>2. [i \in 1..Len(items) |-> TraverseItem(f, tree, order, items[i])]
      = [i \in 1..Len(items) |-> TraverseItem(g, tree, order, items[i])]
  BY <1>1
<1> QED BY <1>2 DEF TraverseList

LEMMA TraverseExists ==
  ASSUME NEW tree, IsTree(tree), NEW order, IsOrder(order)
  PROVE  \E f : f = [items \in Seq(Item) |-> TraverseList(f, tree, order, items)]
<1> DEFINE G == {n \in Nat : \E f : f = [items \in LowItems(n) |-> TraverseList(f, tree, order, items)]}
<1>1. 0 \in G
  <2> DEFINE f == [items \in LowItems(0) |-> TraverseList(<<>>, tree, order, items)]
  <2>1. ASSUME NEW items \in LowItems(0)
        PROVE  TraverseList(f, tree, order, items) = TraverseList(<<>>, tree, order, items)
    <3> HIDE DEF f
    <3>1. [i \in 1..Len(items) |-> TraverseItem(f, tree, order, items[i])]
          = [i \in 1..Len(items) |-> TraverseItem(<<>>, tree, order, items[i])]
      BY NoLowItems
    <3> QED BY <3>1 DEF TraverseList
  <2>2. f = [items \in LowItems(0) |-> TraverseList(f, tree, order, items)]
    <3> HIDE DEF f
    <3>1. f = [items \in LowItems(0) |-> TraverseList(<<>>, tree, order, items)]
      BY DEF f
    <3> QED BY <2>1, <3>1
  <2> HIDE DEF f
  <2> QED BY <2>2
<1>2. ASSUME NEW n \in Nat, n \in G PROVE n + 1 \in G
  <2>1. PICK f : f = [items \in LowItems(n) |-> TraverseList(f, tree, order, items)]
    BY <1>2
  <2> DEFINE g == [items \in LowItems(n + 1) |-> TraverseList(f, tree, order, items)]
  <2>2. \A items \in LowItems(n + 1) : g[items] = TraverseList(f, tree, order, items)
    OBVIOUS
  <2>3. g = [items \in LowItems(n + 1) |-> g[items]]
    OBVIOUS
  <2> HIDE DEF g
  <2>4. \A items \in LowItems(n) : g[items] = f[items]
    <3> TAKE items \in LowItems(n)
    <3>1. items \in LowItems(n + 1)
      BY LowItemsFacts
    <3>2. f[items] = TraverseList(f, tree, order, items)
      BY <2>1
    <3> QED BY <2>2, <3>1, <3>2
  <2>5. ASSUME NEW items \in LowItems(n + 1)
        PROVE  g[items] = TraverseList(g, tree, order, items)
    <3>1. TraverseList(g, tree, order, items) = TraverseList(f, tree, order, items)
      BY <2>4, TraverseListAgrees
    <3> QED BY <2>2, <3>1
  <2>6. g = [items \in LowItems(n + 1) |-> TraverseList(g, tree, order, items)]
    BY <2>3, <2>5
  <2> QED BY <2>6
<1>3. \A n \in Nat : n \in G
  <2> HIDE DEF G
  <2> QED BY <1>1, <1>2, NatSetInduction
<1>4. MaxDepth + 1 \in G
  <2> HIDE DEF G
  <2> QED BY <1>3, MaxDepthType
<1> QED BY <1>4, LowItemsFacts

\* What _traverse () adds for an item.
Traversed(tree, order, item) ==
  IF IsUser(item.node) THEN <<[user |-> item.node, tied |-> item.tied]>>
  ELSE Traverse(tree, order, FlatChildren(tree, order, item.node))

LEMMA TraverseUnfolds ==
  ASSUME NEW tree, IsTree(tree), NEW order, IsOrder(order), NEW items \in Seq(Item)
  PROVE  Traverse(tree, order, items)
         = FlattenSeq([i \in 1..Len(items) |-> Traversed(tree, order, items[i])])
<1> DEFINE f == CHOOSE f : f = [l \in Seq(Item) |-> TraverseList(f, tree, order, l)]
<1>1. f = [l \in Seq(Item) |-> TraverseList(f, tree, order, l)]
  <2>1. \E g : g = [l \in Seq(Item) |-> TraverseList(g, tree, order, l)]
    BY TraverseExists
  <2> QED BY <2>1, Zenon
<1>2. \A l : Traverse(tree, order, l) = f[l]
  BY DEF Traverse, TraverseList, TraverseItem, Item
<1> HIDE DEF f
<1>3. Traverse(tree, order, items) = TraverseList(f, tree, order, items)
  BY <1>1, <1>2
<1>4. \A i \in 1..Len(items) : Traversed(tree, order, items[i]) = TraverseItem(f, tree, order, items[i])
  BY <1>2 DEF Traversed, TraverseItem
<1>5. [i \in 1..Len(items) |-> Traversed(tree, order, items[i])]
      = [i \in 1..Len(items) |-> TraverseItem(f, tree, order, items[i])]
  BY <1>4
<1> QED BY <1>3, <1>5 DEF TraverseList

LEMMA TraverseType ==
  ASSUME NEW tree, IsTree(tree), NEW order, IsOrder(order)
  PROVE  \A items \in Seq(Item) : Traverse(tree, order, items) \in Visits
<1> DEFINE G == {n \in Nat : \A items \in LowItems(n) : Traverse(tree, order, items) \in Visits}
           Visited == [user : Nodes, tied : BOOLEAN]
<1>1. ASSUME NEW items \in Seq(Item),
             \A i \in 1..Len(items) :
               Traverse(tree, order, FlatChildren(tree, order, items[i].node)) \in Visits
      PROVE  Traverse(tree, order, items) \in Visits
  <2> DEFINE ss == [i \in 1..Len(items) |-> Traversed(tree, order, items[i])]
  <2>1. ASSUME NEW i \in 1..Len(items) PROVE Traversed(tree, order, items[i]) \in Seq(Visited)
    <3>1. items[i].node \in Nodes /\ items[i].tied \in BOOLEAN
      BY ItemFacts
    <3>2. [user |-> items[i].node, tied |-> items[i].tied] \in Visited
      BY <3>1
    <3> HIDE DEF Visited
    <3>3. CASE IsUser(items[i].node)
      BY <3>2, <3>3 DEF Traversed
    <3>4. CASE ~IsUser(items[i].node)
      BY <1>1, <3>4 DEF Traversed, Visits, Visited
    <3> QED BY <3>3, <3>4
  <2>2. Len(items) \in Nat
    BY LenProperties
  <2> HIDE DEF Visited
  <2>3. ss \in Seq(Seq(Visited))
    BY <2>1, <2>2
  <2>4. Traverse(tree, order, items) = FlattenSeq(ss)
    BY TraverseUnfolds
  <2> HIDE DEF ss
  <2>5. FlattenSeq(ss) \in Seq(Visited)
    BY <2>3, Flattening
  <2> QED BY <2>4, <2>5 DEF Visits, Visited
<1>2. 0 \in G
  <2> SUFFICES ASSUME NEW items \in LowItems(0) PROVE Traverse(tree, order, items) \in Visits
    OBVIOUS
  <2>1. items \in Seq(Item)
    BY DEF LowItems
  <2> QED BY <1>1, <2>1, NoLowItems
<1>3. ASSUME NEW n \in Nat, n \in G PROVE n + 1 \in G
  <2> SUFFICES ASSUME NEW items \in LowItems(n + 1) PROVE Traverse(tree, order, items) \in Visits
    OBVIOUS
  <2>1. items \in Seq(Item)
    BY DEF LowItems
  <2>2. \A i \in 1..Len(items) :
          Traverse(tree, order, FlatChildren(tree, order, items[i].node)) \in Visits
    BY <1>3, FlatIsLower
  <2> QED BY <1>1, <2>1, <2>2
<1>4. \A n \in Nat : n \in G
  <2> HIDE DEF G
  <2> QED BY <1>2, <1>3, NatSetInduction
<1>5. MaxDepth + 1 \in G
  <2> HIDE DEF G
  <2> QED BY <1>4, MaxDepthType
<1> QED BY <1>5, LowItemsFacts

LEMMA FlattenOne ==
  ASSUME NEW X, NEW s \in Seq(X)
  PROVE  FlattenSeq(<<s>>) = s
<1> DEFINE h == [i \in 0..1 |-> IF i = 0 THEN <<>> ELSE s]
<1>1. <<s>> \in Seq(Seq(X)) /\ Len(<<s>>) = 1 /\ <<s>>[1] = s
  OBVIOUS
<1>2. <<>> \in Seq(X) /\ <<>> \o s = s
  BY ConcatEmptySeq
<1>3. h \in [0..1 -> Seq(X)] /\ h[0] = <<>> /\ h[1] = s
  BY <1>2
<1> HIDE DEF h
<1>4. \A i \in 1..1 : h[i] = h[i - 1] \o <<s>>[i]
  <2>1. h[1] = h[1 - 1] \o <<s>>[1]
    BY <1>1, <1>2, <1>3
  <2> QED BY <2>1
<1>5. Steps(<<s>>, X, h)
  BY <1>1, <1>3, <1>4 DEF Steps
<1> QED BY <1>1, <1>3, <1>5, FlattenIs

\* The children of a bank are a level, of associations or of banks.
LEMMA ChildrenAreLevel ==
  ASSUME NEW tree, IsTree(tree), NEW b \in Banks
  PROVE  /\ IsLevel(tree, Len(Path[b]) + 1, Children(tree, b))
         /\ \A x, y \in Children(tree, b) : IsUser(x) = IsUser(y)
         /\ b \in Leaves => \A x \in Children(tree, b) : IsUser(x)
<1> DEFINE C == Children(tree, b)
           k == Len(Path[b]) + 1
<1>1. \A x \in C : x \in DOMAIN tree /\ x \in Inner /\ x \in Nodes /\ ParentOf(x) = b
  BY DEF Children, IsTree, Inner
<1>2. b \in Nodes /\ Len(Path[b]) \in Nat
  <2>1. b \in Nodes
    BY DEF Nodes
  <2> QED BY <2>1, PathsAreSound, LenProperties DEF PathIsSound
<1>3. \A x \in C : Len(Path[x]) = k /\ \A j \in 1..Len(Path[b]) : Path[x][j] = Path[b][j]
  <2> TAKE x \in C
  <2>1. x \in Inner /\ ParentOf(x) = b
    BY <1>1
  <2>2. /\ Len(Path[x]) = Len(Path[ParentOf(x)]) + 1
        /\ \A j \in 1..Len(Path[ParentOf(x)]) : Path[x][j] = Path[ParentOf(x)][j]
    BY <2>1, PathOfChild
  <2> QED BY <2>1, <2>2
<1>4. ASSUME NEW x \in C, NEW y \in C, NEW j \in 1..k - 1
      PROVE  TieIn(tree, Path[x][j], Path[y][j])
  <2>1. j \in 1..Len(Path[b]) /\ j \in 1..Len(Path[x])
    BY <1>2, <1>3
  <2>2. Path[x][j] = Path[y][j] /\ Path[x][j] \in DOMAIN tree
    BY <1>1, <1>3, <2>1 DEF IsTree
  <2>3. TieIn(tree, Path[x][j], Path[x][j])
    BY <2>2, BeforeFacts DEF TieIn, Ties
  <2> QED BY <2>2, <2>3
<1>5. ASSUME NEW x \in C, b \in Leaves PROVE IsUser(x)
  <2> SUFFICES ASSUME ~IsUser(x) PROVE FALSE
    OBVIOUS
  <2>1. x \in Banks /\ Parent[x] = b
    BY <1>1, TreeFacts DEF ParentOf
  <2> QED BY <1>5, <2>1 DEF Leaves
<1>6. ASSUME NEW x \in C, IsUser(x) PROVE b \in Leaves
  <2>1. x \in Assocs /\ BankOf[x] = b
    BY <1>1, <1>6 DEF IsUser, ParentOf
  <2> QED BY <2>1, TreeAssumption
<1>7. \A x, y \in C : IsUser(x) = IsUser(y)
  BY <1>5, <1>6 DEF IsUser
<1>8. C \subseteq DOMAIN tree
  BY <1>1
<1> HIDE DEF C
<1>9. IsLevel(tree, k, C)
  BY <1>3, <1>4, <1>8 DEF IsLevel
<1> QED BY <1>5, <1>7, <1>9 DEF C

\* By weight is in order where all are associations or all are banks.
LEMMA ByWeightInOrder ==
  ASSUME NEW tree, IsTree(tree), NEW k, NEW S, IsLevel(tree, k, S),
         \A x, y \in S : IsUser(x) = IsUser(y), NEW list, IsByWeight(tree, S, list)
  PROVE  IsLevelList(tree, k, S, list)
<1>1. Lists(list, S) /\ list \in Seq(S)
  BY DEF IsByWeight, Lists
<1>2. ASSUME NEW i \in 1..Len(list), NEW j \in 1..Len(list), i < j
      PROVE  ~Before(tree, list[j], list[i])
  <2>1. ~Exceeds(tree[list[j]], tree[list[i]])
    BY <1>2 DEF IsByWeight
  <2>2. list[i] \in S /\ list[j] \in S
    BY <1>1, ElementOfSeq
  <2>3. IsUser(list[i]) = IsUser(list[j])
    BY <2>2
  <2> QED BY <2>1, <2>3 DEF Before, IsUser
<1> QED BY <1>1, <1>2 DEF IsLevelList

\* The children of tied banks, in the place of the banks.
LEMMA MarkedOrderly ==
  ASSUME NEW tree, IsTree(tree), NEW order, IsOrder(order), NEW k \in Nat,
         NEW T, IsLevel(tree, k, T), \A x \in T : IsUser(x),
         NEW kids, IsByWeight(tree, T, kids)
  PROVE  Orderly(tree, FlattenSeq([j \in 1..Len(Marked(tree, kids)) |->
                                     Traversed(tree, order, Marked(tree, kids)[j])]),
                 UnderAll(tree, T))
<1> DEFINE items == Marked(tree, kids)
           pieces == [j \in 1..Len(items) |-> Traversed(tree, order, items[j])]
<1>1. IsLevelList(tree, k, T, kids)
  <2>1. \A x, y \in T : IsUser(x) = IsUser(y)
    BY DEF IsUser
  <2> QED BY <2>1, ByWeightInOrder
<1>2. /\ kids \in Seq(Nodes) /\ Len(kids) \in Nat
      /\ \A j \in 1..Len(kids) : kids[j] \in T /\ kids[j] \in DOMAIN tree
  BY <1>1, LevelListFacts
<1>3. items \in Seq(Item) /\ Len(items) = Len(kids)
  BY <1>2, MarkedType
<1>4. ASSUME NEW j \in 1..Len(kids)
      PROVE  /\ pieces[j] \in Visits
             /\ pieces[j] = <<[user |-> kids[j], tied |-> TiedWithNext(tree, kids, j)]>>
  <2>1. /\ items[j].node = kids[j]
        /\ items[j].tied = (j < Len(kids) /\ TieIn(tree, kids[j], kids[j + 1]))
    BY DEF Marked
  <2>2. IsUser(kids[j]) /\ kids[j] \in Nodes
    BY <1>2, ElementOfSeq
  <2>3. (j < Len(kids) /\ TieIn(tree, kids[j], kids[j + 1])) = TiedWithNext(tree, kids, j)
    <3>1. j < Len(kids) => IsUser(kids[j]) = IsUser(kids[j + 1])
      <4>1. j < Len(kids) => j + 1 \in 1..Len(kids)
        BY <1>2
      <4> QED BY <1>2, <2>2, <4>1 DEF IsUser
    <3> QED BY <3>1 DEF TiedWithNext
  <2> HIDE DEF items
  <2>4. pieces[j] = Traversed(tree, order, items[j])
    BY <1>3
  <2>5. pieces[j] = <<[user |-> kids[j], tied |-> TiedWithNext(tree, kids, j)]>>
    BY <2>1, <2>2, <2>3, <2>4 DEF Traversed
  <2>6. [user |-> kids[j], tied |-> TiedWithNext(tree, kids, j)] \in [user : Nodes, tied : BOOLEAN]
    <3>1. TiedWithNext(tree, kids, j) \in BOOLEAN
      BY DEF TiedWithNext
    <3> QED BY <2>2, <3>1
  <2> HIDE DEF pieces
  <2> QED BY <2>5, <2>6 DEF Visits
<1>5. Len(pieces) = Len(kids) /\ DOMAIN pieces = 1..Len(kids)
  BY <1>2, <1>3
<1> HIDE DEF items, pieces
<1>6. pieces \in Seq(Visits)
  <2>1. pieces = [j \in 1..Len(kids) |-> pieces[j]]
    BY <1>3 DEF pieces
  <2> QED BY <1>2, <1>4, <2>1
<1>7. \A j \in 1..Len(kids) : IsPiece(tree, kids, j, pieces[j])
  BY <1>2, <1>4 DEF IsPiece
<1>8. Orderly(tree, FlattenSeq(pieces), UnderAll(tree, T))
  BY <1>1, <1>5, <1>6, <1>7, PiecesOrderly
<1> QED BY <1>8 DEF pieces, items

\* Banks of a row of more than one have no sub-banks.
LEMMA RowOfLeaves ==
  ASSUME NEW tree, IsTree(tree), ~SubBanksTie(tree), NEW b \in Banks, NEW k \in Nat,
         NEW list, IsLevelList(tree, k, Children(tree, b), list),
         NEW i \in 1..Len(list), ~IsUser(list[i]), Len(Row(tree, list, i)) # 1
  PROVE  \A c \in Range(Row(tree, list, i)) : c \in Leaves
<1> DEFINE C == Children(tree, b)
           row == Row(tree, list, i)
<1>1. /\ Range(row) \subseteq C /\ list[i] \in Range(row)
      /\ \A c \in Range(row) : ~IsUser(c)
      /\ \A c, d \in Range(row) : TieIn(tree, c, d)
  BY RowIsLevel
<1>2. /\ list \in Seq(Nodes) /\ Len(list) \in Nat
      /\ \A p, q \in 1..Len(list) : list[p] = list[q] => p = q
  BY LevelListFacts
<1>3. i \in Nat \ {0}
  BY <1>2
<1>4. PICK first \in Nat : RowBegins(tree, list, i, first)
  BY <1>3, RowExists
<1>5. first \in 1..i /\ row = SubSeq(list, first, i)
  BY <1>4 DEF RowBegins
<1>6. first # i
  <2> SUFFICES ASSUME first = i PROVE FALSE
    OBVIOUS
  <2>1. \A j \in i..i : list[j] \in Nodes
    BY <1>2, <1>3, ElementOfSeq
  <2>2. Len(SubSeq(list, i, i)) = i - i + 1
    BY <1>3, <2>1, SubSeqProperties
  <2> QED BY <1>3, <1>5, <2>2
<1>7. list[first] \in Range(row) /\ list[first] # list[i]
  <2>1. first \in first..i /\ first \in 1..Len(list)
    BY <1>2, <1>3, <1>5
  <2> QED BY <1>2, <1>4, <1>6, <2>1, RowRange
<1> HIDE DEF row
<1>8. ASSUME NEW c \in Range(row), NEW d \in Range(row), c # d PROVE c \in Leaves
  <2>1. /\ c \in DOMAIN tree /\ d \in DOMAIN tree /\ ParentOf(c) = b /\ ParentOf(d) = b
        /\ c \in Banks /\ d \in Banks
    <3>1. c \in C /\ d \in C /\ ~IsUser(c) /\ ~IsUser(d)
      BY <1>1
    <3>2. c \in DOMAIN tree /\ d \in DOMAIN tree /\ ParentOf(c) = b /\ ParentOf(d) = b
      BY <3>1 DEF Children
    <3>3. c \in Nodes /\ d \in Nodes
      BY <3>2 DEF IsTree, Inner
    <3> QED BY <3>1, <3>2, <3>3, TreeFacts
  <2>2. TieIn(tree, c, d)
    BY <1>1
  <2>3. {c, d} \cap Leaves = {c, d}
    BY <1>8, <2>1, <2>2 DEF SubBanksTie
  <2> QED BY <2>3
<1>9. ASSUME NEW c \in Range(row) PROVE c \in Leaves
  <2>1. c # list[i] \/ c # list[first]
    BY <1>7
  <2> QED BY <1>1, <1>7, <1>8, <2>1
<1> QED BY <1>9 DEF row

\* The emulator orders the children of a bank, if it does so for its sub-banks.
Flat(tree, order, b) == Traverse(tree, order, FlatChildren(tree, order, b))

LEMMA FlatRowOrderly ==
  ASSUME NEW tree, IsTree(tree), ~SubBanksTie(tree), NEW order, IsOrder(order),
         NEW b \in Banks, NEW k \in Nat,
         NEW list, IsLevelList(tree, k, Children(tree, b), list),
         \A c \in Children(tree, b) : ~IsUser(c) =>
           Orderly(tree, Flat(tree, order, c), UnderAll(tree, Children(tree, c))),
         NEW i \in 1..Len(list), ~IsUser(list[i]), ~TiedWithNext(tree, list, i),
         NEW items, items = FlatPiece(tree, order, list, i)
  PROVE  Orderly(tree, FlattenSeq([j \in 1..Len(items) |-> Traversed(tree, order, items[j])]),
                 UnderAll(tree, Range(Row(tree, list, i))))
<1> DEFINE C == Children(tree, b)
           row == Row(tree, list, i)
           B == Range(row)
<1>1. /\ B \subseteq C /\ list[i] \in B
      /\ \A c \in B : ~IsUser(c)
      /\ \A c, d \in B : TieIn(tree, c, d)
  BY RowIsLevel
<1>2. /\ list \in Seq(Nodes) /\ Len(list) \in Nat
      /\ \A p \in 1..Len(list) : list[p] \in C /\ list[p] \in DOMAIN tree /\ list[p] \in Nodes
  BY LevelListFacts, ElementOfSeq
<1>3. i \in Nat \ {0}
  BY <1>2
<1>4. PICK first \in Nat : RowBegins(tree, list, i, first)
  BY <1>3, RowExists
<1>5. first \in 1..i /\ row = SubSeq(list, first, i)
  BY <1>4 DEF RowBegins
<1>6. row \in Seq(Nodes) /\ Len(row) = i - first + 1
  <2>1. \A j \in first..i : list[j] \in Nodes
    BY <1>2, <1>3, <1>5
  <2>2. SubSeq(list, first, i) \in Seq(Nodes) /\ Len(SubSeq(list, first, i)) = i - first + 1
    BY <1>3, <1>5, <2>1, SubSeqProperties
  <2> QED BY <1>5, <2>2
<1>7. CASE Len(row) = 1
  <2> DEFINE item == [node |-> list[i], tied |-> FALSE]
             V == Flat(tree, order, list[i])
  <2>1. items = <<item>>
    BY <1>7 DEF FlatPiece
  <2>2. Traversed(tree, order, item) = V
    BY DEF Traversed, Flat
  <2> HIDE DEF item
  <2>3. [j \in 1..Len(items) |-> Traversed(tree, order, items[j])] = <<V>>
    <3>1. Len(items) = 1 /\ items[1] = item
      BY <2>1
    <3>2. \A j \in 1..Len(items) : Traversed(tree, order, items[j]) = V
      BY <2>2, <3>1
    <3> HIDE DEF V
    <3>3. [j \in 1..Len(items) |-> Traversed(tree, order, items[j])] = [j \in 1..1 |-> V]
      BY <3>1, <3>2
    <3> QED BY <3>3
  <2>4. Orderly(tree, V, UnderAll(tree, Children(tree, list[i])))
    BY <1>2
  <2> HIDE DEF V
  <2>5. FlattenSeq(<<V>>) = V
    BY <2>4, FlattenOne DEF Orderly, Visits
  <2>6. UnderAll(tree, Children(tree, list[i])) = UnderAll(tree, B)
    <3>1. B = {list[i]}
      <4>1. first = i
        BY <1>3, <1>5, <1>6, <1>7
      <4>2. \A x \in B : x = list[i]
        <5> TAKE x \in B
        <5>1. PICK p \in first..i : x = list[p]
          BY <1>2, <1>4, RowFrom
        <5> QED BY <1>3, <4>1, <5>1
      <4> QED BY <1>1, <4>2
    <3>2. Under(tree, list[i]) = UnderAll(tree, Children(tree, list[i]))
      BY <1>2, UnderChildren
    <3> HIDE DEF B
    <3>3. UnderAll(tree, B) = Under(tree, list[i])
      BY <3>1 DEF UnderAll, Under
    <3> QED BY <3>2, <3>3
  <2> QED BY <2>3, <2>4, <2>5, <2>6
<1>8. CASE Len(row) # 1
  <2> DEFINE T == UNION {Children(tree, c) : c \in B}
             kids == FlatMerge(tree, order, row)
  <2>1. items = Marked(tree, kids)
    BY <1>8 DEF FlatPiece
  <2>2. IsByWeight(tree, T, kids)
    BY <1>6, FlatMergeLists
  <2>3. \A c \in B : c \in Leaves
    BY <1>8, RowOfLeaves
  <2> HIDE DEF row, kids
  <2>4. B \subseteq DOMAIN tree /\ B \subseteq Banks
    <3>1. C \subseteq DOMAIN tree
      BY DEF Children
    <3>2. B \subseteq Nodes
      BY <1>1, <3>1 DEF IsTree, Inner
    <3> QED BY <1>1, <3>1, <3>2, TreeFacts
  <2> HIDE DEF B
  <2>5. \A x \in T : IsUser(x)
    <3> TAKE x \in T
    <3>1. PICK c \in B : x \in Children(tree, c)
      OBVIOUS
    <3> QED BY <2>3, <2>4, <3>1, ChildrenAreLevel
  <2>6. IsLevel(tree, k + 1, T)
    <3>1. IsLevel(tree, k, C)
      BY DEF IsLevelList
    <3> HIDE DEF C
    <3> QED BY <1>1, <3>1, NextLevel
  <2>7. UnderAll(tree, T) = UnderAll(tree, B)
    BY <1>1, <2>4, UnderAllChildren
  <2> HIDE DEF T
  <2>8. Orderly(tree, FlattenSeq([j \in 1..Len(Marked(tree, kids)) |->
                                    Traversed(tree, order, Marked(tree, kids)[j])]),
                UnderAll(tree, T))
    BY <2>2, <2>5, <2>6, MarkedOrderly
  <2> QED BY <2>1, <2>7, <2>8 DEF B, row
<1> QED BY <1>7, <1>8

LEMMA FlatLevel ==
  ASSUME NEW tree, IsTree(tree), ~SubBanksTie(tree), NEW order, IsOrder(order), NEW b \in Banks,
         \A c \in Children(tree, b) : ~IsUser(c) =>
           Orderly(tree, Flat(tree, order, c), UnderAll(tree, Children(tree, c)))
  PROVE  Orderly(tree, Flat(tree, order, b), UnderAll(tree, Children(tree, b)))
<1> DEFINE C == Children(tree, b)
           k == Len(Path[b]) + 1
           list == ListedChildren(tree, order, b)
           ss == [i \in 1..Len(list) |-> FlatPiece(tree, order, list, i)]
           Visited == [user : Nodes, tied : BOOLEAN]
           F == [item \in Item |-> Traversed(tree, order, item)]
           part(items) == FlattenSeq([j \in 1..Len(items) |-> Traversed(tree, order, items[j])])
           pieces == [i \in 1..Len(list) |-> part(ss[i])]
<1>1. b \in Nodes /\ k \in Nat
  <2>1. b \in Nodes
    BY DEF Nodes
  <2> QED BY <2>1, PathsAreSound, LenProperties DEF PathIsSound
<1>2. IsLevelList(tree, k, C, list)
  <2>1. IsByWeight(tree, C, list)
    BY ListedLists
  <2>2. IsLevel(tree, k, C) /\ \A x, y \in C : IsUser(x) = IsUser(y)
    BY ChildrenAreLevel
  <2> QED BY <2>1, <2>2, ByWeightInOrder
<1>3. /\ list \in Seq(Nodes) /\ Len(list) \in Nat
      /\ \A p \in 1..Len(list) : list[p] \in C /\ list[p] \in DOMAIN tree /\ list[p] \in Nodes
  BY <1>2, LevelListFacts, ElementOfSeq
<1>4. ASSUME NEW i \in 1..Len(list) PROVE ss[i] \in Seq(Item) /\ ss[i] = FlatPiece(tree, order, list, i)
  <2>1. FlatPiece(tree, order, list, i) \in Seq(Item)
    BY <1>1, FlatPieceType
  <2> QED BY <2>1
<1>5. ss \in Seq(Seq(Item)) /\ Len(ss) = Len(list)
  BY <1>3, <1>4
<1>6. FlatChildren(tree, order, b) = FlattenSeq(ss)
  BY FlatChildrenIs
<1> HIDE DEF ss
<1>7. F \in [Item -> Seq(Visited)]
  <2> SUFFICES ASSUME NEW item \in Item PROVE Traversed(tree, order, item) \in Seq(Visited)
    OBVIOUS
  <2>1. item.node \in Nodes /\ item.tied \in BOOLEAN
    BY DEF Item
  <2>2. CASE IsUser(item.node)
    <3>1. [user |-> item.node, tied |-> item.tied] \in Visited
      BY <2>1
    <3> HIDE DEF Visited
    <3> QED BY <2>2, <3>1 DEF Traversed
  <2>3. CASE ~IsUser(item.node)
    <3>1. FlatChildren(tree, order, item.node) \in Seq(Item)
      BY <2>1, FlatChildrenType
    <3>2. Traverse(tree, order, FlatChildren(tree, order, item.node)) \in Visits
      BY <3>1, TraverseType
    <3> QED BY <2>3, <3>2 DEF Traversed, Visits
  <2> QED BY <2>2, <2>3
<1>8. ASSUME NEW items \in Seq(Item)
      PROVE  MapList(F, items) = [j \in 1..Len(items) |-> Traversed(tree, order, items[j])]
  <2>1. \A j \in 1..Len(items) : items[j] \in Item
    BY ElementOfSeq
  <2> QED BY <2>1 DEF MapList
<1> HIDE DEF F, Visited
<1>9. FlattenSeq(ss) \in Seq(Item)
  BY <1>5, Flattening
<1>10. Flat(tree, order, b) = FlattenSeq(MapList(F, FlattenSeq(ss)))
  <2>1. Flat(tree, order, b)
        = FlattenSeq([j \in 1..Len(FlattenSeq(ss)) |-> Traversed(tree, order, FlattenSeq(ss)[j])])
    BY <1>6, <1>9, TraverseUnfolds DEF Flat
  <2> QED BY <1>8, <1>9, <2>1
<1>11. [i \in 1..Len(ss) |-> FlattenSeq(MapList(F, ss[i]))] = pieces
  <2>1. \A i \in 1..Len(list) : FlattenSeq(MapList(F, ss[i])) = part(ss[i])
    BY <1>4, <1>8
  <2> HIDE DEF part
  <2> QED BY <1>5, <2>1
<1>12. FlattenSeq(MapList(F, FlattenSeq(ss))) = FlattenSeq(pieces)
  <2> HIDE DEF pieces
  <2>1. IsMapped(F, Item, Visited, ss, pieces)
    BY <1>5, <1>7, <1>11 DEF IsMapped
  <2> QED BY <2>1, FlattenMap
<1>13. ASSUME NEW i \in 1..Len(list)
       PROVE  pieces[i] \in Visits /\ IsPiece(tree, list, i, pieces[i])
  <2>1. pieces[i] = part(ss[i])
    OBVIOUS
  <2>2. CASE IsUser(list[i])
    <3> DEFINE item == [node |-> list[i], tied |-> TiedWithNext(tree, list, i)]
               visit == [user |-> list[i], tied |-> TiedWithNext(tree, list, i)]
    <3>1. ss[i] = <<item>>
      BY <1>4, <2>2 DEF FlatPiece
    <3>2. Traversed(tree, order, item) = <<visit>>
      BY <2>2 DEF Traversed
    <3>3. visit \in Visited
      <4>1. TiedWithNext(tree, list, i) \in BOOLEAN
        BY DEF TiedWithNext
      <4> QED BY <1>3, <4>1 DEF Visited
    <3> HIDE DEF item, visit
    <3>4. [j \in 1..Len(ss[i]) |-> Traversed(tree, order, ss[i][j])] = <<<<visit>>>>
      <4>1. Len(ss[i]) = 1 /\ ss[i][1] = item
        BY <3>1
      <4>2. \A j \in 1..Len(ss[i]) : Traversed(tree, order, ss[i][j]) = <<visit>>
        BY <3>2, <4>1
      <4> DEFINE V == <<visit>>
      <4> HIDE DEF V
      <4>3. [j \in 1..Len(ss[i]) |-> Traversed(tree, order, ss[i][j])] = [j \in 1..1 |-> V]
        BY <4>1, <4>2 DEF V
      <4>4. [j \in 1..1 |-> V] = <<V>>
        OBVIOUS
      <4> QED BY <4>3, <4>4 DEF V
    <3>5. <<visit>> \in Seq(Visited)
      BY <3>3
    <3>6. FlattenSeq(<<<<visit>>>>) = <<visit>>
      BY <3>5, FlattenOne
    <3>7. pieces[i] = <<visit>>
      BY <2>1, <3>4, <3>6
    <3> HIDE DEF pieces
    <3> QED BY <2>2, <3>5, <3>7 DEF IsPiece, Visits, Visited, visit
  <2>3. CASE ~IsUser(list[i]) /\ TiedWithNext(tree, list, i)
    <3>1. ss[i] = <<>>
      BY <1>4, <2>3 DEF FlatPiece
    <3>2. [j \in 1..Len(ss[i]) |-> Traversed(tree, order, ss[i][j])] = <<>>
      BY <3>1
    <3>3. FlattenSeq(<<>>) = <<>>
      BY DEF FlattenSeq
    <3>4. pieces[i] = <<>>
      BY <2>1, <3>2, <3>3
    <3> HIDE DEF pieces
    <3> QED BY <2>3, <3>4 DEF IsPiece, Visits
  <2>4. CASE ~IsUser(list[i]) /\ ~TiedWithNext(tree, list, i)
    <3>1. Orderly(tree, part(ss[i]), UnderAll(tree, Range(Row(tree, list, i))))
      <4>1. ss[i] = FlatPiece(tree, order, list, i)
        BY <1>4
      <4> HIDE DEF list
      <4> QED BY <1>1, <1>2, <2>4, <4>1, FlatRowOrderly
    <3> HIDE DEF pieces, part
    <3>2. pieces[i] \in Visits
      BY <2>1, <3>1 DEF Orderly
    <3> QED BY <2>1, <2>4, <3>1, <3>2 DEF IsPiece
  <2> HIDE DEF pieces
  <2> QED BY <2>2, <2>3, <2>4
<1> HIDE DEF part, list
<1>14. pieces = [i \in 1..Len(list) |-> pieces[i]]
  OBVIOUS
<1> HIDE DEF pieces
<1>15. pieces \in Seq(Visits) /\ Len(pieces) = Len(list)
  BY <1>3, <1>13, <1>14
<1>16. Orderly(tree, FlattenSeq(pieces), UnderAll(tree, C))
  BY <1>1, <1>2, <1>13, <1>15, PiecesOrderly
<1> QED BY <1>10, <1>12, <1>16

LEMMA FlatOrderly ==
  ASSUME NEW tree, IsTree(tree), ~SubBanksTie(tree), NEW order, IsOrder(order)
  PROVE  \A b \in Banks : Orderly(tree, Flat(tree, order, b), UnderAll(tree, Children(tree, b)))
<1> DEFINE Done(b) == Orderly(tree, Flat(tree, order, b), UnderAll(tree, Children(tree, b)))
           G == {n \in Nat : \A b \in Banks : Len(Path[b]) + n > MaxDepth => Done(b)}
<1>1. \A b \in Banks : Len(Path[b]) \in Nat /\ Len(Path[b]) <= MaxDepth
  <2>1. \A b \in Banks : b \in Nodes
    BY DEF Nodes
  <2> QED BY <2>1, PathIsShort, PathsAreSound, LenProperties DEF PathIsSound
<1>2. 0 \in G
  <2> HIDE DEF Done
  <2>1. \A u, d \in Nat : ~(u + 0 > d /\ u <= d)
    OBVIOUS
  <2> QED BY <1>1, <2>1, MaxDepthType
<1>3. ASSUME NEW n \in Nat, n \in G,
             NEW b \in Banks, Len(Path[b]) + (n + 1) > MaxDepth
      PROVE  Done(b)
  <2>1. ASSUME NEW c \in Children(tree, b), ~IsUser(c) PROVE Done(c)
    <3>1. c \in Inner /\ ParentOf(c) = b
      BY DEF Children, IsTree
    <3>2. c \in Banks
      BY <2>1, <3>1, TreeFacts DEF Inner
    <3>3. Len(Path[c]) = Len(Path[ParentOf(c)]) + 1
      BY <3>1, PathOfChild
    <3>4. \A u, v, d \in Nat : u + (n + 1) > d /\ v = u + 1 => v + n > d
      OBVIOUS
    <3>5. Len(Path[c]) + n > MaxDepth
      BY <1>1, <1>3, <3>1, <3>2, <3>3, <3>4, MaxDepthType
    <3> HIDE DEF Done
    <3> QED BY <1>3, <3>2, <3>5
  <2> QED BY <2>1, FlatLevel
<1>4. \A n \in Nat : n \in G
  <2> HIDE DEF Done
  <2>1. ASSUME NEW n \in Nat, n \in G PROVE n + 1 \in G
    <3>1. \A b \in Banks : Len(Path[b]) + (n + 1) > MaxDepth => Done(b)
      BY <1>3, <2>1
    <3>2. n + 1 \in Nat
      BY <2>1
    <3> DEFINE k == n + 1
    <3> HIDE DEF k
    <3>3. k \in Nat /\ \A b \in Banks : Len(Path[b]) + k > MaxDepth => Done(b)
      BY <3>1, <3>2 DEF k
    <3>4. k \in G
      BY <3>3
    <3> QED BY <3>4 DEF k
  <2> HIDE DEF G
  <2> QED BY <1>2, <2>1, NatSetInduction
<1> SUFFICES ASSUME NEW b \in Banks PROVE Done(b)
  OBVIOUS
<1>5. MaxDepth + 1 \in G
  <2> HIDE DEF G
  <2> QED BY <1>4, MaxDepthType
<1>6. Len(Path[b]) + (MaxDepth + 1) > MaxDepth
  <2>1. \A u, d \in Nat : u + (d + 1) > d
    OBVIOUS
  <2> QED BY <1>1, <2>1, MaxDepthType
<1> HIDE DEF Done
<1> QED BY <1>5, <1>6

\* The emulator gives everybody the rank of its standing, unless banks tie that
\* have sub-banks (_build_tie_aware_children, _traverse).
THEOREM EmulateIsStanding ==
  ASSUME NEW tree, IsTree(tree), ~SubBanksTie(tree), NEW order, IsOrder(order)
  PROVE  Emulate(tree, order) = Standing(tree)
<1>1. Root \in Banks
  BY TreeAssumption
<1>2. Orderly(tree, Flat(tree, order, Root), Users(tree))
  BY <1>1, FlatOrderly, TopLevel
<1> QED BY <1>2, OrderlyRanks DEF Emulate, Flat

---------------------------------------------------------------------------
(* What a run of the script has read is a tree *)

\* Tables of banks and associations have the types of Bank and Association.
AreTables(bt, at) ==
  /\ bt \in [Banks -> Bank]
  /\ DOMAIN at \subseteq Assocs
  /\ at \in [DOMAIN at -> Association]

LEMMA ReadFacts ==
  ASSUME NEW bt, NEW at, AreTables(bt, at)
  PROVE  /\ Read(bt, at) \subseteq Inner /\ IsFiniteSet(Read(bt, at))
         /\ \A n \in Read(bt, at) :
              \A i \in 1..Len(Path[n]) : Path[n][i] \in Read(bt, at)
<1> DEFINE active == {b \in Banks \ {Root} : bt[b].active}
                       \cup {a \in DOMAIN at : at[a].active}
           read == Read(bt, at)
<1>1. read = {n \in active : \A i \in 1..Len(Path[n]) : Path[n][i] \in active}
  BY DEF Read
<1>2. active \subseteq Inner
  BY TreeFacts DEF AreTables
<1> HIDE DEF active, read
<1>3. ASSUME NEW n \in read, NEW i \in 1..Len(Path[n]) PROVE Path[n][i] \in read
  <2>1. n \in Nodes /\ Path[n][i] \in active
    BY <1>1, <1>2, <1>3 DEF Inner
  <2>2. Len(Path[Path[n][i]]) = i /\ \A j \in 1..i : Path[Path[n][i]][j] = Path[n][j]
    BY <2>1, PathsAreSound DEF PathIsSound
  <2>3. Len(Path[n]) \in Nat
    BY <2>1, PathsAreSound, LenProperties DEF PathIsSound
  <2>4. \A j \in 1..Len(Path[Path[n][i]]) : Path[Path[n][i]][j] \in active
    <3> SUFFICES ASSUME NEW j \in 1..i PROVE Path[n][j] \in active
      BY <2>2
    <3>1. j \in 1..Len(Path[n])
      BY <2>3
    <3> QED BY <1>1, <3>1
  <2> QED BY <1>1, <2>1, <2>4
<1>4. IsFiniteSet(read) /\ read \subseteq Inner
  BY <1>1, <1>2, TreeFacts, FS_Subset
<1> QED BY <1>3, <1>4 DEF read

LEMMA UsageType ==
  ASSUME NEW bt, NEW at, AreTables(bt, at), NEW n PROVE UsageOf(Read(bt, at), at, n) \in Nat
<1> DEFINE read == Read(bt, at)
           below == {a \in read \cap Assocs : IsBelow(a, n)}
           used == [a \in read \cap Assocs |-> at[a].usage]
<1>1. \A a \in read \cap Assocs : a \in DOMAIN at
  BY TreeAssumption DEF Read
<1>2. \A a \in below : used[a] \in Nat
  BY <1>1 DEF AreTables, Association
<1>3. IsFiniteSet(below)
  BY ReadFacts, FS_Subset
<1>4. UsageOf(read, at, n) = SumFunctionOnSet(used, below)
  BY DEF UsageOf
<1> HIDE DEF used, below, read
<1>5. SumFunctionOnSet(used, below) \in Nat
  BY <1>2, <1>3, SumType
<1> QED BY <1>4, <1>5 DEF read

LEMMA ProductIsNat == ASSUME NEW x \in Nat, NEW y \in Nat PROVE x * y \in Nat
  OBVIOUS

LEMMA ProductIsPositive ==
  ASSUME NEW x \in Nat, NEW y \in Nat, x # 0, y # 0 PROVE x * y # 0
<1>1. x * 1 <= x * y
  BY ProductMonotone
<1> QED BY <1>1

\* The weight that calc_set_weight () finds is one that can be compared.
LEMMA WeightType ==
  ASSUME NEW s \in Nat, NEW u \in Nat, NEW ss \in Nat, NEW us \in Nat, s <= ss
  PROVE  IsWeight(Weight(s, u, ss, us))
<1>1. CASE s = 0
  BY <1>1 DEF Weight, IsWeight
<1>2. CASE s # 0 /\ u = 0
  BY <1>2 DEF Weight, IsWeight
<1>3. CASE s # 0 /\ u # 0
  <2>1. s * us \in Nat /\ ss * u \in Nat
    BY ProductIsNat
  <2>2. ss * u # 0
    BY <1>3, ProductIsPositive
  <2> QED BY <1>3, <2>1, <2>2 DEF Weight, IsWeight
<1> QED BY <1>1, <1>2, <1>3

SharesOf(bt, at, n) == IF IsUser(n) THEN at[n].shares ELSE bt[n].shares
Siblings(bt, at, n) == {m \in Read(bt, at) : ParentOf(m) = ParentOf(n)}
UsedBy(bt, at, n) == UsageOf(Read(bt, at), at, n)
SharesAmong(bt, at, n) ==
  SumFunctionOnSet([m \in Siblings(bt, at, n) |-> SharesOf(bt, at, m)], Siblings(bt, at, n))
UsageAmong(bt, at, part, n) ==
  SumFunctionOnSet([m \in Siblings(bt, at, n) |-> Whole(UsedBy(bt, at, m), part)],
                   Siblings(bt, at, n))

LEMMA WeightsAre ==
  ASSUME NEW bt, NEW at, AreTables(bt, at), NEW part
  PROVE  Weights(bt, at, part) =
           [n \in Read(bt, at) |->
              Weight(SharesOf(bt, at, n), UsedBy(bt, at, n),
                     SharesAmong(bt, at, n), UsageAmong(bt, at, part, n))]
<1>1. Read(bt, at) \in SUBSET Nodes
  BY ReadFacts DEF Inner
<1> QED BY <1>1 DEF Weights, SharesOf, Siblings, UsedBy, SharesAmong, UsageAmong

LEMMA SharesType ==
  ASSUME NEW bt, NEW at, AreTables(bt, at)
  PROVE  \A n \in Read(bt, at) : SharesOf(bt, at, n) \in Nat
<1> SUFFICES ASSUME NEW n \in Read(bt, at) PROVE SharesOf(bt, at, n) \in Nat
  OBVIOUS
<1>1. CASE IsUser(n)
  <2>1. n \in DOMAIN at
    BY <1>1, TreeAssumption DEF Read, IsUser
  <2> QED BY <1>1, <2>1 DEF SharesOf, AreTables, Association
<1>2. CASE ~IsUser(n)
  <2>1. n \in Banks
    BY <1>2 DEF Read, IsUser, AreTables
  <2> QED BY <1>2, <2>1 DEF SharesOf, AreTables, Bank
<1> QED BY <1>1, <1>2

\* What the sum of the siblings' usage loses of each of them (calc_set_children_weight).
LEMMA WholeFacts ==
  ASSUME NEW u \in Nat, NEW part \in Nat \ {0}
  PROVE  /\ Whole(u, part) \in Nat /\ Whole(u, part) <= u /\ u < Whole(u, part) + part
         /\ u >= part => Whole(u, part) # 0
<1> DEFINE q == u \div part
           r == u % part
<1>1. q \in Nat /\ r \in Nat /\ r < part /\ u = part * q + r
  OBVIOUS
<1> HIDE DEF q, r
<1>2. q * part = part * q /\ q * part \in Nat
  BY <1>1, ProductIsNat
<1>3. Whole(u, part) = q * part
  BY DEF Whole, q
<1>4. /\ Whole(u, part) \in Nat /\ Whole(u, part) <= u /\ u < Whole(u, part) + part
  BY <1>1, <1>2, <1>3
<1> QED BY <1>4

LEMMA WholeMonotone ==
  ASSUME NEW u \in Nat, NEW v \in Nat, u <= v, NEW part \in Nat \ {0}
  PROVE  Whole(u, part) <= Whole(v, part)
<1> DEFINE q == u \div part
           p == v \div part
<1>1. q \in Nat /\ p \in Nat
  OBVIOUS
<1>2. Whole(u, part) = q * part /\ Whole(v, part) = p * part
  BY DEF Whole
<1>3. q * part <= u /\ v < p * part + part
  BY <1>2, WholeFacts
<1> HIDE DEF q, p
<1>4. q * part \in Nat /\ p * part \in Nat
  BY <1>1, ProductIsNat
<1>5. ASSUME p < q PROVE FALSE
  <2>1. (p + 1) * part <= q * part
    BY <1>1, <1>5, ProductMonotone
  <2>2. (p + 1) * part = p * part + part
    BY <1>1
  <2> QED BY <1>3, <1>4, <2>1, <2>2
<1>6. q <= p
  BY <1>1, <1>5
<1> QED BY <1>1, <1>2, <1>6, ProductMonotone

LEMMA NodeFacts ==
  ASSUME NEW bt, NEW at, AreTables(bt, at), NEW part \in Nat \ {0}, NEW n \in Read(bt, at)
  PROVE  /\ SharesOf(bt, at, n) \in Nat /\ UsedBy(bt, at, n) \in Nat
         /\ SharesAmong(bt, at, n) \in Nat /\ UsageAmong(bt, at, part, n) \in Nat
         /\ SharesOf(bt, at, n) <= SharesAmong(bt, at, n)
         /\ \A m \in Siblings(bt, at, n) :
              /\ Whole(UsedBy(bt, at, m), part) <= UsageAmong(bt, at, part, n)
              /\ SharesAmong(bt, at, m) = SharesAmong(bt, at, n)
              /\ UsageAmong(bt, at, part, m) = UsageAmong(bt, at, part, n)
<1> DEFINE S == Siblings(bt, at, n)
           shares == [m \in S |-> SharesOf(bt, at, m)]
           usage == [m \in S |-> Whole(UsedBy(bt, at, m), part)]
<1>1. n \in S /\ S \subseteq Read(bt, at) /\ IsFiniteSet(S)
  BY ReadFacts, FS_Subset DEF Siblings
<1>2. \A m \in S : shares[m] \in Nat
  BY <1>1, SharesType
<1>3. \A m \in S : usage[m] \in Nat
  BY UsageType, WholeFacts DEF UsedBy
<1>4. shares[n] = SharesOf(bt, at, n) /\ SharesOf(bt, at, n) \in Nat /\ UsedBy(bt, at, n) \in Nat
  BY <1>1, <1>2, UsageType DEF UsedBy
<1>5. /\ SharesAmong(bt, at, n) = SumFunctionOnSet(shares, S)
      /\ UsageAmong(bt, at, part, n) = SumFunctionOnSet(usage, S)
  BY DEF SharesAmong, UsageAmong
<1>6. ASSUME NEW m \in S
      PROVE  /\ SharesAmong(bt, at, m) = SharesAmong(bt, at, n)
             /\ UsageAmong(bt, at, part, m) = UsageAmong(bt, at, part, n)
             /\ usage[m] = Whole(UsedBy(bt, at, m), part)
  <2>1. Siblings(bt, at, m) = S
    BY DEF Siblings
  <2> QED BY <2>1 DEF SharesAmong, UsageAmong
<1> HIDE DEF shares, usage
<1>7. SumFunctionOnSet(shares, S) \in Nat /\ SumFunctionOnSet(usage, S) \in Nat
  BY <1>1, <1>2, <1>3, SumType
<1>8. ASSUME NEW f, \A m \in S : f[m] \in Nat, NEW m \in S PROVE f[m] <= SumFunctionOnSet(f, S)
  <2>1. SumFunctionOnSet(f, S) = f[m] + SumFunctionOnSet(f, S \ {m})
    BY <1>1, <1>8, SumWithout
  <2>2. SumFunctionOnSet(f, S \ {m}) \in Nat
    BY <1>1, <1>8, FS_Subset, SumType
  <2> QED BY <1>8, <2>1, <2>2
<1>9. shares[n] <= SumFunctionOnSet(shares, S)
  BY <1>1, <1>2, <1>8
<1>10. \A m \in S : usage[m] <= SumFunctionOnSet(usage, S)
  BY <1>3, <1>8
<1> HIDE DEF S
<1> QED BY <1>4, <1>5, <1>6, <1>7, <1>9, <1>10 DEF S

\* Whatever the script reads, it reads a tree: with each node the banks above it,
\* and weights that can be compared (get_sub_banks, calc_set_weight).
LEMMA WeightsAreTree ==
  ASSUME NEW bt, NEW at, AreTables(bt, at), NEW part \in Nat \ {0}
  PROVE  IsTree(Weights(bt, at, part))
<1> DEFINE tree == Weights(bt, at, part)
           read == Read(bt, at)
<1>1. /\ tree = [n \in read |-> Weight(SharesOf(bt, at, n), UsedBy(bt, at, n),
                                       SharesAmong(bt, at, n), UsageAmong(bt, at, part, n))]
      /\ DOMAIN tree = read
  BY WeightsAre
<1>2. ASSUME NEW n \in read PROVE IsWeight(tree[n])
  <2>1. IsWeight(Weight(SharesOf(bt, at, n), UsedBy(bt, at, n),
                        SharesAmong(bt, at, n), UsageAmong(bt, at, part, n)))
    BY NodeFacts, WeightType
  <2> QED BY <1>1, <1>2, <2>1
<1>3. \A n \in read : \A i \in 1..Len(Path[n]) : Path[n][i] \in read
  BY ReadFacts
<1>4. read \subseteq Inner
  BY ReadFacts
<1> HIDE DEF tree, read
<1>5. IsTree(tree)
  BY <1>1, <1>2, <1>3, <1>4 DEF IsTree
<1> QED BY <1>5 DEF tree

LEMMA TreesAreTrees ==
  ASSUME NEW bt, NEW at, AreTables(bt, at)
  PROVE  /\ IsTree(Tree(bt, at)) /\ DOMAIN Tree(bt, at) = Read(bt, at)
         /\ IsTree(EmulatorTree(bt, at)) /\ DOMAIN EmulatorTree(bt, at) = Read(bt, at)
<1>1. Unit \in Nat \ {0} /\ 1 \in Nat \ {0}
  BY TreeAssumption
<1>2. \A part : DOMAIN Weights(bt, at, part) = Read(bt, at)
  BY WeightsAre
<1>3. IsTree(Weights(bt, at, Unit)) /\ IsTree(Weights(bt, at, 1))
  BY <1>1, WeightsAreTree
<1> QED BY <1>2, <1>3 DEF Tree, EmulatorTree

LEMMA OrdersAreOrders == \A order \in Orders : IsOrder(order)
  BY FairshareAssumption DEF IsOrder, Inner

LEMMA NothingRead == IsTree(<<>>) /\ Standing(<<>>) = <<>>
<1>1. DOMAIN <<>> = {}
  OBVIOUS
<1>2. IsTree(<<>>)
  BY <1>1 DEF IsTree
<1>3. Users(<<>>) = {}
  BY <1>1 DEF Users
<1>4. Standing(<<>>) = [a \in {} |-> 0]
  BY <1>3 DEF Standing
<1>5. [a \in {} |-> 0] = <<>>
  OBVIOUS
<1> QED BY <1>2, <1>4, <1>5

\* No rank is 0, and none is above the number of the associations (handle_leaf).
THEOREM StandingRange ==
  ASSUME NEW tree, IsTree(tree)
  PROVE  Standing(tree) \in [Users(tree) -> 1..Cardinality(Users(tree))]
<1> DEFINE U == Users(tree)
           InFront(a) == {c \in U : Ahead(tree, c, a)}
<1>1. IsFiniteSet(U)
  BY TreeAssumption, FS_Subset DEF Users
<1> SUFFICES ASSUME NEW a \in U
             PROVE  Cardinality(U) - Cardinality(InFront(a)) \in 1..Cardinality(U)
  BY DEF Standing
<1>2. a \notin InFront(a) /\ InFront(a) \subseteq U
  BY NotAheadOfItself
<1> HIDE DEF U, InFront
<1>3. /\ IsFiniteSet(InFront(a)) /\ Cardinality(InFront(a)) \in Nat /\ Cardinality(U) \in Nat
      /\ Cardinality(InFront(a)) <= Cardinality(U)
      /\ Cardinality(InFront(a)) = Cardinality(U) => InFront(a) = U
  BY <1>1, <1>2, FS_Subset, FS_CardinalityType
<1>4. Cardinality(InFront(a)) # Cardinality(U)
  BY <1>2, <1>3
<1> QED BY <1>3, <1>4

---------------------------------------------------------------------------
(* How siblings compare *)

\* Whether s shares and a usage of u weigh more than t shares and a usage of w.
Heavier(s, u, t, w) == s # 0 /\ (t = 0 \/ (w # 0 /\ (u = 0 \/ s * w > t * u)))

\* It makes no difference what the siblings' usage adds up to, as long as it is
\* not 0 (calc_set_weight).
LEMMA SiblingsCompare ==
  ASSUME NEW s \in Nat, NEW u \in Nat, NEW t \in Nat, NEW w \in Nat,
         NEW ss \in Nat, NEW us \in Nat, s <= ss, t <= ss
  PROVE  /\ Exceeds(Weight(s, u, ss, us), Weight(t, w, ss, us)) => Heavier(s, u, t, w)
         /\ (u # 0 => us # 0) /\ Heavier(s, u, t, w) =>
              Exceeds(Weight(s, u, ss, us), Weight(t, w, ss, us))
<1> DEFINE x == Weight(s, u, ss, us)
           y == Weight(t, w, ss, us)
<1>1. x[1] \in Nat /\ x[2] \in Nat /\ y[1] \in Nat /\ y[2] \in Nat
  BY WeightType DEF IsWeight
<1>2. CASE s = 0
  <2>1. x = <<0, 1>>
    BY <1>2 DEF Weight
  <2> HIDE DEF x, y
  <2>2. 0 * y[2] = 0 /\ y[1] * 1 = y[1]
    BY <1>1
  <2> QED BY <1>1, <1>2, <2>1, <2>2 DEF Exceeds, Heavier, x, y
<1>3. CASE s # 0 /\ t = 0
  <2>1. y = <<0, 1>>
    BY <1>3 DEF Weight
  <2>2. x[1] = IF u = 0 THEN 1 ELSE s * us
    BY <1>3 DEF Weight
  <2>3. (u # 0 => us # 0) => x[1] # 0
    BY <1>3, <2>2, ProductIsPositive
  <2> HIDE DEF x, y
  <2>4. x[1] * 1 = x[1] /\ 0 * x[2] = 0
    BY <1>1
  <2>5. Exceeds(x, y) <=> x[1] > 0
    BY <2>1, <2>4 DEF Exceeds
  <2>6. (u # 0 => us # 0) => Exceeds(x, y)
    BY <1>1, <2>3, <2>5
  <2> QED BY <1>3, <2>6 DEF Heavier, x, y
<1>4. CASE s # 0 /\ t # 0 /\ w = 0
  <2>1. y = <<1, 0>>
    BY <1>4 DEF Weight
  <2> HIDE DEF x, y
  <2>2. x[1] * 0 = 0 /\ 1 * x[2] = x[2]
    BY <1>1
  <2> QED BY <1>1, <1>4, <2>1, <2>2 DEF Exceeds, Heavier, x, y
<1>5. CASE s # 0 /\ t # 0 /\ w # 0 /\ u = 0
  <2>1. x = <<1, 0>> /\ y = <<t * us, ss * w>>
    BY <1>5 DEF Weight
  <2>2. ss * w # 0 /\ ss * w \in Nat /\ t * us \in Nat
    BY <1>5, ProductIsPositive, ProductIsNat
  <2>3. 1 * (ss * w) = ss * w /\ (t * us) * 0 = 0
    BY <2>2
  <2>4. Exceeds(x, y)
    BY <2>1, <2>2, <2>3 DEF Exceeds
  <2> QED BY <1>5, <2>4 DEF Heavier
<1>6. CASE s # 0 /\ t # 0 /\ w # 0 /\ u # 0
  <2> DEFINE k == us * ss
  <2>1. x = <<s * us, ss * u>> /\ y = <<t * us, ss * w>>
    BY <1>6 DEF Weight
  <2>2. (s * us) * (ss * w) = (s * w) * k /\ (t * us) * (ss * u) = (t * u) * k
    OBVIOUS
  <2>3. Exceeds(x, y) <=> (s * w) * k > (t * u) * k
    BY <2>1, <2>2 DEF Exceeds
  <2>4. s * w \in Nat /\ t * u \in Nat /\ k \in Nat
    BY ProductIsNat
  <2>5. us # 0 => k # 0
    BY <1>6, ProductIsPositive
  <2> DEFINE sw == s * w  tu == t * u
  <2> HIDE DEF k, x, y, sw, tu
  <2>6. sw \in Nat /\ tu \in Nat /\ sw * k \in Nat /\ tu * k \in Nat
    BY <2>4, ProductIsNat DEF sw, tu
  <2>7. sw <= tu => sw * k <= tu * k
    BY <2>4, <2>6, ProductMonotone
  <2>8. k # 0 /\ sw * k <= tu * k => sw <= tu
    BY <2>4, <2>6, ProductCancels
  <2>9. sw * k > tu * k => sw > tu
    BY <2>6, <2>7
  <2>10. k # 0 /\ sw > tu => sw * k > tu * k
    BY <2>6, <2>8
  <2>11. Heavier(s, u, t, w) <=> sw > tu
    BY <1>6 DEF Heavier, sw, tu
  <2>12. Exceeds(x, y) <=> sw * k > tu * k
    BY <2>3 DEF sw, tu
  <2> QED BY <1>6, <2>5, <2>9, <2>10, <2>11, <2>12 DEF x, y
<1> QED BY <1>2, <1>3, <1>4, <1>5, <1>6

\* Who has used less is not as heavy as before, or lighter, than anybody, but for
\* those without shares.
LEMMA LessIsHeavier ==
  ASSUME NEW s \in Nat, NEW u \in Nat, NEW v \in Nat, NEW t \in Nat, NEW w \in Nat, v < u,
         ~Heavier(s, v, t, w)
  PROVE  Heavier(t, w, s, u) \/ (s = 0 /\ t = 0)
<1>1. CASE s = 0
  BY <1>1 DEF Heavier
<1>2. CASE s # 0
  <2>1. t # 0 /\ (w = 0 \/ (v # 0 /\ ~(s * w > t * v))) /\ u # 0
    BY <1>2 DEF Heavier
  <2>2. CASE w = 0
    BY <2>1, <2>2 DEF Heavier
  <2>3. CASE w # 0
    <3>1. s * w \in Nat /\ t * v \in Nat /\ t * u \in Nat /\ (v + 1) * t \in Nat /\ v + 1 <= u
      BY ProductIsNat
    <3>2. (v + 1) * t <= u * t
      BY <3>1, ProductMonotone
    <3>3. (v + 1) * t = t * v + t /\ u * t = t * u
      OBVIOUS
    <3>4. t * u > s * w
      BY <2>1, <2>3, <3>1, <3>2, <3>3
    <3> QED BY <2>1, <3>4 DEF Heavier
  <2> QED BY <2>2, <2>3
<1> QED BY <1>1, <1>2

IsHeavier(bt, at, m, n) ==
  Heavier(SharesOf(bt, at, m), UsedBy(bt, at, m), SharesOf(bt, at, n), UsedBy(bt, at, n))

LEMMA NodesCompare ==
  ASSUME NEW bt, NEW at, AreTables(bt, at), NEW part \in Nat \ {0},
         NEW m \in Read(bt, at), NEW n \in Read(bt, at), ParentOf(m) = ParentOf(n),
         NEW tree, tree = Weights(bt, at, part)
  PROVE  /\ Exceeds(tree[m], tree[n]) => IsHeavier(bt, at, m, n)
         /\ (UsedBy(bt, at, m) # 0 => UsageAmong(bt, at, part, m) # 0)
              /\ IsHeavier(bt, at, m, n) => Exceeds(tree[m], tree[n])
<1> DEFINE s == SharesOf(bt, at, m)  u == UsedBy(bt, at, m)
           t == SharesOf(bt, at, n)  w == UsedBy(bt, at, n)
           ss == SharesAmong(bt, at, m)  us == UsageAmong(bt, at, part, m)
<1>1. n \in Siblings(bt, at, m)
  BY DEF Siblings
<1>2. SharesAmong(bt, at, n) = ss /\ UsageAmong(bt, at, part, n) = us
  BY <1>1, NodeFacts
<1>3. tree[m] = Weight(s, u, ss, us) /\ tree[n] = Weight(t, w, ss, us)
  BY <1>2, WeightsAre
<1>4. /\ s \in Nat /\ u \in Nat /\ t \in Nat /\ w \in Nat /\ ss \in Nat /\ us \in Nat
      /\ s <= ss /\ t <= ss
  BY <1>2, NodeFacts
<1> HIDE DEF s, u, t, w, ss, us
<1>5. /\ Exceeds(tree[m], tree[n]) => Heavier(s, u, t, w)
      /\ (u # 0 => us # 0) /\ Heavier(s, u, t, w) => Exceeds(tree[m], tree[n])
  <2>1. /\ Exceeds(Weight(s, u, ss, us), Weight(t, w, ss, us)) => Heavier(s, u, t, w)
        /\ (u # 0 => us # 0) /\ Heavier(s, u, t, w) =>
             Exceeds(Weight(s, u, ss, us), Weight(t, w, ss, us))
    BY <1>4, SiblingsCompare
  <2> QED BY <1>3, <2>1
<1> QED BY <1>5 DEF IsHeavier, s, u, t, w, us

\* Where siblings have used a second, their usage adds up to something.
LEMMA SomethingCounts ==
  ASSUME NEW bt, NEW at, AreTables(bt, at), SecondsCounted(bt, at),
         NEW part \in Nat \ {0}, part <= Unit, NEW n \in Read(bt, at), UsedBy(bt, at, n) # 0
  PROVE  UsageAmong(bt, at, part, n) # 0
<1>1. PICK m \in Read(bt, at) : ParentOf(m) = ParentOf(n) /\ UsedBy(bt, at, m) >= Unit
  BY DEF SecondsCounted, UsedBy
<1>2. m \in Siblings(bt, at, n) /\ UsedBy(bt, at, m) \in Nat /\ Unit \in Nat
  BY <1>1, NodeFacts, TreeAssumption DEF Siblings
<1>3. /\ Whole(UsedBy(bt, at, m), part) # 0 /\ Whole(UsedBy(bt, at, m), part) \in Nat
      /\ Whole(UsedBy(bt, at, m), part) <= UsageAmong(bt, at, part, n)
      /\ UsageAmong(bt, at, part, n) \in Nat
  <2>1. UsedBy(bt, at, m) >= part
    BY <1>1, <1>2
  <2>2. /\ Whole(UsedBy(bt, at, m), part) # 0 /\ Whole(UsedBy(bt, at, m), part) \in Nat
    BY <1>2, <2>1, WholeFacts
  <2> QED BY <1>2, <2>2, NodeFacts
<1> QED BY <1>3

---------------------------------------------------------------------------
(* Where the banks of two associations part *)

Part(a, c, d) ==
  /\ d \in 1..Len(Path[a]) /\ d \in 1..Len(Path[c])
  /\ Path[a][d] # Path[c][d] /\ ParentOf(Path[a][d]) = ParentOf(Path[c][d])
  /\ \A j \in 1..d - 1 : Path[a][j] = Path[c][j]

\* Those of two of which one is ahead part where it is, or above, at banks that tie.
LEMMA AheadParts ==
  ASSUME NEW tree, IsTree(tree), NEW a \in Users(tree), NEW c \in Users(tree),
         Ahead(tree, a, c)
  PROVE  \E i \in 1..Len(Path[a]) : \E d \in 1..i :
           /\ i \in 1..Len(Path[c]) /\ Part(a, c, d)
           /\ Before(tree, Path[a][i], Path[c][i])
           /\ ~Exceeds(tree[Path[c][d]], tree[Path[a][d]])
           /\ d # i => /\ TieIn(tree, Path[a][d], Path[c][d])
                       /\ Path[a][d] \in Banks /\ Path[c][d] \in Banks
<1> DEFINE p == Path[a]  q == Path[c]
<1>1. PICK i \in 1..Len(p) : /\ i \in 1..Len(q) /\ Before(tree, p[i], q[i])
                             /\ \A j \in 1..i - 1 : TieIn(tree, p[j], q[j])
  BY AheadMeans
<1>2. /\ Len(p) \in Nat \ {0} /\ Len(q) \in Nat \ {0}
      /\ \A j \in 1..Len(p) : p[j] \in DOMAIN tree /\ (IsUser(p[j]) <=> j = Len(p))
      /\ \A j \in 1..Len(q) : q[j] \in DOMAIN tree /\ (IsUser(q[j]) <=> j = Len(q))
  BY UserPath
<1>3. i \in Nat /\ \A j \in 1..i : j \in Nat /\ j \in 1..Len(p) /\ j \in 1..Len(q)
  BY <1>1, <1>2
<1>4. p[i] # q[i]
  BY <1>1, <1>2, BeforeFacts
<1>5. /\ \A j \in 1..Len(p) : ParentOf(p[j]) = IF j = 1 THEN Root ELSE p[j - 1]
      /\ \A j \in 1..Len(q) : ParentOf(q[j]) = IF j = 1 THEN Root ELSE q[j - 1]
  BY UserPath, PathFacts
<1> HIDE DEF p, q
<1> DEFINE Apart == {j \in 1..i : p[j] # q[j]}
<1>6. PICK d \in Apart : \A j \in Apart : d <= j
  <2>1. Apart \subseteq Nat /\ i \in Apart
    BY <1>1, <1>3, <1>4
  <2> HIDE DEF Apart
  <2> QED BY <2>1, Least
<1>7. d \in 1..i /\ d \in Nat /\ p[d] # q[d] /\ d \in 1..Len(p) /\ d \in 1..Len(q)
  BY <1>3, <1>6
<1>8. ASSUME NEW j \in 1..d - 1 PROVE p[j] = q[j]
  <2>1. j \in 1..i /\ ~(d <= j)
    BY <1>3, <1>7
  <2> QED BY <1>6, <2>1
<1>9. ParentOf(p[d]) = ParentOf(q[d])
  <2>1. CASE d = 1
    BY <1>5, <1>7, <2>1
  <2>2. CASE d # 1
    <3>1. d - 1 \in 1..d - 1
      BY <1>7, <2>2
    <3> QED BY <1>5, <1>7, <1>8, <2>2, <3>1
  <2> QED BY <2>1, <2>2
<1>10. d # i => TieIn(tree, p[d], q[d]) /\ p[d] \in Banks /\ q[d] \in Banks
  <2> SUFFICES ASSUME d # i PROVE TieIn(tree, p[d], q[d]) /\ p[d] \in Banks /\ q[d] \in Banks
    OBVIOUS
  <2>1. d \in 1..i - 1 /\ d # Len(p) /\ d # Len(q)
    BY <1>1, <1>2, <1>3, <1>7
  <2>2. ~IsUser(p[d]) /\ ~IsUser(q[d]) /\ p[d] \in Inner /\ q[d] \in Inner
    BY <1>2, <1>7, <2>1 DEF IsTree
  <2> QED BY <1>1, <2>1, <2>2, TreeFacts DEF Inner
<1>11. ~Exceeds(tree[q[d]], tree[p[d]])
  <2>1. p[d] \in DOMAIN tree /\ q[d] \in DOMAIN tree
    BY <1>2, <1>7
  <2>2. CASE d = i
    <3>1. Before(tree, p[d], q[d])
      BY <1>1, <2>2
    <3> QED BY <2>1, <3>1, BeforeFacts DEF Before
  <2>3. CASE d # i
    BY <1>10, <2>1, <2>3, BeforeFacts
  <2> QED BY <2>2, <2>3
<1>12. Part(a, c, d)
  BY <1>7, <1>8, <1>9 DEF Part, p, q
<1> QED BY <1>1, <1>7, <1>10, <1>11, <1>12 DEF p, q

LEMMA AheadWhereTheyPart ==
  ASSUME NEW tree, IsTree(tree), NEW a \in Users(tree), NEW c \in Users(tree),
         NEW d, Part(a, c, d), Before(tree, Path[a][d], Path[c][d])
  PROVE  Ahead(tree, a, c)
<1>1. Len(Path[a]) \in Nat /\ \A j \in 1..Len(Path[a]) : Path[a][j] \in DOMAIN tree
  BY UserPath
<1>2. ASSUME NEW j \in 1..d - 1 PROVE TieIn(tree, Path[a][j], Path[c][j])
  <2>1. j \in 1..Len(Path[a]) /\ Path[a][j] = Path[c][j]
    BY <1>1 DEF Part
  <2> QED BY <1>1, <2>1 DEF TieIn, Ties
<1> QED BY <1>2, AheadMeans DEF Part

---------------------------------------------------------------------------
(* Whoever has used less *)

LEMMA BelowIsOnPath ==
  ASSUME NEW a, NEW n \in Inner
  PROVE  IsBelow(a, n) <=> \E i \in 1..Len(Path[a]) : Path[a][i] = n
  BY DEF IsBelow, Inner

\* Two readings of tables that differ in what a, which is read, has used: less
\* in the second.
IsLess(bt, at, after, a) ==
  /\ AreTables(bt, at) /\ AreTables(bt, after) /\ DOMAIN after = DOMAIN at
  /\ a \in Read(bt, at) \cap Assocs
  /\ \A c \in DOMAIN at : /\ after[c].active = at[c].active /\ after[c].shares = at[c].shares
                          /\ c # a => after[c].usage = at[c].usage
  /\ after[a].usage < at[a].usage
Saved(at, after, a) == at[a].usage - after[a].usage

LEMMA LessReadsTheSame ==
  ASSUME NEW bt, NEW at, NEW after, NEW a, IsLess(bt, at, after, a)
  PROVE  /\ Read(bt, after) = Read(bt, at) /\ a \in DOMAIN at
         /\ \A n \in Read(bt, at) : /\ SharesOf(bt, after, n) = SharesOf(bt, at, n)
                                    /\ Siblings(bt, after, n) = Siblings(bt, at, n)
                                    /\ SharesAmong(bt, after, n) = SharesAmong(bt, at, n)
         /\ Saved(at, after, a) \in Nat
<1>1. Read(bt, after) = Read(bt, at)
  <2>1. {c \in DOMAIN after : after[c].active} = {c \in DOMAIN at : at[c].active}
    BY DEF IsLess
  <2> QED BY <2>1 DEF Read
<1>2. \A c \in Read(bt, at) \cap Assocs : c \in DOMAIN at
  BY TreeAssumption DEF Read
<1>3. a \in DOMAIN at /\ Saved(at, after, a) \in Nat
  BY <1>2 DEF IsLess, Saved, AreTables, Association
<1>4. \A n \in Read(bt, at) : SharesOf(bt, after, n) = SharesOf(bt, at, n)
  BY <1>2 DEF SharesOf, IsLess, IsUser
<1>5. \A n \in Read(bt, at) : Siblings(bt, after, n) = Siblings(bt, at, n)
  BY <1>1 DEF Siblings
<1>6. ASSUME NEW n \in Read(bt, at) PROVE SharesAmong(bt, after, n) = SharesAmong(bt, at, n)
  <2> DEFINE S == Siblings(bt, at, n)
             f == [m \in S |-> SharesOf(bt, after, m)]
             g == [m \in S |-> SharesOf(bt, at, m)]
  <2>1. \A m \in S : m \in Read(bt, at)
    BY DEF Siblings
  <2>2. f = g
    BY <1>4, <2>1
  <2> QED BY <1>5, <2>2 DEF SharesAmong
<1> QED BY <1>1, <1>3, <1>4, <1>5, <1>6

LEMMA LessUsage ==
  ASSUME NEW bt, NEW at, NEW after, NEW a, IsLess(bt, at, after, a), NEW n
  PROVE  UsedBy(bt, after, n) = IF IsBelow(a, n) THEN UsedBy(bt, at, n) - Saved(at, after, a)
                                ELSE UsedBy(bt, at, n)
<1> DEFINE read == Read(bt, at) \cap Assocs
           S == {c \in read : IsBelow(c, n)}
           f == [c \in read |-> at[c].usage]
           g == [c \in read |-> after[c].usage]
<1>1. UsedBy(bt, at, n) = SumFunctionOnSet(f, S) /\ UsedBy(bt, after, n) = SumFunctionOnSet(g, S)
  BY LessReadsTheSame DEF UsedBy, UsageOf
<1>2. IsFiniteSet(S) /\ S \subseteq read
  <2>1. IsFiniteSet(Read(bt, at))
    BY ReadFacts DEF IsLess
  <2> QED BY <2>1, FS_Subset
<1>3. \A c \in read : c \in DOMAIN at /\ f[c] \in Nat /\ g[c] \in Nat
  <2>1. \A c \in read : c \in DOMAIN at
    BY TreeAssumption DEF Read
  <2> QED BY <2>1 DEF IsLess, AreTables, Association
<1>4. \A c \in read : c # a => f[c] = g[c]
  BY <1>3 DEF IsLess
<1>5. a \in read /\ f[a] - g[a] = Saved(at, after, a)
  BY DEF IsLess, Saved
<1>6. a \in S <=> IsBelow(a, n)
  BY <1>5
<1> HIDE DEF S, f, g, read
<1>7. CASE IsBelow(a, n)
  <2>1. SumFunctionOnSet(f, S \ {a}) = SumFunctionOnSet(g, S \ {a})
    BY <1>2, <1>4, FS_Subset, SumAgrees
  <2>2. SumFunctionOnSet(f, S \ {a}) \in Nat
    BY <1>2, <1>3, FS_Subset, SumType
  <2>3. SumFunctionOnSet(f, S) = f[a] + SumFunctionOnSet(f, S \ {a})
    BY <1>2, <1>3, <1>6, <1>7, SumWithout
  <2>4. SumFunctionOnSet(g, S) = g[a] + SumFunctionOnSet(g, S \ {a})
    BY <1>2, <1>3, <1>6, <1>7, SumWithout
  <2> QED BY <1>1, <1>3, <1>5, <1>7, <2>1, <2>2, <2>3, <2>4
<1>8. CASE ~IsBelow(a, n)
  <2>1. \A c \in S : f[c] = g[c]
    BY <1>2, <1>4, <1>6, <1>8
  <2>2. SumFunctionOnSet(f, S) = SumFunctionOnSet(g, S)
    BY <1>2, <2>1, SumAgrees
  <2> QED BY <1>1, <1>8, <2>2
<1> QED BY <1>7, <1>8

\* Two siblings are not both above a.
LEMMA OneSiblingAbove ==
  ASSUME NEW a \in Nodes, NEW m \in Inner, NEW n \in Inner, ParentOf(m) = ParentOf(n),
         IsBelow(a, m), IsBelow(a, n)
  PROVE  m = n
<1>1. PICK i \in 1..Len(Path[a]) : Path[a][i] = m
  BY BelowIsOnPath
<1>2. PICK j \in 1..Len(Path[a]) : Path[a][j] = n
  BY BelowIsOnPath
<1>3. Len(Path[m]) = i /\ Len(Path[n]) = j
  BY <1>1, <1>2, PathsAreSound DEF PathIsSound
<1>4. Len(Path[m]) = Len(Path[n])
  BY PathOfChild
<1> QED BY <1>1, <1>2, <1>3, <1>4

\* What siblings have used adds up to no more than before.
LEMMA LessAmong ==
  ASSUME NEW bt, NEW at, NEW after, NEW a, IsLess(bt, at, after, a), NEW n \in Read(bt, at),
         NEW part \in Nat \ {0}
  PROVE  UsageAmong(bt, after, part, n) <= UsageAmong(bt, at, part, n)
<1> DEFINE S == Siblings(bt, at, n)
           f == [m \in S |-> Whole(UsedBy(bt, at, m), part)]
           g == [m \in S |-> Whole(UsedBy(bt, after, m), part)]
<1>1. /\ UsageAmong(bt, at, part, n) = SumFunctionOnSet(f, S)
      /\ UsageAmong(bt, after, part, n) = SumFunctionOnSet(g, S)
  BY LessReadsTheSame DEF UsageAmong
<1>2. IsFiniteSet(S)
  BY ReadFacts, FS_Subset DEF IsLess, Siblings
<1>3. ASSUME NEW m \in S PROVE g[m] \in Int /\ f[m] \in Int /\ g[m] <= f[m]
  <2> DEFINE u == UsedBy(bt, at, m)
             v == UsedBy(bt, after, m)
  <2>1. u \in Nat /\ v \in Nat
    BY UsageType DEF IsLess, UsedBy
  <2>2. v <= u
    <3>1. Saved(at, after, a) \in Nat /\ (v = u \/ v = u - Saved(at, after, a))
      BY LessReadsTheSame, LessUsage
    <3> HIDE DEF u, v
    <3> QED BY <2>1, <3>1
  <2>3. f[m] = Whole(u, part) /\ g[m] = Whole(v, part)
    OBVIOUS
  <2> HIDE DEF u, v, f, g
  <2>4. Whole(u, part) \in Nat /\ Whole(v, part) \in Nat
    BY <2>1, WholeFacts
  <2>5. Whole(v, part) <= Whole(u, part)
    BY <2>1, <2>2, WholeMonotone
  <2> QED BY <2>3, <2>4, <2>5
<1> HIDE DEF S, f, g
<1>4. SumFunctionOnSet(g, S) <= SumFunctionOnSet(f, S)
  BY <1>2, <1>3, SumAtMost
<1> QED BY <1>1, <1>4

\* Less usage costs no association a rank, though its siblings' usage adds up to
\* less as well and drops the fractions of seconds (calc_set_children_weight), as
\* long as something is left of it, and no banks tie that have no shares.
THEOREM LessUsageRanksNoLower ==
  ASSUME NEW bt, NEW at, NEW after, NEW a, IsLess(bt, at, after, a), SecondsCounted(bt, after),
         \A b, c \in Read(bt, at) \cap Banks :
           b # c /\ ParentOf(b) = ParentOf(c) => bt[b].shares # 0 \/ bt[c].shares # 0
  PROVE  Standing(Tree(bt, after))[a] >= Standing(Tree(bt, at))[a]
<1> DEFINE old == Tree(bt, at)
           new == Tree(bt, after)
           read == Read(bt, at)
<1>1. AreTables(bt, at) /\ AreTables(bt, after) /\ Unit \in Nat \ {0} /\ Unit <= Unit
  BY TreeAssumption DEF IsLess
<1>2. IsTree(old) /\ IsTree(new) /\ DOMAIN old = read /\ DOMAIN new = read
  BY <1>1, TreesAreTrees, LessReadsTheSame
<1>3. old = Weights(bt, at, Unit) /\ new = Weights(bt, after, Unit)
  BY DEF Tree
<1> HIDE DEF old, new, read
<1>4. Users(new) = Users(old) /\ a \in Users(old)
  BY <1>2 DEF Users, IsLess, read
<1>5. ASSUME NEW n \in read PROVE UsedBy(bt, after, n) # 0 => UsageAmong(bt, after, Unit, n) # 0
  BY <1>1, LessReadsTheSame, SomethingCounts DEF read
<1>6. ASSUME NEW n \in read
      PROVE  /\ UsageAmong(bt, after, Unit, n) <= UsageAmong(bt, at, Unit, n)
             /\ UsageAmong(bt, after, Unit, n) \in Nat /\ UsageAmong(bt, at, Unit, n) \in Nat
  <2>1. UsageAmong(bt, after, Unit, n) \in Nat /\ UsageAmong(bt, at, Unit, n) \in Nat
    BY <1>1, LessReadsTheSame, NodeFacts DEF read
  <2> QED BY <1>1, <2>1, LessAmong DEF read
\* Who is ahead of a was ahead before.
<1>7. ASSUME NEW c \in Users(old), Ahead(new, c, a) PROVE Ahead(old, c, a)
  <2> DEFINE p == Path[a]  q == Path[c]
  <2>1. PICK i \in 1..Len(q) : \E d \in 1..i :
          /\ i \in 1..Len(p) /\ Part(c, a, d)
          /\ Before(new, q[i], p[i])
          /\ ~Exceeds(new[p[d]], new[q[d]])
          /\ d # i => /\ TieIn(new, q[d], p[d])
                      /\ q[d] \in Banks /\ p[d] \in Banks
    BY <1>2, <1>4, <1>7, AheadParts
  <2>2. PICK d \in 1..i :
          /\ i \in 1..Len(p) /\ Part(c, a, d)
          /\ Before(new, q[i], p[i])
          /\ ~Exceeds(new[p[d]], new[q[d]])
          /\ d # i => /\ TieIn(new, q[d], p[d])
                      /\ q[d] \in Banks /\ p[d] \in Banks
    BY <2>1
  <2> DEFINE x == p[d]  y == q[d]
             s == SharesOf(bt, at, x)  u == UsedBy(bt, at, x)  v == UsedBy(bt, after, x)
             t == SharesOf(bt, at, y)  w == UsedBy(bt, at, y)
  <2>3. /\ x \in read /\ y \in read /\ x # y /\ ParentOf(x) = ParentOf(y)
        /\ x \in Inner /\ y \in Inner /\ a \in Nodes
        /\ d \in 1..Len(p)
    <3>1. d \in 1..Len(p) /\ d \in 1..Len(q)
      BY <2>2 DEF Part
    <3>2. x \in DOMAIN old /\ y \in DOMAIN old /\ a \in Inner
      BY <1>2, <1>4, <3>1, UserPath
    <3> QED BY <1>2, <2>2, <3>1, <3>2 DEF Part, IsTree, Inner
  <2>4. IsBelow(a, x) /\ ~IsBelow(a, y)
    <3>1. IsBelow(a, x)
      BY <2>3, BelowIsOnPath
    <3> QED BY <2>3, <3>1, OneSiblingAbove
  <2>5. /\ v = u - Saved(at, after, a) /\ Saved(at, after, a) \in Nat \ {0}
        /\ UsedBy(bt, after, y) = w
        /\ SharesOf(bt, after, x) = s /\ SharesOf(bt, after, y) = t
        /\ x \in Read(bt, after) /\ y \in Read(bt, after)
        /\ x \in Read(bt, at) /\ y \in Read(bt, at)
    <3>1. v = u - Saved(at, after, a) /\ UsedBy(bt, after, y) = w
      BY <2>4, LessUsage
    <3>2. Saved(at, after, a) \in Nat /\ a \in DOMAIN at
      BY LessReadsTheSame
    <3>3. Saved(at, after, a) # 0
      <4>1. at[a].usage \in Nat /\ after[a].usage \in Nat /\ after[a].usage < at[a].usage
        BY <3>2 DEF IsLess, AreTables, Association
      <4> QED BY <4>1 DEF Saved
    <3> QED BY <2>3, <3>1, <3>2, <3>3, LessReadsTheSame DEF read
  <2>6. s \in Nat /\ u \in Nat /\ v \in Nat /\ t \in Nat /\ w \in Nat
    <3>1. s \in Nat /\ u \in Nat /\ t \in Nat /\ w \in Nat
      BY <1>1, <2>5, NodeFacts
    <3>2. v \in Nat
      BY <1>1, <2>5, NodeFacts
    <3> QED BY <3>1, <3>2
  <2>7. v < u
    <3> HIDE DEF u, v
    <3> QED BY <2>5, <2>6
  <2>8. ~Heavier(s, v, t, w)
    <3>1. v # 0 => UsageAmong(bt, after, Unit, x) # 0
      BY <1>5, <2>3
    <3>2. ~IsHeavier(bt, after, x, y)
      BY <1>1, <1>3, <2>2, <2>3, <2>5, <3>1, NodesCompare
    <3> QED BY <2>5, <3>2 DEF IsHeavier
  <2>9. Heavier(t, w, s, u) \/ (s = 0 /\ t = 0)
    <3> HIDE DEF s, t, u, v, w
    <3> QED BY <2>6, <2>7, <2>8, LessIsHeavier
  <2>10. CASE Heavier(t, w, s, u)
    <3>1. w # 0 => UsageAmong(bt, at, Unit, y) # 0
      <4>1. w # 0 => UsageAmong(bt, after, Unit, y) # 0
        BY <1>5, <2>3, <2>5
      <4> QED BY <1>6, <2>3, <4>1
    <3>2. Exceeds(old[y], old[x])
      BY <1>1, <1>3, <2>3, <2>5, <2>10, <3>1, NodesCompare DEF IsHeavier
    <3>3. Before(old, y, x)
      BY <3>2 DEF Before
    <3> QED BY <1>2, <1>4, <2>2, <3>3, AheadWhereTheyPart
  <2>11. CASE s = 0 /\ t = 0
    <3>1. d = i
      <4> SUFFICES ASSUME d # i PROVE FALSE
        OBVIOUS
      <4>1. x \in Read(bt, at) \cap Banks /\ y \in Read(bt, at) \cap Banks
        BY <2>2, <2>5
      <4>2. ~IsUser(x) /\ ~IsUser(y)
        BY <4>1, TreeFacts DEF Nodes
      <4>3. bt[x].shares = 0 /\ bt[y].shares = 0
        BY <2>11, <4>2 DEF SharesOf
      <4> HIDE DEF x, y
      <4> QED BY <2>3, <4>1, <4>3
    <3>2. old[x] = <<0, 1>> /\ old[y] = <<0, 1>> /\ new[x] = <<0, 1>> /\ new[y] = <<0, 1>>
      BY <1>1, <1>3, <2>5, <2>11, WeightsAre DEF Weight
    <3>3. Before(new, y, x)
      BY <2>2, <3>1
    <3>4. Before(old, y, x)
      <4> HIDE DEF x, y
      <4> QED BY <3>2, <3>3 DEF Before, TieIn
    <3> QED BY <1>2, <1>4, <2>2, <3>4, AheadWhereTheyPart
  <2> QED BY <2>9, <2>10, <2>11
<1> DEFINE U == Users(old)
           Were == {c \in U : Ahead(old, c, a)}
           Are == {c \in U : Ahead(new, c, a)}
<1>8. Are \subseteq Were /\ Were \subseteq U
  BY <1>7
<1>9. Standing(old)[a] = Cardinality(U) - Cardinality(Were)
  BY <1>4 DEF Standing
<1>10. Standing(new)[a] = Cardinality(U) - Cardinality(Are)
  BY <1>4 DEF Standing
<1>11. IsFiniteSet(U)
  BY TreeAssumption, FS_Subset DEF Users
<1> HIDE DEF U, Were, Are
<1>12. /\ Cardinality(Are) <= Cardinality(Were) /\ Cardinality(U) \in Nat
       /\ Cardinality(Are) \in Nat /\ Cardinality(Were) \in Nat
  BY <1>8, <1>11, FS_Subset, FS_CardinalityType
<1>13. Standing(new)[a] >= Standing(old)[a]
  BY <1>9, <1>10, <1>12
<1> QED BY <1>13 DEF old, new

---------------------------------------------------------------------------
(* The weights of the emulator *)

LEMMA LeafFacts ==
  ASSUME NEW m \in Inner, ParentOf(m) \in Leaves PROVE IsUser(m) /\ ParentOf(m) = BankOf[m]
  BY TreeFacts DEF Leaves, ParentOf, IsUser

\* Two trees of the same nodes, in which siblings compare alike, and tied banks are
\* leaves whose associations weigh the same in both, have the same order.
LEMMA AheadInBoth ==
  ASSUME NEW tree, IsTree(tree), NEW own, IsTree(own), DOMAIN own = DOMAIN tree,
         \A m, n \in DOMAIN tree : ParentOf(m) = ParentOf(n) =>
           (Exceeds(own[m], own[n]) <=> Exceeds(tree[m], tree[n])),
         \A b, c \in DOMAIN tree \cap Banks :
           b # c /\ ParentOf(b) = ParentOf(c) /\ TieIn(tree, b, c) =>
             /\ b \in Leaves /\ c \in Leaves
             /\ \A a \in Users(tree) : BankOf[a] \in {b, c} => own[a] = tree[a],
         NEW a \in Users(tree), NEW c \in Users(tree), Ahead(tree, a, c)
  PROVE  Ahead(own, a, c)
<1>0. Users(own) = Users(tree)
  BY DEF Users
<1> DEFINE p == Path[a]  q == Path[c]
<1>1. PICK i \in 1..Len(p) : \E d \in 1..i :
           /\ i \in 1..Len(q) /\ Part(a, c, d)
           /\ Before(tree, p[i], q[i])
           /\ ~Exceeds(tree[q[d]], tree[p[d]])
           /\ d # i => /\ TieIn(tree, p[d], q[d])
                       /\ p[d] \in Banks /\ q[d] \in Banks
  BY AheadParts
<1>2. PICK d \in 1..i :
           /\ i \in 1..Len(q) /\ Part(a, c, d)
           /\ Before(tree, p[i], q[i])
           /\ ~Exceeds(tree[q[d]], tree[p[d]])
           /\ d # i => /\ TieIn(tree, p[d], q[d])
                       /\ p[d] \in Banks /\ q[d] \in Banks
  BY <1>1
<1>3. /\ Len(p) \in Nat /\ Len(q) \in Nat /\ i \in Nat /\ d \in Nat /\ p[Len(p)] = a /\ q[Len(q)] = c
      /\ \A j \in 1..Len(p) : p[j] \in DOMAIN tree /\ p[j] \in Inner /\ (IsUser(p[j]) <=> j = Len(p))
      /\ \A j \in 1..Len(q) : q[j] \in DOMAIN tree /\ q[j] \in Inner /\ (IsUser(q[j]) <=> j = Len(q))
  BY UserPath DEF IsTree
<1>4. d \in 1..Len(p) /\ d \in 1..Len(q) /\ p[d] # q[d] /\ ParentOf(p[d]) = ParentOf(q[d])
  BY <1>2 DEF Part
<1>5. /\ Exceeds(own[p[d]], own[q[d]]) <=> Exceeds(tree[p[d]], tree[q[d]])
      /\ TieIn(own, p[d], q[d]) <=> TieIn(tree, p[d], q[d])
  <2>1. p[d] \in DOMAIN tree /\ q[d] \in DOMAIN tree
    BY <1>3, <1>4
  <2>2. /\ Exceeds(own[p[d]], own[q[d]]) <=> Exceeds(tree[p[d]], tree[q[d]])
        /\ Exceeds(own[q[d]], own[p[d]]) <=> Exceeds(tree[q[d]], tree[p[d]])
    BY <1>4, <2>1
  <2> QED BY <2>1, <2>2, BeforeFacts
<1>6. CASE d = i
  <2>1. Before(own, p[d], q[d])
    BY <1>2, <1>5, <1>6 DEF Before
  <2> QED BY <1>0, <1>2, <2>1, AheadWhereTheyPart
<1>7. CASE d # i
  <2>1. d + 1 \in 1..Len(p) /\ d + 1 \in 1..Len(q) /\ d + 1 # 1 /\ (d + 1) - 1 = d /\ d + 1 <= i
    BY <1>1, <1>2, <1>3, <1>7
  <2>2. p[d] \in DOMAIN tree \cap Banks /\ q[d] \in DOMAIN tree \cap Banks /\ TieIn(tree, p[d], q[d])
    BY <1>2, <1>3, <1>4, <1>7
  <2>3. /\ p[d] \in Leaves /\ q[d] \in Leaves
        /\ \A x \in Users(tree) : BankOf[x] \in {p[d], q[d]} => own[x] = tree[x]
    BY <1>4, <2>2
  <2>4. ParentOf(p[d + 1]) = p[d] /\ ParentOf(q[d + 1]) = q[d]
    <3>1. a \in Inner /\ c \in Inner
      BY UserPath
    <3> QED BY <2>1, <3>1, PathFacts
  <2>5. IsUser(p[d + 1]) /\ IsUser(q[d + 1]) /\ BankOf[p[d + 1]] = p[d] /\ BankOf[q[d + 1]] = q[d]
    BY <1>3, <2>1, <2>3, <2>4, LeafFacts
  <2>6. d + 1 = Len(p) /\ d + 1 = Len(q) /\ i = d + 1
    <3>1. d + 1 = Len(p) /\ d + 1 = Len(q)
      BY <1>3, <2>1, <2>5
    <3> QED BY <1>1, <1>3, <2>1, <3>1
  <2>7. p[i] = a /\ q[i] = c /\ own[a] = tree[a] /\ own[c] = tree[c]
    <3>1. p[i] = a /\ q[i] = c
      BY <1>3, <2>6
    <3> HIDE DEF p, q
    <3> QED BY <2>3, <2>5, <2>6, <3>1
  <2>8. Before(own, p[i], q[i])
    BY <1>2, <2>7 DEF Before, TieIn
  <2>9. ASSUME NEW j \in 1..i - 1 PROVE TieIn(own, p[j], q[j])
    <3>1. CASE j = d
      BY <1>5, <2>2, <3>1
    <3>2. CASE j # d
      <4>1. j \in 1..d - 1
        BY <1>3, <2>6, <3>2
      <4>2. p[j] = q[j]
        BY <1>2, <4>1 DEF Part
      <4> QED BY <4>2 DEF TieIn, Ties
    <3> QED BY <3>1, <3>2
  <2> QED BY <1>0, <1>2, <2>8, <2>9, AheadMeans
<1> QED BY <1>6, <1>7

\* The usage of an association that is read is its own.
LEMMA UserUsage ==
  ASSUME NEW bt, NEW at, AreTables(bt, at), NEW a \in Read(bt, at) \cap Assocs
  PROVE  UsedBy(bt, at, a) = at[a].usage /\ at[a].usage \in Nat
<1> DEFINE read == Read(bt, at)
           S == {c \in read \cap Assocs : IsBelow(c, a)}
           f == [c \in read \cap Assocs |-> at[c].usage]
<1>1. S = {a}
  <2>1. ASSUME NEW c \in read \cap Assocs
        PROVE  /\ c \in Inner /\ Path[c][Len(Path[c])] = c /\ Len(Path[c]) \in Nat \ {0}
               /\ \A i \in 1..Len(Path[c]) - 1 : Path[c][i] \in Banks
    BY ReadFacts, PathFacts
  <2>2. a \in Inner /\ a \notin Banks
    BY ReadFacts, TreeAssumption
  <2>3. ASSUME NEW c \in read \cap Assocs
        PROVE  IsBelow(c, a) <=> c = a
    <3>1. IsBelow(c, a) <=> \E i \in 1..Len(Path[c]) : Path[c][i] = a
      BY <2>2, BelowIsOnPath
    <3>2. ASSUME NEW i \in 1..Len(Path[c]), Path[c][i] = a PROVE c = a
      <4>1. i = Len(Path[c]) \/ i \in 1..Len(Path[c]) - 1
        BY <2>1
      <4> QED BY <2>1, <2>2, <3>2, <4>1
    <3>3. c = a => \E i \in 1..Len(Path[c]) : Path[c][i] = a
      BY <2>1
    <3> QED BY <3>1, <3>2, <3>3
  <2> QED BY <2>3
<1>2. at[a].usage \in Nat /\ f[a] = at[a].usage
  <2>1. a \in DOMAIN at
    BY TreeAssumption DEF Read
  <2> QED BY <2>1 DEF AreTables, Association
<1>3. UsedBy(bt, at, a) = SumFunctionOnSet(f, S)
  BY DEF UsedBy, UsageOf
<1> HIDE DEF S, f
<1>4. SumFunctionOnSet(f, {a}) = f[a] + SumFunctionOnSet(f, {a} \ {a})
  <2>1. IsFiniteSet({a})
    BY FS_Singleton
  <2>2. \A x \in {a} : f[x] \in Int
    BY <1>2
  <2> QED BY <2>1, <2>2, SumWithout
<1>5. {a} \ {a} = {} /\ SumFunctionOnSet(f, {}) = 0
  BY SumOfNothing
<1> QED BY <1>1, <1>2, <1>3, <1>4, <1>5

\* Where a bank's associations have used whole seconds, the sum drops nothing.
LEMMA WholeWeighsTheSame ==
  ASSUME NEW bt, NEW at, AreTables(bt, at), NEW a \in Users(Tree(bt, at)),
         \A c \in Users(Tree(bt, at)) :
           BankOf[c] = BankOf[a] => Whole(at[c].usage, Unit) = at[c].usage
  PROVE  EmulatorTree(bt, at)[a] = Tree(bt, at)[a]
<1>1. Users(Tree(bt, at)) = Read(bt, at) \cap Assocs
  BY TreesAreTrees DEF Users
<1> DEFINE S == Siblings(bt, at, a)
           f == [m \in S |-> Whole(UsedBy(bt, at, m), Unit)]
           g == [m \in S |-> Whole(UsedBy(bt, at, m), 1)]
<1>2. ASSUME NEW m \in S PROVE f[m] = g[m]
  <2>1. m \in Inner /\ m \in Read(bt, at) /\ ParentOf(m) = ParentOf(a)
    BY ReadFacts DEF Siblings
  <2>2. ParentOf(a) = BankOf[a] /\ BankOf[a] \in Leaves
    BY <1>1, TreeAssumption DEF ParentOf, IsUser
  <2>3. m \in Users(Tree(bt, at)) /\ BankOf[m] = BankOf[a]
    BY <1>1, <2>1, <2>2, LeafFacts DEF IsUser
  <2>4. UsedBy(bt, at, m) = at[m].usage /\ at[m].usage \in Nat
    BY <1>1, <2>3, UserUsage
  <2>5. Whole(UsedBy(bt, at, m), Unit) = UsedBy(bt, at, m)
    BY <2>3, <2>4
  <2>6. Whole(UsedBy(bt, at, m), 1) = UsedBy(bt, at, m)
    <3>1. \A u \in Nat : (u \div 1) * 1 = u
      OBVIOUS
    <3> QED BY <2>4, <3>1 DEF Whole
  <2> QED BY <2>5, <2>6
<1>3. f = g
  <2> HIDE DEF S
  <2>1. \A m \in S : Whole(UsedBy(bt, at, m), Unit) = Whole(UsedBy(bt, at, m), 1)
    BY <1>2
  <2> QED BY <2>1
<1>4. UsageAmong(bt, at, Unit, a) = UsageAmong(bt, at, 1, a)
  BY <1>3 DEF UsageAmong
<1>5. a \in Read(bt, at)
  BY <1>1
<1> QED BY <1>4, <1>5, WeightsAre DEF Tree, EmulatorTree

\* In both trees siblings compare by their own shares and usage.
LEMMA SiblingsCompareAlike ==
  ASSUME NEW bt, NEW at, AreTables(bt, at), SecondsCounted(bt, at),
         NEW m \in Read(bt, at), NEW n \in Read(bt, at), ParentOf(m) = ParentOf(n)
  PROVE  Exceeds(EmulatorTree(bt, at)[m], EmulatorTree(bt, at)[n])
           <=> Exceeds(Tree(bt, at)[m], Tree(bt, at)[n])
<1>1. ASSUME NEW part \in {1, Unit}, NEW tree, tree = Weights(bt, at, part)
      PROVE  Exceeds(tree[m], tree[n]) <=> IsHeavier(bt, at, m, n)
  <2>1. part \in Nat \ {0} /\ part <= Unit
    BY TreeAssumption
  <2>2. UsedBy(bt, at, m) # 0 => UsageAmong(bt, at, part, m) # 0
    BY <2>1, SomethingCounts
  <2> QED BY <1>1, <2>1, <2>2, NodesCompare
<1> QED BY <1>1 DEF Tree, EmulatorTree

\* The emulator gives everybody the rank of its standing in the program's tree,
\* though it has weights of its own, but for what EmulatorAgrees names.
LEMMA EmulatorsStanding ==
  ASSUME AreTables(banks, assoc), SecondsCounted(banks, assoc),
         ~SubBanksTie(Tree(banks, assoc)), ~FractionsTie(Tree(banks, assoc))
  PROVE  /\ ~SubBanksTie(EmulatorTree(banks, assoc))
         /\ Standing(EmulatorTree(banks, assoc)) = Standing(Tree(banks, assoc))
<1> DEFINE tree == Tree(banks, assoc)
           own == EmulatorTree(banks, assoc)
<1>1. IsTree(tree) /\ IsTree(own) /\ DOMAIN own = DOMAIN tree /\ DOMAIN tree = Read(banks, assoc)
  BY TreesAreTrees
<1>2. \A m, n \in DOMAIN tree : ParentOf(m) = ParentOf(n) =>
        (Exceeds(own[m], own[n]) <=> Exceeds(tree[m], tree[n]))
  BY <1>1, SiblingsCompareAlike
<1>3. \A a \in Users(tree) :
        (\A c \in Users(tree) : BankOf[c] = BankOf[a] => Whole(assoc[c].usage, Unit) = assoc[c].usage)
          => own[a] = tree[a]
  BY WholeWeighsTheSame
<1> HIDE DEF tree, own
<1>4. ~SubBanksTie(tree) /\ ~FractionsTie(tree)
  BY DEF tree
<1>5. ASSUME NEW m \in DOMAIN tree, NEW n \in DOMAIN tree, ParentOf(m) = ParentOf(n)
      PROVE  TieIn(own, m, n) <=> TieIn(tree, m, n)
  BY <1>1, <1>2, <1>5, BeforeFacts
<1>6. ~SubBanksTie(own)
  BY <1>1, <1>4, <1>5 DEF SubBanksTie
<1>7. ASSUME NEW b \in DOMAIN tree \cap Banks, NEW c \in DOMAIN tree \cap Banks,
             b # c, ParentOf(b) = ParentOf(c), TieIn(tree, b, c)
      PROVE  /\ b \in Leaves /\ c \in Leaves
             /\ \A a \in Users(tree) : BankOf[a] \in {b, c} => own[a] = tree[a]
  <2>1. b \in Leaves /\ c \in Leaves
    BY <1>4, <1>7 DEF SubBanksTie
  <2>2. TieIn(tree, c, b)
    BY <1>1, <1>7, BeforeFacts
  <2>3. \A a \in Users(tree) : BankOf[a] \in {b, c} => Whole(assoc[a].usage, Unit) = assoc[a].usage
    BY <1>4, <1>7, <2>2 DEF FractionsTie
  <2> QED BY <1>3, <2>1, <2>3
<1>8. Users(own) = Users(tree)
  BY <1>1 DEF Users
<1>9. ASSUME NEW a \in Users(tree), NEW c \in Users(tree)
      PROVE  Ahead(own, a, c) <=> Ahead(tree, a, c)
  <2>1. Ahead(tree, a, c) => Ahead(own, a, c)
    BY <1>1, <1>2, <1>7, AheadInBoth
  <2>2. ASSUME NEW x \in DOMAIN own \cap Banks, NEW y \in DOMAIN own \cap Banks,
               x # y, ParentOf(x) = ParentOf(y), TieIn(own, x, y)
        PROVE  /\ x \in Leaves /\ y \in Leaves
               /\ \A z \in Users(own) : BankOf[z] \in {x, y} => tree[z] = own[z]
    BY <1>1, <1>5, <1>7, <1>8, <2>2
  <2>3. Ahead(own, a, c) => Ahead(tree, a, c)
    BY <1>1, <1>2, <1>8, <2>2, AheadInBoth
  <2> QED BY <2>1, <2>3
<1>10. Standing(own) = Standing(tree)
  <2>1. \A a \in Users(tree) :
          {c \in Users(own) : Ahead(own, c, a)} = {c \in Users(tree) : Ahead(tree, c, a)}
    BY <1>8, <1>9
  <2> QED BY <1>8, <2>1 DEF Standing
<1> QED BY <1>6, <1>10 DEF tree, own

---------------------------------------------------------------------------
(* The script *)

\* The tables have their types, and each run has read a tree and found the
\* standing of everybody in it, or has not read anything.
IInv == /\ AreTables(banks, assoc)
        /\ DOMAIN run = Runs
        /\ \A r \in Runs : IsTree(run[r].tree) /\ run[r].ranks = Standing(run[r].tree)

LEMMA InitIsSound == Init => IInv
<1> SUFFICES ASSUME Init PROVE IInv
  OBVIOUS
<1>1. AreTables(banks, assoc)
  BY FairshareAssumption DEF Init, AreTables
<1>2. run = [r \in Runs |-> Idle]
  BY DEF Init
<1>3. \A r \in Runs : IsTree(run[r].tree) /\ run[r].ranks = Standing(run[r].tree)
  BY <1>2, NothingRead DEF Idle
<1> QED BY <1>1, <1>2, <1>3 DEF IInv

LEMMA LoadIsSound == ASSUME IInv, NEW r \in Runs, Load(r) PROVE IInv'
<1>1. PICK order \in Orders :
        run' = [run EXCEPT ![r] = [tree |-> Tree(banks, assoc),
                                   ranks |-> Walk(Tree(banks, assoc), order)]]
  BY DEF Load
<1>2. IsTree(Tree(banks, assoc))
  BY TreesAreTrees DEF IInv
<1>3. Walk(Tree(banks, assoc), order) = Standing(Tree(banks, assoc))
  BY <1>2, OrdersAreOrders, WalkIsStanding
<1>4. AreTables(banks, assoc)'
  BY DEF IInv, AreTables, Load
<1> QED BY <1>1, <1>2, <1>3, <1>4 DEF IInv

\* A run that is over has read nothing.
LEMMA StopIsSound ==
  ASSUME IInv, NEW r \in Runs, run' = [run EXCEPT ![r] = Idle], AreTables(banks, assoc)' PROVE IInv'
  BY NothingRead DEF IInv, Idle

LEMMA WriteIsSound == ASSUME IInv, NEW r \in Runs, Write(r) PROVE IInv'
<1> DEFINE ranks == run[r].ranks
           n == Cardinality(DOMAIN ranks)
<1>1. ranks = Standing(run[r].tree) /\ IsTree(run[r].tree)
  BY DEF IInv
<1>2. \A a \in DOMAIN ranks : ranks[a] \in Nat
  BY <1>1, StandingRange
<1>3. n \in Nat
  <2>1. DOMAIN ranks = Users(run[r].tree)
    BY <1>1 DEF Standing
  <2> QED BY <2>1, TreeAssumption, FS_Subset, FS_CardinalityType DEF Users
<1>4. assoc' = WithFshares(assoc, ranks) /\ banks' = banks /\ run' = [run EXCEPT ![r] = Idle]
  BY DEF Write
<1> HIDE DEF ranks, n
<1>5. \A a \in DOMAIN assoc : assoc[a] \in Association
  BY DEF IInv, AreTables
<1>6. \A a \in DOMAIN ranks : <<ranks[a], n>> \in Nat \X Nat
  BY <1>2, <1>3
<1>7. ASSUME NEW a \in DOMAIN assoc PROVE WithFshares(assoc, ranks)[a] \in Association
  BY <1>5, <1>6 DEF WithFshares, Association, n
<1>8. DOMAIN WithFshares(assoc, ranks) = DOMAIN assoc
  BY DEF WithFshares
<1>9. WithFshares(assoc, ranks) \in [DOMAIN assoc -> Association]
  BY <1>7 DEF WithFshares
<1>10. AreTables(banks, assoc)'
  BY <1>4, <1>8, <1>9 DEF IInv, AreTables
<1> QED BY <1>4, <1>10, StopIsSound

\* A change of the tables that keeps their types.
LEMMA CommitIsSound ==
  ASSUME IInv, NEW b, b \in [Banks -> Bank], NEW a, DOMAIN a \subseteq Assocs,
         a \in [DOMAIN a -> Association], Commit(b, a)
  PROVE  IInv'
  BY DEF IInv, AreTables, Commit

LEMMA EditUsersIsSound == ASSUME IInv, EditUsers PROVE IInv'
<1> USE FairshareAssumption DEF Association
<1>0. /\ banks \in [Banks -> Bank] /\ DOMAIN assoc \subseteq Assocs
      /\ assoc \in [DOMAIN assoc -> Association]
  BY DEF IInv, AreTables
<1>1. PICK a \in Assocs :
        \/ \E u \in 0..MaxUsage : UpdateUsage(a, u)
        \/ \E s \in Shares : EditShares(a, s) \/ AddUser(a, s)
        \/ DeleteUser(a)
  BY DEF EditUsers
<1>2. ASSUME NEW u \in 0..MaxUsage, UpdateUsage(a, u) PROVE IInv'
  <2> DEFINE t == [assoc EXCEPT ![a].usage = u]
  <2>1. t \in [DOMAIN t -> Association] /\ DOMAIN t \subseteq Assocs
    <3>1. u \in Nat
      BY <1>2
    <3> QED BY <1>0, <3>1
  <2>2. Commit(banks, t)
    BY <1>2 DEF UpdateUsage
  <2> HIDE DEF t
  <2> QED BY <1>0, <2>1, <2>2, CommitIsSound
<1>3. ASSUME NEW s \in Shares, EditShares(a, s) PROVE IInv'
  <2> DEFINE t == [assoc EXCEPT ![a].shares = s]
  <2>1. t \in [DOMAIN t -> Association] /\ DOMAIN t \subseteq Assocs
    BY <1>0
  <2>2. Commit(banks, t)
    BY <1>3 DEF EditShares
  <2> HIDE DEF t
  <2> QED BY <1>0, <2>1, <2>2, CommitIsSound
<1>4. ASSUME NEW s \in Shares, AddUser(a, s) PROVE IInv'
  <2> DEFINE new == [shares |-> s, usage |-> 0, active |-> TRUE, fshare |-> DefaultFshare]
             t == [c \in DOMAIN assoc \cup {a} |-> IF c = a THEN new ELSE assoc[c]]
             u == [assoc EXCEPT ![a].active = TRUE]
  <2>1. Commit(banks, t) \/ Commit(banks, u)
    BY <1>4 DEF AddUser
  <2>2. u \in [DOMAIN u -> Association] /\ DOMAIN u \subseteq Assocs
    BY <1>0
  <2>3. t \in [DOMAIN t -> Association] /\ DOMAIN t \subseteq Assocs
    <3>1. new \in Association
      BY DEF DefaultFshare
    <3> HIDE DEF new
    <3> QED BY <1>0, <1>1, <3>1
  <2> HIDE DEF t, u
  <2> QED BY <1>0, <2>1, <2>2, <2>3, CommitIsSound
<1>5. ASSUME DeleteUser(a) PROVE IInv'
  <2> DEFINE t == [c \in DOMAIN assoc \ {a} |-> assoc[c]]
             u == [assoc EXCEPT ![a].active = FALSE]
  <2>1. Commit(banks, t) \/ Commit(banks, u)
    BY <1>5 DEF DeleteUser
  <2>2. u \in [DOMAIN u -> Association] /\ DOMAIN u \subseteq Assocs
    BY <1>0
  <2>3. t \in [DOMAIN t -> Association] /\ DOMAIN t \subseteq Assocs
    BY <1>0
  <2> HIDE DEF t, u
  <2> QED BY <1>0, <2>1, <2>2, <2>3, CommitIsSound
<1> QED BY <1>1, <1>2, <1>3, <1>4, <1>5

LEMMA EditBanksIsSound == ASSUME IInv, EditBanks PROVE IInv'
<1> USE FairshareAssumption DEF Association, Bank
<1>0. /\ banks \in [Banks -> Bank] /\ DOMAIN assoc \subseteq Assocs
      /\ assoc \in [DOMAIN assoc -> Association]
  BY DEF IInv, AreTables
<1>1. PICK b \in Banks :
        \/ \E s \in Shares : EditBankShares(b, s)
        \/ AddBank(b) \/ DeleteBank(b)
        \/ ClearUsage(b)
  BY DEF EditBanks
<1>2. ASSUME NEW s \in Shares, EditBankShares(b, s) PROVE IInv'
  <2> DEFINE t == [banks EXCEPT ![b].shares = s]
  <2>1. t \in [Banks -> Bank]
    BY <1>0
  <2>2. Commit(t, assoc)
    BY <1>2 DEF EditBankShares
  <2> HIDE DEF t
  <2> QED BY <1>0, <2>1, <2>2, CommitIsSound
<1>3. ASSUME AddBank(b) PROVE IInv'
  <2> DEFINE t == [banks EXCEPT ![b].active = TRUE]
  <2>1. t \in [Banks -> Bank]
    BY <1>0
  <2>2. Commit(t, assoc)
    BY <1>3 DEF AddBank
  <2> HIDE DEF t
  <2> QED BY <1>0, <2>1, <2>2, CommitIsSound
<1>4. ASSUME DeleteBank(b) PROVE IInv'
  <2> DEFINE t == [c \in Banks |-> [banks[c] EXCEPT !.active = @ /\ ~IsBelow(c, b)]]
             u == [a \in DOMAIN assoc |-> [assoc[a] EXCEPT !.active = @ /\ ~IsBelow(a, b)]]
  <2>1. t \in [Banks -> Bank]
    <3> SUFFICES ASSUME NEW c \in Banks
                 PROVE [banks[c] EXCEPT !.active = @ /\ ~IsBelow(c, b)] \in Bank
      OBVIOUS
    <3> DEFINE still == banks[c].active /\ ~IsBelow(c, b)
    <3>1. still \in BOOLEAN
      OBVIOUS
    <3> HIDE DEF still
    <3>2. [banks[c] EXCEPT !.active = still] \in Bank
      BY <1>0, <3>1
    <3> QED BY <3>2 DEF still
  <2>2. u \in [DOMAIN u -> Association] /\ DOMAIN u \subseteq Assocs
    <3> SUFFICES ASSUME NEW a \in DOMAIN assoc
                 PROVE [assoc[a] EXCEPT !.active = @ /\ ~IsBelow(a, b)] \in Association
      BY <1>0
    <3> DEFINE still == assoc[a].active /\ ~IsBelow(a, b)
    <3>1. still \in BOOLEAN
      OBVIOUS
    <3> HIDE DEF still
    <3>2. [assoc[a] EXCEPT !.active = still] \in Association
      BY <1>0, <3>1
    <3> QED BY <3>2 DEF still
  <2>3. Commit(t, u)
    BY <1>4 DEF DeleteBank
  <2> HIDE DEF t, u
  <2> QED BY <2>1, <2>2, <2>3, CommitIsSound
<1>5. ASSUME ClearUsage(b) PROVE IInv'
  <2> DEFINE u == [a \in DOMAIN assoc |->
                     IF BankOf[a] = b
                       THEN [assoc[a] EXCEPT !.usage = 0, !.fshare = DefaultFshare]
                     ELSE assoc[a]]
  <2>1. u \in [DOMAIN u -> Association] /\ DOMAIN u \subseteq Assocs
    BY <1>0 DEF DefaultFshare
  <2>2. Commit(banks, u)
    BY <1>5 DEF ClearUsage
  <2> HIDE DEF u
  <2> QED BY <1>0, <2>1, <2>2, CommitIsSound
<1> QED BY <1>1, <1>2, <1>3, <1>4, <1>5

LEMMA NextIsSound == ASSUME IInv, [Next]_vars PROVE IInv'
<1>1. ASSUME NEW r \in Runs, Load(r) PROVE IInv'
  BY <1>1, LoadIsSound
<1>2. ASSUME NEW r \in Runs, Write(r) PROVE IInv'
  BY <1>2, WriteIsSound
<1>3. ASSUME NEW r \in Runs, GiveUp(r) \/ Kill(r) PROVE IInv'
  <2>1. run' = [run EXCEPT ![r] = Idle] /\ UNCHANGED <<banks, assoc>>
    BY <1>3 DEF GiveUp, Kill
  <2>2. AreTables(banks, assoc)'
    BY <2>1 DEF IInv, AreTables
  <2> QED BY <2>1, <2>2, StopIsSound
<1>4. CASE EditUsers
  BY <1>4, EditUsersIsSound
<1>5. CASE EditBanks
  BY <1>5, EditBanksIsSound
<1>6. CASE OtherLocks \/ OtherUnlocks \/ UNCHANGED vars
  BY <1>6 DEF OtherLocks, OtherUnlocks, vars, IInv, AreTables
<1> QED BY <1>1, <1>2, <1>3, <1>4, <1>5, <1>6 DEF Next, Script

\* In every state the tables have their types, and what a run has read is a tree.
THEOREM FairshareIsSound == Spec => []IInv
<1>1. IInv /\ [Next]_vars => IInv'
  BY NextIsSound
<1> QED BY <1>1, InitIsSound, PTL DEF Spec

\* Whatever is changed while runs of the script overlap, and in whatever order
\* std::sort leaves those that tie, a run ranks everybody by standing.
THEOREM RunsRankByStanding == Spec => []RankedByStanding
<1>1. IInv => RankedByStanding
  BY DEF IInv, RankedByStanding
<1> QED BY <1>1, FairshareIsSound, PTL

\* The emulator, which adds up what siblings have used with its fractions, finds
\* the ranks of the program all the same, unless banks tie that have sub-banks or
\* fractions of a second (_build_tie_aware_children, calculate_children_weights).
THEOREM EmulatorAgreesWithRuns == Spec => []EmulatorAgrees
<1>1. ASSUME IInv, SecondsCounted(banks, assoc),
             ~SubBanksTie(Tree(banks, assoc)), ~FractionsTie(Tree(banks, assoc)),
             NEW order \in Orders
      PROVE  Emulate(EmulatorTree(banks, assoc), order) = Walk(Tree(banks, assoc), order)
  <2>1. AreTables(banks, assoc) /\ IsOrder(order)
    BY <1>1, OrdersAreOrders DEF IInv
  <2>2. /\ ~SubBanksTie(EmulatorTree(banks, assoc))
        /\ Standing(EmulatorTree(banks, assoc)) = Standing(Tree(banks, assoc))
    BY <1>1, <2>1, EmulatorsStanding
  <2>3. IsTree(Tree(banks, assoc)) /\ IsTree(EmulatorTree(banks, assoc))
    BY <2>1, TreesAreTrees
  <2>4. Emulate(EmulatorTree(banks, assoc), order) = Standing(EmulatorTree(banks, assoc))
    BY <2>1, <2>2, <2>3, EmulateIsStanding
  <2>5. Walk(Tree(banks, assoc), order) = Standing(Tree(banks, assoc))
    BY <2>1, <2>3, WalkIsStanding
  <2> QED BY <2>2, <2>4, <2>5
<1>2. IInv => EmulatorAgrees
  BY <1>1 DEF EmulatorAgrees
<1> QED BY <1>2, FairshareIsSound, PTL

\* Whoever has used less than before does not lose by it, whatever fractions of
\* seconds the sums of the siblings' usage drop, as long as something is left of
\* them and no banks tie that have no shares (calc_set_children_weight,
\* merge_grand_children).
THEOREM LessUsageNeverHurts == Spec => UsingLessNeverHurts
<1>1. ASSUME IInv, IInv', NEW a \in DOMAIN assoc, UsesLess(a), SecondsCounted(banks', assoc'),
             a \in DOMAIN Tree(banks, assoc), ~SharelessTie(Tree(banks, assoc))
      PROVE  Walk(Tree(banks', assoc'), AnyOrder)[a] >= Walk(Tree(banks, assoc), AnyOrder)[a]
  <2>1. AnyOrder \in Orders
    BY FairshareAssumption DEF AnyOrder
  <2>2. AreTables(banks, assoc) /\ AreTables(banks', assoc') /\ banks' = banks
    BY <1>1 DEF IInv, UsesLess, AreTables
  <2>3. /\ a \in Read(banks, assoc) \cap Assocs /\ SecondsCounted(banks, assoc')
        /\ DOMAIN Tree(banks, assoc) = Read(banks, assoc)
    BY <1>1, <2>2, TreesAreTrees DEF AreTables
  <2>4. IsLess(banks, assoc, assoc', a)
    BY <1>1, <2>2, <2>3 DEF IsLess, UsesLess, AreTables, Association
  <2>5. \A b, c \in Read(banks, assoc) \cap Banks :
          b # c /\ ParentOf(b) = ParentOf(c) => banks[b].shares # 0 \/ banks[c].shares # 0
    BY <1>1, <2>3 DEF SharelessTie
  <2>6. Standing(Tree(banks, assoc'))[a] >= Standing(Tree(banks, assoc))[a]
    BY <2>3, <2>4, <2>5, LessUsageRanksNoLower
  <2>7. Walk(Tree(banks, assoc), AnyOrder) = Standing(Tree(banks, assoc))
    BY <2>1, <2>2, TreesAreTrees, OrdersAreOrders, WalkIsStanding
  <2>8. Walk(Tree(banks', assoc'), AnyOrder) = Standing(Tree(banks', assoc'))
    BY <2>1, <2>2, TreesAreTrees, OrdersAreOrders, WalkIsStanding
  <2> QED BY <2>2, <2>6, <2>7, <2>8
<1>2. IInv /\ IInv' =>
        [\A a \in DOMAIN assoc : UsesLess(a) /\ SecondsCounted(banks', assoc') =>
           \A before \in {Tree(banks, assoc)}, after \in {Tree(banks', assoc')} :
             a \in DOMAIN before /\ ~SharelessTie(before) =>
               Walk(after, AnyOrder)[a] >= Walk(before, AnyOrder)[a]]_vars
  BY <1>1
<1> QED BY <1>2, FairshareIsSound, PTL DEF UsingLessNeverHurts

=============================================================================
