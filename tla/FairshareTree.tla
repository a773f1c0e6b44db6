----------------------------- MODULE FairshareTree -----------------------------
(***************************************************************************)
(* The fair-share calculation on one reading of the database: the tree of  *)
(* banks and associations, the weight of every node, the tie-aware walk    *)
(* that ranks the associations (src/src/fairness/weighted_tree), and the   *)
(* walk of the emulator (fairshare_emulator.py).  Standing says what the   *)
(* ranks should be, without walking.                                       *)
(*                                                                         *)
(* Weights are doubles in the code.  Here they are exact fractions <<n, d>>*)
(* compared by their cross products; <<1, 0>> is the weight above all.     *)
(***************************************************************************)
EXTENDS Integers, Sequences, SequencesExt, FiniteSets, FiniteSetsExt

CONSTANTS
  Banks,     \* names of the banks
  Root,      \* the root bank
  NoBank,    \* the empty parent_bank of the root
  Parent,    \* the bank each bank is under
  Assocs,    \* associations, a user in a bank
  BankOf,    \* the bank of each association
  Unit       \* usages are counted in 1/Unit seconds of a node

Nodes == Banks \cup Assocs
IsUser(n) == n \in Assocs
Leaves == {b \in Banks : \A c \in Banks : Parent[c] # b}

\* The banks are a tree: a bank is added under one that is there.
ASSUME TreeAssumption ==
  /\ IsFiniteSet(Banks) /\ IsFiniteSet(Assocs) /\ Banks \cap Assocs = {}
  /\ Root \in Banks /\ Parent \in [Banks -> Banks \cup {NoBank}]
  /\ \E depth \in [Banks -> 0..Cardinality(Banks)] :
       \A b \in Banks \ {Root} : Parent[b] \in Banks /\ depth[Parent[b]] < depth[b]
  /\ BankOf \in [Assocs -> Leaves]
  /\ Unit \in Nat \ {0}

ParentOf(n) == IF IsUser(n) THEN BankOf[n] ELSE Parent[n]

\* The nodes from a child of the root down to n.
Path == [n \in Nodes |->
  LET up[m \in Nodes] == IF m = Root THEN <<>> ELSE Append(up[ParentOf(m)], m)
  IN up[n]]
IsBelow(n, b) == b = Root \/ \E i \in 1..Len(Path[n]) : Path[n][i] = b

---------------------------------------------------------------------------
(* Reading the database *)

\* get_sub_banks () reads the active sub-banks of a bank it has read, or the
\* active associations of one without sub-banks.
Read(banks, assoc) ==
  LET active == {b \in Banks \ {Root} : banks[b].active}
                  \cup {a \in DOMAIN assoc : assoc[a].active}
  IN {n \in active : \A i \in 1..Len(Path[n]) : Path[n][i] \in active}

\* aggregate_job_usage (): a bank has the usage of the associations read below.
UsageOf(read, assoc, n) ==
  SumFunctionOnSet([a \in read \cap Assocs |-> assoc[a].usage],
                   {a \in read \cap Assocs : IsBelow(a, n)})

---------------------------------------------------------------------------
(* Weights *)

Exceeds(v, w) == v[1] * w[2] > w[1] * v[2]
Ties(v, w) == v[1] * w[2] = w[1] * v[2]

\* What is left of a usage that is added to a number of whole parts.
Whole(u, part) == (u \div part) * part

\* Variant: a node without usage has a weighted usage of 0, and so its weight.
WeightZeroUsage(shares, usage, shares_sum, usage_sum) ==
  IF usage = 0 THEN <<0, 1>> ELSE <<shares * usage_sum, shares_sum * usage>>
\* calc_set_weight (): the share of a node among its siblings over its part of
\* their usage.
Weight(shares, usage, shares_sum, usage_sum) ==
  IF shares = 0 THEN <<0, 1>>
  ELSE IF usage = 0 THEN <<1, 0>>
  ELSE <<shares * usage_sum, shares_sum * usage>>

\* The nodes that are read and their weights, when the siblings' usage is added
\* up in whole parts.  (read is the argument of a function so that TLC works it
\* out once, and so below.)
Weights(banks, assoc, part) ==
  LET shares(n) == IF IsUser(n) THEN assoc[n].shares ELSE banks[n].shares
      weight[read \in SUBSET Nodes] == [n \in read |->
        LET siblings == {m \in read : ParentOf(m) = ParentOf(n)} IN
        Weight(shares(n), UsageOf(read, assoc, n),
               SumFunctionOnSet([m \in siblings |-> shares(m)], siblings),
               SumFunctionOnSet([m \in siblings |-> Whole(UsageOf(read, assoc, m), part)],
                                siblings))]
  IN weight[Read(banks, assoc)]

\* What a run knows.  calc_set_children_weight () adds usages up in an integer,
\* which drops the fraction of a second that each of them has.
Tree(banks, assoc) == Weights(banks, assoc, Unit)

\* What the emulator makes of the same nodes: calculate_children_weights () adds
\* up doubles.
EmulatorTree(banks, assoc) == Weights(banks, assoc, 1)

\* A tree is known by the weights of its nodes.
Children(tree, b) == {n \in DOMAIN tree : ParentOf(n) = b}
Users(tree) == DOMAIN tree \cap Assocs
TieIn(tree, m, n) == Ties(tree[m], tree[n])

\* The comparison of sort_weighted_children (): users come before banks of the
\* same weight.
Before(tree, m, n) ==
  \/ Exceeds(tree[m], tree[n])
  \/ TieIn(tree, m, n) /\ IsUser(m) /\ ~IsUser(n)

\* The nodes of S one after the other, each after those that R relates to it.
\* (It is cut to its length so that TLC works it out once.)
Arranged(S, R) ==
  LET place(n) == 1 + Cardinality({m \in S : <<m, n>> \in R})
  IN SubSeq([i \in 1..Cardinality(S) |-> CHOOSE n \in S : place(n) = i], 1, Cardinality(S))

\* std::sort leaves what compares equal in any order; order stands for it.
Precedes(tree, order, m, n) ==
  \/ Before(tree, m, n)
  \/ ~Before(tree, n, m) /\ order[m] < order[n]
Sorted(tree, order, S) ==
  Arranged(S, {p \in S \X S : Precedes(tree, order, p[1], p[2])})
SortedChildren(tree, order, b) == Sorted(tree, order, Children(tree, b))

---------------------------------------------------------------------------
(* The walk *)

\* is_child_weight_equal_to_next ()
TiedWithNext(tree, list, i) ==
  /\ i < Len(list)
  /\ IsUser(list[i]) = IsUser(list[i + 1])
  /\ TieIn(tree, list[i], list[i + 1])

\* The row of nodes that tie and end with the i-th.
Row(tree, list, i) ==
  LET first == Min({k \in 1..i : \A j \in k..i - 1 : TiedWithNext(tree, list, j)})
  IN SubSeq(list, first, i)

Concatenation(F(_), list) == FlattenSeq([i \in 1..Len(list) |-> F(list[i])])

\* Variant: the children of tied banks stay in the order of the banks.
MergeUnsorted(tree, order, row) ==
  Concatenation(LAMBDA b : SortedChildren(tree, order, b), row)
\* The virtual node of a row of banks that tie: their children, sorted by the
\* weights they have among their own siblings (merge_grand_children).
Merge(tree, order, row) ==
  Sorted(tree, order, UNION {Children(tree, b) : b \in Range(row)})

\* handle_internal () of a node with these children: the associations in the
\* order in which handle_leaf () meets them, each with its mark, whether the
\* next one ties with it.  A row of tied banks is visited as one node at its end
\* (build_tie_aware_children).
Visit(tree, order, children) ==
  LET visit[list \in Seq(Nodes)] == FlattenSeq([i \in 1..Len(list) |->
        IF IsUser(list[i])
          THEN <<[user |-> list[i], tied |-> TiedWithNext(tree, list, i)]>>
        ELSE IF TiedWithNext(tree, list, i) THEN <<>>
        ELSE visit[Merge(tree, order, Row(tree, list, i))]])
  IN visit[children]

\* handle_leaf (): those who tie get one rank, and the next one's is lower by
\* as many as they are.
NextRank(at, tied) ==
  [rank |-> IF tied THEN at.rank ELSE at.rank - 1 - at.stride,
   stride |-> IF tied THEN at.stride + 1 ELSE 0]

\* The ranks of the associations visited, from their number down to 1.
Ranks(visits) ==
  LET ranks[visited \in Seq([user : Nodes, tied : BOOLEAN])] ==
        LET at[i \in 1..Len(visited)] ==
              IF i = 1 THEN [rank |-> Len(visited), stride |-> 0]
              ELSE NextRank(at[i - 1], visited[i - 1].tied)
            position(a) == CHOOSE i \in 1..Len(visited) : visited[i].user = a
        IN [a \in {visited[i].user : i \in 1..Len(visited)} |-> at[position(a)].rank]
  IN ranks[visits]

\* weighted_walk_t::run ()
Walk(tree, order) == Ranks(Visit(tree, order, SortedChildren(tree, order, Root)))

---------------------------------------------------------------------------
(* The emulator's walk *)

\* sort_children_by_weight (): by weights only, and equals stay at the places
\* they have among each other.
SortedByWeight(tree, place, S) ==
  Arranged(S, {p \in S \X S : \/ Exceeds(tree[p[1]], tree[p[2]])
                              \/ TieIn(tree, p[1], p[2]) /\ place[p[1]] < place[p[2]]})
ListedChildren(tree, order, b) == SortedByWeight(tree, order, Children(tree, b))
Places(list) == [n \in Range(list) |-> CHOOSE i \in 1..Len(list) : list[i] = n]

\* Variant: ties in the merged list are not marked.
MarkedNone(tree, list) == [i \in 1..Len(list) |-> [node |-> list[i], tied |-> FALSE]]
\* The children of tied banks: a tie is marked whatever the next child is.  (The
\* marks they have from their own bank stay, and say nothing else.)
Marked(tree, list) ==
  [i \in 1..Len(list) |-> [node |-> list[i],
                           tied |-> i < Len(list) /\ TieIn(tree, list[i], list[i + 1])]]

\* FairShareCalculator._build_tie_aware_children: the children of a row of tied
\* banks take the place of the banks, and are not looked at for tied banks again.
FlatChildren(tree, order, b) ==
  LET list == ListedChildren(tree, order, b)
      Kids(row) == Concatenation(LAMBDA c : ListedChildren(tree, order, c), row)
  IN FlattenSeq([i \in 1..Len(list) |->
       LET row == Row(tree, list, i) IN
       IF IsUser(list[i]) THEN <<[node |-> list[i], tied |-> TiedWithNext(tree, list, i)]>>
       ELSE IF TiedWithNext(tree, list, i) THEN <<>>
       ELSE IF Len(row) = 1 THEN <<[node |-> list[i], tied |-> FALSE]>>
       ELSE Marked(tree, SortedByWeight(tree, Places(Kids(row)), Range(Kids(row))))])

\* _traverse ()
Traverse(tree, order, children) ==
  LET traverse[items \in Seq([node : Nodes, tied : BOOLEAN])] ==
        FlattenSeq([i \in 1..Len(items) |->
          IF IsUser(items[i].node)
            THEN <<[user |-> items[i].node, tied |-> items[i].tied]>>
          ELSE traverse[FlatChildren(tree, order, items[i].node)]])
  IN traverse[children]

\* FairShareCalculator.calculate (), which ranks as the walk does.
Emulate(tree, order) == Ranks(Traverse(tree, order, FlatChildren(tree, order, Root)))

---------------------------------------------------------------------------
(* What the ranks should be *)

\* a is ahead of c: where their banks, level by level, stop having the same
\* weight, a's comes first.
Ahead(tree, a, c) ==
  LET p == Path[a]
      q == Path[c]
      Level == 1..(IF Len(p) < Len(q) THEN Len(p) ELSE Len(q))
  IN \E i \in Level :
       /\ Before(tree, p[i], q[i])
       /\ \A j \in 1..i - 1 : TieIn(tree, p[j], q[j])

Standing(tree) ==
  [a \in Users(tree) |->
     Cardinality(Users(tree)) - Cardinality({c \in Users(tree) : Ahead(tree, c, a)})]

=============================================================================
