------------------------------ MODULE MCFairshare ------------------------------
(***************************************************************************)
(* Instances of Fairshare for TLC: under the root a bank P with the leaves *)
(* A and B, and a leaf Q; so that P and Q may tie, and then A and B stand  *)
(* among the associations of Q.  Usage is counted in halves of a second.   *)
(***************************************************************************)
EXTENDS Fairshare, TLC

CONSTANTS root, P, A, B, Q, a1, b1, b2, q1

BankTree == root :> NoBank @@ P :> root @@ Q :> root @@ A :> P @@ B :> P
InLeaves == a1 :> A @@ b1 :> B @@ b2 :> B @@ q1 :> Q

Started(u) == [shares |-> 1, usage |-> u, active |-> TRUE, fshare |-> DefaultFshare]
Full(used) == [banks |-> [b \in Banks |-> [shares |-> 1, active |-> TRUE]],
               assoc |-> [a \in DOMAIN used |-> Started(used[a])]]
Deleted(t, b) ==
  [banks |-> [c \in Banks |-> [t.banks[c] EXCEPT !.active = ~IsBelow(c, b)]],
   assoc |-> [a \in DOMAIN t.assoc |-> [t.assoc[a] EXCEPT !.active = ~IsBelow(a, b)]]]

\* Equal shares and any usage with which A and B tie, or P and Q (b1 and b2 are
\* alike), so that with a change banks, an association and a bank, and
\* associations of different banks come to tie; or B was added without shares,
\* or A and B, b2 is still to come, P and what is below was deleted.
TieUsage ==
  {used \in [Assocs -> 0..MaxUsage] :
     /\ used[b1] <= used[b2]
     /\ used[b1] + used[b2] \in {used[a1], used[q1] - used[a1]}}
Alike == Full([a \in Assocs |-> 2])
SomeTables ==
  {Full(used) : used \in TieUsage} \cup {Full([a \in Assocs \ {b2} |-> 2]), Deleted(Alike, P)}
    \cup {[Full(used) EXCEPT !.banks[B].shares = 0] : used \in {u \in TieUsage : u[q1] = 2}}
    \cup {[Full(used) EXCEPT !.banks[A].shares = 0, !.banks[B].shares = 0] :
             used \in {u \in TieUsage : u[q1] = 0}}

\* The order of the names, and the reverse.
ByName == a1 :> 1 @@ b1 :> 2 @@ b2 :> 3 @@ q1 :> 4 @@ A :> 5 @@ B :> 6 @@ P :> 7 @@ Q :> 8
EitherWay == {ByName, [n \in DOMAIN ByName |-> 0 - ByName[n]]}
=============================================================================
