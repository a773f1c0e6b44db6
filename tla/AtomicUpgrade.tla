----------------------------- MODULE AtomicUpgrade -----------------------------
(***************************************************************************)
(* What an upgrade of the accounting database promises: the version moves  *)
(* up in one step that leaves what is stored as it was, and only what the  *)
(* other programs write changes that.  A cell is a value every version     *)
(* stores: a column that all of them have, or an association's usage in    *)
(* one period.  written counts the writes of the others.                   *)
(***************************************************************************)
EXTENDS Naturals

CONSTANTS Cells, Stored, Versions
VARIABLES version, content, written

Init == version \in Versions /\ content \in [Cells -> Stored] /\ written = 0

Write == /\ \E x \in Cells, v \in Stored : content' = [content EXCEPT ![x] = v]
         /\ written' = written + 1
         /\ UNCHANGED version

Upgrade == /\ \E v \in Versions : v > version /\ version' = v
           /\ UNCHANGED <<content, written>>

Next == Write \/ Upgrade
Spec == Init /\ [][Next]_<<version, content, written>>
=============================================================================
