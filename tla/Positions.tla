----------------------------- MODULE Positions -----------------------------
(***************************************************************************)
(* The list operations of the run queues (Commons::List and util::List) on  *)
(* the sequence of the elements that a list holds.                          *)
(***************************************************************************)
EXTENDS Naturals, Sequences, FiniteSets

\* The j-th smallest member of a finite set of positions.
Nth(S, j) == CHOOSE i \in S : Cardinality({k \in S : k <= i}) = j

\* The queue without the entries at the positions P, the others in their order.
Drop(q, P) ==
    LET keep == DOMAIN q \ P
    IN  [j \in 1..Cardinality(keep) |-> q[Nth(keep, j)]]

\* The positions of entity e in the queue.
PositionsOf(q, e) == {i \in DOMAIN q : q[i] = e}
=============================================================================
