------------------------------ MODULE UtilList ------------------------------
(***************************************************************************)
(* infos::util::List (infos/include/infos/util/list.h), the singly linked    *)
(* list of the kernel, as operators on the sequence of its elements.  The   *)
(* operations that assert a non-empty list are applied to non-empty ones.   *)
(***************************************************************************)
EXTENDS Naturals, Sequences

append(l, e) == Append(l, e)
enqueue(l, e) == append(l, e)
dequeue(l) == Tail(l)
first(l) == l[1]
at(l, index) == l[index + 1]

clear(l) == <<>>
=============================================================================
