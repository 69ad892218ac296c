----------------------------- MODULE SharedList -----------------------------
(***************************************************************************)
(* Commons::Collections::List, the circular list of shared nodes that the    *)
(* round-robin and FIFO run queues are (coursework/sched-rr.cpp and          *)
(* sched-fifo.cpp), and the enumerators its operations are written with.    *)
(* A list is shown to be the sequence that module RunQueue takes it for.    *)
(*                                                                         *)
(* list holds the nodes by address: the element, _next, _prev and the count *)
(* of strong pointers.  The nodes that nothing points to but themselves are *)
(* leaked; they are recorded as such and their address is free again, which *)
(* nobody can observe.                                                      *)
(***************************************************************************)
EXTENDS Integers, Sequences, FiniteSets, SequencesExt

CONSTANTS
    Element,        \* the entities that are enqueued
    MaxNodes        \* bound: the nodes of a list

VARIABLES
    list,           \* the list and its nodes
    leaked,         \* the kinds of object that were never deleted
    result          \* what the last operation has returned

listVars == <<list, leaked, result>>
NullNode == 0
NoElement == "none"

EmptyList == [node |-> <<>>, root |-> NullNode, count |-> 0]
ListInit == list = EmptyList /\ leaked = {} /\ result = NoElement

----------------------------------------------------------------------------
(* Pointers. *)

Fresh(l) == CHOOSE a \in 1..MaxNodes : a \notin DOMAIN l.node
Hold(l, p) == IF p = NullNode THEN l ELSE [l EXCEPT !.node[p].strong = @ + 1]

\* Deleting a node releases its _next in turn.
RECURSIVE Released(_, _)
Released(l, p) ==
    IF p = NullNode THEN l
    ELSE IF l.node[p].strong > 1 THEN [l EXCEPT !.node[p].strong = @ - 1]
    ELSE Released([l EXCEPT !.node = [a \in (DOMAIN @) \ {p} |-> @[a]]], l.node[p].next)

SetNext(l, n, p) == Released([Hold(l, p) EXCEPT !.node[n].next = p], l.node[n].next)
SetPrev(l, n, p) == [l EXCEPT !.node[n].prev = p]
SetRoot(l, p) == Released([Hold(l, p) EXCEPT !.root = p], l.root)
PinPrev(l, n) == IF l.node[n].prev \in DOMAIN l.node THEN l.node[n].prev ELSE NullNode

\* MakeShared<ListNode<T>>, held by a local variable of the caller.
WithNode(l, a, e) ==
    [l EXCEPT !.node = [b \in (DOMAIN @) \cup {a} |->
        IF b = a THEN [data |-> e, next |-> NullNode, prev |-> NullNode, strong |-> 1] ELSE @[b]]]

----------------------------------------------------------------------------
(* Operations, with n held by the caller for their duration. *)

\* Variant: the old successor keeps its _prev.
AddAfterOneWay(l, n, old) ==
    LET next == l.node[old].next IN
    [SetNext(SetPrev(SetNext(l, n, next), n, old), old, n) EXCEPT !.count = @ + 1]

AddAfter(l, n, old) ==
    LET next == l.node[old].next
        l1 == SetPrev(SetPrev(SetNext(l, n, next), n, old), next, n)
    IN [SetNext(l1, old, n) EXCEPT !.count = @ + 1]

\* The first node of a list is its own neighbour.
Alone(l, n) == [SetPrev(SetNext(l, n, n), n, n) EXCEPT !.count = @ + 1]

RemoveNode(l, n) ==
    LET next == l.node[n].next
        l1 == SetPrev(l, next, PinPrev(l, n))
        l2 == SetNext(l1, PinPrev(l1, n), next)
        l3 == IF l2.root # n THEN l2
              ELSE IF l2.count = 1 THEN SetRoot(SetRoot(l2, next), NullNode) ELSE SetRoot(l2, next)
    IN [l3 EXCEPT !.count = @ - 1]

\* ListIterator: from the root until it comes round to it.
Nodes(l) ==
    LET walk[k \in 1..MaxNodes] == IF k = 1 THEN l.root ELSE l.node[walk[k - 1]].next
    IN IF l.root = NullNode THEN <<>>
       ELSE [k \in 1..Min({j \in 1..MaxNodes : l.node[walk[j]].next = l.root}) |-> walk[k]]
Elements(l) == [k \in DOMAIN Nodes(l) |-> l.node[Nodes(l)[k]].data]

\* A list whose last node was removed leaves it pointing to itself.
Lost(l) == {a \in DOMAIN l.node : l.node[a].next = a /\ a # l.root}
Collected(l) == [l EXCEPT !.node = [a \in (DOMAIN @) \ Lost(l) |-> @[a]]]

\* The operation returns r and has left objects of these kinds behind.
Returns(l, r, kinds) ==
    /\ list' = Collected(l) /\ result' = r
    /\ leaked' = leaked \cup kinds \cup (IF Lost(l) = {} THEN {} ELSE {"node"})

HasRoom == Cardinality(DOMAIN list.node) < MaxNodes

AddToTail(e) ==
    LET n == Fresh(list)
        l == WithNode(list, n, e)
        l1 == IF list.root # NullNode THEN AddAfter(l, n, PinPrev(l, l.root)) ELSE SetRoot(Alone(l, n), n)
    IN HasRoom /\ Returns(Released(l1, n), NoElement, {})

AddToHead(e) ==
    LET n == Fresh(list)
        l == WithNode(list, n, e)
        l1 == IF list.root # NullNode THEN AddAfter(l, n, PinPrev(l, l.root)) ELSE Alone(l, n)
    IN HasRoom /\ Returns(Released(SetRoot(l1, n), n), NoElement, {})

InsertBehind(e, k) ==
    LET n == Fresh(list) IN
    /\ HasRoom /\ k \in DOMAIN Nodes(list)
    /\ Returns(Released(AddAfter(WithNode(list, n, e), n, Nodes(list)[k]), n), NoElement, {})

\* The nodes to delete are held by an array until all of them are unlinked; the default
\* comparator is cast, and so is never deleted.
RemoveElement(e) ==
    LET gone == SelectSeq(Nodes(list), LAMBDA a : list.node[a].data = e)
        held == FoldLeft(Hold, list, gone)
        unlinked == FoldLeft(RemoveNode, held, gone)
    IN Returns(FoldLeft(Released, unlinked, gone), NoElement,
               {"comparator"})

Dequeue ==
    LET n == list.root IN
    /\ n # NullNode
    /\ Returns(Released(RemoveNode(Hold(list, n), n), n), list.node[n].data, {})

Skew ==
    /\ list.root # NullNode
    /\ Returns(SetRoot(list, list.node[list.root].next), list.node[list.root].data, {})

Clear ==
    LET l == IF list.root = NullNode THEN list ELSE SetNext(list, list.root, NullNode) IN
    Returns([SetRoot(l, NullNode) EXCEPT !.count = 0], NoElement, {})

----------------------------------------------------------------------------
(* Ranges, and what is written with them. *)

\* Range_Enumerator: what MoveNext and Current yield, one after the other.
RangeSeq(start, end) ==
    IF start < end THEN [k \in 1..(end - start) |-> start + k - 1]
    ELSE [k \in 1..(start - end) |-> start - k + 1]
To(start, end) == RangeSeq(start, end)
Until(start, end) == IF end >= start THEN RangeSeq(start, end + 1) ELSE RangeSeq(start, end - 1)

\* The enumerators, as the sequences they yield.  Those of Skip and of Take, which makes
\* one of the same class, start one element before the number they are given.
TransformEnumerator(s, f) == [k \in DOMAIN s |-> f[s[k]]]
FilterEnumerator(s, keep) == SelectSeq(s, LAMBDA x : x \in keep)
SkipEnumerator(s, n) == IF n <= 1 THEN s ELSE SubSeq(s, n, Len(s))
TakeOf(s, n) == SkipEnumerator(s, n)
CountOf(s) == Len(s)

\* The functors of Get and Set: a node forwards, and a node backwards.
NextOf(l, n) == l.node[n].next
PrevOf(l, n) == PinPrev(l, n)
ForEachLook(l, range, ahead) ==
    FoldLeft(LAMBDA n, i : IF ahead THEN NextOf(l, n) ELSE PrevOf(l, n), l.root, range)

\* The node at an index; a negative one counts from the root backwards, round and round.
NodeAt(l, index) ==
    IF index >= 0 THEN ForEachLook(l, To(0, index), TRUE) ELSE ForEachLook(l, To(0, -index), FALSE)

\* The functor and the enumerator that Get makes are cast, and never deleted.
Get(index) ==
    /\ list.root # NullNode /\ index < list.count
    /\ Returns(list, list.node[NodeAt(list, index)].data, {"functor", "enumerator"})

\* The node is unlinked; as its own _prev still is what it was, the item always goes to
\* the tail.
Set(index, e) ==
    LET n == NodeAt(list, index)
        l1 == RemoveNode(Hold(list, n), n)
        new == Fresh(l1)
        l2 == WithNode(l1, new, e)
        l3 == IF l2.root # NullNode THEN AddAfter(l2, new, PinPrev(l2, l2.root)) ELSE SetRoot(Alone(l2, new), new)
    IN /\ list.root # NullNode /\ index < list.count /\ HasRoom
       /\ Returns(Released(Released(l3, new), n), NoElement, {"functor", "enumerator"})

\* Find stops before the second node.
ContainsElement(e) ==
    Returns(list, IF list.root # NullNode /\ list.node[list.root].data = e THEN "true" ELSE "false",
            {"comparator"})

Tally == <<"0", "1", "2", "3", "4", "5", "6", "7", "8", "9">>
\* A chain of enumerators over the list, counted by walking it; Skip and Take are
\* refused more elements than there are.
CountChain(n, keep) ==
    /\ n <= list.count
    /\ Returns(list, Tally[1 + CountOf(TransformEnumerator(FilterEnumerator(TakeOf(Elements(list), n), keep),
                                                          [e \in Element |-> e]))],
               {"enumerator", "functor"})

ListIndex == -MaxNodes..MaxNodes

ListNext ==
    \/ \E e \in Element : AddToTail(e) \/ AddToHead(e) \/ RemoveElement(e) \/ ContainsElement(e)
    \/ \E e \in Element, k \in 1..MaxNodes : InsertBehind(e, k)
    \/ \E e \in Element, i \in ListIndex : Set(i, e)
    \/ \E i \in ListIndex : Get(i)
    \/ \E n \in 0..MaxNodes, keep \in SUBSET Element : CountChain(n, keep)
    \/ Dequeue \/ Skew \/ Clear

----------------------------------------------------------------------------
\* The circle is closed both ways and as long as _count says, every node of it can be
\* pinned, and no pointer keeps a node that was unlinked.
ListIsCircular ==
    LET N == Nodes(list) IN
    /\ Len(N) = list.count
    /\ ToSet(N) = DOMAIN list.node
    /\ \A a \in DOMAIN list.node :
          /\ list.node[list.node[a].next].prev = a /\ PinPrev(list, a) # NullNode
          /\ list.node[a].strong = 1 + (IF a = list.root THEN 1 ELSE 0)

\* The list is the sequence of its elements: an element is added at one end or behind
\* one that is there, all its occurrences are removed at once, and the front is taken
\* away or becomes the last.  These are the steps of RunQueue on its sequence, and after
\* each of them the circle is closed.
ListIsSequence ==
    [][/\ ListIsCircular'
       /\ LET s == Elements(list)
              t == Elements(list')
          IN \/ t = s
             \/ \E e \in Element : \E k \in 0..Len(s) :
                   t = SubSeq(s, 1, k) \o <<e>> \o SubSeq(s, k + 1, Len(s))
             \/ \E e \in Element : t = SelectSeq(s, LAMBDA x : x # e)
             \/ s # <<>> /\ result' = Head(s) /\ t \in {Tail(s), Append(Tail(s), Head(s))}
             \/ t = <<>>
             \/ \E k \in DOMAIN s, e \in Element : t = Append(RemoveAt(s, k), e)]_listVars
=============================================================================
