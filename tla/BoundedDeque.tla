----------------------------- MODULE BoundedDeque -----------------------------
(***************************************************************************)
(* What a blocking ring promises its callers: a double-ended queue of at   *)
(* most Capacity items, in which every item put in is taken out at most    *)
(* once, intact and in its place in the queue, by one of the takers.       *)
(***************************************************************************)
EXTENDS Naturals, Sequences

CONSTANTS
  Capacity,    \* the most items it may hold
  Values,      \* what it carries
  Nothing,     \* what a taker holds before it took anything
  Takers       \* the threads that take items

VARIABLES
  deque,    \* the items, front first
  taken     \* the item each taker took last

vars == <<deque, taken>>

Init == deque = <<>> /\ taken = [t \in Takers |-> Nothing]

PutBack(v) == /\ Len(deque) < Capacity
              /\ deque' = Append(deque, v)
              /\ UNCHANGED taken

PutFront(v) == /\ Len(deque) < Capacity
               /\ deque' = <<v>> \o deque
               /\ UNCHANGED taken

TakeFront(t) == /\ deque # <<>>
                /\ deque' = Tail(deque)
                /\ taken' = [taken EXCEPT ![t] = Head(deque)]

TakeBack(t) == /\ deque # <<>>
               /\ deque' = SubSeq(deque, 1, Len(deque) - 1)
               /\ taken' = [taken EXCEPT ![t] = deque[Len(deque)]]

Drop == deque # <<>> /\ deque' = Tail(deque) /\ UNCHANGED taken

Clear == deque' = <<>> /\ UNCHANGED taken

Next == \/ \E v \in Values : PutBack(v) \/ PutFront(v)
        \/ \E t \in Takers : TakeFront(t) \/ TakeBack(t)
        \/ Drop \/ Clear

Spec == Init /\ [][Next]_vars

=============================================================================
