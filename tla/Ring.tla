--------------------------------- MODULE Ring ---------------------------------
(***************************************************************************)
(* Ring_SDK: a double-ended queue in a circular array of N slots.  Taking  *)
(* an item out by swapping leaves a blank in its slot; the eff_ operations *)
(* move the indices only and leave the item where it is.                   *)
(***************************************************************************)
EXTENDS Integers

CONSTANTS
  N,              \* capacity
  Items,          \* what the ring carries
  Blank,          \* a default-constructed item
  SizeModulus     \* 2^w for the width w of size_t (2^64 in the build)

ASSUME RingAssumption ==
  /\ N \in Nat \ {0}
  /\ SizeModulus \in Nat /\ SizeModulus > N

VARIABLES
  slots,    \* *_ring
  begin,    \* _begin
  size      \* _size

ringVars == <<slots, begin, size>>

RingInit ==
  /\ slots = [i \in 0..N-1 |-> Blank]
  /\ begin = 0 /\ size = 0

NotEmpty == size # 0
NotFull == size < N

(* The slot of the k-th item, counted from 0. *)
Slot(k) == (begin + k) % N

(* Fault: the slot after the last item is looked for from the array's start. *)
AddBackUnrotated(item) ==
  /\ slots' = [slots EXCEPT ![size % N] = item]
  /\ size' = size + 1
  /\ UNCHANGED begin

AddBack(item) ==
  /\ slots' = [slots EXCEPT ![Slot(size)] = item]
  /\ size' = size + 1
  /\ UNCHANGED begin

AddFront(item) ==
  /\ slots' = [slots EXCEPT ![Slot(N - 1)] = item]
  /\ begin' = Slot(N - 1)
  /\ size' = size + 1

Front == slots[begin]
Back == slots[Slot(size - 1)]

TakeFront ==
  /\ slots' = [slots EXCEPT ![begin] = Blank]
  /\ begin' = Slot(1)
  /\ size' = size - 1

TakeBack ==
  /\ slots' = [slots EXCEPT ![Slot(size - 1)] = Blank]
  /\ size' = size - 1
  /\ UNCHANGED begin

(* Fault: the first index runs past the array. *)
DropFrontUnwrapped ==
  /\ begin' = begin + 1
  /\ size' = (size - 1) % SizeModulus
  /\ UNCHANGED slots

(* eff_pop_front: no guard, and size_t wraps below zero. *)
DropFront ==
  /\ begin' = Slot(1)
  /\ size' = (size - 1) % SizeModulus
  /\ UNCHANGED slots

(* eff_clear *)
Forget == begin' = 0 /\ size' = 0 /\ UNCHANGED slots

(* clear *)
Wipe == /\ slots' = [i \in 0..N-1 |-> Blank]
        /\ begin' = 0 /\ size' = 0

(* The indices stay inside the array and the size within the capacity. *)
RingTypeOK ==
  /\ slots \in [0..N-1 -> Items \cup {Blank}]
  /\ begin \in 0..N-1
  /\ size \in 0..N

(* The queue that the indices and the slots stand for. *)
Contents == [i \in 1..size |-> slots[Slot(i - 1)]]

=============================================================================
