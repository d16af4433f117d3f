-------------------------- MODULE BlockingRing_proofs --------------------------
(***************************************************************************)
(* For every capacity, every item set and every set of threads: the        *)
(* blocking ring keeps its indices in bounds and implements BoundedDeque.  *)
(* The lemmas say what each operation of the ring does to the queue its    *)
(* indices stand for; the theorems combine them over the monitor's steps.  *)
(***************************************************************************)
EXTENDS BlockingRing, SequenceTheorems, TLAPS

Cells == Items \cup {Blank}

(* Slot and Contents for given indices, so that a lemma holds of the state *)
(* before a step and of the state after it.                                *)
SlotFrom(b, k) == (b + k) % N
Queue(s, b, n) == [i \in 1..n |-> s[SlotFrom(b, i - 1)]]

(***************************************************************************)
(* A sum of two indices wraps at most once.                                *)
(***************************************************************************)
LEMMA SlotIs ==
  ASSUME NEW b \in 0..N-1, NEW k \in 0..N-1
  PROVE  /\ b + k < N => SlotFrom(b, k) = b + k
         /\ b + k >= N => SlotFrom(b, k) = b + k - N
         /\ SlotFrom(b, k) \in 0..N-1
         /\ SlotFrom(b, k) \in Int
  BY RingAssumption DEF SlotFrom

(***************************************************************************)
(* Different positions have different slots.                               *)
(***************************************************************************)
LEMMA SlotsDiffer ==
  ASSUME NEW b \in 0..N-1, NEW j \in 0..N-1, NEW k \in 0..N-1, j # k
  PROVE  SlotFrom(b, j) # SlotFrom(b, k)
<1>1. /\ b + j < N => SlotFrom(b, j) = b + j
      /\ b + j >= N => SlotFrom(b, j) = b + j - N
  BY SlotIs
<1>2. /\ b + k < N => SlotFrom(b, k) = b + k
      /\ b + k >= N => SlotFrom(b, k) = b + k - N
  BY SlotIs
<1> QED
  BY <1>1, <1>2, RingAssumption

(***************************************************************************)
(* Moving the first slot by one moves every position by one.               *)
(***************************************************************************)
LEMMA SlotShift ==
  ASSUME NEW b \in 0..N-1, NEW k \in 0..N-2
  PROVE  SlotFrom(SlotFrom(b, 1), k) = SlotFrom(b, k + 1)
<1>1. 1 \in 0..N-1 /\ k \in 0..N-1 /\ k + 1 \in 0..N-1
  BY RingAssumption
<1>2. /\ SlotFrom(b, 1) \in 0..N-1
      /\ b + 1 < N => SlotFrom(b, 1) = b + 1
      /\ b + 1 >= N => SlotFrom(b, 1) = b + 1 - N
  BY <1>1, SlotIs
<1>4. /\ b + (k + 1) < N => SlotFrom(b, k + 1) = b + (k + 1)
      /\ b + (k + 1) >= N => SlotFrom(b, k + 1) = b + (k + 1) - N
  BY <1>1, SlotIs
<1> DEFINE f == SlotFrom(b, 1)
<1>5. /\ f + k < N => SlotFrom(f, k) = f + k
      /\ f + k >= N => SlotFrom(f, k) = f + k - N
  <2>1. f \in 0..N-1 /\ k \in 0..N-1
    BY <1>1, <1>2
  <2> HIDE DEF f
  <2> QED
    BY <2>1, SlotIs
<1> QED
  BY <1>1, <1>2, <1>4, <1>5, RingAssumption

(***************************************************************************)
(* Moving the first slot back by one, as push_front does with N - 1.       *)
(***************************************************************************)
LEMMA SlotShiftBack ==
  ASSUME NEW b \in 0..N-1, NEW k \in 0..N-2
  PROVE  SlotFrom(SlotFrom(b, N - 1), k + 1) = SlotFrom(b, k)
<1>1. N - 1 \in 0..N-1 /\ k \in 0..N-1 /\ k + 1 \in 0..N-1
  BY RingAssumption
<1>2. /\ SlotFrom(b, N - 1) \in 0..N-1
      /\ b + (N - 1) < N => SlotFrom(b, N - 1) = b + (N - 1)
      /\ b + (N - 1) >= N => SlotFrom(b, N - 1) = b + (N - 1) - N
  BY <1>1, SlotIs
<1>4. /\ b + k < N => SlotFrom(b, k) = b + k
      /\ b + k >= N => SlotFrom(b, k) = b + k - N
  BY <1>1, SlotIs
<1> DEFINE f == SlotFrom(b, N - 1)
<1>5. /\ f + (k + 1) < N => SlotFrom(f, k + 1) = f + (k + 1)
      /\ f + (k + 1) >= N => SlotFrom(f, k + 1) = f + (k + 1) - N
  <2>1. f \in 0..N-1 /\ k + 1 \in 0..N-1
    BY <1>1, <1>2
  <2> HIDE DEF f
  <2> QED
    BY <2>1, SlotIs
<1> QED
  BY <1>1, <1>2, <1>4, <1>5, RingAssumption

(***************************************************************************)
(* A queue read off a well-formed ring is a sequence of its cells.         *)
(***************************************************************************)
LEMMA QueueIs ==
  ASSUME NEW s \in [0..N-1 -> Cells], NEW b \in 0..N-1, NEW n \in 0..N
  PROVE  /\ Queue(s, b, n) \in Seq(Cells)
         /\ Len(Queue(s, b, n)) = n
         /\ \A i \in 1..n : Queue(s, b, n)[i] = s[SlotFrom(b, i - 1)]
         /\ n = 0 => Queue(s, b, n) = <<>>
<1>1. ASSUME NEW i \in 1..n PROVE s[SlotFrom(b, i - 1)] \in Cells
  <2>1. i - 1 \in 0..N-1
    BY RingAssumption
  <2>2. SlotFrom(b, i - 1) \in 0..N-1
    BY <2>1, SlotIs
  <2> QED
    BY <2>2
<1> QED
  BY <1>1 DEF Queue

(***************************************************************************)
(* The item stored in the slot after the last is the queue's new last.     *)
(***************************************************************************)
LEMMA StoredLast ==
  ASSUME NEW s \in [0..N-1 -> Cells], NEW b \in 0..N-1, NEW n \in 0..N-1,
         NEW item \in Cells, NEW after \in [0..N-1 -> Cells],
         after[SlotFrom(b, n)] = item,
         \A k \in 0..N-1 : k # SlotFrom(b, n) => after[k] = s[k]
  PROVE  Queue(after, b, n + 1) = Append(Queue(s, b, n), item)
<1> DEFINE q == Queue(s, b, n)
           m == n + 1
           r == Queue(after, b, m)
<1>1. n \in 0..N /\ m \in 0..N /\ m = n + 1
  BY RingAssumption
<1> HIDE DEF m
<1>2. r \in Seq(Cells) /\ Len(r) = m
      /\ \A i \in 1..m : r[i] = after[SlotFrom(b, i - 1)]
  BY <1>1, QueueIs
<1>3. q \in Seq(Cells) /\ Len(q) = n /\ \A i \in 1..n : q[i] = s[SlotFrom(b, i - 1)]
  BY <1>1, QueueIs
<1>4. /\ Append(q, item) \in Seq(Cells) /\ Len(Append(q, item)) = n + 1
      /\ \A i \in 1..n : Append(q, item)[i] = q[i]
      /\ Append(q, item)[n + 1] = item
  BY <1>3, AppendProperties
<1>5. ASSUME NEW i \in 1..m PROVE r[i] = Append(q, item)[i]
  <2>1. CASE i = n + 1
    <3>1. SlotFrom(b, n) \in 0..N-1
      BY SlotIs
    <3>2. m \in 1..m /\ m - 1 = n
      BY <1>1
    <3>3. r[m] = item
      BY <3>2, <1>2
    <3> QED
      BY <2>1, <3>3, <1>1, <1>4
  <2>2. CASE i # n + 1
    <3>1. i \in 1..n /\ i - 1 \in 0..N-1 /\ i - 1 # n
      BY <1>1, <2>2, RingAssumption
    <3>2. SlotFrom(b, i - 1) # SlotFrom(b, n) /\ SlotFrom(b, i - 1) \in 0..N-1
      BY <3>1, SlotIs, SlotsDiffer
    <3>3. after[SlotFrom(b, i - 1)] = s[SlotFrom(b, i - 1)]
      BY <3>2
    <3> QED
      BY <3>1, <3>3, <1>2, <1>3, <1>4
  <2> QED
    BY <2>1, <2>2
<1> HIDE DEF q, r
<1> QED
  <2>1. r = Append(q, item)
    BY <1>1, <1>2, <1>4, <1>5, SeqEqual
  <2> QED
    BY <2>1, <1>1 DEF q, r

(***************************************************************************)
(* The item stored in the slot before the first is the queue's new first.  *)
(***************************************************************************)
LEMMA StoredFirst ==
  ASSUME NEW s \in [0..N-1 -> Cells], NEW b \in 0..N-1, NEW n \in 0..N-1,
         NEW item \in Cells, NEW after \in [0..N-1 -> Cells],
         after[SlotFrom(b, N - 1)] = item,
         \A k \in 0..N-1 : k # SlotFrom(b, N - 1) => after[k] = s[k]
  PROVE  Queue(after, SlotFrom(b, N - 1), n + 1) = <<item>> \o Queue(s, b, n)
<1> SUFFICES ASSUME NEW f, f = SlotFrom(b, N - 1), after[f] = item,
                    \A k \in 0..N-1 : k # f => after[k] = s[k]
             PROVE  Queue(after, f, n + 1) = <<item>> \o Queue(s, b, n)
  OBVIOUS
<1> DEFINE q == Queue(s, b, n)
           m == n + 1
           r == Queue(after, f, m)
<1>0. N - 1 \in 0..N-1 /\ f \in 0..N-1
  <2>1. N - 1 \in 0..N-1
    BY RingAssumption
  <2> QED
    BY <2>1, SlotIs
<1>1. n \in 0..N /\ m \in 0..N /\ m = n + 1
  BY RingAssumption
<1> HIDE DEF m
<1>2. r \in Seq(Cells) /\ Len(r) = m
      /\ \A i \in 1..m : r[i] = after[SlotFrom(f, i - 1)]
  BY <1>0, <1>1, QueueIs
<1>3. q \in Seq(Cells) /\ Len(q) = n /\ \A i \in 1..n : q[i] = s[SlotFrom(b, i - 1)]
  BY <1>1, QueueIs
<1>4. /\ <<item>> \in Seq(Cells) /\ Len(<<item>>) = 1 /\ <<item>>[1] = item
  OBVIOUS
<1>5. /\ <<item>> \o q \in Seq(Cells) /\ Len(<<item>> \o q) = m
      /\ \A i \in 1..m : (<<item>> \o q)[i] = IF i <= 1 THEN <<item>>[i] ELSE q[i - 1]
  <2> HIDE DEF q
  <2> QED
    BY <1>1, <1>3, <1>4, ConcatProperties
<1>6. ASSUME NEW i \in 1..m PROVE r[i] = (<<item>> \o q)[i]
  <2>1. CASE i = 1
    <3>1. SlotFrom(f, 0) = f
      <4>1. 0 \in 0..N-1
        BY RingAssumption
      <4>2. f + 0 < N => SlotFrom(f, 0) = f + 0
        BY <1>0, <4>1, SlotIs
      <4> QED
        BY <1>0, <4>2, RingAssumption
    <3>2. r[1] = after[f]
      <4>1. 1 \in 1..m /\ 1 - 1 = 0
        BY <1>1
      <4> QED
        BY <3>1, <4>1, <1>2
    <3>3. after[f] = item
      BY <1>0
    <3> QED
      BY <2>1, <3>2, <3>3, <1>4, <1>5
  <2>2. CASE i # 1
    <3>1. i - 1 \in 1..n /\ i - 2 \in 0..N-2 /\ i - 2 \in 0..N-1 /\ i - 2 # N - 1
          /\ (i - 2) + 1 = i - 1 /\ (i - 1) - 1 = i - 2
      BY <1>1, <2>2, RingAssumption
    <3>2. SlotFrom(f, i - 1) = SlotFrom(b, i - 2)
      BY <3>1, SlotShiftBack
    <3>3. SlotFrom(b, i - 2) # f /\ SlotFrom(b, i - 2) \in 0..N-1
      BY <3>1, <1>0, SlotIs, SlotsDiffer
    <3>4. r[i] = s[SlotFrom(b, i - 2)]
      BY <3>2, <3>3, <1>2
    <3>5. (<<item>> \o q)[i] = q[i - 1]
      BY <2>2, <1>5
    <3> QED
      BY <3>1, <3>4, <3>5, <1>3
  <2> QED
    BY <2>1, <2>2
<1> HIDE DEF q, r
<1> QED
  <2>1. r = <<item>> \o q
    BY <1>2, <1>5, <1>6, SeqEqual
  <2> QED
    BY <2>1, <1>1 DEF q, r

(***************************************************************************)
(* Moving the first slot on drops the first item, whatever is left in or   *)
(* written to that slot.                                                   *)
(***************************************************************************)
LEMMA DroppedFirst ==
  ASSUME NEW s \in [0..N-1 -> Cells], NEW b \in 0..N-1, NEW n \in 1..N,
         NEW after \in [0..N-1 -> Cells], NEW f, f = (b + 1) % N,
         \A k \in 0..N-1 : k # b => after[k] = s[k]
  PROVE  /\ Queue(after, f, n - 1) = Tail(Queue(s, b, n))
         /\ Head(Queue(s, b, n)) = s[b]
         /\ Queue(s, b, n) # <<>>
<1> DEFINE q == Queue(s, b, n)
           r == Queue(after, f, n - 1)
<1>0. 0 \in 0..N-1 /\ SlotFrom(b, 0) = b
  <2>1. 0 \in 0..N-1
    BY RingAssumption
  <2>2. b + 0 < N => SlotFrom(b, 0) = b + 0
    BY <2>1, SlotIs
  <2> QED
    BY <2>1, <2>2, RingAssumption
<1>1. n \in 0..N /\ n - 1 \in 0..N
  BY RingAssumption
<1>2. /\ q \in Seq(Cells) /\ Len(q) = n /\ \A i \in 1..n : q[i] = s[SlotFrom(b, i - 1)]
      /\ q # <<>> /\ q[1] = s[b]
  <2>1. /\ q \in Seq(Cells) /\ Len(q) = n
        /\ \A i \in 1..n : q[i] = s[SlotFrom(b, i - 1)]
    BY <1>1, QueueIs
  <2>2. 1 \in 1..n /\ 1 - 1 = 0
    BY RingAssumption
  <2>3. q[1] = s[SlotFrom(b, 0)]
    BY <2>1, <2>2
  <2>4. q # <<>>
    <3> HIDE DEF q
    <3> QED
      BY <2>1
  <2> QED
    BY <2>1, <2>3, <2>4, <1>0
<1>3. /\ Tail(q) \in Seq(Cells) /\ Len(Tail(q)) = n - 1
      /\ \A i \in 1..n-1 : Tail(q)[i] = q[i + 1]
      /\ Head(q) = q[1]
  <2> HIDE DEF q
  <2> QED
    BY <1>2, HeadTailProperties
<1>4. CASE n = 1
  <2>1. r = <<>>
    BY <1>4 DEF Queue
  <2>2. Tail(q) = <<>>
    <3> HIDE DEF q
    <3>1. Len(Tail(q)) = 0 /\ Tail(q) \in Seq(Cells)
      BY <1>3, <1>4
    <3> QED
      BY <3>1, EmptySeq
  <2> QED
    BY <2>1, <2>2, <1>2, <1>3
<1>5. CASE n > 1
  <2>0. 1 \in 0..N-1 /\ f = SlotFrom(b, 1)
    BY <1>5, RingAssumption DEF SlotFrom
  <2>1. f \in 0..N-1
    BY <2>0, SlotIs
  <2>2. r \in Seq(Cells) /\ Len(r) = n - 1
        /\ \A i \in 1..n-1 : r[i] = after[SlotFrom(f, i - 1)]
    BY <2>1, <1>1, QueueIs
  <2>3. ASSUME NEW i \in 1..n-1 PROVE r[i] = Tail(q)[i]
    <3>1. i - 1 \in 0..N-2 /\ i \in 0..N-1 /\ i # 0 /\ i + 1 \in 1..n
          /\ (i - 1) + 1 = i /\ (i + 1) - 1 = i
      BY RingAssumption
    <3>2. SlotFrom(f, i - 1) = SlotFrom(b, i)
      BY <3>1, <2>0, SlotShift
    <3>3. SlotFrom(b, i) # b /\ SlotFrom(b, i) \in 0..N-1
      BY <3>1, <1>0, SlotIs, SlotsDiffer
    <3>4. r[i] = s[SlotFrom(b, i)]
      BY <3>2, <3>3, <2>2
    <3>5. Tail(q)[i] = s[SlotFrom(b, i)]
      BY <3>1, <1>2, <1>3
    <3> QED
      BY <3>4, <3>5
  <2>4. r = Tail(q)
    <3> HIDE DEF q, r
    <3> QED
      BY <2>2, <2>3, <1>3, SeqEqual
  <2> QED
    BY <2>4, <1>2, <1>3
<1> QED
  BY <1>4, <1>5

(***************************************************************************)
(* One item less from the same first slot drops the last item.             *)
(***************************************************************************)
LEMMA DroppedLast ==
  ASSUME NEW s \in [0..N-1 -> Cells], NEW b \in 0..N-1, NEW n \in 1..N,
         NEW after \in [0..N-1 -> Cells],
         \A k \in 0..N-1 : k # SlotFrom(b, n - 1) => after[k] = s[k]
  PROVE  /\ Queue(after, b, n - 1) = SubSeq(Queue(s, b, n), 1, n - 1)
         /\ Queue(s, b, n)[n] = s[SlotFrom(b, n - 1)]
         /\ Len(Queue(s, b, n)) = n /\ Queue(s, b, n) # <<>>
<1> DEFINE q == Queue(s, b, n)
           m == n - 1
           r == Queue(after, b, m)
<1>1. n \in 0..N /\ m \in 0..N /\ m \in 0..N-1 /\ m = n - 1
  BY RingAssumption
<1> HIDE DEF m
<1>2. /\ q \in Seq(Cells) /\ Len(q) = n
      /\ \A i \in 1..n : q[i] = s[SlotFrom(b, i - 1)]
  BY <1>1, QueueIs
<1>3. r \in Seq(Cells) /\ Len(r) = m
      /\ \A i \in 1..m : r[i] = after[SlotFrom(b, i - 1)]
  BY <1>1, QueueIs
<1>4. /\ SubSeq(q, 1, m) \in Seq(Cells) /\ Len(SubSeq(q, 1, m)) = m
      /\ \A i \in 1..m : SubSeq(q, 1, m)[i] = q[i]
  <2>1. \A i \in 1..m : q[i] \in Cells
    <3> HIDE DEF q
    <3> QED
      BY <1>1, <1>2, ElementOfSeq
  <2> HIDE DEF q
  <2> QED
    BY <2>1, <1>1, SubSeqProperties
<1>5. ASSUME NEW i \in 1..m PROVE r[i] = SubSeq(q, 1, m)[i]
  <2>1. i \in 1..n /\ i - 1 \in 0..N-1 /\ i - 1 # n - 1
    BY <1>1, RingAssumption
  <2>2. SlotFrom(b, i - 1) # SlotFrom(b, n - 1) /\ SlotFrom(b, i - 1) \in 0..N-1
    BY <2>1, <1>1, SlotIs, SlotsDiffer
  <2> QED
    BY <2>1, <2>2, <1>2, <1>3, <1>4
<1>6. r = SubSeq(q, 1, m)
  <2> HIDE DEF q, r
  <2> QED
    BY <1>3, <1>4, <1>5, SeqEqual
<1>7. q[n] = s[SlotFrom(b, n - 1)] /\ q # <<>>
  <2> HIDE DEF q
  <2> QED
    BY <1>2
<1> QED
  BY <1>1, <1>2, <1>6, <1>7

(***************************************************************************)
(* The ring's contents are the queue of its own slots.                     *)
(***************************************************************************)
LEMMA ContentsIs ==
  /\ Contents = Queue(slots, begin, size)
  /\ Contents' = Queue(slots', begin', size')
  BY DEF Contents, Queue, Slot, SlotFrom

(***************************************************************************)
(* push_back appends.                                                      *)
(***************************************************************************)
LEMMA AddBackAppends ==
  ASSUME RingTypeOK, NEW item \in Items, NotFull, AddBack(item)
  PROVE  RingTypeOK' /\ Contents' = Append(Contents, item) /\ Len(Contents) < N
<1>1. /\ slots \in [0..N-1 -> Cells] /\ begin \in 0..N-1 /\ size \in 0..N-1
      /\ item \in Cells
  BY RingAssumption DEF RingTypeOK, Cells, NotFull
<1>2. SlotFrom(begin, size) \in 0..N-1
  BY <1>1, SlotIs
<1>3. /\ slots' = [slots EXCEPT ![SlotFrom(begin, size)] = item]
      /\ begin' = begin /\ size' = size + 1
  BY DEF AddBack, Slot, SlotFrom
<1>4. /\ slots' \in [0..N-1 -> Cells]
      /\ slots'[SlotFrom(begin, size)] = item
      /\ \A k \in 0..N-1 : k # SlotFrom(begin, size) => slots'[k] = slots[k]
  BY <1>1, <1>2, <1>3
<1>5. Queue(slots', begin, size + 1) = Append(Queue(slots, begin, size), item)
  BY <1>1, <1>4, StoredLast, ZenonT(90)
<1>6. RingTypeOK'
  BY <1>1, <1>3, <1>4, RingAssumption DEF RingTypeOK, Cells
<1>7. size \in 0..N /\ size < N
  BY <1>1, RingAssumption
<1>8. Len(Queue(slots, begin, size)) = size
  BY <1>1, <1>7, QueueIs
<1> QED
  BY <1>3, <1>5, <1>6, <1>7, <1>8, ContentsIs

(***************************************************************************)
(* push_front puts the item before the others.                             *)
(***************************************************************************)
LEMMA AddFrontPrepends ==
  ASSUME RingTypeOK, NEW item \in Items, NotFull, AddFront(item)
  PROVE  RingTypeOK' /\ Contents' = <<item>> \o Contents /\ Len(Contents) < N
<1>1. /\ slots \in [0..N-1 -> Cells] /\ begin \in 0..N-1 /\ size \in 0..N-1
      /\ item \in Cells /\ N - 1 \in 0..N-1
  BY RingAssumption DEF RingTypeOK, Cells, NotFull
<1>2. begin' = SlotFrom(begin, N - 1) /\ begin' \in 0..N-1
  <2>1. begin' = SlotFrom(begin, N - 1)
    BY DEF AddFront, Slot, SlotFrom
  <2>2. SlotFrom(begin, N - 1) \in 0..N-1
    BY <1>1, SlotIs
  <2> QED
    BY <2>1, <2>2
<1>3. slots' = [slots EXCEPT ![begin'] = item] /\ size' = size + 1
  BY DEF AddFront
<1>4. /\ slots' \in [0..N-1 -> Cells]
      /\ slots'[begin'] = item
      /\ \A k \in 0..N-1 : k # begin' => slots'[k] = slots[k]
  BY <1>1, <1>2, <1>3
<1>5. Queue(slots', begin', size + 1) = <<item>> \o Queue(slots, begin, size)
  <2>1. /\ slots'[SlotFrom(begin, N - 1)] = item
        /\ \A k \in 0..N-1 : k # SlotFrom(begin, N - 1) => slots'[k] = slots[k]
    BY <1>2, <1>4
  <2>2. Queue(slots', SlotFrom(begin, N - 1), size + 1) = <<item>> \o Queue(slots, begin, size)
    BY <2>1, <1>1, <1>4, StoredFirst, ZenonT(30)
  <2> QED
    BY <2>2, <1>2
<1>6. RingTypeOK'
  BY <1>1, <1>2, <1>3, <1>4, RingAssumption DEF RingTypeOK, Cells
<1>7. size \in 0..N /\ size < N
  BY <1>1, RingAssumption
<1>8. Len(Queue(slots, begin, size)) = size
  BY <1>1, <1>7, QueueIs
<1> QED
  BY <1>3, <1>5, <1>6, <1>7, <1>8, ContentsIs

(***************************************************************************)
(* Moving the first index on takes the first item out of the queue, and    *)
(* what is read at that index before is that item.                         *)
(***************************************************************************)
LEMMA FrontLeaves ==
  ASSUME RingTypeOK, NotEmpty, begin' = Slot(1), size' = size - 1,
         slots' \in [0..N-1 -> Cells],
         \A k \in 0..N-1 : k # begin => slots'[k] = slots[k]
  PROVE  /\ RingTypeOK' /\ Contents' = Tail(Contents)
         /\ Contents # <<>> /\ Head(Contents) = Front /\ Front \in Cells
<1>1. /\ slots \in [0..N-1 -> Cells] /\ begin \in 0..N-1 /\ size \in 1..N
  BY RingAssumption DEF RingTypeOK, Cells, NotEmpty
<1>2. begin' = (begin + 1) % N /\ begin' \in 0..N-1
  BY <1>1, RingAssumption DEF Slot
<1>3. /\ Queue(slots', begin', size - 1) = Tail(Queue(slots, begin, size))
      /\ Head(Queue(slots, begin, size)) = slots[begin]
      /\ Queue(slots, begin, size) # <<>>
  BY <1>1, <1>2, DroppedFirst, ZenonT(60)
<1>4. RingTypeOK'
  BY <1>1, <1>2, RingAssumption DEF RingTypeOK, Cells
<1> QED
  BY <1>1, <1>3, <1>4, ContentsIs DEF Front

(***************************************************************************)
(* pop_front swaps the first item out.                                     *)
(***************************************************************************)
LEMMA TakeFrontTakes ==
  ASSUME RingTypeOK, NotEmpty, TakeFront
  PROVE  /\ RingTypeOK' /\ Contents' = Tail(Contents)
         /\ Contents # <<>> /\ Head(Contents) = Front /\ Front \in Cells
<1>1. /\ slots' \in [0..N-1 -> Cells]
      /\ \A k \in 0..N-1 : k # begin => slots'[k] = slots[k]
      /\ begin' = Slot(1) /\ size' = size - 1
  BY DEF TakeFront, RingTypeOK, Cells
<1> QED
  BY <1>1, FrontLeaves

(***************************************************************************)
(* eff_pop_front leaves the item in its slot; off an empty ring the size   *)
(* does not wrap.                                                          *)
(***************************************************************************)
LEMMA DropFrontDrops ==
  ASSUME RingTypeOK, NotEmpty, DropFront
  PROVE  /\ RingTypeOK' /\ Contents' = Tail(Contents)
         /\ Contents # <<>> /\ Head(Contents) = Front /\ Front \in Cells
<1>1. size - 1 \in 0..SizeModulus-1
  BY RingAssumption DEF RingTypeOK, NotEmpty
<1>2. (size - 1) % SizeModulus = size - 1
  BY <1>1, RingAssumption
<1>3. /\ slots' \in [0..N-1 -> Cells]
      /\ \A k \in 0..N-1 : k # begin => slots'[k] = slots[k]
      /\ begin' = Slot(1) /\ size' = size - 1
  BY <1>2 DEF DropFront, RingTypeOK, Cells
<1> QED
  BY <1>3, FrontLeaves

(***************************************************************************)
(* pop_back swaps the last item out.                                       *)
(***************************************************************************)
LEMMA TakeBackTakes ==
  ASSUME RingTypeOK, NotEmpty, TakeBack
  PROVE  /\ RingTypeOK' /\ Contents' = SubSeq(Contents, 1, Len(Contents) - 1)
         /\ Contents # <<>> /\ Contents[Len(Contents)] = Back /\ Back \in Cells
<1>1. /\ slots \in [0..N-1 -> Cells] /\ begin \in 0..N-1 /\ size \in 1..N
      /\ size - 1 \in 0..N-1
  BY RingAssumption DEF RingTypeOK, Cells, NotEmpty
<1>2. SlotFrom(begin, size - 1) \in 0..N-1 /\ Slot(size - 1) = SlotFrom(begin, size - 1)
  <2>1. SlotFrom(begin, size - 1) \in 0..N-1
    BY <1>1, SlotIs
  <2> QED
    BY <2>1 DEF Slot, SlotFrom
<1>3. /\ slots' = [slots EXCEPT ![SlotFrom(begin, size - 1)] = Blank]
      /\ begin' = begin /\ size' = size - 1
  BY <1>2 DEF TakeBack
<1>4. /\ slots' \in [0..N-1 -> Cells]
      /\ \A k \in 0..N-1 : k # SlotFrom(begin, size - 1) => slots'[k] = slots[k]
  BY <1>1, <1>2, <1>3 DEF Cells
<1>5. /\ Queue(slots', begin, size - 1) = SubSeq(Queue(slots, begin, size), 1, size - 1)
      /\ Queue(slots, begin, size)[size] = slots[SlotFrom(begin, size - 1)]
      /\ Len(Queue(slots, begin, size)) = size /\ Queue(slots, begin, size) # <<>>
  BY <1>1, <1>4, DroppedLast, ZenonT(60)
<1>6. RingTypeOK'
  BY <1>1, <1>3, <1>4, RingAssumption DEF RingTypeOK, Cells
<1> QED
  BY <1>1, <1>2, <1>3, <1>5, <1>6, ContentsIs DEF Back

(***************************************************************************)
(* eff_clear and clear empty the queue.                                    *)
(***************************************************************************)
LEMMA Empties ==
  ASSUME RingTypeOK, Forget \/ Wipe
  PROVE  RingTypeOK' /\ Contents' = <<>>
<1>1. begin' = 0 /\ size' = 0 /\ slots' \in [0..N-1 -> Cells]
  BY DEF Forget, Wipe, RingTypeOK, Cells
<1>2. 0 \in 0..N-1 /\ 0 \in 0..N
  BY RingAssumption
<1>3. Queue(slots', 0, 0) = <<>>
  BY <1>1, <1>2, QueueIs
<1> QED
  BY <1>1, <1>2, <1>3, ContentsIs DEF RingTypeOK, Cells

-----------------------------------------------------------------------------
(* What TypeOK says of the threads. *)
ThreadsOK ==
  /\ call \in [Threads -> Calls]
  /\ waiting \subseteq {t \in Threads : call[t] # Idle}
  /\ late \subseteq Pollers \ waiting
  /\ taken \in [Takers -> Cells]

(***************************************************************************)
(* Type correctness is that of the ring and that of the threads.           *)
(***************************************************************************)
LEMMA TypeParts ==
  /\ TypeOK <=> (RingTypeOK /\ ThreadsOK)
  /\ TypeOK' <=> (RingTypeOK' /\ ThreadsOK')
  BY DEF TypeOK, ThreadsOK, Cells

(***************************************************************************)
(* A thread that returns was awake, so nobody idle sleeps afterwards.      *)
(***************************************************************************)
LEMMA ReturnKeepsThreads ==
  ASSUME ThreadsOK, NEW t \in Threads, t \notin waiting, Return(t),
         waiting' \subseteq waiting, taken' \in [Takers -> Cells]
  PROVE  ThreadsOK'
<1>1. Idle \in Calls
  BY DEF Idle, Calls
<1>2. call' \in [Threads -> Calls] /\ \A u \in Threads : u # t => call'[u] = call[u]
  BY <1>1 DEF ThreadsOK, Return
<1>3. waiting' \subseteq {u \in Threads : call'[u] # Idle}
  BY <1>2 DEF ThreadsOK
<1>4. late' \subseteq Pollers \ waiting'
  BY DEF ThreadsOK, Return
<1> QED
  BY <1>2, <1>3, <1>4 DEF ThreadsOK

(***************************************************************************)
(* A notification wakes sleepers and puts nobody to sleep.                 *)
(***************************************************************************)
LEMMA NotifyWakes == NotifyOne => waiting' \subseteq waiting
  BY DEF NotifyOne

(***************************************************************************)
(* A successful put is a put of BoundedDeque.                              *)
(***************************************************************************)
LEMMA PutStep ==
  ASSUME TypeOK, NEW t \in Threads, Put(t)
  PROVE  TypeOK' /\ Deque!Next
<1>1. RingTypeOK /\ ThreadsOK /\ NotFull
  BY TypeParts DEF Put, Ready
<1>2. ThreadsOK'
  BY <1>1, NotifyWakes, ReturnKeepsThreads DEF Put, Runnable, ThreadsOK
<1>3. call[t] \in Calls
  BY <1>1 DEF ThreadsOK
<1>4. CASE call[t].op = "push_back" /\ AddBack(call[t].item)
  <2>1. call[t].item \in Items
    BY <1>3, <1>4 DEF Calls, PutCalls
  <2>2. RingTypeOK' /\ Contents' = Append(Contents, call[t].item) /\ Len(Contents) < N
    BY <1>1, <1>4, <2>1, AddBackAppends
  <2>3. Deque!PutBack(call[t].item)
    BY <2>2 DEF Deque!PutBack, Put
  <2> QED
    BY <1>2, <2>1, <2>2, <2>3, TypeParts DEF Deque!Next
<1>5. CASE call[t].op = "push_front" /\ AddFront(call[t].item)
  <2>1. call[t].item \in Items
    BY <1>3, <1>5 DEF Calls, PutCalls
  <2>2. RingTypeOK' /\ Contents' = <<call[t].item>> \o Contents /\ Len(Contents) < N
    BY <1>1, <1>5, <2>1, AddFrontPrepends
  <2>3. Deque!PutFront(call[t].item)
    BY <2>2 DEF Deque!PutFront, Put
  <2> QED
    BY <1>2, <2>1, <2>2, <2>3, TypeParts DEF Deque!Next
<1> QED
  BY <1>4, <1>5 DEF Put

(***************************************************************************)
(* A successful take is a take of BoundedDeque.                            *)
(***************************************************************************)
LEMMA TakeStep ==
  ASSUME TypeOK, NEW t \in Threads, Take(t)
  PROVE  TypeOK' /\ Deque!Next
<1>1. RingTypeOK /\ ThreadsOK /\ NotEmpty /\ t \in Takers
  BY TypeParts, ThreadsAssumption DEF Take, Ready, Takers
<1>2. ASSUME NEW v \in Cells, taken' = [taken EXCEPT ![t] = v] PROVE ThreadsOK'
  <2>1. taken' \in [Takers -> Cells]
    BY <1>1, <1>2 DEF ThreadsOK
  <2> QED
    BY <1>1, <2>1, NotifyWakes, ReturnKeepsThreads DEF Take, Runnable
<1>3. ASSUME RingTypeOK', Contents' = Tail(Contents), Contents # <<>>,
             Head(Contents) = Front, Front \in Cells,
             taken' = [taken EXCEPT ![t] = Front]
      PROVE  TypeOK' /\ Deque!Next
  <2>1. Deque!TakeFront(t)
    BY <1>3 DEF Deque!TakeFront
  <2> QED
    BY <1>1, <1>2, <1>3, <2>1, TypeParts DEF Deque!Next
<1>4. CASE TakeFront /\ taken' = [taken EXCEPT ![t] = Front]
  BY <1>1, <1>3, <1>4, TakeFrontTakes
<1>5. CASE DropFront /\ taken' = [taken EXCEPT ![t] = Front]
  BY <1>1, <1>3, <1>5, DropFrontDrops
<1>6. CASE TakeBack /\ taken' = [taken EXCEPT ![t] = Back]
  <2>1. /\ RingTypeOK' /\ Contents' = SubSeq(Contents, 1, Len(Contents) - 1)
        /\ Contents # <<>> /\ Contents[Len(Contents)] = Back /\ Back \in Cells
    BY <1>1, <1>6, TakeBackTakes
  <2>2. Deque!TakeBack(t)
    BY <1>6, <2>1 DEF Deque!TakeBack
  <2> QED
    BY <1>1, <1>2, <1>6, <2>1, <2>2, TypeParts DEF Deque!Next
<1> QED
  BY <1>4, <1>5, <1>6 DEF Take

(***************************************************************************)
(* Every other step of a thread leaves the ring and the takers' items.     *)
(***************************************************************************)
LEMMA OtherStep ==
  ASSUME TypeOK, NEW t \in Threads,
         Call(t) \/ Sleep(t) \/ TimeOut(t) \/ GiveUp(t) \/ SpuriousWakeup(t)
  PROVE  TypeOK' /\ UNCHANGED <<Contents, taken>>
<1>1. RingTypeOK /\ ThreadsOK
  BY TypeParts
<1>2. UNCHANGED <<slots, begin, size, taken>>
  BY DEF Call, Sleep, TimeOut, GiveUp, SpuriousWakeup, ringVars
<1>3. RingTypeOK' /\ Contents' = Contents
  BY <1>1, <1>2 DEF RingTypeOK, Contents, Slot
<1>4. ThreadsOK'
  <2>1. CASE Call(t)
    <3>1. PICK c \in CallsOf(t) : call' = [call EXCEPT ![t] = c]
      BY <2>1 DEF Call
    <3>2. c \in Calls /\ c # Idle
      <4>1. CASE t \in Producers
        BY <4>1 DEF CallsOf, Calls, PutCalls, Idle
      <4>2. CASE t \notin Producers
        BY <4>2 DEF CallsOf, Calls, Idle
      <4> QED
        BY <4>1, <4>2
    <3> QED
      BY <1>1, <2>1, <3>1, <3>2 DEF Call, ThreadsOK
  <2>2. CASE Sleep(t)
    BY <1>1, <2>2 DEF Sleep, Runnable, ThreadsOK
  <2>3. CASE TimeOut(t)
    BY <1>1, <2>3 DEF TimeOut, ThreadsOK
  <2>4. CASE GiveUp(t)
    <3>1. t \notin waiting /\ taken' \in [Takers -> Cells]
      BY <1>1, <2>4 DEF GiveUp, ThreadsOK
    <3> QED
      BY <1>1, <2>4, <3>1, NotifyWakes, ReturnKeepsThreads DEF GiveUp
  <2>5. CASE SpuriousWakeup(t)
    BY <1>1, <2>5 DEF SpuriousWakeup, ThreadsOK
  <2> QED
    BY <2>1, <2>2, <2>3, <2>4, <2>5
<1> QED
  BY <1>2, <1>3, <1>4, TypeParts

(***************************************************************************)
(* Clearing the ring or dropping its front is a clear or a drop of         *)
(* BoundedDeque.                                                           *)
(***************************************************************************)
LEMMA CleanStep ==
  ASSUME TypeOK, Clean
  PROVE  TypeOK' /\ Deque!Next
<1>1. RingTypeOK /\ ThreadsOK
  BY TypeParts
<1>2. ThreadsOK' /\ taken' = taken
  BY <1>1 DEF Clean, ThreadsOK
<1>3. CASE Forget \/ Wipe
  <2>1. RingTypeOK' /\ Contents' = <<>>
    BY <1>1, <1>3, Empties
  <2> QED
    BY <1>2, <2>1, TypeParts DEF Deque!Next, Deque!Clear
<1>4. CASE NotEmpty /\ DropFront
  <2>1. RingTypeOK' /\ Contents' = Tail(Contents) /\ Contents # <<>>
    BY <1>1, <1>4, DropFrontDrops
  <2> QED
    BY <1>2, <2>1, TypeParts DEF Deque!Next, Deque!Drop
<1> QED
  BY <1>3, <1>4 DEF Clean

(***************************************************************************)
(* Every step keeps the types and is a step of BoundedDeque or a stutter.  *)
(***************************************************************************)
LEMMA EveryStep ==
  ASSUME TypeOK, [Next]_vars
  PROVE  TypeOK' /\ [Deque!Next]_(Deque!vars)
<1>1. ASSUME NEW t \in Threads, Put(t) \/ Take(t) PROVE TypeOK' /\ Deque!Next
  BY <1>1, PutStep, TakeStep
<1>2. ASSUME NEW t \in Threads,
             Call(t) \/ Sleep(t) \/ TimeOut(t) \/ GiveUp(t) \/ SpuriousWakeup(t)
      PROVE  TypeOK' /\ UNCHANGED <<Contents, taken>>
  BY <1>2, OtherStep
<1>3. CASE Clean
  BY <1>3, CleanStep
<1>4. CASE UNCHANGED vars
  BY <1>4 DEF vars, ringVars, TypeOK, RingTypeOK, Deque!vars, Contents, Slot
<1> QED
  BY <1>1, <1>2, <1>3, <1>4 DEF Next, Deque!vars

(***************************************************************************)
(* The initial ring is empty and well-formed.                              *)
(***************************************************************************)
LEMMA InitStep == Init => TypeOK /\ Deque!Init
<1> SUFFICES ASSUME Init PROVE TypeOK /\ Deque!Init
  OBVIOUS
<1>1. RingTypeOK /\ Contents = <<>>
  BY RingAssumption DEF Init, RingInit, RingTypeOK, Contents
<1>2. ThreadsOK
  BY DEF Init, ThreadsOK, Calls, Idle, Cells
<1> QED
  BY <1>1, <1>2, TypeParts DEF Deque!Init, Init

(***************************************************************************)
(* The indices stay in bounds and the sleepers and the late stay what they *)
(* are, for every capacity and every set of threads.                       *)
(***************************************************************************)
THEOREM RingTypeCorrect == Spec => []TypeOK
<1>1. Init => TypeOK
  BY InitStep
<1>2. TypeOK /\ [Next]_vars => TypeOK'
  BY EveryStep
<1> QED
  BY <1>1, <1>2, PTL DEF Spec

(***************************************************************************)
(* BlockingRing implements BoundedDeque: nothing is lost, doubled or       *)
(* reordered, however the calls, wakeups, timeouts and clears interleave.  *)
(***************************************************************************)
THEOREM RingImplementsDeque == Spec => DequeSpec
<1>1. Init => Deque!Init
  BY InitStep
<1>2. TypeOK /\ [Next]_vars => [Deque!Next]_(Deque!vars)
  BY EveryStep
<1> QED
  BY <1>1, <1>2, RingTypeCorrect, PTL DEF Spec, DequeSpec, Deque!Spec

=============================================================================
