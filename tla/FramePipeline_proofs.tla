------------------------ MODULE FramePipeline_proofs ------------------------
(***************************************************************************)
(* For every size of a frame, every number of handle threads and every     *)
(* bound of the queues: the frame the callbacks get is whole, and they are *)
(* alone with it.  The count the threads agree by says nothing of slots, so *)
(* the invariant says it: every slot up to the first one that still waits  *)
(* for ParserThread is either on its way through the workers, in one place *)
(* only, or computed, and the count is the number of the latter.           *)
(***************************************************************************)
EXTENDS FramePipeline, SequenceTheorems, FiniteSetTheorems, TLAPS

Entries(s) == {s[i] : i \in DOMAIN s}
Injective(s) == \A i, j \in DOMAIN s : s[i] = s[j] => i = j

(* What a worker with the queue q that computes b has been dealt, and what  *)
(* all of them have; that a worker, and two of them, have no slot twice.    *)
Dealt(q, b) == Entries(q) \cup IF b = None THEN {} ELSE {b.slot}
Dealings(qs, bs, ws) == UNION {Dealt(qs[h], bs[h]) : h \in ws}
NoneTwice(q, b) == Injective(q) /\ (b # None => b.slot \notin Entries(q))
Disjoint(qs, bs, ws) ==
  \A g, h \in ws : g # h => Dealt(qs[g], bs[g]) \cap Dealt(qs[h], bs[h]) = {}

OnTheirWay == Dealings(handle, busy, Workers)

(* The first slot that ParserThread has not let go of.                      *)
First == packetIndex - Len(decoded) - IF item = None THEN 0 ELSE 1

(* The indices ParserThread holds and will take are the last of the frame.  *)
Queued ==
  /\ First \in Nat
  /\ \A i \in 1..Len(decoded) : decoded[i] = packetIndex - Len(decoded) + i - 1
  /\ item # None => item = First

(* No slot is dealt twice.                                                  *)
Apart ==
  /\ \A h \in Workers : NoneTwice(handle[h], busy[h])
  /\ Disjoint(handle, busy, Workers)
  /\ OnTheirWay \subseteq 0..First-1

(* What is not on its way is counted, and its points are there.             *)
Counted ==
  /\ at # "publish" => computeNum + Cardinality(OnTheirWay) = First
  /\ 0..First-1 \subseteq OnTheirWay \cup points
  /\ \A h \in Workers : busy[h] # None => busy[h].whole

(* The count that matched is the frame's until it is set to zero.           *)
Idle == OnTheirWay = {} /\ decoded = <<>> /\ item = None
Matched ==
  /\ at = "reset" => computeNum = packetIndex
  /\ at = "publish" => computeNum = 0 /\ Idle

(* The frame's slots hold its packets.                                      *)
Filled == packetNum = packetIndex /\ raw = 0..packetNum-1

(* A frame that was given up leaves nothing behind but late computations.   *)
GivenUp == at \in {"clear", "sleep"}
PipelineInv ==
  /\ GivenUp => packetIndex = 0 /\ decoded = <<>>
  /\ ~GivenUp => Queued /\ Apart /\ Counted /\ Matched /\ Filled
  /\ at \in {"wait", "reset", "publish"} => splitter \in {"packet", "timeout"}

-----------------------------------------------------------------------------
(* Types.  What Run queues is a slot because it queues at most one index    *)
(* more than the frame has packets.                                         *)
Near == IF GivenUp THEN packetIndex = 0 ELSE packetIndex \in {packetNum, packetNum + 1}
TypeInv == TypeOK /\ Near

LEMMA ThereAreWorkers ==
  ASSUME TypeOK
  PROVE  threads \in Nat \ {0} /\ 0 \in Workers
BY PipelineAssumption DEF TypeOK, Workers

LEMMA BeginIsJob ==
  ASSUME NEW index \in Slots
  PROVE  /\ Begin(index) \in Job /\ Begin(index) # None
         /\ Begin(index).slot = index /\ Begin(index).whole = (index \in raw)
<1>1. Begin(index) \in [slot : Nat, whole : BOOLEAN] /\ Begin(index) \in Job
  BY PipelineAssumption DEF Begin, Job, Slots
<1> QED
  BY <1>1, PipelineAssumption DEF Begin

LEMMA EmptiedJobs ==
  ASSUME TypeOK, EmptyFrame
  PROVE  busy' \in [Workers -> Job \cup {None}] /\ points' = {}
BY DEF TypeOK, EmptyFrame, Job

LEMMA RunKeepsTypes ==
  ASSUME TypeInv, RunNext
  PROVE  TypeInv'
<1> USE DEF TypeInv, Near, GivenUp
<1>1. MaxPackets \in Nat \ {0} /\ BufferSize \in Nat /\ None \notin Nat
  BY PipelineAssumption
<1>2. CASE PointPacket
  <2>1. /\ packetNum \in 0..MaxPackets-1 /\ packetIndex \in {packetNum, packetNum + 1}
        /\ packetNum' = packetNum + 1 /\ raw' = raw \cup {packetNum}
    BY <1>1, <1>2 DEF PointPacket, TypeOK
  <2>2. packetNum \in Slots
    BY <2>1 DEF Slots
  <2>3. /\ packetIndex' = packetNum' /\ packetIndex' \in 0..MaxPackets
        /\ decoded' \in Seq(Slots) /\ Len(decoded') <= BufferSize
    <3>1. CASE packetIndex = packetNum
      <4>1. packetIndex' = packetIndex + 1 /\ Queue(packetIndex)
        BY <1>2, <2>1, <3>1 DEF PointPacket
      <4>2. decoded \in Seq(Slots) /\ packetIndex \in Slots
        BY <2>2, <3>1 DEF TypeOK
      <4> QED
        BY <1>1, <2>1, <3>1, <4>1, <4>2, AppendProperties DEF Queue
    <3>2. CASE packetIndex = packetNum + 1
      BY <1>1, <1>2, <2>1, <3>2 DEF PointPacket, TypeOK
    <3> QED
      BY <2>1, <3>1, <3>2
  <2>4. at' \in {"overflow", "read"} /\ UNCHANGED <<points, computeNum, handle, threads, splitter, item, turn, busy>>
    BY <1>2 DEF PointPacket, dealVars
  <2> QED
    BY <1>1, <2>1, <2>2, <2>3, <2>4 DEF TypeOK, Workers
<1>3. CASE SplitPacket
  BY <1>1, <1>3 DEF SplitPacket, TypeOK, frameVars, dealVars, Workers
<1>4. CASE CountMatches
  BY <1>4 DEF CountMatches, TypeOK, frameVars, dealVars, Workers
<1>5. CASE KeepWaiting
  BY <1>5 DEF KeepWaiting, TypeOK, vars, frameVars, runVars, dealVars, Workers
<1>6. CASE ResetCount
  BY <1>6 DEF ResetCount, TypeOK, frameVars, dealVars, Workers
<1>7. CASE StartFrame
  <2>1. busy' \in [Workers -> Job \cup {None}] /\ points' = {}
    BY <1>7, EmptiedJobs DEF StartFrame
  <2>2. /\ packetNum' = 0 \/ packetNum' = 1
        /\ packetIndex' = packetNum' \/ (packetNum' = 0 /\ packetIndex' = 1)
        /\ raw' \subseteq {0}
    BY <1>7 DEF StartFrame
  <2>3. decoded' \in Seq(Slots) /\ Len(decoded') <= BufferSize
    <3>1. CASE splitter = "timeout"
      BY <1>7, <3>1 DEF StartFrame, TypeOK
    <3>2. CASE splitter # "timeout"
      <4>1. 0 \in Slots /\ decoded \in Seq(Slots)
        BY <1>1 DEF Slots, TypeOK
      <4>2. Len(decoded) < BufferSize /\ decoded' = Append(decoded, 0)
        BY <1>7, <3>2 DEF StartFrame, Queue
      <4> QED
        BY <1>1, <4>1, <4>2, AppendProperties
    <3> QED
      BY <3>1, <3>2
  <2>4. at' = "read" /\ splitter' = None /\ UNCHANGED <<computeNum, handle, threads, item, turn>>
    BY <1>7 DEF StartFrame, dealVars
  <2>5. /\ packetNum' \in 0..MaxPackets /\ packetIndex' \in 0..MaxPackets
        /\ packetIndex' \in {packetNum', packetNum' + 1} /\ raw' \subseteq Slots
    <3>1. 0 \in Slots /\ 0 \in 0..MaxPackets /\ 1 \in 0..MaxPackets
      BY <1>1 DEF Slots
    <3>2. packetIndex' \in {packetNum', packetNum' + 1}
      BY <2>2
    <3> QED
      BY <2>2, <3>1, <3>2
  <2> QED
    BY <2>1, <2>3, <2>4, <2>5 DEF TypeOK, Workers
<1>8. CASE ClearDecoded
  BY <1>1, <1>8 DEF ClearDecoded, TypeOK, frameVars, dealVars, Workers
<1>9. CASE ClearHandle
  BY <1>9 DEF ClearHandle, TypeOK, frameVars, dealVars, Workers
<1>10. CASE Restart
  <2>1. busy' \in [Workers -> Job \cup {None}] /\ points' = {}
    BY <1>10, EmptiedJobs DEF Restart
  <2>2. packetIndex' = packetIndex /\ packetNum' = 0 /\ at' = "read"
    BY <1>10 DEF Restart
  <2> QED
    BY <1>1, <1>10, <2>1 DEF Restart, TypeOK, Slots, Workers, dealVars
<1> QED
  BY <1>2, <1>3, <1>4, <1>5, <1>6, <1>7, <1>8, <1>9, <1>10 DEF RunNext

LEMMA WorkersKeepTypes ==
  ASSUME TypeInv, ParserPop \/ Deal \/ \E h \in Workers : HandlePop(h) \/ ComputeXYZI(h)
  PROVE  TypeInv'
<1>1. threads \in Nat \ {0} /\ 0 \in Workers /\ TypeOK /\ Near
  BY ThereAreWorkers DEF TypeInv
<1>2. CASE ParserPop
  <2>1. decoded \in Seq(Slots) /\ decoded # <<>> /\ decoded' = Tail(decoded)
    BY <1>1, <1>2 DEF ParserPop, TypeOK
  <2>2. /\ Head(decoded) \in Slots /\ decoded' \in Seq(Slots) /\ Len(decoded') = Len(decoded) - 1
    BY <2>1, HeadTailProperties
  <2>3. item' \in Slots \cup {None} /\ busy' \in [Workers -> Job \cup {None}]
    <3>1. CASE threads < 2
      <4>1. Begin(Head(decoded)) \in Job
        BY <2>2, BeginIsJob
      <4> QED
        BY <1>1, <1>2, <3>1, <4>1 DEF ParserPop, TypeOK
    <3>2. CASE ~(threads < 2)
      BY <1>1, <1>2, <2>2, <3>2 DEF ParserPop, TypeOK
    <3> QED
      BY <3>1, <3>2
  <2>4. UNCHANGED <<packetNum, raw, points, computeNum, handle, threads, at, packetIndex, splitter, turn>>
    BY <1>2 DEF ParserPop, frameVars, runVars
  <2> QED
    BY <1>1, <2>2, <2>3, <2>4, PipelineAssumption DEF TypeInv, TypeOK, Near, GivenUp, Workers
<1>3. CASE Deal
  <2> DEFINE h == turn % threads
             q == Append(handle[h], item)
  <2>1. h \in Workers /\ h + 1 \in 0..threads
    BY <1>1 DEF TypeOK, Workers
  <2>2. handle[h] \in Seq(Slots) /\ item \in Slots
    BY <1>1, <1>3, <2>1 DEF Deal, TypeOK
  <2>3. q \in Seq(Slots) /\ Tail(q) \in Seq(Slots)
    <3>1. q \in Seq(Slots) /\ q # <<>>
      BY <2>2, AppendProperties
    <3> HIDE DEF q
    <3> QED
      BY <3>1, HeadTailProperties
  <2>4. /\ handle' = [handle EXCEPT ![h] = IF Len(q) > BufferSize THEN Tail(q) ELSE q]
        /\ turn' = h + 1 /\ item' = None
        /\ UNCHANGED <<packetNum, raw, points, computeNum, decoded, threads, at, packetIndex, splitter, busy>>
    BY <1>3 DEF Deal, frameVars, runVars
  <2> HIDE DEF h, q
  <2> QED
    BY <1>1, <2>1, <2>3, <2>4 DEF TypeInv, TypeOK, Near, GivenUp, Workers
<1>4. ASSUME NEW h \in Workers, HandlePop(h)
      PROVE  TypeInv'
  <2>1. handle[h] \in Seq(Slots) /\ handle[h] # <<>>
    BY <1>1, <1>4 DEF HandlePop, TypeOK
  <2>2. Head(handle[h]) \in Slots /\ Tail(handle[h]) \in Seq(Slots)
    BY <2>1, HeadTailProperties
  <2>3. Begin(Head(handle[h])) \in Job
    BY <2>2, BeginIsJob
  <2>4. /\ handle' = [handle EXCEPT ![h] = Tail(handle[h])]
        /\ busy' = [busy EXCEPT ![h] = Begin(Head(handle[h]))]
        /\ UNCHANGED <<packetNum, raw, points, computeNum, decoded, threads, at, packetIndex,
                        splitter, item, turn>>
    BY <1>4 DEF HandlePop, frameVars, runVars, dealVars
  <2> QED
    BY <1>1, <2>2, <2>3, <2>4 DEF TypeInv, TypeOK, Near, GivenUp, Workers
<1>5. ASSUME NEW h \in Workers, ComputeXYZI(h)
      PROVE  TypeInv'
  <2>1. busy[h] \in Job
    BY <1>1, <1>5 DEF ComputeXYZI, TypeOK
  <2>2. points' \subseteq Slots
    BY <1>1, <1>5, <2>1 DEF ComputeXYZI, WritePoints, TypeOK, Job
  <2>3. /\ computeNum' \in Nat /\ busy' \in [Workers -> Job \cup {None}]
        /\ UNCHANGED <<packetNum, raw, decoded, handle, threads, at, packetIndex, splitter, item, turn>>
    BY <1>1, <1>5 DEF ComputeXYZI, TypeOK, runVars, dealVars
  <2> QED
    BY <1>1, <2>2, <2>3 DEF TypeInv, TypeOK, Near, GivenUp, Workers
<1> QED
  BY <1>2, <1>3, <1>4, <1>5

(* Every index in the pipeline names a slot of the frame, for every size of *)
(* a frame and every number of threads.                                     *)
THEOREM PipelineTypeCorrect == Spec => []TypeOK
<1>1. Init => TypeInv
  <2> SUFFICES ASSUME Init PROVE TypeInv
    OBVIOUS
  <2>1. threads \in Nat \ {0} /\ threads \in ThreadCounts
    BY PipelineAssumption DEF Init
  <2> QED
    BY <2>1, PipelineAssumption DEF Init, TypeInv, TypeOK, Near, GivenUp, Slots, Workers
<1>2. TypeInv /\ [Next]_vars => TypeInv'
  <2> SUFFICES ASSUME TypeInv, [Next]_vars PROVE TypeInv'
    OBVIOUS
  <2>1. CASE RunNext
    BY <2>1, RunKeepsTypes
  <2>2. CASE ParserPop \/ Deal \/ \E h \in Workers : HandlePop(h) \/ ComputeXYZI(h)
    BY <2>2, WorkersKeepTypes
  <2>3. CASE UNCHANGED vars
    BY <2>3 DEF TypeInv, TypeOK, Near, GivenUp, Workers, vars, frameVars, runVars, dealVars
  <2> QED
    BY <2>1, <2>2, <2>3 DEF Next
<1> QED
  BY <1>1, <1>2, PTL DEF Spec, TypeInv

-----------------------------------------------------------------------------
(* Queues of indices.                                                       *)

LEMMA EntriesOfAppend ==
  ASSUME NEW S, NEW s \in Seq(S), NEW e \in S
  PROVE  /\ Entries(Append(s, e)) = Entries(s) \cup {e}
         /\ Injective(s) /\ e \notin Entries(s) => Injective(Append(s, e))
<1> DEFINE t == Append(s, e)
<1>1. /\ Len(s) \in Nat /\ DOMAIN s = 1..Len(s)
      /\ DOMAIN t = 1..Len(s)+1 /\ t[Len(s)+1] = e /\ \A i \in 1..Len(s) : t[i] = s[i]
  BY LenProperties, AppendProperties
<1> HIDE DEF t
<1>2. \A i \in DOMAIN t : i \in DOMAIN s \/ i = Len(s)+1
  BY <1>1
<1>3. Entries(t) = Entries(s) \cup {e}
  BY <1>1, <1>2 DEF Entries
<1>4. ASSUME Injective(s), e \notin Entries(s) PROVE Injective(t)
  BY <1>1, <1>2, <1>4 DEF Entries, Injective
<1> QED
  BY <1>3, <1>4 DEF t

LEMMA EntriesOfTail ==
  ASSUME NEW S, NEW s \in Seq(S), s # <<>>
  PROVE  /\ Entries(s) = {Head(s)} \cup Entries(Tail(s))
         /\ Injective(s) => Injective(Tail(s)) /\ Head(s) \notin Entries(Tail(s))
<1> DEFINE t == Tail(s)
<1>1. /\ Len(s) \in Nat \ {0} /\ DOMAIN s = 1..Len(s) /\ Head(s) = s[1]
      /\ DOMAIN t = 1..Len(s)-1 /\ \A i \in 1..Len(s)-1 : t[i] = s[i+1]
  BY LenProperties, HeadTailProperties, EmptySeq
<1> HIDE DEF t
<1>2. \A i \in DOMAIN s : i = 1 \/ (i-1 \in DOMAIN t /\ s[i] = t[i-1])
  BY <1>1
<1>3. \A i \in DOMAIN t : i+1 \in DOMAIN s /\ t[i] = s[i+1] /\ i+1 # 1 /\ i \in Nat
  BY <1>1
<1>4. 1 \in DOMAIN s
  BY <1>1
<1>5. Entries(s) = {Head(s)} \cup Entries(t)
  BY <1>1, <1>2, <1>3, <1>4 DEF Entries
<1>6. ASSUME Injective(s) PROVE Injective(t) /\ Head(s) \notin Entries(t)
  BY <1>1, <1>3, <1>4, <1>6 DEF Entries, Injective
<1> QED
  BY <1>5, <1>6 DEF t

LEMMA EntriesOfEmpty == Entries(<<>>) = {} /\ Injective(<<>>)
BY DEF Entries, Injective

LEMMA EntriesAreNone ==
  ASSUME NEW S, NEW s \in Seq(S), Entries(s) = {}
  PROVE  s = <<>>
<1>1. Len(s) \in Nat /\ DOMAIN s = 1..Len(s)
  BY LenProperties
<1>2. ASSUME s # <<>> PROVE FALSE
  <2>1. 1 \in DOMAIN s
    BY <1>1, <1>2, EmptySeq
  <2> QED
    BY <2>1 DEF Entries
<1> QED
  BY <1>2

LEMMA IntervalSizes ==
  ASSUME NEW n \in Nat
  PROVE  /\ IsFiniteSet(1..n) /\ Cardinality(1..n) = n
         /\ IsFiniteSet(0..n-1) /\ Cardinality(0..n-1) = n
<1>1. /\ IsFiniteSet(1..n) /\ Cardinality(1..n) = IF 1 > n THEN 0 ELSE n-1+1
      /\ IsFiniteSet(0..n-1) /\ Cardinality(0..n-1) = IF 0 > n-1 THEN 0 ELSE n-1-0+1
  <2>1. 0 \in Int /\ 1 \in Int /\ n \in Int /\ n-1 \in Int
    OBVIOUS
  <2> QED
    BY <2>1, FS_Interval
<1> QED
  BY <1>1

(* A queue in which nothing is twice is no longer than the slots it is of.  *)
LEMMA QueueIsShort ==
  ASSUME NEW S, NEW s \in Seq(S), NEW n \in Nat, Injective(s), Entries(s) \subseteq 0..n-1
  PROVE  Len(s) <= n
<1>1. Len(s) \in Nat /\ s \in [1..Len(s) -> S] /\ DOMAIN s = 1..Len(s)
  BY LenProperties
<1>2. s \in [1..Len(s) -> 0..n-1]
  BY <1>1 DEF Entries
<1>3. /\ IsFiniteSet(1..Len(s)) /\ Cardinality(1..Len(s)) = Len(s)
      /\ IsFiniteSet(0..n-1) /\ Cardinality(0..n-1) = n
  BY <1>1, IntervalSizes
<1>4. ASSUME n < Len(s) PROVE FALSE
  <2>1. \E i, j \in 1..Len(s) : i # j /\ s[i] = s[j]
    BY <1>2, <1>3, <1>4, FS_PigeonHole
  <2> QED
    BY <1>1, <2>1 DEF Injective
<1> QED
  BY <1>1, <1>4

-----------------------------------------------------------------------------
(* What the workers have been dealt, when one of them changes.              *)

LEMMA OneIsDealt ==
  ASSUME NEW ws, NEW w \in ws, NEW qs, NEW bs, NEW qs2, NEW bs2, NEW n,
         \A h \in ws : h # w => qs2[h] = qs[h] /\ bs2[h] = bs[h],
         Dealt(qs2[w], bs2[w]) = Dealt(qs[w], bs[w]) \cup {n}
  PROVE  /\ Dealings(qs2, bs2, ws) = Dealings(qs, bs, ws) \cup {n}
         /\ Disjoint(qs, bs, ws) /\ n \notin Dealings(qs, bs, ws) => Disjoint(qs2, bs2, ws)
<1>1. \A h \in ws : h # w => Dealt(qs2[h], bs2[h]) = Dealt(qs[h], bs[h])
  OBVIOUS
<1>2. Dealings(qs2, bs2, ws) = Dealings(qs, bs, ws) \cup {n}
  BY <1>1 DEF Dealings
<1>3. ASSUME Disjoint(qs, bs, ws), n \notin Dealings(qs, bs, ws) PROVE Disjoint(qs2, bs2, ws)
  BY <1>1, <1>3 DEF Dealings, Disjoint
<1> QED
  BY <1>2, <1>3

LEMMA OneIsComputed ==
  ASSUME NEW ws, NEW w \in ws, NEW qs, NEW bs, NEW qs2, NEW bs2, NEW n,
         \A h \in ws : h # w => qs2[h] = qs[h] /\ bs2[h] = bs[h],
         n \in Dealt(qs[w], bs[w]),
         Dealt(qs2[w], bs2[w]) = Dealt(qs[w], bs[w]) \ {n},
         Disjoint(qs, bs, ws)
  PROVE  /\ n \in Dealings(qs, bs, ws)
         /\ Dealings(qs2, bs2, ws) = Dealings(qs, bs, ws) \ {n}
         /\ Disjoint(qs2, bs2, ws)
<1>1. \A h \in ws : h # w => Dealt(qs2[h], bs2[h]) = Dealt(qs[h], bs[h])
  OBVIOUS
<1>2. \A h \in ws : h # w => n \notin Dealt(qs[h], bs[h])
  BY DEF Disjoint
<1>3. Dealings(qs2, bs2, ws) = Dealings(qs, bs, ws) \ {n}
  BY <1>1, <1>2 DEF Dealings
<1>4. Disjoint(qs2, bs2, ws)
  BY <1>1 DEF Disjoint
<1> QED
  BY <1>3, <1>4 DEF Dealings

LEMMA OneIsBegun ==
  ASSUME NEW ws, NEW w \in ws, NEW qs, NEW bs, NEW qs2, NEW bs2,
         \A h \in ws : h # w => qs2[h] = qs[h] /\ bs2[h] = bs[h],
         Dealt(qs2[w], bs2[w]) = Dealt(qs[w], bs[w])
  PROVE  /\ Dealings(qs2, bs2, ws) = Dealings(qs, bs, ws)
         /\ Disjoint(qs, bs, ws) => Disjoint(qs2, bs2, ws)
<1>1. \A h \in ws : Dealt(qs2[h], bs2[h]) = Dealt(qs[h], bs[h])
  OBVIOUS
<1> QED
  BY <1>1 DEF Dealings, Disjoint

(* Nobody computes and no queue holds anything exactly if nothing is dealt. *)
LEMMA NobodyIsDealt ==
  ASSUME TypeOK
  PROVE  OnTheirWay = {} <=> \A h \in Workers : busy[h] = None /\ handle[h] = <<>>
<1>1. ASSUME NEW h \in Workers
      PROVE  Dealt(handle[h], busy[h]) = {} <=> busy[h] = None /\ handle[h] = <<>>
  <2>1. handle[h] \in Seq(Slots)
    BY DEF TypeOK
  <2>2. Entries(handle[h]) = {} <=> handle[h] = <<>>
    BY <2>1, EntriesAreNone, EntriesOfEmpty
  <2> QED
    BY <2>2 DEF Dealt
<1> QED
  BY <1>1 DEF OnTheirWay, Dealings

-----------------------------------------------------------------------------
(* The invariant, as long as computations end within the sleep of a reset  *)
(* and a packet that splits a frame has the frame's size.                  *)
Frame == Queued /\ Apart /\ Counted /\ Filled

LEMMA FrameFacts ==
  ASSUME TypeOK, Queued, Apart
  PROVE  /\ Len(decoded) \in Nat /\ packetIndex \in Nat /\ computeNum \in Nat
         /\ First \in Nat /\ First <= packetIndex - Len(decoded)
         /\ item # None => First <= packetIndex - Len(decoded) - 1
         /\ First = packetIndex => decoded = <<>> /\ item = None
         /\ IsFiniteSet(OnTheirWay) /\ Cardinality(OnTheirWay) \in Nat
<1>1. decoded \in Seq(Slots) /\ packetIndex \in Nat /\ computeNum \in Nat
  BY PipelineAssumption DEF TypeOK
<1>2. Len(decoded) \in Nat /\ (Len(decoded) = 0 => decoded = <<>>)
  BY <1>1, LenProperties, EmptySeq
<1>3. First \in Nat /\ OnTheirWay \subseteq 0..First-1
  BY DEF Queued, Apart
<1>4. IsFiniteSet(OnTheirWay) /\ Cardinality(OnTheirWay) \in Nat
  BY <1>3, IntervalSizes, FS_Subset, FS_CardinalityType
<1>5. /\ First <= packetIndex - Len(decoded)
      /\ item # None => First <= packetIndex - Len(decoded) - 1
      /\ First = packetIndex => Len(decoded) = 0 /\ item = None
  BY <1>1, <1>2 DEF First
<1> QED
  BY <1>1, <1>2, <1>3, <1>4, <1>5

(* When the count matches nothing of the frame is left to be computed.      *)
LEMMA MatchedIsIdle ==
  ASSUME TypeOK, Frame, at # "publish", computeNum = packetIndex
  PROVE  Idle /\ First = packetIndex
<1>1. computeNum + Cardinality(OnTheirWay) = First
  BY DEF Frame, Counted
<1>2. /\ Len(decoded) \in Nat /\ packetIndex \in Nat /\ Cardinality(OnTheirWay) \in Nat
      /\ First \in Nat /\ First <= packetIndex - Len(decoded) /\ IsFiniteSet(OnTheirWay)
      /\ First = packetIndex => decoded = <<>> /\ item = None
  BY FrameFacts DEF Frame
<1>3. Cardinality(OnTheirWay) = 0 /\ First = packetIndex
  BY <1>1, <1>2
<1> QED
  BY <1>2, <1>3, FS_EmptySet DEF Idle

(* A step of Run that leaves the workers alone.                             *)
LEMMA WorkersUntouched ==
  ASSUME UNCHANGED <<handle, busy, threads>>
  PROVE  /\ OnTheirWay' = OnTheirWay /\ Workers' = Workers
         /\ First' = First /\ Apart => Apart'
         /\ First' = First /\ Counted /\ at # "publish" /\ at' # "publish"
               /\ UNCHANGED <<points, computeNum>> => Counted'
<1>1. OnTheirWay' = OnTheirWay /\ Workers' = Workers
  BY DEF OnTheirWay, Dealings, Dealt, Workers
<1>2. ASSUME First' = First, Apart PROVE Apart'
  <2>1. Disjoint(handle', busy', Workers') /\ OnTheirWay' \subseteq 0..First'-1
    BY <1>1, <1>2 DEF Apart, Disjoint
  <2>2. \A h \in Workers' : NoneTwice(handle'[h], busy'[h])
    BY <1>1, <1>2 DEF Apart
  <2> QED
    BY <2>1, <2>2 DEF Apart
<1>3. ASSUME First' = First, Counted, at # "publish", at' # "publish",
             UNCHANGED <<points, computeNum>>
      PROVE  Counted'
  BY <1>1, <1>3 DEF Counted
<1> QED
  BY <1>1, <1>2, <1>3

LEMMA PointPacketKeepsFrame ==
  ASSUME TypeOK, Frame, PointPacket
  PROVE  Frame'
<1>1. /\ packetNum = packetIndex /\ raw = 0..packetNum-1 /\ packetIndex \in 0..MaxPackets-1
      /\ packetNum \in Nat
  BY PipelineAssumption DEF PointPacket, Frame, Filled, TypeOK
<1>2. /\ packetNum' = packetNum + 1 /\ raw' = raw \cup {packetNum}
      /\ packetIndex' = packetIndex + 1 /\ decoded' = Append(decoded, packetIndex)
  BY <1>1 DEF PointPacket, Queue
<1>3. /\ at = "read" /\ at' # "publish"
      /\ UNCHANGED <<points, computeNum, handle, threads, splitter, item, turn, busy>>
  BY DEF PointPacket, dealVars
<1>4. decoded \in Seq(Slots) /\ packetIndex \in Slots
  BY <1>1 DEF TypeOK, Slots
<1>5. /\ Len(decoded) \in Nat /\ Len(decoded') = Len(decoded) + 1
      /\ \A i \in 1..Len(decoded) : decoded'[i] = decoded[i]
      /\ decoded'[Len(decoded) + 1] = packetIndex
  BY <1>2, <1>4, AppendProperties, LenProperties
<1>6. First' = First
  BY <1>1, <1>2, <1>3, <1>5 DEF First
<1>7. Queued'
  <2>1. ASSUME NEW i \in 1..Len(decoded')
        PROVE  decoded'[i] = packetIndex' - Len(decoded') + i - 1
    <3>1. CASE i = Len(decoded) + 1
      BY <1>1, <1>2, <1>5, <3>1
    <3>2. CASE i \in 1..Len(decoded)
      <4>1. decoded'[i] = packetIndex - Len(decoded) + i - 1
        BY <1>5, <3>2 DEF Frame, Queued
      <4> QED
        BY <1>1, <1>2, <1>5, <3>2, <4>1
    <3> QED
      BY <1>5, <2>1, <3>1, <3>2
  <2> QED
    BY <1>3, <1>6, <2>1 DEF Frame, Queued
<1>8. Apart' /\ Counted'
  BY <1>3, <1>6, WorkersUntouched DEF Frame
<1>9. Filled'
  BY <1>1, <1>2 DEF Filled
<1> QED
  BY <1>7, <1>8, <1>9 DEF Frame

(* A frame that starts with no worker at work.                              *)
LEMMA FreshFrame ==
  ASSUME \A h \in Workers' : busy'[h] = None /\ handle'[h] = <<>>,
         First' = 0, computeNum' = 0, Queued', Filled'
  PROVE  Frame' /\ OnTheirWay' = {}
<1>1. \A h \in Workers' : /\ NoneTwice(handle'[h], busy'[h])
                          /\ Dealt(handle'[h], busy'[h]) = {}
  BY EntriesOfEmpty DEF NoneTwice, Dealt
<1>2. OnTheirWay' = {}
  BY <1>1 DEF OnTheirWay, Dealings
<1>3. Disjoint(handle', busy', Workers')
  BY <1>1 DEF Disjoint
<1>4. Cardinality(OnTheirWay') = 0
  BY <1>2, FS_EmptySet
<1>5. Apart'
  BY <1>1, <1>2, <1>3 DEF Apart
<1>6. 0..First'-1 = {}
  OBVIOUS
<1>7. Counted'
  <2>1. computeNum' + Cardinality(OnTheirWay') = First'
    BY <1>4
  <2> QED
    BY <1>6, <2>1 DEF Counted
<1> QED
  BY <1>2, <1>5, <1>7 DEF Frame

LEMMA NothingQueued ==
  ASSUME packetIndex' = 0, packetNum' = 0, raw' = {}, decoded' = <<>>, item' = None
  PROVE  First' = 0 /\ Queued' /\ Filled'
<1>1. Len(decoded') = 0 /\ 0..0-1 = {} /\ 1..0 = {}
  BY EmptySeq
<1>2. First' = packetIndex' - Len(decoded') - 0
  BY DEF First
<1>3. First' = 0
  BY <1>1, <1>2
<1> QED
  BY <1>1, <1>3 DEF Queued, Filled

LEMMA RunKeepsInv ==
  ASSUME SleepDrains, ~MayResize, TypeOK, PipelineInv, RunNext
  PROVE  PipelineInv'
<1>1. /\ at \in {"read", "wait", "reset", "publish", "overflow"} => ~GivenUp /\ Frame /\ Matched
      /\ Splitters = {"packet", "timeout"}
  BY DEF GivenUp, PipelineInv, Frame, Splitters
<1>2. ASSUME at \notin {"clear", "sleep", "publish"}, at' \notin {"clear", "sleep", "publish"},
             UNCHANGED <<packetNum, raw, points, computeNum, decoded, handle, threads, packetIndex,
                         item, busy>>
      PROVE  ~GivenUp' /\ Frame'
  <2>1. Frame
    BY <1>1, <1>2 DEF PipelineInv, Frame, GivenUp
  <2>2. First' = First
    BY <1>2 DEF First
  <2>3. Apart' /\ Counted'
    BY <1>2, <2>1, <2>2, WorkersUntouched DEF Frame
  <2>4. Queued' /\ Filled'
    BY <1>2, <2>1, <2>2 DEF Frame, Queued, Filled
  <2> QED
    BY <1>2, <2>3, <2>4 DEF Frame, GivenUp
<1>3. CASE PointPacket
  <2>1. at = "read" /\ at' \in {"read", "overflow"}
    BY <1>3 DEF PointPacket
  <2>2. Frame'
    BY <1>1, <1>3, <2>1, PointPacketKeepsFrame
  <2> QED
    BY <2>1, <2>2 DEF PipelineInv, Frame, Matched, GivenUp
<1>4. CASE SplitPacket
  <2>1. at = "read" /\ at' = "wait" /\ splitter' \in {"packet", "timeout"}
    BY <1>1, <1>4 DEF SplitPacket
  <2>2. ~GivenUp' /\ Frame'
    BY <1>2, <1>4, <2>1 DEF SplitPacket, frameVars, dealVars
  <2> QED
    BY <2>1, <2>2 DEF PipelineInv, Frame, Matched
<1>5. CASE CountMatches
  <2>1. /\ at = "wait" /\ at' = "reset" /\ splitter' = splitter
        /\ computeNum = packetIndex /\ UNCHANGED <<computeNum, packetIndex>>
    BY <1>5 DEF CountMatches
  <2>2. ~GivenUp' /\ Frame'
    BY <1>2, <1>5, <2>1 DEF CountMatches, frameVars, dealVars
  <2> QED
    BY <2>1, <2>2 DEF PipelineInv, Frame, Matched
<1>6. CASE KeepWaiting
  <2>1. at = "wait" /\ at' = "wait" /\ splitter' = splitter
    BY <1>6 DEF KeepWaiting, vars, runVars
  <2>2. ~GivenUp' /\ Frame'
    BY <1>2, <1>6, <2>1 DEF KeepWaiting, vars, frameVars, runVars, dealVars
  <2> QED
    BY <2>1, <2>2 DEF PipelineInv, Frame, Matched
<1>7. CASE ResetCount
  <2>1. at = "reset" /\ at' = "publish" /\ computeNum' = 0
    BY <1>7 DEF ResetCount
  <2>2. UNCHANGED <<packetNum, raw, points, decoded, handle, threads, packetIndex, splitter, item, busy>>
    BY <1>7 DEF ResetCount, frameVars, dealVars
  <2>3. Frame /\ Idle /\ First = packetIndex
    BY <1>1, <2>1, MatchedIsIdle DEF Matched
  <2>4. First' = First /\ OnTheirWay' = OnTheirWay /\ Workers' = Workers /\ Apart'
    BY <2>2, <2>3, WorkersUntouched DEF First, Frame
  <2>5. Counted'
    BY <2>1, <2>2, <2>3, <2>4 DEF Frame, Counted
  <2>6. Queued' /\ Filled'
    BY <2>2, <2>3, <2>4 DEF Frame, Queued, Filled
  <2>7. Matched' /\ ~GivenUp'
    BY <2>1, <2>2, <2>3, <2>4 DEF Matched, Idle, GivenUp
  <2> QED
    BY <2>1, <2>2, <2>4, <2>5, <2>6, <2>7 DEF PipelineInv
<1>8. CASE StartFrame
  <2>1. at = "publish" /\ at' = "read" /\ EmptyFrame
    BY <1>8 DEF StartFrame
  <2>2. Idle /\ computeNum = 0 /\ splitter \in {"packet", "timeout"}
    BY <1>1, <2>1 DEF Matched, PipelineInv
  <2>3. UNCHANGED <<computeNum, handle, threads, item>> /\ Workers' = Workers
    BY <1>8 DEF StartFrame, dealVars, Workers
  <2>4. \A h \in Workers' : busy'[h] = None /\ handle'[h] = <<>>
    BY <2>1, <2>2, <2>3, NobodyIsDealt DEF Idle, EmptyFrame
  <2>5. First' = 0 /\ Queued' /\ Filled'
    <3>1. CASE splitter = "timeout"
      <4>1. packetIndex' = 0 /\ packetNum' = 0 /\ raw' = {} /\ decoded' = <<>> /\ item' = None
        BY <1>8, <2>2, <2>3, <3>1 DEF StartFrame, Idle
      <4> QED
        BY <4>1, NothingQueued
    <3>2. CASE splitter = "packet"
      <4>1. /\ packetIndex' = 1 /\ packetNum' = 1 /\ raw' = {0} /\ decoded' = <<0>> /\ item' = None
        BY <1>8, <2>2, <2>3, <3>2 DEF StartFrame, Idle, Queue
      <4> QED
        BY <4>1 DEF First, Queued, Filled
    <3> QED
      BY <2>2, <3>1, <3>2
  <2>6. Frame'
    BY <2>2, <2>3, <2>4, <2>5, FreshFrame
  <2> QED
    BY <2>1, <2>6 DEF PipelineInv, Frame, Matched, GivenUp
<1>9. CASE ClearDecoded
  BY <1>9 DEF ClearDecoded, PipelineInv, GivenUp
<1>10. CASE ClearHandle
  BY <1>10 DEF ClearHandle, PipelineInv, GivenUp
<1>11. CASE Restart
  <2>1. /\ at = "sleep" /\ at' = "read" /\ Drained /\ EmptyFrame
        /\ raw' = {} /\ packetNum' = 0 /\ computeNum' = 0
        /\ UNCHANGED <<decoded, handle, threads, packetIndex, item>> /\ Workers' = Workers
    BY <1>11 DEF Restart, dealVars, Workers
  <2>2. packetIndex' = 0 /\ decoded' = <<>> /\ item' = None
    BY <2>1 DEF PipelineInv, GivenUp, Drained
  <2>3. First' = 0 /\ Queued' /\ Filled'
    BY <2>1, <2>2, NothingQueued
  <2>4. \A h \in Workers' : busy'[h] = None /\ handle'[h] = <<>>
    BY <2>1 DEF Drained, EmptyFrame
  <2>5. Frame'
    BY <2>1, <2>3, <2>4, FreshFrame
  <2> QED
    BY <2>1, <2>5 DEF PipelineInv, Frame, Matched, GivenUp
<1> QED
  BY <1>3, <1>4, <1>5, <1>6, <1>7, <1>8, <1>9, <1>10, <1>11 DEF RunNext

-----------------------------------------------------------------------------
(* ParserThread and the workers.                                            *)

LEMMA AtWork ==
  ASSUME TypeOK, PipelineInv, ~GivenUp, ~Idle
  PROVE  Frame /\ at \notin {"reset", "publish"}
<1>1. Frame /\ Matched
  BY DEF PipelineInv, Frame
<1>2. at # "publish"
  BY <1>1 DEF Matched
<1>3. ASSUME at = "reset" PROVE FALSE
  BY <1>1, <1>2, <1>3, MatchedIsIdle DEF Matched
<1> QED
  BY <1>1, <1>2, <1>3

(* The first slot that ParserThread still has goes to a worker.             *)
LEMMA HandedOut ==
  ASSUME TypeOK, Frame, at # "publish", NEW w \in Workers,
         \A h \in Workers : h # w => handle'[h] = handle[h] /\ busy'[h] = busy[h],
         Dealt(handle'[w], busy'[w]) = Dealt(handle[w], busy[w]) \cup {First},
         NoneTwice(handle'[w], busy'[w]),
         busy'[w] # None => busy'[w].whole,
         First' = First + 1, UNCHANGED <<threads, points, computeNum>>
  PROVE  Apart' /\ Counted'
<1>1. Workers' = Workers
  BY DEF Workers
<1>2. /\ First \in Nat /\ First \notin OnTheirWay /\ OnTheirWay \subseteq 0..First-1
      /\ IsFiniteSet(OnTheirWay) /\ Cardinality(OnTheirWay) \in Nat /\ computeNum \in Nat
      /\ computeNum + Cardinality(OnTheirWay) = First
  <2>1. First \in Nat /\ OnTheirWay \subseteq 0..First-1
    BY DEF Frame, Queued, Apart
  <2> QED
    BY <2>1, FrameFacts DEF Frame, Counted
<1>3. OnTheirWay' = OnTheirWay \cup {First} /\ Disjoint(handle', busy', Workers)
  <2>1. First \notin Dealings(handle, busy, Workers) /\ Disjoint(handle, busy, Workers)
    BY <1>2 DEF OnTheirWay, Frame, Apart
  <2>2. /\ Dealings(handle', busy', Workers) = Dealings(handle, busy, Workers) \cup {First}
        /\ Disjoint(handle', busy', Workers)
    BY <2>1, OneIsDealt
  <2> QED
    BY <1>1, <2>2 DEF OnTheirWay
<1>4. Cardinality(OnTheirWay') = Cardinality(OnTheirWay) + 1
  BY <1>2, <1>3, FS_AddElement
<1>5. 0..First'-1 = (0..First-1) \cup {First}
  BY <1>2
<1>6. Apart'
  BY <1>1, <1>2, <1>3, <1>5 DEF Frame, Apart
<1>7. computeNum' + Cardinality(OnTheirWay') = First'
  BY <1>2, <1>4
<1> QED
  BY <1>1, <1>3, <1>5, <1>6, <1>7 DEF Frame, Counted

LEMMA HeadIsFirst ==
  ASSUME TypeOK, Queued, item = None, decoded # <<>>, decoded' = Tail(decoded),
         packetIndex' = packetIndex
  PROVE  /\ Head(decoded) = First /\ Head(decoded) \in Slots /\ First < packetIndex
         /\ item' = None => First' = First + 1 /\ Queued'
         /\ item' = First /\ First # None => First' = First /\ Queued'
<1>1. /\ Len(decoded) \in Nat \ {0} /\ packetIndex \in Nat /\ Head(decoded) = decoded[1]
      /\ Head(decoded) \in Slots /\ Len(decoded') = Len(decoded) - 1
      /\ \A i \in 1..Len(decoded') : decoded'[i] = decoded[i+1]
  BY HeadTailProperties, EmptySeq, LenProperties, PipelineAssumption DEF TypeOK
<1>2. \A i \in 1..Len(decoded) : decoded[i] = packetIndex - Len(decoded) + i - 1
  BY DEF Queued
<1>3. First = packetIndex - Len(decoded) /\ First \in Nat
  BY <1>1 DEF First, Queued
<1>4. decoded[1] = First /\ First < packetIndex
  BY <1>1, <1>2, <1>3
<1>5. \A i \in 1..Len(decoded') : decoded'[i] = packetIndex' - Len(decoded') + i - 1
  BY <1>1, <1>2
<1>6. ASSUME item' = None PROVE First' = First + 1 /\ Queued'
  <2>1. First' = packetIndex' - Len(decoded') - 0
    BY <1>6 DEF First
  <2>2. First' = First + 1 /\ First' \in Nat
    BY <1>1, <1>3, <2>1
  <2> QED
    BY <1>5, <1>6, <2>2 DEF Queued
<1>7. ASSUME item' = First, First # None PROVE First' = First /\ Queued'
  <2>1. First' = packetIndex' - Len(decoded') - 1
    BY <1>7 DEF First
  <2>2. First' = First
    BY <1>1, <1>3, <2>1
  <2> QED
    BY <1>3, <1>5, <1>7, <2>2 DEF Queued
<1> QED
  BY <1>1, <1>4, <1>6, <1>7

LEMMA ParserPopKeepsFrame ==
  ASSUME TypeOK, Frame, at # "publish", ParserPop
  PROVE  Frame'
<1>1. /\ decoded # <<>> /\ item = None /\ decoded' = Tail(decoded)
      /\ UNCHANGED <<packetNum, raw, points, computeNum, handle, threads, packetIndex>>
  BY DEF ParserPop, frameVars, runVars
<1>2. Head(decoded) = First /\ First \in Slots /\ First < packetIndex /\ First \in Nat
  BY <1>1, HeadIsFirst DEF Frame, Queued
<1>3. /\ item' = None => First' = First + 1 /\ Queued'
      /\ item' = First /\ First # None => First' = First /\ Queued'
  BY <1>1, HeadIsFirst DEF Frame
<1>4. Filled' /\ First \in raw
  BY <1>1, <1>2, PipelineAssumption DEF Frame, Filled, TypeOK
<1>5. CASE threads < 2
  <2>1. /\ 0 \in Workers /\ busy[0] = None /\ item' = None
        /\ busy' = [busy EXCEPT ![0] = Begin(First)]
    BY <1>1, <1>2, <1>5, ThereAreWorkers DEF ParserPop
  <2>2. Begin(First) # None /\ Begin(First).slot = First /\ Begin(First).whole
    BY <1>2, <1>4, BeginIsJob
  <2>3. busy'[0] = Begin(First) /\ \A h \in Workers : h # 0 => busy'[h] = busy[h]
    BY <2>1 DEF TypeOK
  <2>4. First \notin Entries(handle[0]) /\ Injective(handle[0])
    <3>1. First \notin OnTheirWay
      BY <1>2 DEF Frame, Apart
    <3> QED
      BY <2>1, <3>1 DEF OnTheirWay, Dealings, Dealt, Frame, Apart, NoneTwice
  <2>5. Dealt(handle'[0], busy'[0]) = Dealt(handle[0], busy[0]) \cup {First}
    BY <1>1, <2>1, <2>2, <2>3 DEF Dealt
  <2>6. NoneTwice(handle'[0], busy'[0])
    BY <1>1, <2>2, <2>3, <2>4 DEF NoneTwice
  <2>7. Apart' /\ Counted'
    BY <1>1, <1>3, <2>1, <2>2, <2>3, <2>5, <2>6, HandedOut
  <2> QED
    BY <1>3, <1>4, <2>1, <2>7 DEF Frame
<1>6. CASE ~(threads < 2)
  <2>1. item' = First /\ busy' = busy /\ First # None
    BY <1>1, <1>2, <1>6, PipelineAssumption DEF ParserPop
  <2>2. OnTheirWay' = OnTheirWay /\ Workers' = Workers /\ Apart'
    BY <1>1, <1>3, <2>1, WorkersUntouched DEF Frame
  <2>3. Counted'
    BY <1>1, <1>3, <2>1, <2>2 DEF Frame, Counted
  <2> QED
    BY <1>3, <1>4, <2>1, <2>2, <2>3 DEF Frame
<1> QED
  BY <1>5, <1>6

(* A worker's queue never loses an index: it would hold one twice.          *)
LEMMA DealKeepsFrame ==
  ASSUME TypeOK, Frame, at # "publish", Deal
  PROVE  Frame'
<1> DEFINE h == turn % threads
           q == Append(handle[h], item)
<1>1. /\ item # None /\ item' = None
      /\ handle' = [handle EXCEPT ![h] = IF Len(q) > BufferSize THEN Tail(q) ELSE q]
      /\ UNCHANGED <<packetNum, raw, points, computeNum, decoded, threads, packetIndex, busy>>
  BY DEF Deal, frameVars, runVars
<1>2. h \in Workers
  BY ThereAreWorkers DEF TypeOK, Workers
<1>3. handle[h] \in Seq(Slots) /\ item \in Slots
  BY <1>1, <1>2 DEF TypeOK
<1>4. /\ First \in Nat /\ item = First /\ OnTheirWay \subseteq 0..First-1
      /\ Len(decoded) \in Nat /\ packetIndex \in 0..MaxPackets /\ First < packetIndex
  <2>1. First \in Nat /\ item = First /\ OnTheirWay \subseteq 0..First-1
    BY <1>1 DEF Frame, Queued, Apart
  <2>2. Len(decoded) \in Nat /\ packetIndex \in Nat /\ First <= packetIndex - Len(decoded) - 1
    BY <1>1, FrameFacts DEF Frame
  <2> QED
    BY <2>1, <2>2 DEF TypeOK
<1>5. /\ Entries(handle[h]) \subseteq OnTheirWay /\ Injective(handle[h])
      /\ busy[h] # None => busy[h].slot \in OnTheirWay /\ busy[h].slot \notin Entries(handle[h])
  <2>1. Dealt(handle[h], busy[h]) \subseteq OnTheirWay
    BY <1>2 DEF OnTheirWay, Dealings
  <2>2. NoneTwice(handle[h], busy[h])
    BY <1>2 DEF Frame, Apart
  <2> QED
    BY <2>1, <2>2 DEF Dealt, NoneTwice
<1>6. First \notin OnTheirWay
  BY <1>4
<1>7. /\ Entries(q) = Entries(handle[h]) \cup {First} /\ Injective(q)
      /\ Len(q) = Len(handle[h]) + 1
  BY <1>3, <1>4, <1>5, <1>6, EntriesOfAppend, AppendProperties
<1>8. Len(handle[h]) \in Nat /\ Len(handle[h]) <= First
  BY <1>3, <1>4, <1>5, QueueIsShort, LenProperties
<1>9. ~(Len(q) > BufferSize)
  BY <1>4, <1>7, <1>8, PipelineAssumption
<1> HIDE DEF h, q
<1>10. handle'[h] = q /\ \A g \in Workers : g # h => handle'[g] = handle[g]
  BY <1>1, <1>2, <1>9 DEF TypeOK
<1>11. Dealt(handle'[h], busy'[h]) = Dealt(handle[h], busy[h]) \cup {First}
  BY <1>1, <1>7, <1>10 DEF Dealt
<1>12. NoneTwice(handle'[h], busy'[h])
  BY <1>1, <1>5, <1>6, <1>7, <1>10 DEF NoneTwice
<1>13. busy'[h] # None => busy'[h].whole
  BY <1>1, <1>2 DEF Frame, Counted
<1>14. First' = First + 1
  <2>1. First' = packetIndex - Len(decoded) - 0 /\ First = packetIndex - Len(decoded) - 1
    BY <1>1 DEF First
  <2> QED
    BY <1>4, <2>1
<1>15. Apart' /\ Counted'
  BY <1>1, <1>2, <1>10, <1>11, <1>12, <1>13, <1>14, HandedOut
<1>16. Queued' /\ Filled'
  BY <1>1, <1>4, <1>14 DEF Frame, Queued, Filled
<1> QED
  BY <1>15, <1>16 DEF Frame

LEMMA HandlePopKeepsFrame ==
  ASSUME TypeOK, Frame, at # "publish", NEW w \in Workers, HandlePop(w)
  PROVE  Frame'
<1> DEFINE n == Head(handle[w])
<1>1. /\ busy[w] = None /\ handle[w] # <<>>
      /\ handle' = [handle EXCEPT ![w] = Tail(handle[w])]
      /\ busy' = [busy EXCEPT ![w] = Begin(n)]
      /\ UNCHANGED <<packetNum, raw, points, computeNum, decoded, threads, packetIndex, item>>
  BY DEF HandlePop, frameVars, runVars, dealVars
<1>2. handle[w] \in Seq(Slots)
  BY DEF TypeOK
<1>3. n \in Slots /\ Entries(handle[w]) = {n} \cup Entries(Tail(handle[w]))
  BY <1>1, <1>2, EntriesOfTail, HeadTailProperties
<1>4. Injective(Tail(handle[w])) /\ n \notin Entries(Tail(handle[w]))
  BY <1>1, <1>2, EntriesOfTail DEF Frame, Apart, NoneTwice
<1> HIDE DEF n
<1>5. n \in raw
  <2>1. n \in OnTheirWay
    BY <1>3 DEF OnTheirWay, Dealings, Dealt
  <2>2. n \in 0..First-1 /\ First \in Nat /\ First <= packetIndex - Len(decoded)
        /\ Len(decoded) \in Nat /\ packetIndex \in Nat
    BY <2>1, FrameFacts DEF Frame, Apart
  <2> QED
    BY <2>2 DEF Frame, Filled
<1>6. Begin(n) # None /\ Begin(n).slot = n /\ Begin(n).whole
  BY <1>3, <1>5, BeginIsJob
<1>7. /\ busy'[w] = Begin(n) /\ handle'[w] = Tail(handle[w])
      /\ \A h \in Workers : h # w => busy'[h] = busy[h] /\ handle'[h] = handle[h]
  BY <1>1 DEF TypeOK
<1>8. Dealt(handle'[w], busy'[w]) = Dealt(handle[w], busy[w]) /\ NoneTwice(handle'[w], busy'[w])
  BY <1>1, <1>3, <1>4, <1>6, <1>7 DEF Dealt, NoneTwice
<1>9. First' = First /\ Workers' = Workers
  BY <1>1 DEF First, Workers
<1>10. OnTheirWay' = OnTheirWay /\ Disjoint(handle', busy', Workers)
  <2>1. Disjoint(handle, busy, Workers)
    BY DEF Frame, Apart
  <2>2. /\ Dealings(handle', busy', Workers) = Dealings(handle, busy, Workers)
        /\ Disjoint(handle', busy', Workers)
    BY <1>7, <1>8, <2>1, OneIsBegun
  <2> QED
    BY <1>9, <2>2 DEF OnTheirWay
<1>11. Apart'
  BY <1>7, <1>8, <1>9, <1>10 DEF Frame, Apart
<1>12. Counted'
  BY <1>1, <1>6, <1>7, <1>9, <1>10 DEF Frame, Counted
<1>13. Queued' /\ Filled'
  BY <1>1, <1>9 DEF Frame, Queued, Filled
<1> QED
  BY <1>11, <1>12, <1>13 DEF Frame

LEMMA ComputeKeepsFrame ==
  ASSUME TypeOK, Frame, at # "publish", NEW w \in Workers, ComputeXYZI(w)
  PROVE  Frame'
<1> DEFINE n == busy[w].slot
<1>1. /\ busy[w] # None /\ WritePoints(busy[w]) /\ computeNum' = computeNum + 1
      /\ busy' = [busy EXCEPT ![w] = None]
      /\ UNCHANGED <<packetNum, raw, decoded, handle, threads, packetIndex, item>>
  BY DEF ComputeXYZI, runVars, dealVars
<1>2. n \in Dealt(handle[w], busy[w]) /\ n \notin Entries(handle[w])
  BY <1>1 DEF Dealt, Frame, Apart, NoneTwice
<1>3. busy[w].whole
  BY <1>1 DEF Frame, Counted
<1>4. n \in OnTheirWay
  BY <1>2 DEF OnTheirWay, Dealings
<1>5. n \in 0..First-1 /\ First \in Nat /\ First <= packetIndex - Len(decoded)
      /\ Len(decoded) \in Nat /\ packetIndex \in Nat /\ computeNum \in Nat
      /\ IsFiniteSet(OnTheirWay) /\ Cardinality(OnTheirWay) \in Nat
  BY <1>4, FrameFacts DEF Frame, Apart
<1>6. n \in raw
  BY <1>5 DEF Frame, Filled
<1>7. points' = points \cup {n}
  <2>1. busy[w].whole = TRUE
    BY <1>1, <1>3 DEF TypeOK, Job
  <2> QED
    BY <1>1, <1>6, <2>1 DEF WritePoints
<1> HIDE DEF n
<1>8. /\ busy'[w] = None /\ handle'[w] = handle[w]
      /\ \A h \in Workers : h # w => busy'[h] = busy[h] /\ handle'[h] = handle[h]
  BY <1>1 DEF TypeOK
<1>9. Dealt(handle'[w], busy'[w]) = Dealt(handle[w], busy[w]) \ {n}
  BY <1>1, <1>2, <1>8 DEF Dealt, n
<1>10. NoneTwice(handle'[w], busy'[w])
  BY <1>8 DEF Frame, Apart, NoneTwice
<1>11. First' = First /\ Workers' = Workers
  BY <1>1 DEF First, Workers
<1>12. OnTheirWay' = OnTheirWay \ {n} /\ Disjoint(handle', busy', Workers)
  <2>1. Disjoint(handle, busy, Workers)
    BY DEF Frame, Apart
  <2>2. \A h \in Workers : h # w => handle'[h] = handle[h] /\ busy'[h] = busy[h]
    BY <1>8
  <2>3. n \in Dealt(handle[w], busy[w])
    BY <1>2
  <2>4. /\ Dealings(handle', busy', Workers) = Dealings(handle, busy, Workers) \ {n}
        /\ Disjoint(handle', busy', Workers)
    BY <1>9, <2>1, <2>2, <2>3, OneIsComputed
  <2> QED
    BY <1>11, <2>4 DEF OnTheirWay
<1>13. Cardinality(OnTheirWay') = Cardinality(OnTheirWay) - 1
  BY <1>4, <1>5, <1>12, FS_RemoveElement
<1>14. Apart'
  BY <1>8, <1>10, <1>11, <1>12 DEF Frame, Apart
<1>15. computeNum' + Cardinality(OnTheirWay') = First'
  <2>1. computeNum + Cardinality(OnTheirWay) = First
    BY DEF Frame, Counted
  <2> QED
    BY <1>1, <1>5, <1>11, <1>13, <2>1
<1>16. Counted'
  BY <1>7, <1>8, <1>11, <1>12, <1>15 DEF Frame, Counted
<1>17. Queued' /\ Filled'
  BY <1>1, <1>11 DEF Frame, Queued, Filled
<1> QED
  BY <1>14, <1>16, <1>17 DEF Frame

LEMMA WorkersKeepInv ==
  ASSUME TypeOK, PipelineInv,
         ParserPop \/ Deal \/ \E h \in Workers : HandlePop(h) \/ ComputeXYZI(h)
  PROVE  PipelineInv'
<1>1. at' = at /\ packetIndex' = packetIndex /\ splitter' = splitter
  BY DEF ParserPop, Deal, HandlePop, ComputeXYZI, runVars
<1>2. CASE GivenUp
  <2>1. packetIndex = 0 /\ decoded = <<>>
    BY <1>2 DEF PipelineInv
  <2>2. decoded' = decoded
    BY <2>1 DEF ParserPop, Deal, HandlePop, ComputeXYZI
  <2> QED
    BY <1>1, <1>2, <2>1, <2>2 DEF PipelineInv, GivenUp
<1>3. CASE ~GivenUp
  <2>1. ~Idle
    <3>1. ASSUME Idle PROVE FALSE
      <4>1. decoded = <<>> /\ item = None /\ \A h \in Workers : busy[h] = None /\ handle[h] = <<>>
        BY <3>1, NobodyIsDealt DEF Idle
      <4> QED
        BY <4>1 DEF ParserPop, Deal, HandlePop, ComputeXYZI
    <3> QED
      BY <3>1
  <2>2. Frame /\ at \notin {"reset", "publish"}
    BY <1>3, <2>1, AtWork
  <2>3. Frame'
    BY <2>2, ParserPopKeepsFrame, DealKeepsFrame, HandlePopKeepsFrame, ComputeKeepsFrame
  <2> QED
    BY <1>1, <1>3, <2>2, <2>3 DEF PipelineInv, Frame, Matched, GivenUp
<1> QED
  BY <1>2, <1>3

-----------------------------------------------------------------------------
LEMMA PipelineInvInit == Init => PipelineInv
<1> SUFFICES ASSUME Init PROVE PipelineInv
  OBVIOUS
<1>1. /\ packetNum = 0 /\ raw = {} /\ computeNum = 0 /\ decoded = <<>> /\ item = None
      /\ packetIndex = 0 /\ at = "read"
      /\ \A h \in Workers : busy[h] = None /\ handle[h] = <<>>
  BY DEF Init
<1>2. Len(decoded) = 0 /\ 0..0-1 = {} /\ 1..0 = {}
  BY <1>1, EmptySeq
<1>3. First = 0
  <2>1. First = packetIndex - Len(decoded) - 0
    BY <1>1 DEF First
  <2> QED
    BY <1>1, <1>2, <2>1
<1>4. Queued /\ Filled
  BY <1>1, <1>2, <1>3 DEF Queued, Filled
<1>5. \A h \in Workers : NoneTwice(handle[h], busy[h]) /\ Dealt(handle[h], busy[h]) = {}
  BY <1>1, EntriesOfEmpty DEF NoneTwice, Dealt
<1>6. OnTheirWay = {} /\ Cardinality(OnTheirWay) = 0
  <2>1. OnTheirWay = {}
    BY <1>5 DEF OnTheirWay, Dealings
  <2> QED
    BY <2>1, FS_EmptySet
<1>7. Apart
  BY <1>5, <1>6 DEF Apart, Disjoint
<1>8. computeNum + Cardinality(OnTheirWay) = First
  BY <1>1, <1>3, <1>6
<1>9. Counted
  BY <1>1, <1>2, <1>3, <1>8 DEF Counted
<1> QED
  BY <1>1, <1>4, <1>7, <1>9 DEF PipelineInv, Matched, GivenUp

LEMMA PipelineInvariant ==
  ASSUME SleepDrains, ~MayResize
  PROVE  Spec => [](TypeOK /\ PipelineInv)
<1>1. Spec => []TypeOK
  BY PipelineTypeCorrect
<1>2. TypeOK /\ PipelineInv /\ [Next]_vars => PipelineInv'
  <2> SUFFICES ASSUME TypeOK, PipelineInv, [Next]_vars PROVE PipelineInv'
    OBVIOUS
  <2>1. CASE RunNext
    BY <2>1, RunKeepsInv
  <2>2. CASE ParserPop \/ Deal \/ \E h \in Workers : HandlePop(h) \/ ComputeXYZI(h)
    BY <2>2, WorkersKeepInv
  <2>3. CASE UNCHANGED vars
    <3>1. /\ UNCHANGED <<packetNum, raw, points, computeNum, decoded, handle, threads, at,
                         packetIndex, splitter, item, busy>>
      BY <2>3 DEF vars, frameVars, runVars, dealVars
    <3>2. First' = First
      BY <3>1 DEF First
    <3>3. OnTheirWay' = OnTheirWay /\ Workers' = Workers /\ (Apart => Apart')
      BY <3>1, <3>2, WorkersUntouched
    <3>4. /\ Queued => Queued'
          /\ Counted => Counted'
          /\ Matched => Matched'
          /\ Filled => Filled'
      BY <3>1, <3>2, <3>3 DEF Queued, Counted, Matched, Idle, Filled
    <3> QED
      BY <3>1, <3>3, <3>4 DEF PipelineInv, GivenUp
  <2> QED
    BY <2>1, <2>2, <2>3 DEF Next
<1> QED
  BY <1>1, <1>2, PipelineInvInit, PTL DEF Spec

(* The frame the callbacks get is whole, for every size of a frame, every   *)
(* bound of the queues and every number of threads.                         *)
THEOREM PublishedFramesWhole ==
  ASSUME SleepDrains, ~MayResize
  PROVE  Spec => []FramesWhole
<1>1. TypeOK /\ PipelineInv => FramesWhole
  <2> SUFFICES ASSUME TypeOK, PipelineInv, at = "publish" PROVE 0..packetNum-1 \subseteq points
    BY DEF FramesWhole
  <2>1. Idle /\ Filled /\ Counted /\ Queued
    BY DEF PipelineInv, GivenUp, Matched
  <2>2. First = packetNum
    <3>1. First = packetIndex - Len(decoded) - 0 /\ Len(decoded) = 0
      BY <2>1, EmptySeq DEF First, Idle
    <3> QED
      BY <2>1, <3>1 DEF TypeOK, Filled
  <2> QED
    BY <2>1, <2>2 DEF Counted, Idle
<1> QED
  BY <1>1, PipelineInvariant, PTL

(* ... and nobody computes into it while they read.                         *)
THEOREM CallbackIsAlone ==
  ASSUME SleepDrains, ~MayResize
  PROVE  Spec => []CallbackAlone
<1>1. TypeOK /\ PipelineInv => CallbackAlone
  BY NobodyIsDealt DEF PipelineInv, GivenUp, Matched, Idle, CallbackAlone
<1> QED
  BY <1>1, PipelineInvariant, PTL

(* No packet is written over a slot that a thread computes from: a new slot *)
(* is behind all that are on their way, and slot 0 is written again, for a  *)
(* new frame, when none is on its way.                                      *)
THEOREM PacketsStayWhole ==
  ASSUME SleepDrains, ~MayResize
  PROVE  Spec => NoTornPacket
<1> DEFINE Kept == \A h \in Workers : busy[h] # None => busy[h].slot \notin Written
<1>1. TypeOK /\ PipelineInv /\ [Next]_vars => [Kept]_vars
  <2> SUFFICES ASSUME TypeOK, PipelineInv, Next, NEW h \in Workers, busy[h] # None
               PROVE  busy[h].slot \notin Written
    OBVIOUS
  <2>1. CASE PointPacket
    <3>1. Frame /\ raw' = raw \cup {packetNum}
      BY <2>1 DEF PointPacket, PipelineInv, GivenUp, Frame
    <3>2. busy[h].slot \in OnTheirWay
      BY DEF OnTheirWay, Dealings, Dealt
    <3>3. busy[h].slot \in 0..First-1 /\ packetNum = packetIndex /\ raw = 0..packetNum-1
      BY <3>1, <3>2 DEF Frame, Apart, Filled
    <3>4. /\ First \in Nat /\ packetIndex \in Nat /\ Len(decoded) \in Nat
          /\ First <= packetIndex - Len(decoded)
      BY <3>1, FrameFacts DEF Frame
    <3> QED
      BY <2>1, <3>1, <3>3, <3>4 DEF PointPacket, Written
  <2>2. CASE StartFrame
    <3>1. Idle
      BY <2>2 DEF StartFrame, PipelineInv, GivenUp, Matched
    <3> QED
      BY <3>1, NobodyIsDealt DEF Idle
  <2>3. CASE Restart
    BY <2>3 DEF Restart, Written
  <2>4. CASE ~(PointPacket \/ StartFrame \/ Restart)
    <3>1. raw' = raw /\ ~(at = "publish" /\ at' = "read")
      BY <2>4 DEF Next, RunNext, SplitPacket, CountMatches, KeepWaiting, ResetCount, ClearDecoded,
                  ClearHandle, ParserPop, Deal, HandlePop, ComputeXYZI, vars, frameVars,
                  runVars
    <3> QED
      BY <3>1 DEF Written
  <2> QED
    BY <2>1, <2>2, <2>3, <2>4
<1> QED
  BY <1>1, PipelineInvariant, PTL DEF Spec, NoTornPacket
=============================================================================
