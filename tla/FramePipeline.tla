---------------------------- MODULE FramePipeline ----------------------------
(***************************************************************************)
(* From decoded packets to published frames.  Run decodes each packet into *)
(* a slot of the one frame it keeps, queues the slot's index for           *)
(* ComputeXYZI, and at a frame split waits until the computed packets are  *)
(* as many as the queued ones, publishes the frame and reuses it.          *)
(* ParserThread computes the points of a slot itself, or deals the indices *)
(* out to handle threads.  The threads share nothing that says which frame *)
(* an index belongs to: only the count.                                    *)
(***************************************************************************)
EXTENDS Integers, Sequences, FiniteSets

CONSTANTS
  MaxPackets,      \* frame_.maxPacketPerFrame
  ThreadCounts,    \* the values handle_thread_count_ may have
  BufferSize,      \* kPacketBufferSize, the bound of every index queue
  SleepDrains,     \* do queued computations end within the 100 us of a reset?
  MayResize,       \* may a splitting packet have another size than the frame's?
  None

ASSUME PipelineAssumption ==
  /\ MaxPackets \in Nat \ {0} /\ BufferSize \in Nat /\ BufferSize >= MaxPackets
  /\ ThreadCounts \subseteq Nat \ {0} /\ ThreadCounts # {} /\ IsFiniteSet(ThreadCounts)
  /\ SleepDrains \in BOOLEAN /\ MayResize \in BOOLEAN
  /\ None \notin Nat \cup [slot : Nat, whole : BOOLEAN]

Slots == 0..MaxPackets-1

VARIABLES
  (* the frame and the parser, shared by all threads *)
  packetNum,      \* frame_.packet_num
  raw,            \* slots of point_cloud_raw_data that hold a packet of this frame
  points,         \* slots of points that were computed from such a packet
  computeNum,     \* compute_packet_num
  decoded,        \* decoded_packets_buffer_
  handle,         \* handle_thread_packet_buffer_, one queue per handle thread
  threads,        \* handle_thread_count_, set before the threads start
  (* the threads' locals *)
  at,             \* where Run is
  packetIndex,    \* Run's packet_index
  splitter,       \* the packet that ended the frame
  item,           \* the index ParserThread holds, or None
  turn,           \* ParserThread's nUDPCount
  busy            \* what each computing thread is inside ComputeXYZI with, or None

frameVars == <<packetNum, raw, points>>
runVars == <<at, packetIndex, splitter>>
dealVars == <<item, turn>>
vars == <<frameVars, computeNum, decoded, handle, threads, runVars, dealVars, busy>>

Workers == 0 .. threads-1
Splitters == {"packet", "timeout"} \cup IF MayResize THEN {"resized"} ELSE {}

Init ==
  /\ packetNum = 0 /\ raw = {} /\ points = {}
  /\ computeNum = 0 /\ decoded = <<>>
  /\ threads \in ThreadCounts
  /\ handle = [h \in Workers |-> <<>>]
  /\ at = "read" /\ packetIndex = 0 /\ splitter = None
  /\ item = None /\ turn = 0
  /\ busy = [h \in Workers |-> None]

-----------------------------------------------------------------------------
(* ComputeXYZI, that is the push onto decoded_packets_buffer_: blocks while *)
(* the ring is full.                                                        *)
Queue(index) == Len(decoded) < BufferSize /\ decoded' = Append(decoded, index)

(***************************************************************************)
(* A packet of the frame under way.  Packets that DecodePacket refuses,    *)
(* and those beyond the last slot, change nothing here.                    *)
(***************************************************************************)
PointPacket ==
  /\ at = "read" /\ packetNum < MaxPackets
  /\ packetNum' = packetNum + 1 /\ raw' = raw \cup {packetNum}
  /\ IF packetNum' # packetIndex
     THEN Queue(packetIndex) /\ packetIndex' = packetIndex + 1
     ELSE UNCHANGED <<decoded, packetIndex>>
  /\ at' = IF packetIndex' >= MaxPackets THEN "overflow" ELSE "read"
  /\ UNCHANGED <<points, computeNum, handle, threads, splitter, dealVars, busy>>

(* A packet, or a silence, that completes the scan. *)
SplitPacket ==
  /\ at = "read"
  /\ \E s \in Splitters : splitter' = s
  /\ at' = "wait"
  /\ UNCHANGED <<frameVars, computeNum, decoded, handle, threads, packetIndex, dealVars, busy>>

(* Fault: one packet may still be computing. *)
CountAlmostMatches ==
  /\ at = "wait" /\ computeNum + 1 >= packetIndex
  /\ at' = "reset"
  /\ UNCHANGED <<frameVars, computeNum, decoded, handle, threads, packetIndex, splitter,
                 dealVars, busy>>

(* ComputeXYZIComplete compares the count ... *)
CountMatches ==
  /\ at = "wait" /\ computeNum = packetIndex
  /\ at' = "reset"
  /\ UNCHANGED <<frameVars, computeNum, decoded, handle, threads, packetIndex, splitter,
                 dealVars, busy>>

(* ... the loop looks again after 100 us, and at nothing else ... *)
KeepWaiting == at = "wait" /\ computeNum # packetIndex /\ UNCHANGED vars

(* Fault: the count goes on from the last frame's. *)
ResetCountForgotten ==
  /\ at = "reset"
  /\ at' = "publish"
  /\ UNCHANGED <<frameVars, computeNum, decoded, handle, threads, packetIndex, splitter,
                 dealVars, busy>>

(* ... and the count that matched is set to zero in a step of its own. *)
ResetCount ==
  /\ at = "reset"
  /\ computeNum' = 0
  /\ at' = "publish"
  /\ UNCHANGED <<frameVars, decoded, handle, threads, packetIndex, splitter, dealVars, busy>>

(* No slot holds anything of the frame that starts now, whatever is still computing. *)
EmptyFrame ==
  /\ points' = {}
  /\ busy' = [h \in Workers |-> IF busy[h] = None THEN None
                                ELSE [busy[h] EXCEPT !.whole = FALSE]]

(***************************************************************************)
(* The callbacks have returned: Update, resetFrame, and the packet that    *)
(* split the frame becomes the new frame's first.  Its index is queued     *)
(* whether or not this second DecodePacket took it.                        *)
(***************************************************************************)
StartFrame ==
  /\ at = "publish"
  /\ EmptyFrame
  /\ raw' = IF splitter = "packet" THEN {0} ELSE {}
  /\ packetNum' = IF splitter = "packet" THEN 1 ELSE 0
  /\ IF splitter = "timeout"
     THEN packetIndex' = 0 /\ UNCHANGED decoded
     ELSE Queue(0) /\ packetIndex' = 1
  /\ at' = "read" /\ splitter' = None
  /\ UNCHANGED <<computeNum, handle, threads, dealVars>>

(* Too many packets without a split: resetFrame, then ClearPacketBuffer ... *)
ClearDecoded ==
  /\ at = "overflow"
  /\ packetIndex' = 0 /\ decoded' = <<>>
  /\ at' = "clear"
  /\ UNCHANGED <<frameVars, computeNum, handle, threads, splitter, dealVars, busy>>

(* ... which empties the handle threads' queues too, if there are any ... *)
ClearHandle ==
  /\ at = "clear"
  /\ handle' = [h \in Workers |-> <<>>]
  /\ at' = "sleep"
  /\ UNCHANGED <<frameVars, computeNum, decoded, threads, packetIndex, splitter, dealVars, busy>>

Drained == item = None /\ \A h \in Workers : busy[h] = None /\ handle[h] = <<>>

(* Fault: the count goes on from the frame that was given up. *)
RestartKeepsCount ==
  /\ at = "sleep"
  /\ Drained
  /\ EmptyFrame /\ raw' = {} /\ packetNum' = 0
  /\ at' = "read"
  /\ UNCHANGED <<computeNum, decoded, handle, threads, packetIndex, splitter, dealVars>>

(* ... then sleeps for 100 us, and starts over with the count at zero. *)
Restart ==
  /\ at = "sleep"
  /\ SleepDrains => Drained
  /\ EmptyFrame /\ raw' = {} /\ packetNum' = 0
  /\ computeNum' = 0
  /\ at' = "read"
  /\ UNCHANGED <<decoded, handle, threads, packetIndex, splitter, dealVars>>

RunNext == \/ PointPacket \/ SplitPacket \/ CountMatches \/ KeepWaiting \/ ResetCount \/ StartFrame
           \/ ClearDecoded \/ ClearHandle \/ Restart

-----------------------------------------------------------------------------
(* What a thread starts computing: it reads the slot as it is now. *)
Begin(index) == [slot |-> index, whole |-> index \in raw]

(* ParserThread takes an index; alone, it goes on to compute it. *)
ParserPop ==
  /\ decoded # <<>> /\ item = None
  /\ decoded' = Tail(decoded)
  /\ IF threads < 2
     THEN /\ busy[0] = None
          /\ busy' = [busy EXCEPT ![0] = Begin(Head(decoded))]
          /\ UNCHANGED item
     ELSE item' = Head(decoded) /\ UNCHANGED busy
  /\ UNCHANGED <<frameVars, computeNum, handle, threads, runVars, turn>>

(* ParserThread deals its index to the next handle thread; a queue past its *)
(* bound loses its oldest.                                                  *)
Deal ==
  /\ item # None
  /\ LET h == turn % threads
         q == Append(handle[h], item)
     IN /\ handle' = [handle EXCEPT ![h] = IF Len(q) > BufferSize THEN Tail(q) ELSE q]
        /\ turn' = h + 1
  /\ item' = None
  /\ UNCHANGED <<frameVars, computeNum, decoded, threads, runVars, busy>>

(* HandleThread takes an index from its queue and starts on it. *)
HandlePop(h) ==
  /\ busy[h] = None /\ handle[h] # <<>>
  /\ handle' = [handle EXCEPT ![h] = Tail(@)]
  /\ busy' = [busy EXCEPT ![h] = Begin(Head(handle[h]))]
  /\ UNCHANGED <<frameVars, computeNum, decoded, threads, runVars, dealVars>>

(* The points of the slot are written: those of the packet it held when the *)
(* thread began, or of the one written over it since.                       *)
WritePoints(b) ==
  \E whole \in {b.whole, b.slot \in raw} :
    points' = IF whole THEN points \cup {b.slot} ELSE points \ {b.slot}

(* The end of the parser's ComputeXYZI: points, then FrameNumAdd. *)
ComputeXYZI(h) ==
  /\ busy[h] # None
  /\ WritePoints(busy[h])
  /\ computeNum' = computeNum + 1
  /\ busy' = [busy EXCEPT ![h] = None]
  /\ UNCHANGED <<packetNum, raw, decoded, handle, threads, runVars, dealVars>>

Next == \/ RunNext
        \/ ParserPop \/ Deal
        \/ \E h \in Workers : HandlePop(h) \/ ComputeXYZI(h)

Spec == Init /\ [][Next]_vars

(***************************************************************************)
(* Every thread keeps running.  Nothing makes packets arrive.              *)
(***************************************************************************)
Fairness ==
  /\ WF_vars(CountMatches \/ ResetCount \/ StartFrame)
  /\ WF_vars(ClearDecoded \/ ClearHandle \/ Restart)
  /\ WF_vars(ParserPop \/ Deal)
  /\ \A h \in 0..MaxPackets : WF_vars(h \in Workers /\ (HandlePop(h) \/ ComputeXYZI(h)))

FairSpec == Spec /\ Fairness

-----------------------------------------------------------------------------
Job == [slot : Slots, whole : BOOLEAN]

(* Every index in the pipeline names a slot of the frame. *)
TypeOK ==
  /\ packetNum \in 0..MaxPackets /\ raw \subseteq Slots /\ points \subseteq Slots
  /\ computeNum \in Nat
  /\ decoded \in Seq(Slots) /\ Len(decoded) <= BufferSize
  /\ threads \in ThreadCounts
  /\ handle \in [Workers -> Seq(Slots)]
  /\ at \in {"read", "wait", "reset", "publish", "overflow", "clear", "sleep"}
  /\ packetIndex \in 0..MaxPackets
  /\ splitter \in Splitters \cup {None}
  /\ item \in Slots \cup {None} /\ turn \in 0..threads
  /\ busy \in [Workers -> Job \cup {None}]

(* The frame handed to the callbacks has the points of every one of its     *)
(* packets, and of no packet of an earlier frame.                           *)
FramesWhole == at = "publish" => 0..packetNum-1 \subseteq points

(* Nobody computes into the frame while the callbacks read it. *)
CallbackAlone ==
  at = "publish" => item = None /\ decoded = <<>>
                    /\ \A h \in Workers : busy[h] = None /\ handle[h] = <<>>

(* The slots a step of Run writes a packet to: a new one, or slot 0 again  *)
(* when the packet that ended a frame becomes the first of the next.       *)
Written == (raw' \ raw) \cup (IF at = "publish" /\ at' = "read" THEN raw' ELSE {})

(* No packet is written over a slot that a thread is computing from. *)
NoTornPacket ==
  [][\A h \in Workers : busy[h] # None => busy[h].slot \notin Written]_vars

(* Run does not wait forever for a count: the loop that waits looks at no   *)
(* stop flag, so Stop would hang with it.                                   *)
WaitEnds == at = "wait" ~> at = "read"

=============================================================================
