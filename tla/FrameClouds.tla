----------------------------- MODULE FrameClouds -----------------------------
(***************************************************************************)
(* From computed packets to the point cloud the callback gets.  Each packet *)
(* of a frame has PerPoints places in one array, of which the filters may   *)
(* leave some unused; at the end of the frame Run closes the gaps, or, with *)
(* remake_config, takes the array as a grid of angles; frames may be merged *)
(* before they are sent.  That Run is alone with the frame at its end is    *)
(* FramePipeline's subject.                                                 *)
(***************************************************************************)
EXTENDS Integers, Sequences, FiniteSets, SequencesExt

CONSTANTS
  Contents,    \* what filters may leave of a packet: sequences of [azi, elev]
  MaxPackets,  \* maxPacketPerFrame
  PerPoints,   \* per_points_num, at most maxPointPerPacket
  MinPoints,   \* kMinPointsOfOneFrame
  Rates,       \* multi_rate, 1 when frames are not merged
  AziScan, ElevScan,  \* max_azi_scan, max_elev_scan
  Resolution,  \* of the grid's angles, which begin at 0
  MaxClouds,   \* bound on the clouds that could be sent
  ForwardCopy, \* does memcpy copy overlapping ranges from front to back?
  NoneBelow,   \* no point lies less than a cell below the grid
  GridsFit     \* no frame of a grid is given up for too many packets

CloudsAssumption ==
  /\ {MaxPackets, PerPoints, AziScan, ElevScan, Resolution} \subseteq Nat \ {0}
  /\ AziScan <= MaxPackets /\ ElevScan <= PerPoints   \* setRemakeDefaultConfig
  /\ Contents \subseteq Seq([azi : Int, elev : Int])
  /\ \A c \in Contents : Len(c) <= PerPoints
  /\ NoneBelow => \A c \in Contents : \A k \in DOMAIN c : c[k].azi >= 0 /\ c[k].elev >= 0
  /\ MinPoints \in Nat /\ Rates \subseteq Nat \ {0} /\ MaxClouds \in Nat
  /\ {ForwardCopy, NoneBelow, GridsFit} \subseteq BOOLEAN

VARIABLES
  remake,       \* remake_config.flag
  rate,         \* multi_rate
  frameIndex,   \* frame_index
  packetNum,    \* packet_num
  contents,     \* per slot, what was computed, or NotYet
  points,       \* points
  validPoints,  \* valid_points
  multi,        \* multi_points up to multi_points_num
  multiPackets, multiStart, sends,  \* multi_packet_num, multi_frame_start_timestamp,
                                    \* multi_send_rate_count_
  merging,      \* the frames that went into multi
  cloud         \* the last cloud sent, and what frames it stands for

frameVars == <<frameIndex, packetNum, contents, points, validPoints>>
multiVars == <<multi, multiPackets, multiStart, sends, merging>>
cloudVars == <<remake, rate, frameVars, multiVars, cloud>>

Places == 0 .. MaxPackets * PerPoints - 1
Slots == 0 .. MaxPackets - 1
Cells == AziScan * ElevScan
Blank == [frame |-> 0, slot |-> 0, k |-> 0]  \* T_Point{}
NotYet == <<Blank>>

Init ==
  /\ remake \in BOOLEAN /\ rate \in Rates
  /\ frameIndex = 1 /\ packetNum = 0 /\ contents = <<>>
  /\ points = [i \in Places |-> Blank] /\ validPoints = [s \in Slots |-> 0]
  /\ multi = <<>> /\ multiPackets = 0 /\ multiStart = 0 /\ sends = 0
  /\ merging = <<>>
  /\ cloud = [points |-> <<>>, packets |-> 0, start |-> 0, frames |-> <<>>]

-----------------------------------------------------------------------------
(* DecodePacket, and the packet's slot is queued.                          *)
Packet ==
  /\ frameIndex <= MaxClouds * rate
  /\ packetNum < (IF remake /\ GridsFit THEN MaxPackets - 1 ELSE MaxPackets)
  /\ packetNum' = packetNum + 1 /\ contents' = Append(contents, NotYet)
  /\ UNCHANGED <<remake, rate, frameIndex, points, validPoints, multiVars, cloud>>

(* A float that becomes an int loses its fraction, towards zero.           *)
Scan(angle) ==
  IF angle < 0 THEN -((-angle) \div Resolution) ELSE angle \div Resolution

(* DoRemake: the place in the grid, or -1.                                 *)
DoRemake(p) ==
  LET a == Scan(p.azi)
      e == Scan(p.elev)
  IN IF a \in 0 .. AziScan - 1 /\ e \in 0 .. ElevScan - 1 THEN a * ElevScan + e ELSE -1

(* ComputeXYZI of any slot queued: a later point of the same place stays.  *)
ComputeXYZI(s) ==
  \E content \in Contents :
    LET place == [k \in DOMAIN content |->
                    IF remake THEN DoRemake(content[k]) ELSE s * PerPoints + k - 1]
        at(i) == {k \in DOMAIN content : place[k] = i}
    IN /\ contents[s + 1] = NotYet /\ contents' = [contents EXCEPT ![s + 1] = content]
       /\ points' = [i \in Places |->
            IF at(i) = {} THEN points[i]
            ELSE [frame |-> frameIndex, slot |-> s,
                  k |-> CHOOSE k \in at(i) : \A l \in at(i) : l <= k]]
       /\ validPoints' = [validPoints EXCEPT
            ![s] = Cardinality({k \in DOMAIN content : place[k] >= 0})]
       /\ UNCHANGED <<remake, rate, frameIndex, packetNum, multiVars, cloud>>

-----------------------------------------------------------------------------
(* memcpy of n points from one place to one before it.                     *)
Copied(array, to, from, n) ==
  LET gap == from - to
      last(j) == j + ((n - 1 - j) \div gap) * gap   \* from back to front
  IN [i \in Places |->
        IF i \notin to .. to + n - 1 THEN array[i]
        ELSE array[from + IF ForwardCopy THEN i - to ELSE last(i - to)]]

(* How many points the slots before s have.                                *)
Before ==
  LET sum[s \in 0 .. packetNum] == IF s = 0 THEN 0 ELSE sum[s - 1] + validPoints[s - 1]
  IN sum

(* Fault: a slot that is full stays where it is. *)
CompactedUnlessFull ==
  LET after[s \in 0 .. packetNum] ==
        IF s = 0 THEN points
        ELSE IF validPoints[s - 1] = PerPoints THEN after[s - 1]
        ELSE Copied(after[s - 1], Before[s - 1], (s - 1) * PerPoints, validPoints[s - 1])
  IN after[packetNum]

(* The gaps between the slots are closed, slot after slot.                 *)
Compacted ==
  LET after[s \in 0 .. packetNum] ==
        IF s = 0 THEN points
        ELSE IF Before[s - 1] = (s - 1) * PerPoints THEN after[s - 1]
        ELSE Copied(after[s - 1], Before[s - 1], (s - 1) * PerPoints, validPoints[s - 1])
  IN after[packetNum]

(* The frame at its end: of a grid all cells, of packets what they have.    *)
PointsNum == IF remake THEN Cells ELSE Before[packetNum]
Finished == IF remake THEN points ELSE Compacted
Whole == [i \in 1 .. PointsNum |-> Finished[i - 1]]
StartTimestamp == IF packetNum = 0 THEN 0 ELSE frameIndex
This == [index |-> frameIndex, contents |-> contents]

(* Frames that are sent as they are, or merged until there are enough.     *)
MultiSend ==
  IF rate = 1
  THEN /\ cloud' = [points |-> Whole, packets |-> packetNum, start |-> StartTimestamp,
                    frames |-> <<This>>]
       /\ UNCHANGED multiVars
  ELSE LET all == [points |-> multi \o Whole, packets |-> multiPackets + packetNum,
                   start |-> IF multiStart <= 0 THEN StartTimestamp ELSE multiStart,
                   frames |-> Append(merging, This)]
           full == (sends + 1) % rate = 0
       IN /\ sends' = sends + 1
          /\ cloud' = IF full THEN all ELSE cloud
          /\ multi' = IF full THEN <<>> ELSE all.points
          /\ multiPackets' = IF full THEN 0 ELSE all.packets
          /\ multiStart' = IF full THEN 0 ELSE all.start
          /\ merging' = IF full THEN <<>> ELSE all.frames

(* Update. *)
Update == frameIndex' = frameIndex + 1 /\ packetNum' = 0 /\ contents' = <<>>

(* Fault: a grid keeps what nothing was written over. *)
ClearedNever(array) == array

(* A grid starts anew with every frame.                                    *)
Cleared(array) == IF remake THEN [i \in Places |-> Blank] ELSE array

(* The end of a frame: all slots are computed, and Run is alone.           *)
SplitFrame ==
  /\ packetNum < MaxPackets /\ frameIndex <= MaxClouds * rate
  /\ \A s \in 1 .. packetNum : contents[s] # NotYet
  /\ IF PointsNum > MinPoints THEN MultiSend ELSE UNCHANGED <<multiVars, cloud>>
  /\ Update
  /\ points' = Cleared(Finished)
  /\ UNCHANGED <<remake, rate, validPoints>>

(* A frame of too many packets; its late computations have ended.          *)
GiveUp ==
  /\ packetNum = MaxPackets
  /\ Update
  /\ UNCHANGED <<remake, rate, points, validPoints, multiVars, cloud>>

Next == Packet \/ (\E s \in 0 .. packetNum - 1 : ComputeXYZI(s)) \/ SplitFrame \/ GiveUp

-----------------------------------------------------------------------------
(* The points a frame is made of, packet by packet.                        *)
PointsOf(f) ==
  FlattenSeq([s \in DOMAIN f.contents |->
    [k \in DOMAIN f.contents[s] |-> [frame |-> f.index, slot |-> s - 1, k |-> k]]])

(* Those of them that lie within a cell of the grid.                       *)
PointsAt(f, cell) ==
  LET azi == (cell \div ElevScan) * Resolution
      elev == (cell % ElevScan) * Resolution
  IN {p \in [frame : {f.index}, slot : 0 .. Len(f.contents) - 1, k : 1 .. PerPoints] :
        /\ p.k \in DOMAIN f.contents[p.slot + 1]
        /\ LET angles == f.contents[p.slot + 1][p.k]
           IN /\ angles.azi \in azi .. azi + Resolution - 1
              /\ angles.elev \in elev .. elev + Resolution - 1}

(* The callback gets every point the filters left of the frames the cloud  *)
(* stands for, each once and in order, and nothing else (Run and MultiSend *)
(* of hesai_lidar_sdk.hpp).                                                *)
CloudsAreExact ==
  cloud.frames # <<>> =>
    /\ Len(cloud.frames) = rate
    /\ cloud.packets = Len(FlattenSeq([i \in DOMAIN cloud.frames |-> cloud.frames[i].contents]))
    /\ ~remake =>
         /\ cloud.points = FlattenSeq([i \in DOMAIN cloud.frames |-> PointsOf(cloud.frames[i])])
         /\ cloud.start = cloud.frames[1].index

(* With remake_config every cell of the grid holds a point of this frame   *)
(* whose angles lie in it, or, when there is none, nothing (DoRemake).      *)
GridsAreExact ==
  remake /\ cloud.frames # <<>> =>
    /\ Len(cloud.points) = rate * Cells
    /\ \A i \in DOMAIN cloud.frames : \A cell \in 0 .. Cells - 1 :
         LET here == PointsAt(cloud.frames[i], cell)
             p == cloud.points[(i - 1) * Cells + cell + 1]
         IN IF here = {} THEN p = Blank ELSE p \in here
=============================================================================
