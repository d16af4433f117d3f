--------------------------- MODULE PacketDecoder ---------------------------
(***************************************************************************)
(* How Run and the parsers' DecodePacket cut the stream of packets into     *)
(* frames, and count what is missing from it.  A packet that begins a new   *)
(* frame is decoded twice: once to find that out, and once more, after the  *)
(* frame before it was handed on, as the first packet of the new frame.     *)
(*                                                                         *)
(* The parsers differ in what they split on: rotating lidars on the azimuth *)
(* passing the frame start (IsNeedFrameSplit of GeneralParser), AT lidars   *)
(* on a jump of it from field to field, or on a timeout at a field's end,   *)
(* ATX lidars on the parity of a frame number, FT lidars on the column      *)
(* going back.                                                             *)
(***************************************************************************)
EXTENDS Integers, FiniteSets, Sequences, SequencesExt

CONSTANTS
  Lidars,       \* the lidars looked at, records (see DecoderAssumption)
  Circle,       \* azimuths in a turn
  Stride,       \* how far apart the fields of an AT lidar are
  FrameLen,     \* packets of a frame, for the lidars that do not rotate
  Tolerance,    \* AT_AZIMUTH_TOLERANCE
  Acceptance,   \* AT_ACCEPTANCE_ANGLE
  VoteMax,      \* the number of votes at which UpdateRotation scales down
  VoteScale,    \* by how much
  SeqMax,       \* max_sequence
  MaxPackets,   \* bound on the packets of the lidar
  MaxLost,      \* bound on the packets lost
  MaxRun,       \* bound on the packets lost in a row
  MaxOdd,       \* bound on the packets that have another size
  InOrder,      \* no packet overtakes another
  TimeoutIsLast,\* a timeout never comes before the rest of its field
  OddIsInside   \* no packet that begins a frame has another size

DecoderAssumption ==
  /\ \A l \in Lidars :
       /\ l.rule \in {"azimuth", "field", "parity", "column"}
       /\ l.dir \in {1, -1}            \* which way it turns
       /\ l.first \in Nat              \* where it begins
       /\ l.step \in Nat \ {0}         \* azimuth from packet to packet
       /\ l.echoes \in Nat \ {0}       \* packets of the same azimuth
       /\ l.frameStart \in 0..Circle - 1
       /\ l.setBack \subseteq Nat      \* packets before which its clock jumps
       /\ l.timeLossContinues \in BOOLEAN
  /\ {Circle, Stride, FrameLen, Tolerance, Acceptance, VoteMax, VoteScale} \subseteq Nat \ {0}
  /\ {SeqMax, MaxPackets, MaxLost, MaxRun, MaxOdd} \subseteq Nat
  /\ {InOrder, TimeoutIsLast, OddIsInside} \subseteq BOOLEAN

VARIABLES
  lidar,      \* one of Lidars
  sent,       \* packets sent, or lost, so far; they are numbered
  odd,        \* those of another size than the first
  got,        \* the packets given to Run, in order
  last,       \* last_azimuth_, last_frameid_ or last_cloumn_id_
  lastLast,   \* last_last_azimuth_
  rotation,   \* rotation_flag
  useAngle,   \* use_angle_
  timeout,    \* is_timeout_ of the Lidar: "no", or what it did: "none", "ended"
  loss,       \* seqnum_loss_message_
  time,       \* time_loss_message_
  raw,        \* point_cloud_raw_data
  packetNum,  \* packet_num of the frame
  frame,      \* what each slot given to the handle threads held
  done,       \* what the frame before it was made of
  split       \* did a frame end just before the last packet?

frames == <<raw, packetNum, frame, done>>
decoderVars ==
  <<lidar, sent, odd, got, last, lastLast, rotation, useAngle, timeout, loss, time, frames, split>>

Init ==
  /\ lidar \in Lidars /\ sent = 0 /\ odd = {} /\ got = <<>>
  /\ last = (IF lidar.rule \in {"parity", "column"} THEN -1 ELSE 0) /\ lastLast = 0
  /\ rotation = 0 /\ useAngle = TRUE /\ timeout = "no"
  /\ loss = [init |-> FALSE, seq |-> 0, lost |-> 0, all |-> 0, now |-> FALSE]
  /\ time = [init |-> FALSE, stamp |-> 0, lost |-> 0]
  /\ raw = <<>> /\ packetNum = 0 /\ frame = <<>> /\ done = <<>> /\ split = FALSE

(***************************************************************************)
(* What the lidar puts into packet p.                                      *)
(***************************************************************************)
Moved(p) == ((p - 1) \div lidar.echoes) * lidar.step
Column(p) == (lidar.first + p - 1) % FrameLen
FrameOf(p) == (lidar.first + p - 1) \div FrameLen
FirstColumn == 2     \* where a field begins, counted from its start_frame
Key(p) ==
  CASE lidar.rule = "azimuth" -> (lidar.first + lidar.dir * Moved(p)) % Circle
    [] lidar.rule = "field"   ->
         Stride * (FrameOf(p) % 3) + FirstColumn
           + (IF lidar.dir = 1 THEN Column(p) ELSE FrameLen - 1 - Column(p))
    [] lidar.rule = "parity"  -> FrameOf(p) % 2
    [] lidar.rule = "column"  -> Column(p)
Seqnum(p) == p % (SeqMax + 1)
Stamp(p) == 2 * p - 5 * Cardinality(lidar.setBack \cap 1..p)

(* The frame packet p is of: for a rotating lidar, how often it has passed  *)
(* the frame start.                                                         *)
Turn(p) ==
  IF lidar.rule = "azimuth"
  THEN (lidar.dir * (lidar.first - lidar.frameStart) + Moved(p)) \div Circle
  ELSE FrameOf(p)

(***************************************************************************)
(* When to split.                                                          *)
(***************************************************************************)
Abs(n) == IF n < 0 THEN -n ELSE n
Division(azimuth) ==
  LET d == Abs(last - lastLast)  e == Abs(last - azimuth) IN IF d > e THEN e ELSE d

(* UpdateRotation, with the vote of the last three azimuths; the division   *)
(* is that of C++, towards zero.                                            *)
Rotated(azimuth) ==
  LET backward == Division(azimuth) \in {lastLast - last, last - azimuth}
      scaled == IF Abs(rotation) <= VoteMax THEN rotation
                ELSE IF rotation < 0 THEN -(-rotation \div VoteScale)
                ELSE rotation \div VoteScale
  IN IF lidar.rule # "azimuth" \/ Division(azimuth) = 0 THEN rotation
     ELSE scaled + (IF backward THEN -1 ELSE 1)

(* Fault: a frame start between the last azimuth of a turn and zero is not  *)
(* looked for.                                                              *)
PassesStartInside(azimuth) ==
  LET start == lidar.frameStart IN
  /\ Division(azimuth) # 0
  /\ IF Rotated(azimuth) > 0 THEN last < start /\ azimuth >= start
     ELSE last > start /\ azimuth <= start

(* IsNeedFrameSplit of GeneralParser *)
PassesStart(azimuth) ==
  LET start == lidar.frameStart
      ahead == last < azimuth /\ last < start /\ start <= azimuth
      back  == last > azimuth /\ last > start /\ start >= azimuth
  IN /\ Division(azimuth) # 0
     /\ IF Rotated(azimuth) > 0
        THEN IF last - azimuth > Division(azimuth)
             THEN start > last \/ start <= azimuth ELSE ahead
        ELSE IF azimuth - last > Division(azimuth)
             THEN start < last \/ start >= azimuth ELSE back

Jumps(azimuth) == Abs(azimuth - last) > Tolerance /\ last # 0

IsNeedFrameSplit(key) ==
  CASE lidar.rule = "azimuth" -> PassesStart(key)
    [] lidar.rule = "field"   -> Jumps(key)
    [] lidar.rule = "parity"  -> key # last /\ last >= 0
    [] lidar.rule = "column"  -> key < last

(* After a timeout the jump to the next field has been seen already.        *)
Completes(key) == IsNeedFrameSplit(key) /\ (lidar.rule = "field" => useAngle)

(***************************************************************************)
(* Counting: CalPktLoss and CalPktTimeLoss, both tools enabled.            *)
(***************************************************************************)
(* Fault: one too few at the wrap of the sequence number. *)
CalPktLossWrapped(seq) ==
  LET diff == IF seq >= loss.seq THEN seq - loss.seq ELSE SeqMax - loss.seq + seq
  IN IF ~loss.init THEN [loss EXCEPT !.init = TRUE, !.seq = seq, !.now = FALSE]
     ELSE [loss EXCEPT !.seq = seq, !.all = @ + diff, !.now = diff > 1,
                       !.lost = @ + (IF diff > 1 THEN diff - 1 ELSE 0)]

CalPktLoss(seq) ==
  LET diff == IF seq >= loss.seq THEN seq - loss.seq ELSE SeqMax - loss.seq + seq + 1
  IN IF ~loss.init THEN [loss EXCEPT !.init = TRUE, !.seq = seq, !.now = FALSE]
     ELSE [loss EXCEPT !.seq = seq, !.all = @ + diff, !.now = diff > 1,
                       !.lost = @ + (IF diff > 1 THEN diff - 1 ELSE 0)]

CalPktTimeLoss(stamp, lost) ==
  IF ~lidar.timeLossContinues /\ time.lost # 0 THEN time
  ELSE IF ~time.init THEN [time EXCEPT !.init = TRUE, !.stamp = stamp]
  ELSE [time EXCEPT !.stamp = stamp,
                    !.lost = @ + (IF ~lost /\ stamp <= time.stamp THEN 1 ELSE 0)]

(***************************************************************************)
(* One round of Run.                                                       *)
(***************************************************************************)
Lose ==
  /\ got # <<>> /\ sent < MaxPackets /\ sent - Len(got) < MaxLost
  /\ sent - Last(got) < MaxRun
  /\ sent' = sent + 1
  /\ UNCHANGED <<lidar, odd, got, last, lastLast, rotation, useAngle, timeout, loss, time, frames, split>>

(* Fault: the packet that begins a frame is not decoded again. *)
StartWithout(p, fits) ==
  /\ packetNum' = 0 /\ frame' = <<>> /\ done' = frame
  /\ UNCHANGED raw

(* The packet is copied behind the packets of the frame; its slot is        *)
(* computed, as the handle threads do (FramePipeline), if packet_num is now *)
(* another than packet_index.                                               *)
Add(p) ==
  /\ raw' = IF packetNum < Len(raw) THEN [raw EXCEPT ![packetNum + 1] = p] ELSE Append(raw, p)
  /\ packetNum' = packetNum + 1
  /\ frame' = IF packetNum' # Len(frame) THEN Append(frame, raw'[Len(frame) + 1]) ELSE frame
  /\ UNCHANGED done

(* The frame is handed on, and the packet decoded again; the first slot is  *)
(* computed even when that fails.                                           *)
StartWith(p, fits) ==
  /\ raw' = IF fits THEN [raw EXCEPT ![1] = p] ELSE raw
  /\ packetNum' = IF fits THEN 1 ELSE 0
  /\ frame' = <<raw'[1]>>
  /\ done' = frame

Deliver(p, fits) ==
  LET key == Key(p)
      splits == Completes(key)
      counted == CalPktLoss(Seqnum(p))
  IN /\ fits \/ got # <<>>
     /\ OddIsInside /\ ~fits => ~splits
     /\ odd' = IF fits THEN odd ELSE odd \cup {p}
     /\ got' = Append(got, p) /\ sent' = IF p > sent THEN p ELSE sent
     /\ lastLast' = (IF key # last THEN last ELSE lastLast) /\ last' = key
     /\ rotation' = Rotated(key)
     /\ useAngle' = (useAngle \/ IsNeedFrameSplit(key))
     /\ split' = (splits \/ timeout = "ended")
     /\ loss' = counted /\ time' = CalPktTimeLoss(Stamp(p), counted.now)
     /\ IF splits THEN StartWith(p, fits)
        ELSE IF fits THEN Add(p) ELSE UNCHANGED frames
     /\ timeout' = "no" /\ UNCHANGED lidar

Packet ==
  \E p \in (IF sent < MaxPackets THEN {sent + 1} ELSE {})
             \cup (IF InOrder THEN {} ELSE 1..sent \ ToSet(got)) :
  \E fits \in BOOLEAN :
    /\ ~fits => Cardinality(odd) < MaxOdd
    /\ Deliver(p, fits)

(* A timeout at either end of a field, as start_frame gives it, ends the    *)
(* frame; any other is no valid packet.                                     *)
AtMargin ==
  \E field \in 0..2 : \E margin \in {FirstColumn, FirstColumn + FrameLen - 1} :
    Abs(Stride * field + margin - last) < Acceptance

Timeout ==
  /\ timeout = "no" /\ got # <<>>
  /\ TimeoutIsLast => Turn(sent + 1) # Turn(sent)
  /\ IF lidar.rule = "field" /\ AtMargin
     THEN /\ timeout' = "ended" /\ useAngle' = FALSE
          /\ done' = frame /\ frame' = <<>> /\ packetNum' = 0 /\ UNCHANGED raw
     ELSE timeout' = "none" /\ UNCHANGED <<useAngle, frames>>
  /\ UNCHANGED <<lidar, sent, odd, got, last, lastLast, rotation, loss, time, split>>

Next == Lose \/ Packet \/ Timeout
Spec == Init /\ [][Next]_decoderVars

(***************************************************************************)
(* Properties.                                                             *)
(***************************************************************************)
(* A rotating lidar's direction is known once three azimuths have been      *)
(* seen: the first vote, cast with an initial zero, may be wrong, and the   *)
(* two after it outvote it.                                                 *)
Warm ==
  lidar.rule # "azimuth" \/ Cardinality({Moved(p) : p \in ToSet(Front(got))}) >= 3

(* A frame ends exactly where the lidar's turn, field or scan ends: losses, *)
(* echoes of the same azimuth, the wrap of the azimuth in either direction, *)
(* the timeouts of AT lidars and the second decoding of a frame's first     *)
(* packet neither cut a frame in two nor make one of two (IsNeedFrameSplit, *)
(* DecodePacket).                                                           *)
FramesAreTurns ==
  Len(got) > 1 /\ Warm =>
    (split <=> Turn(Last(got)) # Turn(got[Len(got) - 1]))

(* What Run was given, but for the packets of another size.                *)
Accepted ==
  LET of[i \in 0..Len(got)] ==
        IF i = 0 THEN <<>>
        ELSE IF got[i] \in odd THEN of[i - 1]
        ELSE Append(of[i - 1], got[i])
  IN of[Len(got)]

(* The packets that Run accepts are computed once each, in order: none is   *)
(* lost, repeated or replaced by an older one where one frame ends and the  *)
(* next begins.                                                             *)
PacketsComputedOnce == IsSuffix(done \o frame, Accepted)

(* The losses reported are the packets that did not come, across the wrap   *)
(* of the sequence number and the two decodings of a frame's first packet,  *)
(* and the times reported are those that went back without a loss.          *)
CountsExact ==
  got # <<>> =>
    LET back == {i \in 2..Len(got) : got[i] = got[i - 1] + 1 /\ Stamp(got[i]) <= Stamp(got[i - 1])}
    IN /\ loss.all = Last(got) - got[1]
       /\ loss.lost = loss.all - Len(got) + 1
       /\ \A i \in back : time.lost > 0
       /\ time.lost > 0 => back # {}
       /\ lidar.timeLossContinues => time.lost = Cardinality(back)
=============================================================================
