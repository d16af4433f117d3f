---------------------------- MODULE SerialStream ----------------------------
(***************************************************************************)
(* SerialSource: a thread reads bytes from the serial port in pieces of    *)
(* any size, cuts them into packets and acknowledgements, and puts these   *)
(* into two rings; others take from the rings, clear them, and close and   *)
(* reopen the port, which may come in the middle of a message.             *)
(* Bytes are grouped into units: the two of a header or terminator EE FF,  *)
(* the seven of "$LDACK,", the kind, the rest of a message.                *)
(***************************************************************************)
EXTENDS Integers, Sequences, SequencesExt

CONSTANTS
  Lines,        \* what the lidar may put on the line: sequences of messages
  OneRecv,      \* kOneRecvLength, the most units of one read
  DataMax,      \* kDataMaxLength
  AckCap,       \* capacity of cmdAckRecvBuf
  PointCap,     \* capacity of pointCloudRecvBuf
  PortCap,      \* what the kernel holds for a port nobody reads
  MaxCloses,    \* bound on calls of Close
  DropIsAtomic  \* no call falls between full() and eff_pop_front

Units == [point |-> <<"EEFF", "points", "rest", "rest">>,
          fault |-> <<"EEFF", "fault", "rest">>,
          ack   |-> <<"LDACK", "rest", "EEFF">>]

SerialAssumption ==
  /\ Lines \subseteq Seq(DOMAIN Units)
  /\ OneRecv \in Nat \ {0} /\ DataMax \in Nat /\ DataMax > OneRecv
  /\ AckCap \in Nat \ {0} /\ PointCap \in Nat \ {0} /\ PortCap \in Nat \ {0}
  /\ MaxCloses \in Nat /\ DropIsAtomic \in BOOLEAN

VARIABLES
  messages,     \* what it does put there
  sent,         \* how many units the lidar has sent
  port,         \* what the kernel holds for the open port
  running,      \* running
  thread,       \* ReceivedThread: "none", "pass", "drop", "push", "exited"
  held,         \* the packet it is about to put into a ring, or <<>>
  dataIndex,    \* dataIndex
  data,         \* serialData from dataIndex up to dataLength
  points,       \* pointCloudRecvBuf
  acks,         \* cmdAckRecvBuf
  wedged,       \* has the size of cmdAckRecvBuf wrapped below zero?
  closing,      \* is somebody in Close, waiting for the thread?
  closes,       \* calls of Close so far
  overflowed,   \* the units that came when the port was full
  missed,       \* has any unit come to a closed port?
  got           \* the point packets that Receive returned

(* Everything the lidar sends: the k-th unit of the m-th message. *)
Message(m) == [k \in DOMAIN Units[messages[m]] |-> [m |-> m, k |-> k]]
Sent == FlattenSeq([m \in DOMAIN messages |-> Message(m)])
What(u) == Units[messages[u.m]][u.k]

(* Units needed before the scan looks at a header: 7 bytes, which reach     *)
(* past the kind of a packet and hold all of "$LDACK,".                     *)
Window == 2

line == <<messages, sent, port, overflowed, missed>>
buffer == <<dataIndex, data, held>>
rings == <<points, acks, wedged>>
calls == <<closing, closes, got>>
serialVars == <<line, running, thread, buffer, rings, calls>>

Init ==
  /\ messages \in Lines
  /\ sent = 0 /\ port = <<>> /\ overflowed = {} /\ missed = FALSE
  /\ running = FALSE /\ thread = "none"
  /\ held = <<>> /\ dataIndex = 0 /\ data = <<>>
  /\ points = <<>> /\ acks = <<>> /\ wedged = FALSE
  /\ closing = FALSE /\ closes = 0 /\ got = <<>>

Opened == thread # "none"

(* What is sent to a closed port, or to one whose kernel buffer is full,    *)
(* reaches nobody.                                                          *)
Transmit ==
  /\ sent < Len(Sent)
  /\ sent' = sent + 1
  /\ missed' = (missed \/ ~Opened)
  /\ IF Opened /\ Len(port) < PortCap
     THEN port' = Append(port, Sent[sent + 1]) ELSE UNCHANGED port
  /\ overflowed' = IF Opened /\ Len(port) = PortCap
                   THEN overflowed \cup {Sent[sent + 1]} ELSE overflowed
  /\ UNCHANGED <<messages, running, thread, buffer, rings, calls>>

Open ==
  /\ thread = "none"
  /\ running' = TRUE /\ thread' = "pass"
  /\ UNCHANGED <<line, buffer, rings, calls>>

Close ==
  /\ Opened /\ ~closing /\ closes < MaxCloses
  /\ running' = FALSE
  /\ closing' = TRUE /\ closes' = closes + 1
  /\ UNCHANGED <<line, thread, buffer, rings, got>>

(* Close goes on when the thread has ended.  SetReceiveStype clears both    *)
(* rings after it.                                                          *)
Join(cleared) ==
  /\ closing /\ thread = "exited"
  /\ thread' = "none" /\ closing' = FALSE
  /\ dataIndex' = 0 /\ data' = <<>>
  /\ port' = <<>> /\ missed' = TRUE
  /\ IF cleared THEN points' = <<>> /\ acks' = <<>> /\ wedged' = FALSE
     ELSE UNCHANGED rings
  /\ UNCHANGED <<messages, sent, overflowed, running, held, closes, got>>

(* Receive with SERIAL_POINT_CLOUD_RECV *)
ReceivePoints ==
  /\ points # <<>>
  /\ got' = Append(got, Head(points)) /\ points' = Tail(points)
  /\ UNCHANGED <<line, running, thread, buffer, acks, wedged, closing, closes>>

(* Receive with SERIAL_COMMAND_RECV, or SERIAL_CLEAR_RECV_BUF *)
ReceiveAck ==
  /\ acks # <<>> /\ (DropIsAtomic => thread # "drop")
  /\ acks' \in {Tail(acks), <<>>}
  /\ UNCHANGED <<line, running, thread, buffer, points, wedged, calls>>

(***************************************************************************)
(* ReceivedThread.                                                         *)
(***************************************************************************)
Exit ==
  /\ thread = "pass" /\ ~running
  /\ thread' = "exited"
  /\ UNCHANGED <<line, running, buffer, rings, calls>>

Least(S) == CHOOSE i \in S : \A j \in S : i <= j

(* Where the scan of d stops: at a header with a window behind it, or where *)
(* no window is left.                                                       *)
Headers(d) ==
  {i \in 1..Len(d) - Window + 1 : What(d[i]) \in {"EEFF", "LDACK"}}
StopAt(d) ==
  IF Headers(d) # {} THEN Least(Headers(d))
  ELSE IF Len(d) < Window THEN 1 ELSE Len(d) - Window + 2

(* Fault: a point packet is taken to be as short as a fault message. *)
LengthsShort(d) ==
  IF What(d[1]) = "LDACK" THEN {Len(Units.ack)} ELSE {Len(Units.fault)}

(* The lengths that the header at the start of d may stand for; none when   *)
(* it is skipped.  What follows a header where units went missing is any    *)
(* byte; the header of another message is read as a kind that is neither.   *)
Lengths(d) ==
  IF What(d[1]) = "LDACK"
  THEN LET ends == {i \in 2..Len(d) : What(d[i]) = "EEFF"}
       IN {IF ends = {} THEN Len(d) + 1 ELSE Least(ends)}
  ELSE CASE What(d[2]) = "points" -> {Len(Units.point)}
         [] What(d[2]) = "fault"  -> {Len(Units.fault)}
         [] What(d[2]) = "rest"   -> {Len(Units.point), Len(Units.fault), 0}
         [] OTHER                 -> {0}

(* What the scan of d, stopped at its first header, takes off: how much it  *)
(* passes over, and how much of that is a packet, at its end.               *)
Scans(d) ==
  LET from == StopAt(d) - 1
      rest == SubSeq(d, from + 1, Len(d))
  IN IF Headers(d) = {} THEN {[over |-> from, packet |-> 0]}
     ELSE {IF len = 0 THEN [over |-> from + Window, packet |-> 0]
           ELSE IF len > Len(rest) THEN [over |-> from, packet |-> 0]
           ELSE [over |-> from + len, packet |-> len] : len \in Lengths(rest)}

(* Fault: no room is made for an acknowledgement. *)
SeesFullNever(d) == FALSE

(* Does the scan drop an acknowledgement before it knows what it has?       *)
SeesFull(d) == Headers(d) # {} /\ Len(acks) = AckCap

(* One pass: a read that moves the rest of the buffer to its start when a   *)
(* whole read no longer fits behind it, and the scan up to one packet.      *)
Pass ==
  /\ thread = "pass" /\ running
  /\ \E n \in 0..OneRecv :
       /\ n <= Len(port) /\ (n > 0 => Len(data) + OneRecv <= DataMax)
       /\ LET read == data \o SubSeq(port, 1, n)
              moved == n > 0 /\ dataIndex + Len(data) + OneRecv > DataMax
          IN \E scan \in Scans(read) :
               /\ n > 0 \/ scan.over > 0 \/ SeesFull(read)
               /\ port' = SubSeq(port, n + 1, Len(port))
               /\ dataIndex' = (IF moved THEN 0 ELSE dataIndex) + scan.over
               /\ data' = SubSeq(read, scan.over + 1, Len(read))
               /\ held' = SubSeq(read, scan.over - scan.packet + 1, scan.over)
               /\ thread' = IF SeesFull(read) THEN "drop"
                            ELSE IF scan.packet > 0 THEN "push" ELSE "pass"
  /\ UNCHANGED <<messages, sent, overflowed, missed, running, rings, calls>>

(* eff_pop_front of the acknowledgements, whatever the header was.  On a    *)
(* ring cleared since, the size wraps, and the ring is full for good.       *)
Drop ==
  /\ thread = "drop"
  /\ IF acks = <<>> THEN wedged' = TRUE /\ UNCHANGED acks
     ELSE acks' = Tail(acks) /\ UNCHANGED wedged
  /\ thread' = IF held = <<>> THEN "pass" ELSE "push"
  /\ UNCHANGED <<line, running, buffer, points, calls>>

(* emplace_back, which waits while the ring is full *)
Push ==
  /\ thread = "push"
  /\ IF What(held[1]) = "LDACK"
     THEN ~wedged /\ Len(acks) < AckCap /\ acks' = Append(acks, held) /\ UNCHANGED points
     ELSE Len(points) < PointCap /\ points' = Append(points, held) /\ UNCHANGED acks
  /\ thread' = "pass" /\ held' = <<>>
  /\ UNCHANGED <<line, running, dataIndex, data, wedged, calls>>

Next ==
  \/ Transmit \/ Open \/ Close \/ (\E cleared \in BOOLEAN : Join(cleared))
  \/ ReceivePoints \/ ReceiveAck
  \/ Exit \/ Pass \/ Drop \/ Push

Fairness ==
  /\ WF_serialVars(Exit) /\ WF_serialVars(Pass) /\ WF_serialVars(Drop)
  /\ WF_serialVars(Push) /\ WF_serialVars(ReceivePoints)
  /\ \A cleared \in BOOLEAN : WF_serialVars(Join(cleared))

Spec == Init /\ [][Next]_serialVars /\ Fairness

(* Every point packet given to the ring, but those cleared from it. *)
Handed == got \o points
Before(u, v) == u.m < v.m \/ (u.m = v.m /\ u.k < v.k)
PointPackets ==
  FlattenSeq([m \in DOMAIN messages |-> IF messages[m] = "ack" THEN <<>> ELSE <<Message(m)>>])
(* A message, but for bytes that the full port lost. *)
Stitched(p) ==
  \A i \in 1..Len(p) - 1 :
    /\ Before(p[i], p[i + 1])
    /\ \A u \in ToSet(Sent) : Before(p[i], u) /\ Before(u, p[i + 1]) => u \in overflowed

(* Reads that end anywhere, a port closed and opened in the middle of a     *)
(* message and acknowledgements in between never make a packet out of       *)
(* parts: one whose bytes all came is one message of the lidar, whole, and  *)
(* no other gap than an overflow is ever inside one.  No byte is handed on  *)
(* twice or out of order, and as long as every byte came none of the        *)
(* packets is passed over (ReceivedThread, Close).                          *)
SerialFaithful ==
  /\ \A i \in DOMAIN Handed :
       /\ Stitched(Handed[i])
       /\ overflowed = {} => \E k \in DOMAIN PointPackets : Handed[i] = PointPackets[k]
  /\ \A i, j \in DOMAIN Handed : i < j => Before(Last(Handed[i]), Handed[j][1])
  /\ overflowed = {} /\ ~missed => IsPrefix(Handed, PointPackets)

(* Close does not wait for ever for a thread that waits for room, as long   *)
(* as somebody else goes on receiving.                                      *)
CloseReturns == closing ~> ~closing
=============================================================================
