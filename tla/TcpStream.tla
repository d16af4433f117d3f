------------------------------ MODULE TcpStream ------------------------------
(***************************************************************************)
(* TcpSource: a thread keeps a connection to the lidar, receives what the  *)
(* kernel has, cuts it every 581 bytes, puts an EE FF before each piece and *)
(* the piece into a ring.  A packet is PacketLen units of the stream.      *)
(***************************************************************************)
EXTENDS Integers, Sequences, SequencesExt

CONSTANTS
  Packets,      \* how many packets the lidar has to send
  PacketLen,    \* 581, in units
  DataMax,      \* kDataMaxLength
  Slack,        \* 5 * kBufSize, the room below which the buffer is moved
  RingCap,      \* capacity of pointCloudRecvBuf
  MaxResets     \* bound on connections that break

TcpAssumption ==
  /\ Packets \in Nat /\ PacketLen \in Nat \ {0, 1}
  /\ Slack \in Nat /\ DataMax \in Nat /\ DataMax > Slack
  /\ Slack > PacketLen
  /\ RingCap \in Nat \ {0} /\ MaxResets \in Nat

Stale == [m |-> 0, k |-> 0]     \* what the buffer held before
PacketOf(m) == [k \in 1..PacketLen |-> [m |-> m, k |-> k]]
UnitAt(i) == [m |-> (i - 1) \div PacketLen + 1, k |-> ((i - 1) % PacketLen) + 1]
Sent == [i \in 1..Packets * PacketLen |-> UnitAt(i)]   \* packet after packet

VARIABLES
  sent,        \* units the lidar has sent
  conn,        \* "none", "open", "finished" by the lidar, "broken"
  socket,      \* what the kernel has received
  resets,      \* connections broken so far
  running,     \* running
  recvThread,  \* ReceivedThread: "none", "recv", "push", "exited"
  dataIndex, data,   \* dataIndex, and m_receiveBuffer from it to dataLength
  held,        \* packets cut off and not yet in the ring
  ring,        \* pointCloudRecvBuf
  got,         \* what Receive returned
  cut          \* has a recv ever ended inside a packet?

tcpVars == <<sent, conn, socket, resets, running, recvThread, dataIndex, data,
             held, ring, got, cut>>

Init ==
  /\ sent = 0 /\ conn = "none" /\ socket = <<>> /\ resets = 0
  /\ running = FALSE /\ recvThread = "none"
  /\ dataIndex = 0 /\ data = <<>> /\ held = <<>> /\ ring = <<>>
  /\ got = <<>> /\ cut = FALSE

(***************************************************************************)
(* The lidar and the network.                                              *)
(***************************************************************************)
Transmit ==
  /\ conn = "open" /\ sent < Len(Sent)
  /\ sent' = sent + 1 /\ socket' = Append(socket, Sent[sent + 1])
  /\ UNCHANGED <<conn, resets, running, recvThread, dataIndex, data, held,
                 ring, got, cut>>

(* The lidar closes the connection, or it breaks.                           *)
Disconnect(how) ==
  /\ conn = "open" /\ resets < MaxResets
  /\ conn' = how /\ resets' = resets + 1
  /\ socket' = IF how = "broken" THEN <<>> ELSE socket
  /\ UNCHANGED <<sent, running, recvThread, dataIndex, data, held, ring, got,
                 cut>>

(* The first packet that a new connection carries: a whole one.             *)
NextPacket == ((sent + PacketLen - 1) \div PacketLen) * PacketLen

(***************************************************************************)
(* Open connects; the first call starts the thread.  Later ones, by the    *)
(* thread, leave what it has of a packet where it is.                      *)
(***************************************************************************)
Open ==
  /\ conn = "none"
  /\ recvThread = "none" \/ (recvThread = "recv" /\ running)
  /\ conn' = "open" /\ socket' = <<>>
  /\ sent' = NextPacket
  /\ IF running THEN UNCHANGED <<running, recvThread, dataIndex, data>>
     ELSE running' = TRUE /\ recvThread' = "recv" /\ dataIndex' = 0 /\ data' = <<>>
  /\ UNCHANGED <<resets, held, ring, got, cut>>

(* ~TcpSource asks the thread to end and joins it.                          *)
Destroy ==
  /\ recvThread # "none" /\ running
  /\ running' = FALSE
  /\ UNCHANGED <<sent, conn, socket, resets, recvThread, dataIndex, data, held,
                 ring, got, cut>>

Receive ==
  /\ ring # <<>>
  /\ got' = Append(got, Head(ring)) /\ ring' = Tail(ring)
  /\ UNCHANGED <<sent, conn, socket, resets, running, recvThread, dataIndex,
                 data, held, cut>>

(***************************************************************************)
(* ReceivedThread.                                                         *)
(***************************************************************************)
Exit ==
  /\ recvThread = "recv" /\ ~running
  /\ recvThread' = "exited"
  /\ UNCHANGED <<sent, conn, socket, resets, running, dataIndex, data, held,
                 ring, got, cut>>

(* recv fails for good: the socket is closed, to be opened again. *)
RecvFails ==
  /\ recvThread = "recv" /\ running /\ conn = "broken"
  /\ conn' = "none"
  /\ UNCHANGED <<sent, socket, resets, running, recvThread, dataIndex, data,
                 held, ring, got, cut>>

(* recv writes at dataIndex, over what is left of the last packet, and the  *)
(* length grows all the same.                                               *)
Received(n) ==
  [i \in 1..Len(data) + n |->
     IF i <= n THEN socket[i] ELSE IF i <= Len(data) THEN data[i] ELSE Stale]

(* How many packets the loop cuts off. *)
Whole(d) == Len(d) \div PacketLen

Recv ==
  /\ recvThread = "recv" /\ running /\ conn \in {"open", "finished"}
  /\ \E n \in 1..Len(socket) :
       /\ dataIndex + Len(data) + n <= DataMax
       /\ LET d == Received(n)
              taken == Whole(d) * PacketLen
              index == dataIndex + taken
          IN /\ held' = [p \in 1..Whole(d) |->
                          SubSeq(d, (p - 1) * PacketLen + 1, p * PacketLen)]
             /\ data' = SubSeq(d, taken + 1, Len(d))
             /\ dataIndex' = IF dataIndex + Len(d) + Slack > DataMax THEN 0 ELSE index
             /\ recvThread' = IF Whole(d) > 0 THEN "push" ELSE "recv"
       /\ cut' = (cut \/ socket[n].k # PacketLen)
       /\ socket' = SubSeq(socket, n + 1, Len(socket))
  /\ UNCHANGED <<sent, conn, resets, running, ring, got>>

Push ==
  /\ recvThread = "push" /\ Len(ring) < RingCap
  /\ ring' = Append(ring, Head(held)) /\ held' = Tail(held)
  /\ recvThread' = IF Len(held) = 1 THEN "recv" ELSE "push"
  /\ UNCHANGED <<sent, conn, socket, resets, running, dataIndex, data, got,
                 cut>>

Next ==
  \/ Transmit \/ (\E how \in {"finished", "broken"} : Disconnect(how))
  \/ Open \/ Destroy \/ Receive
  \/ Exit \/ RecvFails \/ Recv \/ Push

Spec == Init /\ [][Next]_tcpVars

(* Until a recv ends inside a packet, what Receive returns is packets of    *)
(* the lidar, whole, each once and in order, and only a connection that     *)
(* broke or was left can take one away.  (After such a recv the next one    *)
(* overwrites the piece, and nothing that follows is a packet any more.)    *)
TcpFaithful ==
  ~cut =>
    LET all == got \o ring \o held
    IN /\ \A i \in DOMAIN all : \E m \in 1..Packets : all[i] = PacketOf(m)
       /\ \A i, j \in DOMAIN all : i < j => all[i][1].m < all[j][1].m
       /\ resets = 0 => all = [m \in DOMAIN all |-> PacketOf(m)]
=============================================================================
