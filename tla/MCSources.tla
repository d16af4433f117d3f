----------------------------- MODULE MCSources -----------------------------
(***************************************************************************)
(* The ways of a packet into the driver, as a model to check.  A Lidar has  *)
(* one source, by its source_type: the serial port, a TCP connection, or a  *)
(* recording; the packets of any of them are then cut into frames, and the  *)
(* frames' points become clouds.  Each is checked by itself: one of them    *)
(* runs, the variables of the others stay unused.  A variable of several    *)
(* modules stands for the one that runs.                                    *)
(***************************************************************************)
EXTENDS Integers, Sequences

CONSTANTS
  Lines, OneRecv, DataMax, AckCap, PointCap, PortCap, MaxCloses, DropIsAtomic, \* SerialStream
  Packets, PacketLen, TcpDataMax, Slack, RingCap, MaxResets, \* TcpStream
  Recordings, ChunkSize, BufMax, TcpMax, TcpSlack, Cuts, MaxLoops, \* PcapReader
  Lidars, Circle, Stride, FrameLen, Tolerance, Acceptance, VoteMax, VoteScale,
  SeqMax, MaxPackets, MaxLost, MaxRun, MaxOdd, InOrder, TimeoutIsLast,
  OddIsInside, \* PacketDecoder
  Contents, MaxInFrame, PerPoints, MinPoints, Rates, AziScan, ElevScan,
  Resolution, MaxClouds, ForwardCopy, NoneBelow, GridsFit \* FrameClouds

(* What the lidar may send over the serial line. *)
SerialLines == {<<"ack", "point", "ack">>, <<"point", "ack", "fault">>}

(* Everything of up to three records, short ones, one that fills a chunk,   *)
(* one too long to be read, other traffic; and TCP data of two packets.     *)
Record == {[kind |-> "udp", len |-> n, packets |-> 1] : n \in {1, 3, 5}}
            \cup {[kind |-> "tcp", len |-> 2, packets |-> 1]}
            \cup {[kind |-> "other", len |-> n, packets |-> 0] : n \in {2, 6}}
            \cup {[kind |-> "odd", len |-> 1, packets |-> 0]}
UpToThree ==
  UNION {[1..n -> Record] : n \in 0..3}
    \cup {<<[kind |-> "tcp", len |-> 4, packets |-> 2], [kind |-> "udp", len |-> 3, packets |-> 1]>>}

(* Rotating lidars that begin here or there, turn either way, with one echo *)
(* or two and two frame starts; AT lidars; and the two that number frames   *)
(* or columns, with clocks that jump back.                                  *)
Plain == [rule |-> "parity", dir |-> 1, first |-> 0, step |-> 3, echoes |-> 1,
          frameStart |-> 0, setBack |-> {}, timeLossContinues |-> TRUE]
FourKinds ==
  {[Plain EXCEPT !.rule = "azimuth", !.dir = d, !.first = f, !.echoes = e, !.frameStart = s] :
     d \in {1, -1}, f \in {0, 7, 14, 15}, e \in 1..2, s \in {0, 5}}
  \cup {[Plain EXCEPT !.rule = "field", !.dir = d, !.first = f] : d \in {1, -1}, f \in 0..4}
  \cup {[Plain EXCEPT !.rule = r, !.first = f, !.setBack = b, !.timeLossContinues = c] :
          r \in {"parity", "column"}, f \in {0, 3}, b \in {{}, {3, 6, 7}}, c \in BOOLEAN}

(* What filters leave of a packet of two points: one or both, in the grid   *)
(* or beside it.                                                           *)
OneOrTwo == {<<[azi |-> 2, elev |-> 3]>>, <<[azi |-> 4, elev |-> 1], [azi |-> 1, elev |-> 1]>>}

VARIABLES
  part,  \* which of them runs
  messages, sent, port, running, thread, held, dataIndex, data, points, acks,
  wedged, closing, closes, overflowed, missed, got, conn, socket, resets,
  recvThread, ring, cut, records, fileSize, opened, mapped, fpos, stray,
  isLoop, isPcapEnd, tcp, loops, lidar, odd, last, lastLast, rotation,
  useAngle, timeout, loss, time, raw, packetNum, frame, done, split, remake,
  rate, frameIndex, contents, validPoints, multi, multiPackets, multiStart,
  sends, merging, cloud

varsSerial == <<messages, port, thread, acks, wedged, closing, closes,
                overflowed, missed>>
varsSent == <<sent>>
varsStreams == <<running, held, data>>
varsIndex == <<dataIndex>>
varsPoints == <<points>>
varsGot == <<got>>
varsTcp == <<conn, socket, resets, recvThread, ring, cut>>
varsPcap == <<records, fileSize, opened, mapped, fpos, stray, isLoop,
              isPcapEnd, tcp, loops>>
varsFrames == <<lidar, odd, last, lastLast, rotation, useAngle, timeout,
                loss, time, raw, frame, done, split>>
varsPacketNum == <<packetNum>>
varsClouds == <<remake, rate, frameIndex, contents, validPoints, multi,
                multiPackets, multiStart, sends, merging, cloud>>
vars == <<part, varsSerial, varsSent, varsStreams, varsIndex, varsPoints,
          varsGot, varsTcp, varsPcap, varsFrames, varsPacketNum, varsClouds>>

Serial == INSTANCE SerialStream
Tcp == INSTANCE TcpStream WITH DataMax <- TcpDataMax
Pcap == INSTANCE PcapReader
Decoder == INSTANCE PacketDecoder
Clouds == INSTANCE FrameClouds WITH MaxPackets <- MaxInFrame

ASSUME SerialParameters == Serial!SerialAssumption
ASSUME TcpParameters == Tcp!TcpAssumption
ASSUME PcapParameters == Pcap!PcapAssumption
ASSUME DecoderParameters == Decoder!DecoderAssumption
ASSUME CloudsParameters == Clouds!CloudsAssumption

Unused == "unused"
NoSerial == /\ messages = Unused /\ port = Unused /\ thread = Unused
            /\ acks = Unused /\ wedged = Unused /\ closing = Unused
            /\ closes = Unused /\ overflowed = Unused /\ missed = Unused
NoSent == /\ sent = Unused
NoStreams == /\ running = Unused /\ held = Unused /\ data = Unused
NoIndex == /\ dataIndex = Unused
NoPoints == /\ points = Unused
NoGot == /\ got = Unused
NoTcp == /\ conn = Unused /\ socket = Unused /\ resets = Unused
         /\ recvThread = Unused /\ ring = Unused /\ cut = Unused
NoPcap == /\ records = Unused /\ fileSize = Unused /\ opened = Unused
          /\ mapped = Unused /\ fpos = Unused /\ stray = Unused
          /\ isLoop = Unused /\ isPcapEnd = Unused /\ tcp = Unused
          /\ loops = Unused
NoFrames == /\ lidar = Unused /\ odd = Unused /\ last = Unused
            /\ lastLast = Unused /\ rotation = Unused /\ useAngle = Unused
            /\ timeout = Unused /\ loss = Unused /\ time = Unused
            /\ raw = Unused /\ frame = Unused /\ done = Unused
            /\ split = Unused
NoPacketNum == /\ packetNum = Unused
NoClouds == /\ remake = Unused /\ rate = Unused /\ frameIndex = Unused
            /\ contents = Unused /\ validPoints = Unused /\ multi = Unused
            /\ multiPackets = Unused /\ multiStart = Unused /\ sends = Unused
            /\ merging = Unused /\ cloud = Unused

Init ==
  \/ part = "serial" /\ Serial!Init
     /\ NoTcp /\ NoPcap /\ NoFrames /\ NoPacketNum /\ NoClouds
  \/ part = "tcp" /\ Tcp!Init
     /\ NoSerial /\ NoPoints /\ NoPcap /\ NoFrames /\ NoPacketNum /\ NoClouds
  \/ part = "pcap" /\ Pcap!Init
     /\ NoSerial /\ NoSent /\ NoStreams /\ NoPoints /\ NoTcp /\ NoFrames
     /\ NoPacketNum /\ NoClouds
  \/ part = "frames" /\ Decoder!Init
     /\ NoSerial /\ NoStreams /\ NoIndex /\ NoPoints /\ NoTcp /\ NoPcap
     /\ NoClouds
  \/ part = "clouds" /\ Clouds!Init
     /\ NoSerial /\ NoSent /\ NoStreams /\ NoIndex /\ NoGot /\ NoTcp /\ NoPcap
     /\ NoFrames

(* A step of one of them. *)
OfSerial(A) ==
  /\ part = "serial" /\ A
  /\ UNCHANGED <<part, varsTcp, varsPcap, varsFrames, varsPacketNum,
                 varsClouds>>
OfTcp(A) ==
  /\ part = "tcp" /\ A
  /\ UNCHANGED <<part, varsSerial, varsPoints, varsPcap, varsFrames,
                 varsPacketNum, varsClouds>>
OfPcap(A) ==
  /\ part = "pcap" /\ A
  /\ UNCHANGED <<part, varsSerial, varsSent, varsStreams, varsPoints,
                 varsTcp, varsFrames, varsPacketNum, varsClouds>>
OfDecoder(A) ==
  /\ part = "frames" /\ A
  /\ UNCHANGED <<part, varsSerial, varsStreams, varsIndex, varsPoints,
                 varsTcp, varsPcap, varsClouds>>
OfClouds(A) ==
  /\ part = "clouds" /\ A
  /\ UNCHANGED <<part, varsSerial, varsSent, varsStreams, varsIndex,
                 varsGot, varsTcp, varsPcap, varsFrames>>

Next ==
  \/ OfSerial(Serial!Next)
  \/ OfTcp(Tcp!Next)
  \/ OfPcap(Pcap!Next)
  \/ OfDecoder(Decoder!Next)
  \/ OfClouds(Clouds!Next)

(* The threads of a source go on; the serial rings are drained. *)
Fairness ==
  /\ WF_vars(OfSerial(Serial!Exit)) /\ WF_vars(OfSerial(Serial!Pass))
  /\ WF_vars(OfSerial(Serial!Drop)) /\ WF_vars(OfSerial(Serial!Push))
  /\ WF_vars(OfSerial(Serial!ReceivePoints))
  /\ \A cleared \in BOOLEAN : WF_vars(OfSerial(Serial!Join(cleared)))
  /\ WF_vars(OfPcap(Pcap!Open)) /\ WF_vars(OfPcap(Pcap!Receive))

Spec == Init /\ [][Next]_vars /\ Fairness

(* What is received is what the lidar sent, packet by packet, over the      *)
(* serial line and over TCP (SerialStream, TcpStream).                     *)
StreamsFaithful ==
  /\ part = "serial" => Serial!SerialFaithful
  /\ part = "tcp" => Tcp!TcpFaithful
(* A recording is played back packet by packet (PcapReader).               *)
PlaybackExact == part = "pcap" => Pcap!PlaybackExact
(* Frames end where turns, fields and scans do (PacketDecoder).            *)
FramesAreTurns == part = "frames" => Decoder!FramesAreTurns
(* Each accepted packet is computed once (PacketDecoder).                  *)
PacketsComputedOnce == part = "frames" => Decoder!PacketsComputedOnce
(* Losses and clock jumps are counted exactly (PacketDecoder).             *)
CountsExact == part = "frames" => Decoder!CountsExact
(* A cloud has the points of its frames, each once (FrameClouds).          *)
CloudsAreExact == part = "clouds" => Clouds!CloudsAreExact
(* A grid has in each cell a point that lies there (FrameClouds).          *)
GridsAreExact == part = "clouds" => Clouds!GridsAreExact
(* Close of the serial source does not wait for ever (SerialStream).       *)
CloseReturns == (part = "serial" /\ closing) ~> (part = "serial" /\ ~closing)
(* A recording played once comes to its end (PcapReader).                  *)
PlaybackEnds ==
  (part = "pcap" /\ opened /\ ~isLoop) ~> (part = "pcap" /\ isPcapEnd)
=============================================================================
