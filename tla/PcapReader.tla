----------------------------- MODULE PcapReader -----------------------------
(***************************************************************************)
(* PcapSource: a recording is read record by record through a window of    *)
(* the file that is mapped chunk by chunk, and the lidar's packets are     *)
(* taken out of the UDP and TCP payloads.  Positions count units of the    *)
(* file: the file header is one, a record header HeaderLen, a payload as   *)
(* many as the record says.  Receive runs in one thread.                   *)
(***************************************************************************)
EXTENDS Integers, Sequences, SequencesExt

CONSTANTS
  Recordings,  \* what may have been recorded: sequences of [kind, len, packets]
  ChunkSize,   \* CHUNK_SIZE
  BufMax,      \* kBufSize, the longest payload that is read
  TcpMax,      \* kDataMaxLength, in packets
  TcpSlack,    \* 5 * kBufSize, in packets
  Cuts,        \* how much of the file's end may be missing
  MaxLoops     \* bound on the times the recording starts again

(* "odd" stands for TCP data that are no multiple of 581 bytes, "other" for *)
(* what is neither UDP nor TCP, is too short or, with a VLAN tag, TCP.       *)
Kinds == {"udp", "tcp", "odd", "other"}
HeaderLen == 2

PcapAssumption ==
  /\ Recordings \subseteq Seq([kind : Kinds, len : Nat \ {0}, packets : Nat])
  /\ \A rs \in Recordings : \A i \in DOMAIN rs :
       rs[i].packets > 0 <=> rs[i].kind \in {"udp", "tcp"}
  /\ ChunkSize \in Nat /\ ChunkSize > HeaderLen
  /\ BufMax \in Nat /\ TcpSlack \in Nat /\ TcpMax \in Nat /\ TcpSlack < TcpMax
  /\ Cuts \subseteq Nat /\ MaxLoops \in Nat

VARIABLES
  records,     \* the recording
  fileSize,    \* _file_size
  opened,      \* is the file open?
  mapped,      \* _mapped_offset, or -1 while nothing is mapped
  fpos,        \* _fpos
  stray,       \* has a read ever touched memory outside the mapped chunk?
  isLoop,      \* is_loop
  isPcapEnd,   \* is_pcap_end
  tcp,         \* m_receiveBuffer, up to dataLength, in packets
  dataIndex,   \* dataIndex, in packets
  loops,       \* times the recording started again
  got          \* what Receive returned since it started

pcapVars == <<records, fileSize, opened, mapped, fpos, stray, isLoop, isPcapEnd, tcp,
              dataIndex, loops, got>>

(* Where the i-th record starts; the one after the last is the file's end.  *)
RecordStart ==
  LET start[i \in 1..Len(records) + 1] ==
        IF i = 1 THEN 1 ELSE start[i - 1] + HeaderLen + records[i - 1].len
  IN start
BeginPos == RecordStart[1]

Init ==
  /\ records \in Recordings
  /\ \E cut \in Cuts : fileSize = RecordStart[Len(records) + 1] - cut
  /\ opened = FALSE /\ mapped = -1 /\ fpos = 0 /\ stray = FALSE
  /\ isLoop \in BOOLEAN /\ isPcapEnd = FALSE
  /\ tcp = <<>> /\ dataIndex = 0 /\ loops = 0 /\ got = <<>>

(***************************************************************************)
(* The mapped window.  A chunk begins at a multiple of ChunkSize and ends   *)
(* with the file at the latest.                                            *)
(***************************************************************************)
Least(a, b) == IF a < b THEN a ELSE b
ChunkOf(pos) == (pos \div ChunkSize) * ChunkSize
EndOf(chunk) == chunk + Least(ChunkSize, fileSize - chunk)
Inside(chunk, pos) == chunk # -1 /\ chunk <= pos /\ pos < EndOf(chunk)

(* check_and_map_chunk, over map_chunk: past the end nothing is mapped anew. *)
CheckAndMap(chunk, pos) ==
  IF Inside(chunk, pos) \/ pos >= fileSize THEN chunk ELSE ChunkOf(pos)

(* Fault: what is left of a chunk is taken to be what is left of the file. *)
CopiedAtOnce(chunk, pos, len) ==
  [chunk |-> CheckAndMap(chunk, pos),
   bytes |-> [i \in 1..len |-> pos + i - 1],
   mapped |-> pos + len <= EndOf(CheckAndMap(chunk, pos))]

(* A round of the loop of read with n bytes left: what the chunk has of     *)
(* them is copied, and copy says what later rounds do with the rest: the    *)
(* chunk they end with, the positions copied, and whether each was mapped.  *)
Round(p, n, chunk, copy) ==
  LET now == CheckAndMap(chunk, p)
      some == Least(n, EndOf(now) - p)
      rest == copy[n - some][now]
  IN [chunk |-> rest.chunk,
      bytes |-> [i \in 1..some |-> p + i - 1] \o rest.bytes,
      mapped |-> Inside(now, p) /\ rest.mapped]

Copied(chunk, pos, len) ==
  LET copy[n \in 0..len] ==
        [c \in Int |-> IF n = 0 THEN [chunk |-> c, bytes |-> <<>>, mapped |-> TRUE]
                       ELSE Round(pos + len - n, n, c, copy)]
  IN copy[len][chunk]

Fits(len) == fpos + len <= fileSize

(***************************************************************************)
(* Open maps the first chunk and reads the file header.                    *)
(***************************************************************************)
Open ==
  /\ ~opened
  /\ opened' = TRUE
  /\ mapped' = 0 /\ fpos' = BeginPos
  /\ UNCHANGED <<records, fileSize, stray, isLoop, isPcapEnd, tcp, dataIndex, loops, got>>

(* The record whose header is at pos, 0 when none is: after a record that   *)
(* was cut short, the next header is looked for inside its payload.          *)
RecordAt(pos) ==
  IF \E i \in DOMAIN records : RecordStart[i] = pos
  THEN CHOOSE i \in DOMAIN records : RecordStart[i] = pos ELSE 0

(* What a header read at pos may say.                                       *)
HeadersAt(pos) ==
  IF RecordAt(pos) # 0 THEN {records[RecordAt(pos)]}
  ELSE [kind : {"udp", "other"}, len : {1, BufMax, BufMax + 1}, packets : {1}]

PacketOf(record, k) == [record |-> record, packet |-> k]

(* The read position when next reads its record: the recording starts again *)
(* when it plays in a loop.                                                  *)
Restarts == fpos >= fileSize /\ isLoop
From == IF Restarts THEN BeginPos ELSE fpos
FromChunk == IF Restarts THEN CheckAndMap(mapped, BeginPos) ELSE mapped

(* Fault: the end is only seen once it has been passed. *)
EndsPast == fpos > fileSize /\ ~isLoop

(* next finds the end of the recording, and plays it once. *)
Ends == fpos >= fileSize /\ ~isLoop

ReachEnd ==
  /\ opened /\ dataIndex = Len(tcp) /\ Ends
  /\ isPcapEnd' = TRUE
  /\ UNCHANGED <<records, fileSize, opened, mapped, fpos, stray, isLoop, tcp, dataIndex,
                 loops, got>>

(* A packet left from an earlier TCP record.  The one at the start of the   *)
(* buffer is returned, wherever dataIndex is.                               *)
ReceiveBuffered ==
  /\ opened /\ dataIndex < Len(tcp)
  /\ got' = Append(got, tcp[1])
  /\ dataIndex' = dataIndex + 1
  /\ UNCHANGED <<records, fileSize, opened, mapped, fpos, stray, isLoop, isPcapEnd, tcp,
                 loops>>

(* The TCP buffer before a record is read: moved to its start when little   *)
(* room is left.                                                            *)
Crowded == Len(tcp) + TcpSlack > TcpMax
TcpKept == IF Crowded THEN SubSeq(tcp, dataIndex + 1, Len(tcp)) ELSE tcp
IndexKept == IF Crowded THEN 0 ELSE dataIndex

(* next: one record.  A call that finds less of the file than it needs      *)
(* returns -1 and leaves the position after what it did read.               *)
ReadRecord ==
  /\ opened /\ dataIndex = Len(tcp) /\ ~Ends
  /\ ~Restarts \/ loops < MaxLoops
  /\ loops' = IF Restarts THEN loops + 1 ELSE loops
  /\ LET before == IF Restarts THEN <<>> ELSE got
         header == Copied(FromChunk, From, HeaderLen)
         start == From + HeaderLen
     IN IF start > fileSize
        THEN /\ fpos' = From /\ mapped' = FromChunk
             /\ tcp' = TcpKept /\ dataIndex' = IndexKept
             /\ got' = before
             /\ UNCHANGED stray
        ELSE \E h \in HeadersAt(From) :
             LET whole == start + h.len <= fileSize
                 payload == IF h.len <= BufMax /\ whole
                            THEN Copied(header.chunk, start, h.len)
                            ELSE [header EXCEPT !.bytes = <<>>]
                 r == RecordAt(From)
                 found == IF payload.bytes = <<>> THEN <<>>
                          ELSE [k \in 1..h.packets |-> PacketOf(r, k)]
             IN /\ fpos' = IF whole THEN start + h.len ELSE start
                /\ mapped' = IF whole /\ h.len > BufMax
                             THEN CheckAndMap(header.chunk, start + h.len)
                             ELSE payload.chunk
                /\ stray' = (stray \/ ~header.mapped \/ ~payload.mapped
                              \/ header.bytes # [i \in 1..HeaderLen |-> From + i - 1]
                              \/ \E i \in DOMAIN payload.bytes :
                                   payload.bytes[i] # start + i - 1)
                /\ IF h.kind = "tcp" /\ found # <<>>
                   THEN /\ tcp' = TcpKept \o found /\ dataIndex' = IndexKept + 1
                        /\ got' = Append(before, found[1])
                   ELSE /\ tcp' = TcpKept /\ dataIndex' = IndexKept
                        /\ got' = IF h.kind = "udp" THEN before \o found ELSE before
  /\ UNCHANGED <<records, fileSize, opened, isLoop, isPcapEnd>>

Receive == ReceiveBuffered \/ ReachEnd \/ ReadRecord

Next == Open \/ Receive

Spec == Init /\ [][Next]_pcapVars /\ WF_pcapVars(Open) /\ WF_pcapVars(Receive)

(* All the packets of the recording up to a position, in order.             *)
Recorded(pos) ==
  FlattenSeq([i \in DOMAIN records |->
    IF RecordStart[i] + HeaderLen + records[i].len > pos
       \/ records[i].len > BufMax THEN <<>>
    ELSE [k \in 1..records[i].packets |-> PacketOf(i, k)]])

(* Every byte is read through the chunk that holds it, records lie across   *)
(* chunks as they may; and a whole recording is played back exactly: each   *)
(* packet once and in order, in every loop.  (TCP data of several packets   *)
(* are excepted: ReceiveBuffered repeats the first.)                        *)
PlaybackExact ==
  /\ ~stray
  /\ (\A i \in DOMAIN records : records[i].packets <= 1)
       /\ fileSize = RecordStart[Len(records) + 1] /\ fpos >= BeginPos
     => got = Recorded(fpos)

(* A recording that is not played in a loop comes to its end, and           *)
(* is_pcap_end says so.  Of whole files only (Cuts = {0}): when the last    *)
(* record is cut off, next() fails for ever without setting it.             *)
PlaybackEnds == (opened /\ ~isLoop) ~> isPcapEnd
=============================================================================
