------------------------------ MODULE PcapSaver ------------------------------
(***************************************************************************)
(* PcapSaver and the Lidar calls that use it: the receive threads put what *)
(* they received into a cache, a thread takes it from there through a write *)
(* buffer to the file, and the user starts and stops recordings.  A record  *)
(* is two writes, its header and its packet.                                *)
(***************************************************************************)
EXTENDS Integers, Sequences, SequencesExt

CONSTANTS
  Receivers,        \* ReceiveUdpThread and ReceiveUdpThreadFaultMessage
  MaxPackets,       \* bound on the packets received
  MaxStarts,        \* bound on calls of StartRecordPcap
  CacheMax,         \* capacity of packets_cache_
  BufferSize,       \* BUFFER_SIZE, in writes
  CreationIsAtomic  \* no two receivers create packets_cache_ at once

SaverAssumption ==
  /\ MaxPackets \in Nat /\ MaxStarts \in Nat
  /\ CacheMax \in Nat \ {0} /\ BufferSize \in Nat \ {0}
  /\ CreationIsAtomic \in BOOLEAN

VARIABLES
  received,     \* how many packets came; they are numbered
  isRecordPcap, \* is_record_pcap_
  at,           \* per receiver: "receive", "dump", "create", "push"
  holds,        \* per receiver: the packet it received
  created,      \* packets_cache_ # nullptr
  cache,        \* *packets_cache_
  dumping,      \* dumping_
  thread,       \* dumping_thread_: "none", "while", "write", "sleep", "exited"
  buffer,       \* write_buffer_ up to buffer_pos_
  isOpen, file, \* ofs_, and what was written to it
  earlier,      \* the packets in the files before this one
  user,         \* "idle", or in close for "start" or "stop"
  starts,       \* calls of StartRecordPcap
  pushed,       \* every packet put into the cache, in order
  owed          \* how many were pushed when the last recording was closed

receivers == <<received, at, holds, created, pushed>>
dumper == <<thread, buffer, file>>
control == <<isRecordPcap, dumping, isOpen, earlier, user, starts, owed>>
saverVars == <<receivers, cache, dumper, control>>

FileHeader == [part |-> "file", packet |-> 0]
Record(p) == <<[part |-> "record", packet |-> p], [part |-> "data", packet |-> p]>>

(* The packets whose data is in a file, after its header.                   *)
PacketsIn(writes) == [i \in 1..(Len(writes) - 1) \div 2 |-> writes[2 * i + 1].packet]

Init ==
  /\ received = 0 /\ isRecordPcap = FALSE
  /\ at = [t \in Receivers |-> "receive"] /\ holds = [t \in Receivers |-> 0]
  /\ created = FALSE /\ cache = <<>> /\ dumping = FALSE /\ thread = "none"
  /\ buffer = <<>> /\ isOpen = FALSE /\ file = <<>> /\ earlier = <<>>
  /\ user = "idle" /\ starts = 0 /\ pushed = <<>> /\ owed = 0

(***************************************************************************)
(* The receive threads: is_record_pcap_ is read, and Dump called after it. *)
(***************************************************************************)
Receive(t) ==
  /\ at[t] = "receive" /\ received < MaxPackets
  /\ received' = received + 1
  /\ IF isRecordPcap
     THEN at' = [at EXCEPT ![t] = "dump"] /\ holds' = [holds EXCEPT ![t] = received']
     ELSE UNCHANGED <<at, holds>>
  /\ UNCHANGED <<created, pushed, cache, dumper, control>>

Dump(t) ==
  /\ at[t] = "dump"
  /\ CreationIsAtomic => \A u \in Receivers : at[u] # "create"
  /\ at' = [at EXCEPT ![t] = IF created THEN "push" ELSE "create"]
  /\ UNCHANGED <<received, holds, created, pushed, cache, dumper, control>>

(* The cache that was there, if any, is gone. *)
Create(t) ==
  /\ at[t] = "create"
  /\ created' = TRUE /\ cache' = <<>>
  /\ at' = [at EXCEPT ![t] = "push"]
  /\ UNCHANGED <<received, holds, pushed, dumper, control>>

Push(t) ==
  /\ at[t] = "push" /\ Len(cache) < CacheMax
  /\ cache' = Append(cache, holds[t])
  /\ pushed' = Append(pushed, holds[t])
  /\ at' = [at EXCEPT ![t] = "receive"]
  /\ UNCHANGED <<received, holds, created, dumper, control>>

(***************************************************************************)
(* The dumping thread.                                                     *)
(***************************************************************************)
(* Fault: the loop ends with dumping_, whatever the cache still holds. *)
LeavesPackets == ~dumping

(* The condition of the outer loop, false. *)
HasEnded == ~dumping /\ cache = <<>>

Look ==
  /\ thread = "while"
  /\ IF HasEnded
     THEN thread' = "exited" /\ file' = file \o buffer /\ buffer' = <<>>
     ELSE thread' = "write" /\ UNCHANGED <<file, buffer>>
  /\ UNCHANGED <<receivers, cache, control>>

(* write_to_buffer: a buffer without room goes to the file first. *)
Writes(state, write) ==
  IF Len(state.buffer) + 1 > BufferSize
  THEN [file |-> state.file \o state.buffer, buffer |-> <<write>>]
  ELSE [state EXCEPT !.buffer = Append(@, write)]

Write ==
  /\ thread = "write" /\ cache # <<>>
  /\ LET record == Record(Head(cache))
         after == Writes(Writes([file |-> file, buffer |-> buffer], record[1]), record[2])
     IN file' = after.file /\ buffer' = after.buffer
  /\ cache' = Tail(cache)
  /\ UNCHANGED <<receivers, thread, control>>

Drained ==
  /\ thread = "write" /\ cache = <<>>
  /\ thread' = "sleep"
  /\ UNCHANGED <<receivers, cache, buffer, file, control>>

(* The flush after the inner loop, and the sleep. *)
Flush ==
  /\ thread = "sleep"
  /\ IF 10 * Len(buffer) > 9 * BufferSize \/ cache # <<>>
     THEN file' = file \o buffer /\ buffer' = <<>>
     ELSE UNCHANGED <<file, buffer>>
  /\ thread' = "while"
  /\ UNCHANGED <<receivers, cache, control>>

(***************************************************************************)
(* StartRecordPcap and StopRecordPcap; both close what is open first.      *)
(***************************************************************************)
Owes == IF thread = "none" THEN owed ELSE Len(pushed)

StartRecordPcap ==
  /\ user = "idle" /\ starts < MaxStarts
  /\ starts' = starts + 1
  /\ isRecordPcap' = TRUE /\ dumping' = FALSE
  /\ user' = "start" /\ owed' = Owes
  /\ UNCHANGED <<receivers, cache, dumper, isOpen, earlier>>

StopRecordPcap ==
  /\ user = "idle"
  /\ isRecordPcap' = FALSE /\ dumping' = FALSE
  /\ user' = "stop" /\ owed' = Owes
  /\ UNCHANGED <<receivers, cache, dumper, isOpen, earlier, starts>>

Joined == thread \in {"none", "exited"}

(* The end of close, and of StopRecordPcap. *)
Stopped ==
  /\ user = "stop" /\ Joined
  /\ file' = file \o buffer /\ buffer' = <<>>
  /\ isOpen' = FALSE /\ thread' = "none" /\ user' = "idle"
  /\ UNCHANGED <<receivers, cache, isRecordPcap, dumping, earlier, starts, owed>>

(* The end of close in Save, and the rest of Save: with a file that cannot  *)
(* be opened is_record_pcap_ stays set, and nobody empties the cache.        *)
Started(opens) ==
  /\ user = "start" /\ Joined
  /\ earlier' = earlier \o PacketsIn(file \o buffer)
  /\ file' = <<>>
  /\ isOpen' = opens /\ dumping' = opens
  /\ thread' = IF opens THEN "while" ELSE "none"
  /\ buffer' = IF opens THEN <<FileHeader>> ELSE <<>>
  /\ user' = "idle"
  /\ UNCHANGED <<receivers, cache, isRecordPcap, starts, owed>>

Next ==
  \/ \E t \in Receivers : Receive(t) \/ Dump(t) \/ Create(t) \/ Push(t)
  \/ Look \/ Write \/ Drained \/ Flush
  \/ StartRecordPcap \/ StopRecordPcap \/ Stopped
  \/ \E opens \in BOOLEAN : Started(opens)

(* The threads and close go on; nobody has to start or stop a recording.    *)
Fairness ==
  /\ \A t \in Receivers :
       WF_saverVars(Dump(t)) /\ WF_saverVars(Create(t)) /\ WF_saverVars(Push(t))
  /\ WF_saverVars(Look) /\ WF_saverVars(Write) /\ WF_saverVars(Drained)
  /\ WF_saverVars(Flush) /\ WF_saverVars(Stopped)

Spec == Init /\ [][Next]_saverVars /\ Fairness

(* A file is its header and whole records.                                  *)
FileOf(packets) ==
  [i \in 1..2 * Len(packets) + 1 |->
     IF i = 1 THEN FileHeader ELSE Record(packets[i \div 2])[1 + (i % 2)]]
IsWhole(writes) == writes = FileOf(PacketsIn(writes))

(* Through the cache, the buffer and the thread that ends while receivers   *)
(* still put packets in: the files hold every packet once and in order, in  *)
(* whole records; a closed file holds all that was put into the cache       *)
(* before StopRecordPcap was called (PcapSaver::close, Lidar::Dump).         *)
RecordingComplete ==
  /\ file \o buffer = <<>> \/ IsWhole(file \o buffer)
  /\ earlier \o PacketsIn(file \o buffer) \o cache = pushed
  /\ user = "idle" /\ ~isOpen =>
       /\ file = <<>> \/ IsWhole(file)
       /\ Len(earlier \o PacketsIn(file)) >= owed

(* "or no more data, then flush" (the comment above the flush): as long as  *)
(* the recording goes on, a packet put into the cache reaches the file.      *)
DumpedIsWritten ==
  \A p \in 1..MaxPackets :
    (dumping /\ p \in ToSet(cache)) ~> (~dumping \/ p \in ToSet(PacketsIn(file)))
=============================================================================
