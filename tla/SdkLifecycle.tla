----------------------------- MODULE SdkLifecycle -----------------------------
(***************************************************************************)
(* One life of HesaiLidarSdk: Init creates a Lidar and a thread that       *)
(* initialises it, Start waits for that thread to get far enough and       *)
(* starts Run, Stop joins Run, deletes the Lidar, whose destructor joins   *)
(* the threads it owns, and joins the init thread last.                    *)
(*                                                                         *)
(* Packets are counted, not told apart: the origin ring carries them from  *)
(* the receive threads to the one thread that calls GetOnePacket, and the  *)
(* decoded ring and the handle queues carry indices to ComputeXYZI.        *)
(***************************************************************************)
EXTENDS Integers, Sequences

CONSTANTS
  Capacity,      \* kPacketBufferSize of the origin ring
  MaxWork,       \* indices of a frame that are queued and not computed
  Configs,       \* the configurations a life may have
  TimeoutsSet,   \* are recv_point_cloud_timeout and ptc_connect_timeout set?
  Careful,       \* does the caller give Run the time to set its flag before Stop?
  NotifyIsLate   \* do handle threads fall asleep before the destructor notifies?

ASSUME LifecycleAssumption ==
  /\ Capacity \in Nat \ {0} /\ MaxWork \in Nat \ {0}
  /\ Configs \subseteq [early : BOOLEAN, ptc : BOOLEAN, faults : BOOLEAN, threads : Nat \ {0}]
  /\ TimeoutsSet \in BOOLEAN /\ Careful \in BOOLEAN /\ NotifyIsLate \in BOOLEAN

Producers == {"receive", "fault"}
Threads == {"init", "run", "parser", "ptc"} \cup Producers

VARIABLES
  (* what the life was configured with: is the source a socket, so that Start *)
  (* may return early; is PTC used; is there a fault message source; and how  *)
  (* many threads compute                                                     *)
  config,
  (* shared by the threads *)
  lidar,         \* lidar_ptr_: "none", "alive" or "freed"
  runFlag,       \* is_thread_runing_
  running,       \* running_
  initRunning,   \* init_running
  finished,      \* the set flags of init_finish_
  parserMade,    \* GetGeneralParser() is not null
  faultWaiting,  \* source_fault_message_waiting_
  ptcOpen,       \* ptc_client_->IsOpen()
  origin,        \* packets in origin_packets_buffer_
  decoded,       \* indices in decoded_packets_buffer_
  queue,         \* indices in handle_thread_packet_buffer_, per handle thread
  uncomputed,    \* queued packets of the frame less compute_packet_num
  (* where each thread is *)
  user, joining, \* the caller, and which of the destructor's joins it is at
  at, turn,      \* the named threads, and ParserThread's nUDPCount
  handleAt       \* the handle threads

flags == <<runFlag, running, initRunning, finished, parserMade, faultWaiting>>
work == <<decoded, queue, uncomputed>>
userVars == <<user, joining>>
vars == <<config, lidar, flags, ptcOpen, origin, work, userVars, at, turn, handleAt>>

Workers == IF config.threads > 1 THEN 0 .. config.threads-1 ELSE {}

Init ==
  /\ config \in Configs
  /\ lidar = "none" /\ runFlag = FALSE
  /\ running = TRUE /\ initRunning = TRUE /\ finished = {}
  /\ parserMade = FALSE /\ faultWaiting = TRUE /\ ptcOpen = FALSE
  /\ origin = 0 /\ decoded = 0 /\ queue = [h \in Workers |-> 0] /\ uncomputed = 0
  /\ user = "new" /\ joining = 1
  /\ at = [t \in Threads |-> "none"] /\ turn = 0
  /\ handleAt = [h \in Workers |-> "none"]

Goes(t, from, to) == at[t] = from /\ at' = [at EXCEPT ![t] = to]
Ended(t) == at[t] \in {"none", "gone"}

-----------------------------------------------------------------------------
(* The caller's thread. *)

(* HesaiLidarSdk::Init: the rest of it only copies parameters. *)
UserInits ==
  /\ user = "new" /\ user' = "start"
  /\ lidar' = "alive"
  /\ Goes("init", "none", "open")
  /\ UNCHANGED <<config, flags, ptcOpen, origin, work, joining, turn, handleAt>>

(* Fault: a socket need not have shown a protocol yet. *)
StartableAtOnce == config.early \/ "AllInitFinish" \in finished

Startable == (config.early /\ "FaultMessParse" \in finished) \/ "AllInitFinish" \in finished

(* Start's loop ends with Run started ... *)
StartRuns ==
  /\ user = "start" /\ user' = "use"
  /\ Startable
  /\ Goes("run", "none", "begin")
  /\ UNCHANGED <<config, lidar, flags, ptcOpen, origin, work, joining, turn, handleAt>>

(* ... or without it; until then it sleeps. *)
StartFails ==
  /\ user = "start" /\ user' = "use"
  /\ ~Startable /\ "FailInit" \in finished
  /\ UNCHANGED <<config, lidar, flags, ptcOpen, origin, work, joining, at, turn, handleAt>>

(* Stop, whenever the caller likes after Start, also while the init thread   *)
(* still works; it clears is_thread_runing_ if Start set runing_thread_ptr_. *)
UserStops ==
  /\ user = "use" /\ user' = "joinRun"
  /\ Careful => at["run"] = "none" \/ runFlag
  /\ runFlag' = IF at["run"] = "none" THEN runFlag ELSE FALSE
  /\ UNCHANGED <<config, lidar, running, initRunning, finished, parserMade, faultWaiting,
                 ptcOpen, origin, work, joining, at, turn, handleAt>>

(* ~Lidar begins once Run is joined. *)
UserDeletes ==
  /\ user = "joinRun" /\ user' = "join"
  /\ Ended("run")
  /\ running' = FALSE /\ initRunning' = FALSE
  /\ UNCHANGED <<config, lidar, runFlag, finished, parserMade, faultWaiting, ptcOpen, origin,
                 work, joining, at, turn, handleAt>>

(* Fault: the PTC thread is forgotten. *)
JoinOrderWithoutPtc == <<"receive", "fault", "parser">>

JoinOrder == <<"receive", "fault", "parser", "ptc">>

(* The destructor joins the threads it has, one after the other ... *)
JoinThread ==
  /\ user = "join" /\ joining <= Len(JoinOrder)
  /\ Ended(JoinOrder[joining])
  /\ joining' = joining + 1
  /\ UNCHANGED <<config, lidar, flags, ptcOpen, origin, work, user, at, turn, handleAt>>

Joined == joining - Len(JoinOrder) - 1

(* Fault: nobody notifies. *)
LetSleep(h) == handleAt[h]

Wake(h) == IF handleAt[h] = "wait" THEN "check" ELSE handleAt[h]

(* ... and each handle thread after a notify that needs no mutex, so that a  *)
(* thread between its test and its sleep does not hear it.                   *)
NotifyHandle ==
  /\ user = "join" /\ user' = "joinHandle"
  /\ Joined \in Workers
  /\ NotifyIsLate => handleAt[Joined] # "about"
  /\ handleAt' = [handleAt EXCEPT ![Joined] = Wake(Joined)]
  /\ UNCHANGED <<config, lidar, flags, ptcOpen, origin, work, joining, at, turn>>

JoinHandle ==
  /\ user = "joinHandle" /\ user' = "join"
  /\ handleAt[Joined] \in {"none", "gone"}
  /\ joining' = joining + 1
  /\ UNCHANGED <<config, lidar, flags, ptcOpen, origin, work, at, turn, handleAt>>

(* The memory is given back with no look at the init thread.  One that is    *)
(* left goes on here as if the memory were still there; no property says what *)
(* it reads, and StopReturns promises nothing after that ...                  *)
LidarFreed ==
  /\ user = "join" /\ user' = "joinInit"
  /\ joining > Len(JoinOrder) /\ Joined \notin Workers
  /\ lidar' = "freed"
  /\ UNCHANGED <<config, flags, ptcOpen, origin, work, joining, at, turn, handleAt>>

(* ... which Stop joins only now. *)
StopEnds ==
  /\ user = "joinInit" /\ user' = "stopped"
  /\ Ended("init")
  /\ UNCHANGED <<config, lidar, flags, ptcOpen, origin, work, joining, at, turn, handleAt>>

UserNext == \/ StartRuns \/ StartFails
            \/ UserDeletes \/ JoinThread \/ NotifyHandle \/ JoinHandle \/ LidarFreed \/ StopEnds

-----------------------------------------------------------------------------
(* The init thread: Lidar::Init, then the rest of InitThread. *)

initKeeps == <<config, lidar, runFlag, ptcOpen, work, userVars, turn>>

(* The source opens, or the initialisation has failed. *)
OpenSource ==
  /\ initRunning' = TRUE
  /\ \/ Goes("init", "open", "spawn") /\ UNCHANGED finished
     \/ Goes("init", "open", "report") /\ finished' = finished \cup {"FailInit"}
  /\ UNCHANGED <<initKeeps, running, parserMade, faultWaiting, origin, handleAt>>

(* SetThreadNum, with at least one thread, starts every thread of the Lidar; *)
(* there were none.                                                          *)
SetThreadNum ==
  /\ at["init"] = "spawn"
  /\ running' = TRUE
  /\ at' = [t \in Threads |-> CASE t = "init" -> "connect"
                                [] t \in {"receive", "parser"} -> "loop"
                                [] t = "fault" -> IF config.faults THEN "loop" ELSE "none"
                                [] OTHER -> at[t]]
  /\ handleAt' = [h \in Workers |-> "check"]
  /\ UNCHANGED <<initKeeps, initRunning, finished, parserMade, faultWaiting, origin>>

(* With PTC, a thread that will configure the lidar once connected. *)
StartPtc ==
  /\ at["init"] = "connect"
  /\ at' = [at EXCEPT !["init"] = "detect", !["ptc"] = IF config.ptc THEN "loop" ELSE "none"]
  /\ UNCHANGED <<initKeeps, running, initRunning, finished, parserMade, faultWaiting, origin,
                 handleAt>>

(* A packet that shows the protocol makes the parser; others are dropped. *)
DetectPacket ==
  /\ at["init"] = "detect" /\ ~parserMade /\ initRunning
  /\ origin > 0 /\ origin' = origin - 1
  /\ parserMade' \in BOOLEAN
  /\ UNCHANGED <<initKeeps, running, initRunning, finished, faultWaiting, at, handleAt>>

Undetected == ~parserMade /\ initRunning

(* Fault: giving up is not reported. *)
DetectionFailsSilently ==
  at' = [at EXCEPT !["init"] = "gone"] /\ UNCHANGED <<faultWaiting, finished>>

DetectionFails ==
  /\ at' = [at EXCEPT !["init"] = "report"]
  /\ finished' = finished \cup {"FailInit"} /\ UNCHANGED faultWaiting

DetectionSucceeds ==
  /\ at' = [at EXCEPT !["init"] = "ptcWait"]
  /\ finished' = finished \cup {"FaultMessParse"} /\ faultWaiting' = FALSE

(* The loop ends with a parser, by init_running, or when the time is up, which *)
(* it looks at after taking a packet and before decoding it.                   *)
DetectEnds ==
  /\ at["init"] = "detect"
  /\ Undetected => TimeoutsSet
  /\ IF parserMade THEN DetectionSucceeds ELSE DetectionFails
  /\ \/ UNCHANGED origin
     \/ Undetected /\ origin > 0 /\ origin' = origin - 1
  /\ UNCHANGED <<initKeeps, running, initRunning, parserMade, handleAt>>

(* The wait for PTC ends by a connection, by init_running or by time. *)
PtcWaitEnds ==
  /\ config.ptc /\ ~ptcOpen /\ initRunning => TimeoutsSet
  /\ Goes("init", "ptcWait", "load")
  /\ UNCHANGED <<initKeeps, running, initRunning, finished, parserMade, faultWaiting, origin,
                 handleAt>>

(* The corrections come from the lidar or, failing that, from a file. *)
LoadCorrections ==
  /\ Goes("init", "load", "report")
  /\ finished' = finished \cup {"PointCloudParse"}
  /\ initRunning' = FALSE
  /\ UNCHANGED <<initKeeps, running, parserMade, faultWaiting, origin, handleAt>>

(* Back in InitThread. *)
InitReports ==
  /\ Goes("init", "report", "gone")
  /\ finished' = finished \cup IF "FailInit" \in finished THEN {} ELSE {"AllInitFinish"}
  /\ UNCHANGED <<initKeeps, running, initRunning, parserMade, faultWaiting, origin, handleAt>>

InitNext == \/ OpenSource \/ SetThreadNum \/ StartPtc \/ DetectPacket \/ DetectEnds
            \/ PtcWaitEnds \/ LoadCorrections \/ InitReports

-----------------------------------------------------------------------------
(* InitSetPtc. *)

PtcLoops ==
  /\ at["ptc"] = "loop"
  /\ at' = [at EXCEPT !["ptc"] = IF initRunning THEN "look" ELSE "gone"]
  /\ UNCHANGED <<config, lidar, flags, ptcOpen, origin, work, userVars, turn, handleAt>>

PtcLooksAgain ==
  /\ ~ptcOpen /\ Goes("ptc", "look", "loop")
  /\ UNCHANGED <<config, lidar, flags, ptcOpen, origin, work, userVars, turn, handleAt>>

PtcConfigures ==
  /\ ptcOpen /\ Goes("ptc", "look", "gone")
  /\ finished' = finished \cup {"PtcInitFinish"}
  /\ UNCHANGED <<config, lidar, runFlag, running, initRunning, parserMade, faultWaiting, ptcOpen,
                 origin, work, userVars, turn, handleAt>>

(* The client gets its connection or loses it. *)
PtcChanges ==
  /\ at["ptc"] # "none" /\ ptcOpen' = ~ptcOpen
  /\ UNCHANGED <<config, lidar, flags, origin, work, userVars, at, turn, handleAt>>

-----------------------------------------------------------------------------
(* ReceiveUdpThread and ReceiveUdpThreadFaultMessage. *)

producerKeeps == <<config, lidar, flags, ptcOpen, work, userVars, turn, handleAt>>

ProducerLoops(p) ==
  /\ at[p] = "loop"
  /\ at' = [at EXCEPT ![p] = IF running THEN "read" ELSE "gone"]
  /\ UNCHANGED <<producerKeeps, origin>>

(* Nothing within the socket's timeout, nothing of use, or not yet allowed. *)
ReadsNothing(p) == Goes(p, "read", "loop") /\ UNCHANGED <<producerKeeps, origin>>

ReadsPacket(p) ==
  /\ p = "fault" => ~faultWaiting
  /\ Goes(p, "read", "offer")
  /\ UNCHANGED <<producerKeeps, origin>>

(* It sleeps while full() and running_, then looks at running_ once more ... *)
FindsRoom(p) ==
  /\ at[p] = "offer"
  /\ origin < Capacity \/ ~running
  /\ at' = [at EXCEPT ![p] = IF running THEN "push" ELSE "gone"]
  /\ UNCHANGED <<producerKeeps, origin>>

(* ... and emplace_back, which waits for room itself, without a limit. *)
Pushes(p) ==
  /\ origin < Capacity /\ origin' = origin + 1
  /\ Goes(p, "push", "loop")
  /\ UNCHANGED producerKeeps

ProducerNext(p) ==
  ProducerLoops(p) \/ ReadsNothing(p) \/ ReadsPacket(p) \/ FindsRoom(p) \/ Pushes(p)

-----------------------------------------------------------------------------
(* HesaiLidarSdk::Run. *)

runKeeps == <<config, lidar, running, initRunning, finished, parserMade, faultWaiting, ptcOpen,
              userVars, turn, handleAt>>

(* Run sets its own stop flag. *)
RunBegins ==
  /\ Goes("run", "begin", "loop")
  /\ runFlag' = TRUE
  /\ UNCHANGED <<runKeeps, origin, work>>

RunLoops ==
  /\ at["run"] = "loop"
  /\ at' = [at EXCEPT !["run"] = IF runFlag THEN "take" ELSE "gone"]
  /\ UNCHANGED <<runKeeps, runFlag, origin, work>>

RunTakes ==
  /\ origin > 0 /\ origin' = origin - 1
  /\ Goes("run", "take", "have")
  /\ UNCHANGED <<runKeeps, runFlag, work>>

(* try_pop_front gave up after 100 ms. *)
RunFindsNothing ==
  /\ origin = 0
  /\ Goes("run", "take", "loop")
  /\ UNCHANGED <<runKeeps, runFlag, origin, work>>

(* A fault message, or a packet that is too early, from elsewhere, or refused. *)
RunDrops ==
  /\ Goes("run", "have", "loop")
  /\ UNCHANGED <<runKeeps, runFlag, origin, work>>

QueueIndex == decoded' = decoded + 1 /\ uncomputed' = uncomputed + 1 /\ UNCHANGED queue

(* Fault: nobody asks whether the initialisation is complete. *)
RunDecodesEarly ==
  /\ uncomputed < MaxWork
  /\ Goes("run", "have", "loop")
  /\ QueueIndex
  /\ UNCHANGED <<runKeeps, runFlag, origin>>

RunDecodes ==
  /\ "AllInitFinish" \in finished
  /\ uncomputed < MaxWork
  /\ Goes("run", "have", "loop")
  /\ QueueIndex
  /\ UNCHANGED <<runKeeps, runFlag, origin>>

(* A packet that ends the frame: Run waits for the points of the others, *)
(* whatever its stop flag says ...                                       *)
RunSplits ==
  /\ "AllInitFinish" \in finished
  /\ Goes("run", "have", "wait")
  /\ UNCHANGED <<runKeeps, runFlag, origin, work>>

(* ... publishes, and queues it as the first of the next, unless it only *)
(* reports a silence.                                                    *)
RunPublishes ==
  /\ uncomputed = 0
  /\ Goes("run", "wait", "loop")
  /\ QueueIndex \/ UNCHANGED work
  /\ UNCHANGED <<runKeeps, runFlag, origin>>

RunNext == \/ RunBegins \/ RunLoops \/ RunTakes \/ RunFindsNothing
           \/ RunDrops \/ RunDecodes \/ RunSplits \/ RunPublishes

-----------------------------------------------------------------------------
(* ParserThread and HandleThread. *)

computeKeeps == <<config, lidar, flags, ptcOpen, origin, userVars>>

ParserLoops ==
  /\ at["parser"] = "loop"
  /\ at' = [at EXCEPT !["parser"] = IF running THEN "take" ELSE "gone"]
  /\ UNCHANGED <<computeKeeps, work, turn, handleAt>>

ParserTakes ==
  /\ decoded > 0 /\ decoded' = decoded - 1
  /\ Goes("parser", "take", "have")
  /\ UNCHANGED <<computeKeeps, queue, uncomputed, turn, handleAt>>

ParserFindsNothing ==
  /\ decoded = 0
  /\ Goes("parser", "take", "loop")
  /\ UNCHANGED <<computeKeeps, work, turn, handleAt>>

(* Alone, it computes the points itself ... *)
ParserComputes ==
  /\ Workers = {}
  /\ Goes("parser", "have", "loop")
  /\ uncomputed' = uncomputed - 1
  /\ UNCHANGED <<computeKeeps, decoded, queue, turn, handleAt>>

(* Its mutex is held from a test that found nothing until it sleeps. *)
HoldsMutex(h) == handleAt[h] = "about"

(* ... or passes the index on under the mutex of the next handle thread and *)
(* notifies that one.                                                       *)
ParserDeals ==
  /\ Workers # {}
  /\ LET h == turn % config.threads
     IN /\ ~HoldsMutex(h)
        /\ queue' = [queue EXCEPT ![h] = @ + 1]
        /\ handleAt' = [handleAt EXCEPT ![h] = Wake(h)]
        /\ turn' = h + 1
  /\ Goes("parser", "have", "loop")
  /\ UNCHANGED <<computeKeeps, decoded, uncomputed>>

ParserNext == ParserLoops \/ ParserTakes \/ ParserFindsNothing \/ ParserComputes \/ ParserDeals

HandleGoes(h, from, to) == handleAt[h] = from /\ handleAt' = [handleAt EXCEPT ![h] = to]

(* It takes the mutex and finds the end, work, or nothing to do yet ... *)
HandleChecks(h) ==
  /\ \/ ~running /\ HandleGoes(h, "check", "gone") /\ UNCHANGED queue
     \/ running /\ queue[h] = 0 /\ HandleGoes(h, "check", "about") /\ UNCHANGED queue
     \/ /\ running /\ queue[h] > 0 /\ queue' = [queue EXCEPT ![h] = @ - 1]
        /\ HandleGoes(h, "check", "work")
  /\ UNCHANGED <<computeKeeps, decoded, uncomputed, at, turn>>

(* ... and only from here on does a notify reach it. *)
HandleSleeps(h) ==
  /\ HandleGoes(h, "about", "wait")
  /\ UNCHANGED <<computeKeeps, work, at, turn>>

HandleComputes(h) ==
  /\ HandleGoes(h, "work", "check")
  /\ uncomputed' = uncomputed - 1
  /\ UNCHANGED <<computeKeeps, decoded, queue, at, turn>>

HandleNext(h) == HandleChecks(h) \/ HandleSleeps(h) \/ HandleComputes(h)

-----------------------------------------------------------------------------
Next == \/ UserInits \/ UserStops \/ UserNext
        \/ InitNext
        \/ PtcLoops \/ PtcLooksAgain \/ PtcConfigures \/ PtcChanges
        \/ \E p \in Producers : ProducerNext(p)
        \/ RunNext \/ ParserNext
        \/ \E h \in Workers : HandleNext(h)

Spec == Init /\ [][Next]_vars

(***************************************************************************)
(* Every thread is scheduled and every poll returns, so that a time limit  *)
(* is noticed.  Nothing makes packets arrive, PTC connect or the caller    *)
(* stop.                                                                   *)
(***************************************************************************)
Fairness ==
  /\ WF_vars(UserNext) /\ WF_vars(InitNext) /\ WF_vars(DetectEnds)
  /\ WF_vars(PtcLoops \/ PtcLooksAgain \/ PtcConfigures)
  /\ \A p \in Producers : WF_vars(ProducerNext(p))
  /\ WF_vars(RunNext) /\ WF_vars(ParserNext)
  /\ \A c \in Configs : \A h \in 0 .. c.threads-1 : WF_vars(h \in Workers /\ HandleNext(h))

FairSpec == Spec /\ Fairness

-----------------------------------------------------------------------------
Flags == {"FaultMessParse", "PtcInitFinish", "PointCloudParse", "AllInitFinish", "FailInit"}
UserPlaces == {"new", "start", "use", "joinRun", "join", "joinHandle", "joinInit", "stopped"}
Places == {"none", "gone", "open", "spawn", "connect", "detect", "ptcWait", "load", "report",
           "begin", "loop", "look", "read", "offer", "push", "take", "have", "wait"}
HandlePlaces == {"none", "gone", "check", "about", "wait", "work"}

TypeOK ==
  /\ config \in Configs /\ lidar \in {"none", "alive", "freed"}
  /\ runFlag \in BOOLEAN /\ running \in BOOLEAN /\ initRunning \in BOOLEAN
  /\ finished \subseteq Flags
  /\ parserMade \in BOOLEAN /\ faultWaiting \in BOOLEAN /\ ptcOpen \in BOOLEAN
  /\ origin \in 0..Capacity
  /\ decoded \in Nat /\ queue \in [Workers -> Nat] /\ uncomputed \in Int
  /\ user \in UserPlaces /\ joining \in 1 .. Len(JoinOrder) + 1 + config.threads
  /\ at \in [Threads -> Places] /\ turn \in 0 .. config.threads
  /\ handleAt \in [Workers -> HandlePlaces]

(* Stop gives the Lidar's memory back and joins the init thread after that.  *)
(* Whenever it is called, no other thread is left that could touch the       *)
(* memory: not Run, and none of those the Lidar owns, although the init      *)
(* thread starts them and looks at no stop flag when it does.  And the init  *)
(* thread is left only if a socket let Start return early, and then beyond   *)
(* its detection loop, or if the initialisation has failed.                  *)
OnlyInitOutlivesLidar ==
  lidar = "freed" =>
    /\ \A t \in Threads \ {"init"} : Ended(t)
    /\ \A h \in Workers : handleAt[h] \in {"none", "gone"}
    /\ \/ Ended("init")
       \/ config.early /\ at["init"] \in {"ptcWait", "load", "report"}
       \/ at["init"] = "report" /\ "FailInit" \in finished

(* GetOnePacket and DecodePacket, which share the frame and the parser, have *)
(* one caller at a time: Run starts after the init thread's detection loop.  *)
OneDecoder == at["run"] # "none" => at["init"] \in {"ptcWait", "load", "report", "gone"}

(* No point is computed before the angle corrections are loaded, although    *)
(* Start lets Run take packets earlier.                                      *)
CloudsAreCorrected ==
  uncomputed > 0 \/ at["run"] = "wait" => "PointCloudParse" \in finished

(* With its time limits set, the initialisation lets Start return. *)
StartReturns == user = "start" ~> user # "start"

(* Stop returns, unless a second receive thread may be stuck in a full ring,  *)
(* or the memory is given back under the init thread: then all may happen.    *)
StopReturns ==
  user = "joinRun" /\ ~config.faults ~> user = "stopped" \/ (lidar = "freed" /\ ~Ended("init"))

(* ReceiveUdpThread exits once running_ is false. *)
ReceiveThreadExits == user = "join" ~> Ended("receive")

=============================================================================
