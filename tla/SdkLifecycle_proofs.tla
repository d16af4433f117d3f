------------------------- MODULE SdkLifecycle_proofs -------------------------
(***************************************************************************)
(* Proofs about the life of the SDK, for every ring capacity, every set of *)
(* configurations and any number of handle threads.                        *)
(***************************************************************************)
EXTENDS SdkLifecycle, TLAPS

(* What a configuration is. *)
LEMMA ConfigType ==
  ASSUME config \in Configs
  PROVE  /\ config.threads \in Nat \ {0}
         /\ config.early \in BOOLEAN /\ config.ptc \in BOOLEAN /\ config.faults \in BOOLEAN
         /\ Workers \subseteq 0 .. config.threads-1
         /\ config.threads > 1 => Workers = 0 .. config.threads-1
         /\ config.threads <= 1 => Workers = {}
BY LifecycleAssumption DEF Workers

(* An index more in one queue. *)
LEMMA OneMore ==
  ASSUME NEW S, NEW f \in [S -> Nat], NEW x \in S
  PROVE  [f EXCEPT ![x] = @ + 1] \in [S -> Nat]
OBVIOUS

(* An index fewer in a queue that has one. *)
LEMMA OneLess ==
  ASSUME NEW S, NEW f \in [S -> Nat], NEW x \in S, f[x] > 0
  PROVE  [f EXCEPT ![x] = @ - 1] \in [S -> Nat]
OBVIOUS

(* The round robin of ParserThread. *)
LEMMA TurnInRange ==
  ASSUME NEW n \in Nat \ {0}, NEW k \in Nat
  PROVE  (k % n) \in 0 .. n-1 /\ (k % n) + 1 \in 0 .. n
OBVIOUS

(* The joins of the destructor, one by one. *)
LEMMA FourJoins ==
  /\ Len(JoinOrder) = 4
  /\ JoinOrder[1] = "receive" /\ JoinOrder[2] = "fault"
  /\ JoinOrder[3] = "parser" /\ JoinOrder[4] = "ptc"
BY DEF JoinOrder

-----------------------------------------------------------------------------
(* Where the caller is in the destructor. *)
JoinPlace ==
  /\ joining > 1 => user \in {"join", "joinHandle", "joinInit", "stopped"}
  /\ user = "joinHandle" => Joined \in Workers
  /\ user \in {"joinInit", "stopped"} => joining > Len(JoinOrder) /\ Joined \notin Workers
  /\ lidar = "freed" => user \in {"joinInit", "stopped"}

(* The types that the caller's thread keeps, and the others'. *)
UserType ==
  /\ config \in Configs /\ lidar \in {"none", "alive", "freed"}
  /\ user \in UserPlaces /\ joining \in 1 .. Len(JoinOrder) + 1 + config.threads

FlagType ==
  /\ runFlag \in BOOLEAN /\ running \in BOOLEAN /\ initRunning \in BOOLEAN
  /\ finished \subseteq Flags
  /\ parserMade \in BOOLEAN /\ faultWaiting \in BOOLEAN /\ ptcOpen \in BOOLEAN

WorkType ==
  /\ origin \in 0..Capacity
  /\ decoded \in Nat /\ queue \in [Workers -> Nat] /\ uncomputed \in Int

PlaceType ==
  /\ at \in [Threads -> Places] /\ turn \in 0 .. config.threads
  /\ handleAt \in [Workers -> HandlePlaces]

(* TypeOK is its parts. *)
LEMMA TypeParts == TypeOK <=> UserType /\ FlagType /\ WorkType /\ PlaceType
BY DEF TypeOK, UserType, FlagType, WorkType, PlaceType

-----------------------------------------------------------------------------
(* The start. *)
LEMMA InitTyped == Init => TypeOK /\ JoinPlace
<1> SUFFICES ASSUME Init PROVE TypeOK /\ JoinPlace
  OBVIOUS
<1> USE DEF Init
<1>1. config.threads \in Nat \ {0}
  BY ConfigType
<1>2. UserType
  BY <1>1, FourJoins DEF UserType, UserPlaces
<1>3. FlagType
  <2>1. running \in BOOLEAN /\ initRunning \in BOOLEAN /\ faultWaiting \in BOOLEAN
    OBVIOUS
  <2>2. runFlag \in BOOLEAN /\ parserMade \in BOOLEAN /\ ptcOpen \in BOOLEAN
    OBVIOUS
  <2> QED
    BY <2>1, <2>2 DEF FlagType
<1>4. WorkType
  BY LifecycleAssumption DEF WorkType
<1>5. PlaceType
  BY <1>1 DEF PlaceType, Places, HandlePlaces
<1>6. JoinPlace
  BY DEF JoinPlace
<1> QED
  BY <1>2, <1>3, <1>4, <1>5, <1>6, TypeParts

(* The caller's own steps. *)
LEMMA UserKeepsTypes ==
  ASSUME TypeOK, JoinPlace, UserInits \/ UserStops \/ UserNext
  PROVE  TypeOK' /\ JoinPlace'
<1>0. Capacity \in Nat /\ config.threads \in Nat \ {0} /\ Workers \subseteq 0 .. config.threads-1
  BY ConfigType, LifecycleAssumption DEF TypeOK
<1> USE <1>0, FourJoins DEF TypeOK, JoinPlace, Joined, Places, HandlePlaces, UserPlaces, Flags,
            Threads, Producers, flags, work, userVars, Workers, Goes
<1>1. CASE UserInits
  BY <1>1 DEF UserInits
<1>2. CASE UserStops
  BY <1>2 DEF UserStops
<1>3. CASE StartRuns
  BY <1>3 DEF StartRuns
<1>4. CASE StartFails
  BY <1>4 DEF StartFails
<1>5. CASE UserDeletes
  BY <1>5 DEF UserDeletes
<1>6. CASE JoinThread
  BY <1>6 DEF JoinThread
<1>7. CASE NotifyHandle
  BY <1>7 DEF NotifyHandle, Wake
<1>8. CASE JoinHandle
  BY <1>8 DEF JoinHandle
<1>9. CASE LidarFreed
  BY <1>9 DEF LidarFreed
<1>10. CASE StopEnds
  BY <1>10 DEF StopEnds
<1> QED
  BY <1>1, <1>2, <1>3, <1>4, <1>5, <1>6, <1>7, <1>8, <1>9, <1>10 DEF UserNext

(* The init thread's. *)
LEMMA InitKeepsTypes ==
  ASSUME TypeOK, JoinPlace, InitNext
  PROVE  TypeOK' /\ JoinPlace'
<1>0. Capacity \in Nat /\ config.threads \in Nat \ {0} /\ Workers \subseteq 0 .. config.threads-1
  BY ConfigType, LifecycleAssumption DEF TypeOK
<1> USE <1>0, FourJoins DEF TypeOK, JoinPlace, Joined, Places, HandlePlaces, UserPlaces, Flags,
            Threads, Producers, flags, work, userVars, Workers, Goes, initKeeps
<1>1. CASE OpenSource
  <2>1. UserType'
    BY <1>1 DEF OpenSource, UserType
  <2>2. FlagType'
    BY <1>1 DEF OpenSource, FlagType
  <2>3. WorkType'
    BY <1>1 DEF OpenSource, WorkType
  <2>4. PlaceType'
    BY <1>1 DEF OpenSource, PlaceType
  <2>5. JoinPlace'
    BY <1>1 DEF OpenSource, JoinPlace
  <2> QED
    BY <2>1, <2>2, <2>3, <2>4, <2>5 DEF UserType, FlagType, WorkType, PlaceType
<1>2. CASE SetThreadNum
  BY <1>2 DEF SetThreadNum
<1>3. CASE StartPtc
  BY <1>3 DEF StartPtc
<1>4. CASE DetectPacket
  <2>1. UserType'
    BY <1>4 DEF DetectPacket, UserType
  <2>2. FlagType'
    BY <1>4 DEF DetectPacket, FlagType
  <2>3. WorkType'
    BY <1>4 DEF DetectPacket, WorkType
  <2>4. PlaceType'
    BY <1>4 DEF DetectPacket, PlaceType
  <2>5. JoinPlace'
    BY <1>4 DEF DetectPacket, JoinPlace
  <2> QED
    BY <2>1, <2>2, <2>3, <2>4, <2>5 DEF UserType, FlagType, WorkType, PlaceType
<1>5. CASE DetectEnds
  <2>1. UserType'
    BY <1>5 DEF DetectEnds, DetectionSucceeds, DetectionFails, Undetected, UserType
  <2>2. FlagType'
    <3>1. /\ finished' \in {finished, finished \cup {"FailInit"}, finished \cup {"FaultMessParse"}}
          /\ faultWaiting' \in {faultWaiting, FALSE}
      BY <1>5 DEF DetectEnds, DetectionSucceeds, DetectionFails
    <3>2. UNCHANGED <<runFlag, running, initRunning, parserMade, ptcOpen>>
      BY <1>5 DEF DetectEnds, initKeeps
    <3> QED
      BY <3>1, <3>2 DEF FlagType
  <2>3. WorkType'
    BY <1>5 DEF DetectEnds, DetectionSucceeds, DetectionFails, Undetected, WorkType
  <2>4. PlaceType'
    BY <1>5 DEF DetectEnds, DetectionSucceeds, DetectionFails, Undetected, PlaceType
  <2>5. JoinPlace'
    BY <1>5 DEF DetectEnds, DetectionSucceeds, DetectionFails, Undetected, JoinPlace
  <2> QED
    BY <2>1, <2>2, <2>3, <2>4, <2>5 DEF UserType, FlagType, WorkType, PlaceType
<1>6. CASE PtcWaitEnds
  <2>1. UserType'
    BY <1>6 DEF PtcWaitEnds, UserType
  <2>2. FlagType'
    BY <1>6 DEF PtcWaitEnds, FlagType
  <2>3. WorkType'
    BY <1>6 DEF PtcWaitEnds, WorkType
  <2>4. PlaceType'
    BY <1>6 DEF PtcWaitEnds, PlaceType
  <2>5. JoinPlace'
    BY <1>6 DEF PtcWaitEnds, JoinPlace
  <2> QED
    BY <2>1, <2>2, <2>3, <2>4, <2>5 DEF UserType, FlagType, WorkType, PlaceType
<1>7. CASE LoadCorrections
  <2>1. UserType'
    BY <1>7 DEF LoadCorrections, UserType
  <2>2. FlagType'
    BY <1>7 DEF LoadCorrections, FlagType
  <2>3. WorkType'
    BY <1>7 DEF LoadCorrections, WorkType
  <2>4. PlaceType'
    BY <1>7 DEF LoadCorrections, PlaceType
  <2>5. JoinPlace'
    BY <1>7 DEF LoadCorrections, JoinPlace
  <2> QED
    BY <2>1, <2>2, <2>3, <2>4, <2>5 DEF UserType, FlagType, WorkType, PlaceType
<1>8. CASE InitReports
  <2>1. UserType'
    BY <1>8 DEF InitReports, UserType
  <2>2. FlagType'
    BY <1>8 DEF InitReports, FlagType
  <2>3. WorkType'
    BY <1>8 DEF InitReports, WorkType
  <2>4. PlaceType'
    BY <1>8 DEF InitReports, PlaceType
  <2>5. JoinPlace'
    BY <1>8 DEF InitReports, JoinPlace
  <2> QED
    BY <2>1, <2>2, <2>3, <2>4, <2>5 DEF UserType, FlagType, WorkType, PlaceType
<1> QED
  BY <1>1, <1>2, <1>3, <1>4, <1>5, <1>6, <1>7, <1>8 DEF InitNext

(* InitSetPtc's and the connection's. *)
LEMMA PtcKeepsTypes ==
  ASSUME TypeOK, JoinPlace, PtcLoops \/ PtcLooksAgain \/ PtcConfigures \/ PtcChanges
  PROVE  TypeOK' /\ JoinPlace'
<1>0. Capacity \in Nat /\ config.threads \in Nat \ {0} /\ Workers \subseteq 0 .. config.threads-1
  BY ConfigType, LifecycleAssumption DEF TypeOK
<1> USE <1>0, FourJoins DEF TypeOK, JoinPlace, Joined, Places, HandlePlaces, UserPlaces, Flags,
            Threads, Producers, flags, work, userVars, Workers, Goes
<1>1. CASE PtcLoops
  BY <1>1 DEF PtcLoops
<1>2. CASE PtcLooksAgain
  BY <1>2 DEF PtcLooksAgain
<1>3. CASE PtcConfigures
  BY <1>3 DEF PtcConfigures
<1>4. CASE PtcChanges
  BY <1>4 DEF PtcChanges
<1> QED
  BY <1>1, <1>2, <1>3, <1>4

(* The receive threads': only these fill the origin ring. *)
LEMMA ProducerKeepsTypes ==
  ASSUME TypeOK, JoinPlace, NEW p \in Producers, ProducerNext(p)
  PROVE  TypeOK' /\ JoinPlace'
<1>0. Capacity \in Nat /\ config.threads \in Nat \ {0} /\ Workers \subseteq 0 .. config.threads-1
  BY ConfigType, LifecycleAssumption DEF TypeOK
<1> USE <1>0, FourJoins DEF TypeOK, JoinPlace, Joined, Places, HandlePlaces, UserPlaces, Flags,
            Threads, Producers, flags, work, userVars, Workers, Goes, producerKeeps
<1>1. CASE ProducerLoops(p)
  BY <1>1 DEF ProducerLoops
<1>2. CASE ReadsNothing(p)
  BY <1>2 DEF ReadsNothing
<1>3. CASE ReadsPacket(p)
  BY <1>3 DEF ReadsPacket
<1>4. CASE FindsRoom(p)
  BY <1>4 DEF FindsRoom
<1>5. CASE Pushes(p)
  <2>1. UserType'
    BY <1>5 DEF Pushes, UserType
  <2>2. FlagType'
    BY <1>5 DEF Pushes, FlagType
  <2>3. WorkType'
    BY <1>5 DEF Pushes, WorkType
  <2>4. PlaceType'
    BY <1>5 DEF Pushes, PlaceType
  <2>5. JoinPlace'
    BY <1>5 DEF Pushes, JoinPlace
  <2> QED
    BY <2>1, <2>2, <2>3, <2>4, <2>5 DEF UserType, FlagType, WorkType, PlaceType
<1> QED
  BY <1>1, <1>2, <1>3, <1>4, <1>5 DEF ProducerNext

(* Run's. *)
LEMMA RunKeepsTypes ==
  ASSUME TypeOK, JoinPlace, RunNext
  PROVE  TypeOK' /\ JoinPlace'
<1>0. Capacity \in Nat /\ config.threads \in Nat \ {0} /\ Workers \subseteq 0 .. config.threads-1
  BY ConfigType, LifecycleAssumption DEF TypeOK
<1> USE <1>0, FourJoins DEF TypeOK, JoinPlace, Joined, Places, HandlePlaces, UserPlaces, Flags,
            Threads, Producers, flags, work, userVars, Workers, Goes, runKeeps, QueueIndex
<1>1. CASE RunBegins
  BY <1>1 DEF RunBegins
<1>2. CASE RunLoops
  BY <1>2 DEF RunLoops
<1>3. CASE RunTakes
  <2>1. UserType'
    BY <1>3 DEF RunTakes, UserType
  <2>2. FlagType'
    BY <1>3 DEF RunTakes, FlagType
  <2>3. WorkType'
    BY <1>3 DEF RunTakes, WorkType
  <2>4. PlaceType'
    BY <1>3 DEF RunTakes, PlaceType
  <2>5. JoinPlace'
    BY <1>3 DEF RunTakes, JoinPlace
  <2> QED
    BY <2>1, <2>2, <2>3, <2>4, <2>5 DEF UserType, FlagType, WorkType, PlaceType
<1>4. CASE RunFindsNothing
  BY <1>4 DEF RunFindsNothing
<1>5. CASE RunDrops
  BY <1>5 DEF RunDrops
<1>6. CASE RunDecodes
  BY <1>6 DEF RunDecodes
<1>7. CASE RunSplits
  BY <1>7 DEF RunSplits
<1>8. CASE RunPublishes
  BY <1>8 DEF RunPublishes
<1> QED
  BY <1>1, <1>2, <1>3, <1>4, <1>5, <1>6, <1>7, <1>8 DEF RunNext

(* ParserThread's. *)
LEMMA ParserKeepsTypes ==
  ASSUME TypeOK, JoinPlace, ParserNext
  PROVE  TypeOK' /\ JoinPlace'
<1>0. Capacity \in Nat /\ config.threads \in Nat \ {0} /\ Workers \subseteq 0 .. config.threads-1
  BY ConfigType, LifecycleAssumption DEF TypeOK
<1> USE <1>0, FourJoins DEF TypeOK, JoinPlace, Joined, Places, HandlePlaces, UserPlaces, Flags,
            Threads, Producers, flags, work, userVars, Workers, Goes, computeKeeps, HoldsMutex,
            Wake
<1>1. CASE ParserLoops
  BY <1>1 DEF ParserLoops
<1>2. CASE ParserTakes
  BY <1>2 DEF ParserTakes
<1>3. CASE ParserFindsNothing
  BY <1>3 DEF ParserFindsNothing
<1>4. CASE ParserComputes
  BY <1>4 DEF ParserComputes
<1>5. CASE ParserDeals
  <2> DEFINE h == turn % config.threads
  <2>0. h \in Workers /\ h + 1 \in 0 .. config.threads
    <3>1. config.threads > 1 /\ Workers = 0 .. config.threads-1 /\ turn \in Nat
      BY <1>5 DEF ParserDeals
    <3>2. h \in 0 .. config.threads-1 /\ h + 1 \in 0 .. config.threads
      BY <1>0, <3>1, TurnInRange
    <3> HIDE DEF h, Workers
    <3> QED
      BY <3>1, <3>2
  <2>1. UserType'
    BY <2>0, <1>5 DEF ParserDeals, UserType
  <2>2. FlagType'
    BY <2>0, <1>5 DEF ParserDeals, FlagType
  <2>3. WorkType'
    <3>1. /\ queue' = [queue EXCEPT ![h] = @ + 1] /\ queue \in [Workers -> Nat]
          /\ Workers' = Workers /\ UNCHANGED <<origin, decoded, uncomputed>>
      BY <1>5 DEF ParserDeals
    <3> HIDE DEF h, Workers
    <3>2. queue' \in [Workers -> Nat]
      BY <2>0, <3>1, OneMore
    <3> QED
      BY <3>1, <3>2 DEF WorkType
  <2>4. PlaceType'
    BY <2>0, <1>5 DEF ParserDeals, PlaceType
  <2>5. JoinPlace'
    BY <2>0, <1>5 DEF ParserDeals, JoinPlace
  <2> QED
    BY <2>1, <2>2, <2>3, <2>4, <2>5 DEF UserType, FlagType, WorkType, PlaceType
<1> QED
  BY <1>1, <1>2, <1>3, <1>4, <1>5 DEF ParserNext

(* The handle threads'. *)
LEMMA HandleKeepsTypes ==
  ASSUME TypeOK, JoinPlace, NEW h \in Workers, HandleNext(h)
  PROVE  TypeOK' /\ JoinPlace'
<1>0. Capacity \in Nat /\ config.threads \in Nat \ {0} /\ Workers \subseteq 0 .. config.threads-1
  BY ConfigType, LifecycleAssumption DEF TypeOK
<1> USE <1>0, FourJoins DEF TypeOK, JoinPlace, Joined, Places, HandlePlaces, UserPlaces, Flags,
            Threads, Producers, flags, work, userVars, Workers, Goes, HandleGoes, computeKeeps
<1>1. CASE HandleChecks(h)
  <2>1. UserType'
    BY <1>1 DEF HandleChecks, UserType
  <2>2. FlagType'
    BY <1>1 DEF HandleChecks, FlagType
  <2>3. WorkType'
    <3>1. UNCHANGED <<config, origin, decoded, uncomputed>> /\ Workers' = Workers
      BY <1>1 DEF HandleChecks
    <3>2. \/ queue' = queue
          \/ queue[h] > 0 /\ queue' = [queue EXCEPT ![h] = @ - 1]
      BY <1>1 DEF HandleChecks
    <3>3. origin \in 0..Capacity /\ decoded \in Nat /\ uncomputed \in Int /\ queue \in [Workers -> Nat]
      OBVIOUS
    <3> HIDE DEF Workers
    <3>4. queue' \in [Workers -> Nat]
      BY <3>2, <3>3, OneLess
    <3> QED
      BY <3>1, <3>3, <3>4 DEF WorkType
  <2>4. PlaceType'
    BY <1>1 DEF HandleChecks, PlaceType
  <2>5. JoinPlace'
    BY <1>1 DEF HandleChecks, JoinPlace
  <2> QED
    BY <2>1, <2>2, <2>3, <2>4, <2>5 DEF UserType, FlagType, WorkType, PlaceType
<1>2. CASE HandleSleeps(h)
  BY <1>2 DEF HandleSleeps
<1>3. CASE HandleComputes(h)
  BY <1>3 DEF HandleComputes
<1> QED
  BY <1>1, <1>2, <1>3 DEF HandleNext

(* Every step, then. *)
LEMMA TypeStep == TypeOK /\ JoinPlace /\ [Next]_vars => TypeOK' /\ JoinPlace'
<1> SUFFICES ASSUME TypeOK, JoinPlace, [Next]_vars PROVE TypeOK' /\ JoinPlace'
  OBVIOUS
<1>1. CASE UNCHANGED vars
  BY <1>1 DEF TypeOK, JoinPlace, Joined, Workers, vars, flags, work, userVars
<1> QED
  BY <1>1, UserKeepsTypes, InitKeepsTypes, PtcKeepsTypes, ProducerKeepsTypes, RunKeepsTypes,
     ParserKeepsTypes, HandleKeepsTypes DEF Next

(***************************************************************************)
(* Every state of the model has the declared type: the origin ring never   *)
(* holds more than its capacity, whatever the two receive threads do.      *)
(***************************************************************************)
THEOREM LifecycleTypeCorrect == Spec => []TypeOK
<1>1. Spec => [](TypeOK /\ JoinPlace)
  BY InitTyped, TypeStep, PTL DEF Spec
<1> QED
  BY <1>1, PTL

-----------------------------------------------------------------------------
(* How far the init thread is when a flag is set. *)
FlagsInOrder ==
  /\ "FaultMessParse" \in finished => at["init"] \in {"ptcWait", "load", "report", "gone"}
  /\ "AllInitFinish" \in finished => at["init"] = "gone" /\ "PointCloudParse" \in finished
  /\ "FailInit" \in finished => at["init"] \in {"report", "gone"}
  /\ at["init"] = "report" => {"FailInit", "PointCloudParse"} \cap finished # {}

(* How far it is once Start has returned. *)
InitFarAfterStart ==
  user \notin {"new", "start"} =>
    \/ at["init"] = "gone"
    \/ config.early /\ at["init"] \in {"ptcWait", "load", "report"}
    \/ at["init"] = "report" /\ "FailInit" \in finished

(* No flag is set at first. *)
LEMMA OrderInit == Init => FlagsInOrder /\ InitFarAfterStart /\ OneDecoder /\ CloudsAreCorrected
BY DEF Init, FlagsInOrder, InitFarAfterStart, OneDecoder, CloudsAreCorrected, Threads

(* The flags are set in the order in which the init thread gets on. *)
LEMMA OrderStep ==
  ASSUME TypeOK, FlagsInOrder, InitFarAfterStart, OneDecoder, CloudsAreCorrected, [Next]_vars
  PROVE  FlagsInOrder' /\ InitFarAfterStart' /\ OneDecoder' /\ CloudsAreCorrected'
<1> USE DEF TypeOK, FlagsInOrder, InitFarAfterStart, OneDecoder, CloudsAreCorrected, Threads,
            Producers, Flags, flags, work, userVars
<1>1. CASE UserInits \/ UserStops
  BY <1>1 DEF UserInits, UserStops, Goes
<1>2. CASE UserNext
  BY <1>2 DEF UserNext, Startable, StartRuns, StartFails, UserDeletes, JoinThread, NotifyHandle,
         JoinHandle, LidarFreed, StopEnds, Wake, Goes
<1>3. CASE InitNext
  BY <1>3 DEF InitNext, OpenSource, SetThreadNum, StartPtc, DetectPacket, DetectEnds,
         DetectionSucceeds, DetectionFails, PtcWaitEnds, LoadCorrections, InitReports,
         initKeeps, Goes
<1>4. CASE PtcLoops \/ PtcLooksAgain \/ PtcConfigures \/ PtcChanges
  BY <1>4 DEF PtcLoops, PtcLooksAgain, PtcConfigures, PtcChanges, Goes
<1>5. CASE \E p \in Producers : ProducerNext(p)
  BY <1>5 DEF ProducerNext, ProducerLoops, ReadsNothing, ReadsPacket, FindsRoom, Pushes,
         producerKeeps, Goes
<1>6. CASE RunNext
  BY <1>6 DEF RunNext, RunBegins, RunLoops, RunTakes, RunFindsNothing, RunDrops, RunDecodes,
         RunSplits, RunPublishes, QueueIndex, runKeeps, Goes
<1>7. CASE ParserNext
  BY <1>7 DEF ParserNext, ParserLoops, ParserTakes, ParserFindsNothing, ParserComputes,
  ParserDeals,
         computeKeeps, Wake, Goes
<1>8. CASE \E h \in Workers : HandleNext(h)
  BY <1>8 DEF HandleNext, HandleChecks, HandleSleeps, HandleComputes, HandleGoes, computeKeeps
<1>9. CASE UNCHANGED vars
  BY <1>9 DEF vars
<1> QED
  BY <1>1, <1>2, <1>3, <1>4, <1>5, <1>6, <1>7, <1>8, <1>9 DEF Next

LEMMA OrderInvariant ==
  Spec => [](/\ TypeOK /\ JoinPlace /\ FlagsInOrder /\ InitFarAfterStart
             /\ OneDecoder /\ CloudsAreCorrected)
BY InitTyped, TypeStep, OrderInit, OrderStep, PTL DEF Spec

(***************************************************************************)
(* The init thread and Run never decode at the same time, with every       *)
(* source, however early Start lets Run begin.                             *)
(***************************************************************************)
THEOREM OneDecoderAtATime == Spec => []OneDecoder
BY OrderInvariant, PTL

(***************************************************************************)
(* No point is computed before the angle corrections are loaded.           *)
(***************************************************************************)
THEOREM CorrectionsComeFirst == Spec => []CloudsAreCorrected
BY OrderInvariant, PTL

-----------------------------------------------------------------------------
Stopping == user \in {"joinRun", "join", "joinHandle", "joinInit", "stopped"}
HandleEnded(h) == handleAt[h] \in {"none", "gone"}

(* Once Start has returned, the init thread has nothing left to start, and *)
(* no thread that has ended comes back.                                    *)
LEMMA EndedStays ==
  ASSUME TypeOK, Stopping, InitFarAfterStart, [Next]_vars
  PROVE  /\ \A t \in Threads : Ended(t) => Ended(t)'
         /\ \A h \in Workers : HandleEnded(h) => HandleEnded(h)'
<1> USE DEF TypeOK, Stopping, InitFarAfterStart, Ended, HandleEnded, Threads, Producers
<1>1. CASE UserInits \/ UserStops
  BY <1>1 DEF UserInits, UserStops, Goes
<1>2. CASE UserNext
  BY <1>2 DEF UserNext, StartRuns, StartFails, UserDeletes, JoinThread, NotifyHandle, JoinHandle,
         LidarFreed, StopEnds, Wake, Goes
<1>3. CASE InitNext
  BY <1>3 DEF InitNext, OpenSource, SetThreadNum, StartPtc, DetectPacket, DetectEnds,
         DetectionSucceeds, DetectionFails, PtcWaitEnds, LoadCorrections, InitReports,
         initKeeps, Goes
<1>4. CASE PtcLoops \/ PtcLooksAgain \/ PtcConfigures \/ PtcChanges
  BY <1>4 DEF PtcLoops, PtcLooksAgain, PtcConfigures, PtcChanges, Goes
<1>5. CASE \E p \in Producers : ProducerNext(p)
  BY <1>5 DEF ProducerNext, ProducerLoops, ReadsNothing, ReadsPacket, FindsRoom, Pushes,
         producerKeeps, Goes
<1>6. CASE RunNext
  BY <1>6 DEF RunNext, RunBegins, RunLoops, RunTakes, RunFindsNothing, RunDrops, RunDecodes,
         RunSplits, RunPublishes, runKeeps, Goes
<1>7. CASE ParserNext
  BY <1>7 DEF ParserNext, ParserLoops, ParserTakes, ParserFindsNothing, ParserComputes,
  ParserDeals,
         computeKeeps, Wake, Goes
<1>8. CASE \E h \in Workers : HandleNext(h)
  BY <1>8 DEF HandleNext, HandleChecks, HandleSleeps, HandleComputes, HandleGoes, computeKeeps
<1>9. CASE UNCHANGED vars
  BY <1>9 DEF vars
<1> QED
  BY <1>1, <1>2, <1>3, <1>4, <1>5, <1>6, <1>7, <1>8, <1>9 DEF Next

(* Each thread that has been joined has ended. *)
JoinsDone ==
  /\ Stopping /\ user # "joinRun" => Ended("run")
  /\ \A j \in 1..Len(JoinOrder) : j < joining => Ended(JoinOrder[j])
  /\ \A h \in Workers : h < Joined => HandleEnded(h)

(* Nothing is joined at first. *)
LEMMA JoinsInit == Init => JoinsDone
BY FourJoins, ConfigType DEF Init, JoinsDone, Stopping, Ended, HandleEnded, Joined, Threads

(* What a step of another thread, or of the caller before Stop, leaves alone. *)
LEMMA CallerOnly ==
  ASSUME TypeOK, JoinPlace, [Next]_vars
  PROVE  /\ config' = config /\ Workers' = Workers
         /\ ~Stopping => UserStops \/ (~Stopping' /\ joining' = joining)
         /\ Stopping => (UserNext /\ UNCHANGED at) \/ UNCHANGED <<user, joining>>
<1> USE DEF TypeOK, JoinPlace, Stopping, Workers, userVars
<1>1. CASE UserInits \/ UserStops
  BY <1>1 DEF UserInits, UserStops, Goes
<1>2. CASE UserNext
  BY <1>2 DEF UserNext, StartRuns, StartFails, UserDeletes, JoinThread, NotifyHandle, JoinHandle,
         LidarFreed, StopEnds, Wake, Goes
<1>3. CASE InitNext
  BY <1>3 DEF InitNext, OpenSource, SetThreadNum, StartPtc, DetectPacket, DetectEnds,
         DetectionSucceeds, DetectionFails, PtcWaitEnds, LoadCorrections, InitReports,
         initKeeps, Goes
<1>4. CASE PtcLoops \/ PtcLooksAgain \/ PtcConfigures \/ PtcChanges
  BY <1>4 DEF PtcLoops, PtcLooksAgain, PtcConfigures, PtcChanges, Goes
<1>5. CASE \E p \in Producers : ProducerNext(p)
  BY <1>5 DEF ProducerNext, ProducerLoops, ReadsNothing, ReadsPacket, FindsRoom, Pushes,
         producerKeeps, Goes
<1>6. CASE RunNext
  BY <1>6 DEF RunNext, RunBegins, RunLoops, RunTakes, RunFindsNothing, RunDrops, RunDecodes,
         RunSplits, RunPublishes, runKeeps, Goes
<1>7. CASE ParserNext
  BY <1>7 DEF ParserNext, ParserLoops, ParserTakes, ParserFindsNothing, ParserComputes,
  ParserDeals,
         computeKeeps, Wake, Goes
<1>8. CASE \E h \in Workers : HandleNext(h)
  BY <1>8 DEF HandleNext, HandleChecks, HandleSleeps, HandleComputes, HandleGoes, computeKeeps
<1>9. CASE UNCHANGED vars
  BY <1>9 DEF vars
<1> QED
  BY <1>1, <1>2, <1>3, <1>4, <1>5, <1>6, <1>7, <1>8, <1>9 DEF Next

(* Each join adds one to the threads that have ended, and they stay so. *)
LEMMA JoinsStep ==
  ASSUME TypeOK, JoinPlace, InitFarAfterStart, JoinsDone, [Next]_vars
  PROVE  JoinsDone'
<1>1. /\ joining \in Int /\ config' = config /\ Workers' = Workers
      /\ Workers \subseteq Nat /\ Threads = {"init", "run", "parser", "ptc", "receive", "fault"}
  BY CallerOnly, ConfigType, FourJoins DEF TypeOK, Threads, Producers
<1> USE <1>1, FourJoins DEF JoinsDone, Joined
<1>2. CASE ~Stopping /\ ~UserStops
  <2>1. ~Stopping' /\ joining <= 1 /\ joining' = joining
    BY <1>2, CallerOnly DEF JoinPlace, Stopping
  <2> QED
    BY <2>1 DEF Stopping
<1>3. CASE UserStops
  <2>1. joining <= 1 /\ joining' = joining /\ user' = "joinRun"
    BY <1>3 DEF JoinPlace, UserStops
  <2> QED
    BY <2>1 DEF Stopping
<1>4. CASE Stopping /\ UNCHANGED <<user, joining>>
  <2>1. /\ \A t \in Threads : Ended(t) => Ended(t)'
        /\ \A h \in Workers : HandleEnded(h) => HandleEnded(h)'
    BY <1>4, EndedStays
  <2> QED
    BY <1>4, <2>1 DEF Stopping
<1>5. CASE Stopping /\ UserNext /\ UNCHANGED at
  <2>1. \A h \in Workers : HandleEnded(h) => HandleEnded(h)'
    BY <1>5, EndedStays
  <2>2. CASE UserDeletes
    <3>1. joining <= 1 /\ joining' = joining /\ Ended("run")
      BY <2>2 DEF UserDeletes, JoinPlace
    <3> QED
      BY <1>5, <3>1 DEF Stopping, Ended
  <2>3. CASE JoinThread
    <3>1. /\ joining' = joining + 1 /\ joining <= 4 /\ Ended(JoinOrder[joining])
          /\ user = "join" /\ user' = user
      BY <2>3 DEF JoinThread
    <3> QED
      BY <1>5, <2>1, <3>1 DEF Stopping, Ended
  <2>4. CASE JoinHandle
    <3>1. joining' = joining + 1 /\ HandleEnded(Joined) /\ user = "joinHandle" /\ user' = "join"
          /\ UNCHANGED handleAt /\ Joined \in Workers
      BY <2>4 DEF JoinHandle, HandleEnded, JoinPlace
    <3> QED
      BY <1>5, <3>1 DEF Stopping, Ended, HandleEnded
  <2>5. CASE NotifyHandle \/ LidarFreed \/ StopEnds
    <3>1. joining' = joining /\ user # "joinRun" /\ Stopping'
      BY <2>5 DEF NotifyHandle, LidarFreed, StopEnds, Stopping
    <3> QED
      BY <1>5, <2>1, <3>1 DEF Stopping, Ended
  <2> QED
    BY <1>5, <2>2, <2>3, <2>4, <2>5 DEF UserNext, Stopping, StartRuns, StartFails
<1> QED
  BY <1>2, <1>3, <1>4, <1>5, CallerOnly

(***************************************************************************)
(* Whoever calls Stop, and whenever: when the Lidar's memory is given back, *)
(* Run and the receive, fault, parser, PTC and handle threads have ended.  *)
(* Only the init thread may be left, which Stop joins afterwards, and only *)
(* where a socket let Start return early or the initialisation has failed. *)
(***************************************************************************)
THEOREM OnlyInitOutlives == Spec => []OnlyInitOutlivesLidar
<1> DEFINE IInv == TypeOK /\ JoinPlace /\ InitFarAfterStart /\ JoinsDone
<1>1. Init => TypeOK /\ JoinPlace /\ JoinsDone
  BY InitTyped, JoinsInit
<1>2. TypeOK /\ JoinPlace /\ InitFarAfterStart /\ JoinsDone /\ [Next]_vars => JoinsDone'
  BY JoinsStep
<1>3. IInv => OnlyInitOutlivesLidar
  <2> SUFFICES ASSUME IInv, lidar = "freed"
               PROVE  /\ \A t \in Threads \ {"init"} : Ended(t)
                      /\ \A h \in Workers : HandleEnded(h)
                      /\ \/ Ended("init")
                         \/ config.early /\ at["init"] \in {"ptcWait", "load", "report"}
                         \/ at["init"] = "report" /\ "FailInit" \in finished
    BY DEF OnlyInitOutlivesLidar, HandleEnded
  <2>1. /\ user \in {"joinInit", "stopped"} /\ joining > 4 /\ Joined \notin Workers
        /\ joining \in Int /\ joining <= 5 + config.threads
    BY FourJoins, ConfigType DEF JoinPlace, TypeOK
  <2>2. \A t \in Threads \ {"init"} : Ended(t)
    BY <2>1, FourJoins DEF JoinsDone, Stopping, Threads, Producers, Ended
  <2>3. \A h \in Workers : h < Joined
    BY SMTT(30), <2>1, FourJoins, ConfigType DEF Joined, TypeOK
  <2>4. \/ Ended("init")
        \/ config.early /\ at["init"] \in {"ptcWait", "load", "report"}
        \/ at["init"] = "report" /\ "FailInit" \in finished
    BY <2>1 DEF InitFarAfterStart, Ended
  <2> QED
    BY <2>2, <2>3, <2>4 DEF JoinsDone
<1>4. Spec => [](TypeOK /\ JoinPlace /\ InitFarAfterStart)
  BY OrderInvariant, PTL
<1> QED
  BY <1>1, <1>2, <1>3, <1>4, PTL DEF Spec

=============================================================================
