-------------------------- MODULE TeleopStack_proofs --------------------------
(***************************************************************************)
(* Proofs about the operator's command path, for every queue depth, every  *)
(* set of keys and every traffic of other packages.                        *)
(***************************************************************************)
EXTENDS TeleopStack, SequenceTheorems, TLAPS

LEMMA TopicProperties ==
  ASSUME NEW S, NEW q \in Topic(S)
  PROVE  q \in Seq(S) /\ Len(q) \in Nat /\ Len(q) <= QueueDepth
BY LenProperties DEF Topic

(* Publishing keeps a topic a topic and puts the message last; the other    *)
(* messages move up by d places, where d = 1 if the oldest was evicted.     *)
LEMMA KeepLastTopic ==
  ASSUME NEW S, NEW q \in Topic(S), NEW m \in S
  PROVE  /\ KeepLast(q, m) \in Topic(S)
         /\ \E d \in {0, 1} :
              /\ Len(KeepLast(q, m)) = Len(q) + 1 - d
              /\ d = 1 => Len(q) > 0
              /\ \A i \in 1..(Len(q) - d) : KeepLast(q, m)[i] = q[i + d]
              /\ KeepLast(q, m)[Len(q) + 1 - d] = m
<1>1. q \in Seq(S) /\ Len(q) \in Nat /\ Len(q) <= QueueDepth
  BY TopicProperties
<1>2. CASE Len(q) < QueueDepth
  <2>1. KeepLast(q, m) = Append(q, m)
    BY <1>2 DEF KeepLast
  <2>2. /\ Append(q, m) \in Seq(S) /\ Len(Append(q, m)) = Len(q) + 1
        /\ \A i \in 1..Len(q) : Append(q, m)[i] = q[i]
        /\ Append(q, m)[Len(q) + 1] = m
    BY <1>1, AppendProperties
  <2>3. Append(q, m) \in Topic(S)
    BY <1>1, <1>2, <2>2, QueueDepthAssumption DEF Topic
  <2>4. \A i \in 1..(Len(q) - 0) : Append(q, m)[i] = q[i + 0]
    BY <1>1, <2>2
  <2>5. Len(Append(q, m)) = Len(q) + 1 - 0 /\ Append(q, m)[Len(q) + 1 - 0] = m
    BY <1>1, <2>2
  <2> QED
    BY <2>1, <2>3, <2>4, <2>5
<1>3. CASE ~(Len(q) < QueueDepth)
  <2> DEFINE t == Tail(q)
  <2>1. KeepLast(q, m) = Append(t, m)
    BY <1>3 DEF KeepLast
  <2>2. Len(q) > 0 /\ q # <<>>
    BY <1>1, <1>3, QueueDepthAssumption, EmptySeq
  <2>3. /\ t \in Seq(S) /\ Len(t) = Len(q) - 1
        /\ \A i \in 1..Len(t) : t[i] = q[i + 1]
    BY <1>1, <2>2, HeadTailProperties
  <2> HIDE DEF t
  <2>4. /\ Append(t, m) \in Seq(S) /\ Len(Append(t, m)) = Len(t) + 1
        /\ \A i \in 1..Len(t) : Append(t, m)[i] = t[i]
        /\ Append(t, m)[Len(t) + 1] = m
    BY <2>3, AppendProperties
  <2>5. Append(t, m) \in Topic(S)
    BY <1>1, <2>3, <2>4, QueueDepthAssumption DEF Topic
  <2>6. \A i \in 1..(Len(q) - 1) : Append(t, m)[i] = q[i + 1]
    BY <2>3, <2>4
  <2>7. Len(Append(t, m)) = Len(q) + 1 - 1 /\ Append(t, m)[Len(q) + 1 - 1] = m
    BY <1>1, <2>3, <2>4
  <2> QED
    BY <2>1, <2>2, <2>5, <2>6, <2>7
<1> QED
  BY <1>2, <1>3

(* Taking the oldest message keeps a topic a topic. *)
LEMMA TailTopic ==
  ASSUME NEW S, NEW q \in Topic(S), q # <<>>
  PROVE  /\ Head(q) \in S /\ Tail(q) \in Topic(S)
         /\ Len(Tail(q)) = Len(q) - 1
         /\ \A i \in 1..(Len(q) - 1) : Tail(q)[i] = q[i + 1]
<1>1. q \in Seq(S) /\ Len(q) \in Nat /\ Len(q) <= QueueDepth
  BY TopicProperties
<1>2. /\ Head(q) \in S /\ Tail(q) \in Seq(S) /\ Len(Tail(q)) = Len(q) - 1
      /\ \A i \in 1..Len(Tail(q)) : Tail(q)[i] = q[i + 1]
  BY <1>1, HeadTailProperties
<1> QED
  BY <1>1, <1>2, QueueDepthAssumption DEF Topic

(* Every request the node publishes is a well-formed request. *)
LEMMA PublishRequestType ==
  ASSUME TypeOK, NEW r \in Request, PublishRequest(r)
  PROVE  request' \in Request /\ requestTopic' \in Topic(Request)
BY KeepLastTopic DEF PublishRequest, ValueTypes, TypeOK

LEMMA PostureApiType ==
  ASSUME NEW command \in PostureCommands
  PROVE  PostureApi[command] \in PostureApis
BY DEF PostureCommands, PostureApi, PostureApis

(* A request message keeps its parameter's type under another API. *)
LEMMA RetargetType ==
  ASSUME TypeOK, NEW api \in Apis
  PROVE  [request EXCEPT !.api = api] \in Request
BY DEF TypeOK, ValueTypes, Request, FreshRequest

-----------------------------------------------------------------------------
(* Each handler of go2_control_node keeps the types. *)
LEMMA NodeTypes ==
  ASSUME TypeOK, NodeStep
  PROVE  TypeOK'
<1>1. FlagTypes'
  BY DEF NodeStep, NodeNext, CmdVelCallback, EstopCallback, PostureCallback,
         TypeOK, FlagTypes, teleopVars
<1>2. ValueTypes'
  <2> USE DEF TypeOK, ValueTypes, teleopVars
  <2>1. CASE CmdVelCallback
    <3>1. Head(cmdVelTopic) \in Twist /\ cmdVelTopic' \in Topic(Twist)
      BY <2>1, TailTopic DEF CmdVelCallback
    <3>2. CASE UNCHANGED <<request, requestTopic>>
      BY <2>1, <3>1, <3>2 DEF CmdVelCallback, NodeStep
    <3>3. CASE Move(Head(cmdVelTopic))
      <4>1. [api |-> "MOVE", parameter |-> Head(cmdVelTopic)] \in Request
        BY <3>1 DEF Request, Apis
      <4>2. request' \in Request /\ requestTopic' \in Topic(Request)
        BY <3>3, <4>1, PublishRequestType DEF Move
      <4> QED
        BY <2>1, <3>1, <4>2 DEF CmdVelCallback, NodeStep
    <3> QED
      BY <2>1, <3>2, <3>3 DEF CmdVelCallback
  <2>2. CASE EstopCallback
    <3>1. estopTopic' \in Topic(EstopMessages)
      BY <2>2, TailTopic DEF EstopCallback
    <3>2. CASE Damp
      <4>1. [request EXCEPT !.api = "DAMP"] \in Request
        BY RetargetType DEF Apis
      <4>2. request' \in Request /\ requestTopic' \in Topic(Request)
        BY <3>2, <4>1, PublishRequestType DEF Damp
      <4> QED
        BY <2>2, <3>1, <4>2 DEF EstopCallback, NodeStep
    <3>3. CASE UNCHANGED <<request, requestTopic>>
      BY <2>2, <3>1, <3>3 DEF EstopCallback, NodeStep
    <3> QED
      BY <2>2, <3>2, <3>3 DEF EstopCallback
  <2>3. CASE PostureCallback
    <3> DEFINE command == Head(postureTopic)
    <3>1. postureTopic' \in Topic(Commands)
      BY <2>3, TailTopic DEF PostureCallback
    <3>2. CASE command \in PostureCommands
      <4>1. PostureApi[command] \in Apis
        BY <3>2, PostureApiType DEF Apis
      <4>2. [request EXCEPT !.api = PostureApi[command]] \in Request
        BY <4>1, RetargetType
      <4>3. Posture(PostureApi[command])
        BY <2>3, <3>2 DEF PostureCallback
      <4>4. request' \in Request /\ requestTopic' \in Topic(Request)
        BY <4>2, <4>3, PublishRequestType DEF Posture
      <4> QED
        BY <2>3, <3>1, <4>4 DEF PostureCallback, NodeStep
    <3>3. CASE command \notin PostureCommands
      BY <2>3, <3>1, <3>3 DEF PostureCallback, NodeStep
    <3> QED
      BY <3>2, <3>3
  <2> QED
    BY <2>1, <2>2, <2>3 DEF NodeStep, NodeNext
<1> QED
  BY <1>1, <1>2 DEF TypeOK

(* The velocities the teleop computes are Twists, its speeds stay clamped. *)
LEMMA TeleopTwists ==
  ASSUME TypeOK, NEW k
  PROVE  MoveTwist(k) \in Twist /\ ZeroTwist \in Twist
<1>1. /\ Axis(k, "w", "s") \in {-1, 0, 1}
      /\ Axis(k, "a", "d") \in {-1, 0, 1}
      /\ Axis(k, "q", "e") \in {-1, 0, 1}
  BY DEF Axis
<1>2. linearSpeed \in Int /\ angularSpeed \in Int
  BY DEF TypeOK, ValueTypes
<1> QED
  BY <1>1, <1>2 DEF MoveTwist, ZeroTwist, Twist

LEMMA SpeedRange ==
  ASSUME NEW speed \in Int, NEW k, NEW top \in {1500, 2000}
  PROVE  Rescale(speed, k, top) \in 100..top
<1>1. SpeedFactor(k) = 11 \/ SpeedFactor(k) = 9
  BY DEF SpeedFactor
<1>2. (speed * SpeedFactor(k)) \div 10 \in Int
  BY <1>1
<1> QED
  BY <1>2 DEF Rescale, Clamp

(* Each key, and the end and restart of the program, keep the flags Boolean. *)
LEMMA TeleopFlags ==
  ASSUME TypeOK, PressKey \/ Interrupt \/ Restart, UNCHANGED nodeVars
  PROVE  FlagTypes'
<1>1. estopActive' \in BOOLEAN
  BY DEF TypeOK, FlagTypes, nodeVars
<1> USE DEF TypeOK, FlagTypes, SendEstop
<1>2. CASE EmergencyKey
  BY <1>1, <1>2 DEF EmergencyKey
<1>3. CASE ReleaseKey
  BY <1>1, <1>3 DEF ReleaseKey
<1>4. CASE PostureKey \/ StopKey \/ SpeedKey \/ MoveKey
  BY <1>1, <1>4 DEF PostureKey, StopKey, SpeedKey, MoveKey
<1>5. CASE QuitKey \/ Interrupt \/ Restart
  BY <1>1, <1>5 DEF QuitKey, Interrupt, Restart
<1> QED
  BY <1>2, <1>3, <1>4, <1>5 DEF PressKey

(* ... and keep the types of everything else. *)
LEMMA TeleopTypes ==
  ASSUME TypeOK, PressKey \/ Interrupt \/ Restart,
         UNCHANGED <<requestTopic, nodeVars, executed, foreign>>
  PROVE  TypeOK'
<1>1. FlagTypes'
  BY TeleopFlags
<1> SUFFICES ValueTypes'
  BY <1>1 DEF TypeOK
<1> USE DEF TypeOK, ValueTypes, nodeVars
<1>2. ASSUME NEW k, GetKey(k)
      PROVE  key' \in AllKeys \cup {"none"} /\ presses' \in 0..MaxPresses
  BY <1>2, KeysAssumption DEF GetKey
<1>3. ZeroTwist \in Twist /\ \A k : MoveTwist(k) \in Twist
  BY TeleopTwists
<1>4. CASE EmergencyKey
  <2>1. estopTopic' \in Topic(EstopMessages) /\ cmdVelTopic' \in Topic(Twist)
    BY <1>3, <1>4, KeepLastTopic DEF EmergencyKey, SendEstop, SendVelocity, EstopMessages
  <2> QED
    BY <1>2, <1>4, <2>1 DEF EmergencyKey
<1>5. CASE ReleaseKey
  <2>1. estopTopic' \in Topic(EstopMessages)
    BY <1>5, KeepLastTopic DEF ReleaseKey, SendEstop, EstopMessages
  <2> QED
    BY <1>2, <1>5, <2>1 DEF ReleaseKey
<1>6. CASE PostureKey
  <2>1. PICK k \in PostureKeys : GetKey(k) /\ SendPosture(k)
    BY <1>6 DEF PostureKey
  <2>2. k \in Commands
    BY DEF PostureKeys, PostureCommands, Commands
  <2>3. postureTopic' \in Topic(Commands)
    BY <2>1, <2>2, KeepLastTopic DEF SendPosture
  <2> QED
    BY <1>2, <1>6, <2>1, <2>3 DEF PostureKey
<1>7. CASE StopKey
  <2>1. cmdVelTopic' \in Topic(Twist)
    BY <1>3, <1>7, KeepLastTopic DEF StopKey, SendVelocity
  <2> QED
    BY <1>2, <1>7, <2>1 DEF StopKey
<1>8. CASE SpeedKey
  <2>1. PICK k \in SpeedKeys :
          /\ GetKey(k)
          /\ linearSpeed' = Rescale(linearSpeed, k, 1500)
          /\ angularSpeed' = Rescale(angularSpeed, k, 2000)
    BY <1>8 DEF SpeedKey
  <2>2. linearSpeed \in Int /\ angularSpeed \in Int
    OBVIOUS
  <2>3. /\ Rescale(linearSpeed, k, 1500) \in 100..1500
        /\ Rescale(angularSpeed, k, 2000) \in 100..2000
    BY <2>2, SpeedRange
  <2>4. linearSpeed' \in 100..1500 /\ angularSpeed' \in 100..2000
    BY <2>1, <2>3
  <2> QED
    BY SMTT(30), <1>2, <1>8, <2>1, <2>4 DEF SpeedKey
<1>9. CASE MoveKey
  <2>1. cmdVelTopic' \in Topic(Twist)
    BY <1>3, <1>9, KeepLastTopic DEF MoveKey, SendVelocity
  <2> QED
    BY <1>2, <1>9, <2>1 DEF MoveKey
<1>10. CASE QuitKey
  <2>1. KeepLast(cmdVelTopic, ZeroTwist) \in Topic(Twist)
    BY <1>3, KeepLastTopic
  <2>2. cmdVelTopic' \in Topic(Twist)
    BY <1>3, <1>10, <2>1, KeepLastTopic DEF QuitKey
  <2> QED
    BY <1>2, <1>10, <2>2 DEF QuitKey
<1>11. CASE Interrupt
  BY <1>3, <1>11, KeepLastTopic DEF Interrupt, SendVelocity
<1>12. CASE Restart
  BY <1>12 DEF Restart
<1> HIDE DEF TypeOK, ValueTypes, nodeVars
<1> QED
  BY <1>4, <1>5, <1>6, <1>7, <1>8, <1>9, <1>10, <1>11, <1>12 DEF PressKey

(* Type correctness of the whole command path. *)
THEOREM TypeCorrect == Spec => []TypeOK
<1>1. Init => TypeOK
  <2>1. \A S : <<>> \in Topic(S)
    BY QueueDepthAssumption DEF Topic
  <2>2. 0 \in 0..MaxPresses /\ 0 \in 0..MaxForeign
    BY KeysAssumption, StackAssumption
  <2>3. Init => FlagTypes
    BY DEF Init, FlagTypes, NodeInit, TeleopInit
  <2>4. Init => ValueTypes
    BY <2>1, <2>2 DEF Init, ValueTypes, NodeInit, TeleopInit, DefaultSpeeds
  <2> QED
    BY <2>3, <2>4 DEF TypeOK
<1>2. TypeOK /\ [Next]_vars => TypeOK'
  <2> SUFFICES ASSUME TypeOK, [Next]_vars PROVE TypeOK'
    OBVIOUS
  <2>1. CASE NodeStep
    BY <2>1, NodeTypes
  <2>2. CASE OperatorStep \/ TeleopEnds \/ TeleopRestarts
    BY <2>2, TeleopTypes DEF OperatorStep, TeleopEnds, TeleopRestarts
  <2>3. CASE ForeignPublishes
    <3>1. /\ cmdVelTopic' \in Topic(Twist) /\ estopTopic' \in Topic(EstopMessages)
          /\ postureTopic' \in Topic(Commands)
      <4> USE DEF TypeOK, ValueTypes
      <4>1. CASE ForeignCmdVel
        BY <4>1, KeepLastTopic, StackAssumption DEF ForeignCmdVel
      <4>2. CASE ForeignPosture
        BY <4>2, KeepLastTopic, StackAssumption DEF ForeignPosture, Commands
      <4>3. CASE ForeignEstop
        BY <4>3, KeepLastTopic, StackAssumption DEF ForeignEstop
      <4> QED
        BY <2>3, <4>1, <4>2, <4>3 DEF ForeignPublishes
    <3>2. FlagTypes'
      BY <2>3 DEF ForeignPublishes, TypeOK, FlagTypes, nodeVars, teleopVars
    <3>3. ValueTypes'
      BY <2>3, <3>1, StackAssumption
         DEF ForeignPublishes, TypeOK, ValueTypes, nodeVars, teleopVars
    <3> QED
      BY <3>2, <3>3 DEF TypeOK
  <2>4. CASE RobotExecutes
    BY <2>4, TailTopic
       DEF RobotExecutes, TypeOK, FlagTypes, ValueTypes, nodeVars, teleopVars
  <2>5. CASE UNCHANGED vars
    BY <2>5 DEF vars, topicVars, nodeVars, teleopVars, TypeOK, FlagTypes, ValueTypes
  <2> QED
    BY <2>1, <2>2, <2>3, <2>4, <2>5 DEF Next
<1> QED
  BY <1>1, <1>2, PTL DEF Spec

-----------------------------------------------------------------------------
(* A DAMP put last is behind every MOVE. *)
LEMMA DampCovers ==
  ASSUME NEW q \in Topic(Request), NEW r \in Request, r.api = "DAMP"
  PROVE  EveryMoveDamped(KeepLast(q, r))
<1> DEFINE p == KeepLast(q, r)
<1>1. PICK d \in {0, 1} : Len(p) = Len(q) + 1 - d /\ (d = 1 => Len(q) > 0)
                          /\ p[Len(q) + 1 - d] = r
  BY KeepLastTopic
<1>2. p \in Seq(Request) /\ Len(p) \in Nat /\ DOMAIN p = 1..Len(p)
  BY KeepLastTopic, TopicProperties, LenProperties
<1>3. Len(q) \in Nat
  BY TopicProperties
<1> HIDE DEF p
<1>4. Len(p) \in DOMAIN p /\ p[Len(p)].api = "DAMP"
  BY <1>1, <1>2, <1>3
<1> SUFFICES ASSUME NEW i \in DOMAIN p, p[i].api = "MOVE"
             PROVE  \E j \in DOMAIN p : i < j /\ p[j].api = "DAMP"
  BY DEF EveryMoveDamped, p
<1>5. i # Len(p)
  BY <1>4
<1> QED
  BY <1>2, <1>4, <1>5

(* Dropping the oldest request, or adding one that is no MOVE, uncovers none. *)
LEMMA TailKeepsCover ==
  ASSUME NEW q \in Topic(Request), q # <<>>, EveryMoveDamped(q)
  PROVE  EveryMoveDamped(Tail(q))
<1>1. /\ Len(q) \in Nat /\ DOMAIN q = 1..Len(q)
      /\ Len(Tail(q)) = Len(q) - 1 /\ DOMAIN Tail(q) = 1..Len(Tail(q))
      /\ \A i \in 1..(Len(q) - 1) : Tail(q)[i] = q[i + 1]
  BY TailTopic, TopicProperties, LenProperties
<1> SUFFICES ASSUME NEW i \in 1..(Len(q) - 1), Tail(q)[i].api = "MOVE"
             PROVE  \E j \in 1..(Len(q) - 1) : i < j /\ Tail(q)[j].api = "DAMP"
  BY <1>1 DEF EveryMoveDamped
<1>2. i + 1 \in 1..Len(q) /\ q[i + 1].api = "MOVE"
  BY <1>1
<1>3. PICK j \in 1..Len(q) : i + 1 < j /\ q[j].api = "DAMP"
  BY <1>1, <1>2 DEF EveryMoveDamped
<1>4. j - 1 \in 1..(Len(q) - 1) /\ i < j - 1 /\ (j - 1) + 1 = j
  BY <1>1, <1>3
<1>5. Tail(q)[j - 1] = q[j]
  BY <1>1, <1>4
<1> QED
  BY <1>3, <1>4, <1>5

LEMMA PublishKeepsCover ==
  ASSUME NEW q \in Topic(Request), NEW r \in Request, r.api # "MOVE",
         EveryMoveDamped(q)
  PROVE  EveryMoveDamped(KeepLast(q, r))
<1> DEFINE p == KeepLast(q, r)
<1>1. PICK d \in {0, 1} : /\ Len(p) = Len(q) + 1 - d /\ (d = 1 => Len(q) > 0)
                          /\ \A i \in 1..(Len(q) - d) : p[i] = q[i + d]
                          /\ p[Len(q) + 1 - d] = r
  BY KeepLastTopic
<1>2. Len(p) \in Nat /\ DOMAIN p = 1..Len(p)
  BY KeepLastTopic, TopicProperties, LenProperties
<1>3. Len(q) \in Nat /\ DOMAIN q = 1..Len(q)
  BY TopicProperties, LenProperties
<1> HIDE DEF p
<1> SUFFICES ASSUME NEW i \in 1..Len(p), p[i].api = "MOVE"
             PROVE  \E j \in 1..Len(p) : i < j /\ p[j].api = "DAMP"
  BY <1>2 DEF EveryMoveDamped, p
<1>4. i \in 1..(Len(q) - d) /\ i + d \in 1..Len(q) /\ q[i + d].api = "MOVE"
  BY <1>1, <1>2, <1>3
<1>5. PICK j \in 1..Len(q) : i + d < j /\ q[j].api = "DAMP"
  BY <1>3, <1>4 DEF EveryMoveDamped
<1>6. j - d \in 1..(Len(q) - d) /\ i < j - d /\ p[j - d] = q[(j - d) + d]
  BY <1>1, <1>3, <1>4, <1>5
<1> QED
  BY <1>1, <1>3, <1>5, <1>6

(* The emergency stop silences every velocity: for every topic depth, key   *)
(* sequence and foreign traffic, a MOVE still on its way to the robot while *)
(* the node is stopped is followed there by a DAMP.                         *)
THEOREM StopSilencesMoves == Spec => []MovesPrecedeDamp
<1>1. Init => MovesPrecedeDamp
  BY DEF Init, NodeInit, MovesPrecedeDamp
<1>2. TypeOK /\ MovesPrecedeDamp /\ [Next]_vars => MovesPrecedeDamp'
  <2> SUFFICES ASSUME TypeOK, MovesPrecedeDamp, [Next]_vars, estopActive'
               PROVE  EveryMoveDamped(requestTopic')
    BY DEF MovesPrecedeDamp
  <2> requestTopic \in Topic(Request)
    BY DEF TypeOK, ValueTypes
  <2>1. ASSUME UNCHANGED <<requestTopic, estopActive>>
        PROVE  EveryMoveDamped(requestTopic')
    BY <2>1 DEF MovesPrecedeDamp
  <2>2. CASE NodeStep
    <3>1. CASE CmdVelCallback
      BY <2>1, <3>1 DEF CmdVelCallback
    <3>2. CASE EstopCallback
      <4>1. CASE estopActive
        BY <2>1, <3>2, <4>1 DEF EstopCallback
      <4>2. CASE ~estopActive
        <5> DEFINE r == [request EXCEPT !.api = "DAMP"]
        <5>1. requestTopic' = KeepLast(requestTopic, r)
          BY <3>2, <4>2 DEF EstopCallback, Damp, PublishRequest
        <5>2. r \in Request /\ r.api = "DAMP"
          BY RetargetType DEF Apis, TypeOK, ValueTypes, Request, FreshRequest
        <5> QED
          BY <5>1, <5>2, DampCovers
      <4> QED
        BY <4>1, <4>2
    <3>3. CASE PostureCallback
      <4> DEFINE command == Head(postureTopic)
      <4>1. estopActive
        BY <3>3 DEF PostureCallback
      <4>2. CASE command \notin PostureCommands
        BY <2>1, <3>3, <4>2 DEF PostureCallback
      <4>3. CASE command \in PostureCommands
        <5> DEFINE r == [request EXCEPT !.api = PostureApi[command]]
        <5>1. requestTopic' = KeepLast(requestTopic, r)
          BY <3>3, <4>3 DEF PostureCallback, Posture, PublishRequest
        <5>2. PostureApi[command] \in Apis /\ PostureApi[command] # "MOVE"
          BY <4>3, PostureApiType DEF Apis, PostureApis
        <5>3. r \in Request /\ r.api # "MOVE"
          BY <5>2, RetargetType DEF TypeOK, ValueTypes, Request, FreshRequest
        <5> QED
          BY <4>1, <5>1, <5>3, PublishKeepsCover DEF MovesPrecedeDamp
      <4> QED
        BY <4>2, <4>3
    <3> QED
      BY <2>2, <3>1, <3>2, <3>3 DEF NodeStep, NodeNext
  <2>3. CASE RobotExecutes
    <3>1. estopActive /\ requestTopic # <<>> /\ requestTopic' = Tail(requestTopic)
      BY <2>3 DEF RobotExecutes, nodeVars
    <3> QED
      BY <3>1, TailKeepsCover DEF MovesPrecedeDamp
  <2>4. CASE OperatorStep \/ TeleopEnds \/ TeleopRestarts
    BY <2>1, <2>4 DEF OperatorStep, TeleopEnds, TeleopRestarts, nodeVars
  <2>5. CASE ForeignPublishes
    BY <2>1, <2>5 DEF ForeignPublishes, nodeVars
  <2>6. CASE UNCHANGED vars
    BY <2>1, <2>6 DEF vars, topicVars, nodeVars
  <2> QED
    BY <2>2, <2>3, <2>4, <2>5, <2>6 DEF Next
<1> QED
  BY <1>1, <1>2, TypeCorrect, PTL DEF Spec

-----------------------------------------------------------------------------
(* What the topic and the teleop's belief have to do with the node's flag:  *)
(* the newest undelivered message, or else the flag, is the teleop's belief *)
(* (the flag may also have been cleared by a posture).                      *)
BeliefInv ==
  /\ estopTopic = <<>> => (estopActive => teleopEstop)
  /\ estopTopic # <<>> => (estopTopic[Len(estopTopic)] = "stop" <=> teleopEstop)
  /\ key = "r" => ~teleopEstop

(* One teleop process is all that publishes on /emergency_stop. *)
SoleOperator == ~MayRestart /\ ForeignEstops = {}

(* The newest message on /emergency_stop is what SendEstop recorded. *)
LEMMA SendEstopBelief ==
  ASSUME TypeOK, NEW message \in EstopMessages, SendEstop(message)
  PROVE  /\ estopTopic' # <<>>
         /\ estopTopic'[Len(estopTopic')] = "stop" <=> teleopEstop'
<1>1. estopTopic \in Topic(EstopMessages) /\ estopTopic' = KeepLast(estopTopic, message)
  BY DEF SendEstop, TypeOK, ValueTypes
<1>2. PICK d \in {0, 1} : /\ Len(estopTopic') = Len(estopTopic) + 1 - d
                          /\ d = 1 => Len(estopTopic) > 0
                          /\ estopTopic'[Len(estopTopic) + 1 - d] = message
  BY <1>1, KeepLastTopic
<1>3. Len(estopTopic) \in Nat
  BY <1>1, TopicProperties
<1>4. estopTopic'[Len(estopTopic')] = message /\ Len(estopTopic') # 0
  BY <1>2, <1>3
<1>5. estopTopic' # <<>>
  BY <1>4, EmptySeq
<1> QED
  BY <1>4, <1>5 DEF SendEstop

(* Serving /emergency_stop keeps the belief and the flag reconcilable. *)
LEMMA EstopCallbackBelief ==
  ASSUME TypeOK, BeliefInv, EstopCallback, UNCHANGED teleopVars
  PROVE  BeliefInv'
<1>1. /\ estopTopic \in Topic(EstopMessages) /\ estopTopic # <<>>
      /\ estopTopic' = Tail(estopTopic) /\ UNCHANGED <<teleopEstop, key>>
  BY DEF EstopCallback, TypeOK, ValueTypes, teleopVars
<1>2. /\ estopTopic \in Seq(EstopMessages) /\ Len(estopTopic) \in Nat
      /\ Len(estopTopic') = Len(estopTopic) - 1
      /\ \A i \in 1..(Len(estopTopic) - 1) : estopTopic'[i] = estopTopic[i + 1]
      /\ estopTopic' \in Topic(EstopMessages)
  BY <1>1, TailTopic, TopicProperties
<1>3. CASE Len(estopTopic) = 1
  <2>1. estopTopic' = <<>>
    BY <1>2, <1>3, TopicProperties
  <2>2. Head(estopTopic) = estopTopic[1] /\ estopTopic[1] \in EstopMessages
    BY <1>2, <1>3
  <2>3. estopTopic[1] = "stop" <=> teleopEstop
    BY <1>1, <1>3 DEF BeliefInv
  <2>4. estopActive' => teleopEstop
    BY <2>2, <2>3 DEF EstopCallback, EstopMessages
  <2> QED
    BY <1>1, <2>1, <2>4 DEF BeliefInv
<1>4. CASE Len(estopTopic) # 1
  <2>1. Len(estopTopic) - 1 \in 1..(Len(estopTopic) - 1)
    <3>1. Len(estopTopic) # 0
      BY <1>1, <1>2
    <3> QED
      BY <1>2, <1>4, <3>1
  <2>2. estopTopic'[Len(estopTopic')] = estopTopic[Len(estopTopic)]
    BY <1>2, <2>1
  <2>3. estopTopic' # <<>>
    BY <1>2, <2>1, EmptySeq
  <2> QED
    BY <1>1, <2>2, <2>3 DEF BeliefInv
<1> QED
  BY <1>3, <1>4

(* What a key does to the teleop's belief. *)
LEMMA KeyBelief ==
  ASSUME TypeOK, BeliefInv, PressKey, UNCHANGED nodeVars
  PROVE  BeliefInv'
<1> USE DEF BeliefInv, nodeVars, GetKey
<1>1. CASE EmergencyKey
  BY <1>1, SendEstopBelief DEF EmergencyKey, EstopMessages
<1>2. CASE ReleaseKey
  <2>1. CASE SendEstop("release")
    <3>1. ~teleopEstop'
      BY <2>1 DEF SendEstop
    <3> QED
      BY <1>2, <2>1, <3>1, SendEstopBelief DEF EstopMessages
  <2>2. CASE ~teleopEstop /\ UNCHANGED <<estopTopic, teleopEstop>>
    BY <2>2
  <2> QED
    BY <1>2, <2>1, <2>2 DEF ReleaseKey
<1>3. CASE PostureKey \/ StopKey \/ SpeedKey \/ MoveKey \/ QuitKey
  BY <1>3 DEF PostureKey, StopKey, SpeedKey, MoveKey, QuitKey,
              PostureKeys, SpeedKeys, MoveKeys
<1> QED
  BY <1>1, <1>2, <1>3 DEF PressKey

LEMMA BeliefInvariant == SoleOperator => (Spec => []BeliefInv)
<1>1. Init => BeliefInv
  BY DEF Init, NodeInit, TeleopInit, BeliefInv
<1>2. SoleOperator /\ TypeOK /\ BeliefInv /\ [Next]_vars => BeliefInv'
  <2> SUFFICES ASSUME SoleOperator, TypeOK, BeliefInv, [Next]_vars
               PROVE  BeliefInv'
    OBVIOUS
  <2>1. CASE NodeStep
    <3>1. CASE EstopCallback
      BY <2>1, <3>1, EstopCallbackBelief DEF NodeStep
    <3>2. CASE CmdVelCallback \/ PostureCallback
      <4>1. estopActive' => estopActive
        BY <3>2 DEF CmdVelCallback, PostureCallback
      <4>2. UNCHANGED <<estopTopic, teleopEstop, key>>
        BY <2>1, <3>2 DEF NodeStep, CmdVelCallback, PostureCallback, teleopVars
      <4> QED
        BY <4>1, <4>2 DEF BeliefInv
    <3> QED
      BY <2>1, <3>1, <3>2 DEF NodeStep, NodeNext
  <2>2. CASE OperatorStep
    BY <2>2, KeyBelief DEF OperatorStep
  <2>3. CASE TeleopEnds \/ TeleopRestarts
    BY <2>3 DEF TeleopEnds, TeleopRestarts, SoleOperator
  <2>4. CASE ForeignPublishes
    <3>1. UNCHANGED estopTopic
      BY <2>4 DEF ForeignPublishes, ForeignCmdVel, ForeignPosture, ForeignEstop, SoleOperator
    <3> QED
      BY <2>4, <3>1 DEF ForeignPublishes, BeliefInv, nodeVars, teleopVars
  <2>5. CASE RobotExecutes
    BY <2>5 DEF RobotExecutes, BeliefInv, nodeVars, teleopVars
  <2>6. CASE UNCHANGED vars
    BY <2>6 DEF vars, topicVars, nodeVars, teleopVars, BeliefInv
  <2> QED
    BY <2>1, <2>2, <2>3, <2>4, <2>5, <2>6 DEF Next
<1>3. SUFFICES ASSUME SoleOperator PROVE Spec => []BeliefInv
  OBVIOUS
<1>4. TypeOK /\ BeliefInv /\ [Next]_vars => BeliefInv'
  BY <1>2, <1>3
<1> QED
  BY <1>1, <1>4, TypeCorrect, PTL DEF Spec

(* With one teleop that is not restarted, a node that is stopped and has no *)
(* more e-stop messages to serve has an operator who knows it is stopped.   *)
THEOREM StopIsKnown == SoleOperator => (Spec => []NoPhantomStop)
<1>1. BeliefInv => NoPhantomStop
  BY DEF BeliefInv, NoPhantomStop
<1>2. SUFFICES ASSUME SoleOperator PROVE Spec => []NoPhantomStop
  OBVIOUS
<1>3. Spec => []BeliefInv
  BY <1>2, BeliefInvariant
<1> QED
  BY <1>1, <1>3, PTL

(* ... and after R the node is released once its message has been served.   *)
THEOREM ReleaseReleases == SoleOperator => (Spec => []ReleaseKeyReleases)
<1>1. BeliefInv => ReleaseKeyReleases
  BY DEF BeliefInv, ReleaseKeyReleases
<1>2. SUFFICES ASSUME SoleOperator PROVE Spec => []ReleaseKeyReleases
  OBVIOUS
<1>3. Spec => []BeliefInv
  BY <1>2, BeliefInvariant
<1> QED
  BY <1>1, <1>3, PTL

-----------------------------------------------------------------------------
(* The refinement: the node's flag is the gate, the APIs on the request     *)
(* topic are the gate's stream.                                             *)
LEMMA ApisOfType ==
  ASSUME NEW q \in Seq(Request)
  PROVE  /\ ApisOf(q) \in Seq(Apis) /\ Len(ApisOf(q)) = Len(q)
         /\ \A i \in 1..Len(q) : ApisOf(q)[i] = q[i].api
         /\ Len(q) \in Nat
<1>1. Len(q) \in Nat
  BY LenProperties
<1>2. \A i \in 1..Len(q) : q[i] \in Request
  BY ElementOfSeq
<1>3. \A i \in 1..Len(q) : q[i].api \in Apis
  BY <1>2 DEF Request
<1> QED
  BY <1>1, <1>3 DEF ApisOf

LEMMA ApisOfAppend ==
  ASSUME NEW q \in Seq(Request), NEW r \in Request
  PROVE  ApisOf(Append(q, r)) = Append(ApisOf(q), r.api)
<1> DEFINE a == ApisOf(q)
<1>1. a \in Seq(Apis) /\ Len(a) = Len(q) /\ Len(q) \in Nat
      /\ \A i \in 1..Len(q) : a[i] = q[i].api
  BY ApisOfType
<1>2. r.api \in Apis
  BY DEF Request
<1>3. /\ Append(q, r) \in Seq(Request) /\ Len(Append(q, r)) = Len(q) + 1
      /\ \A i \in 1..Len(q) : Append(q, r)[i] = q[i]
      /\ Append(q, r)[Len(q) + 1] = r
  BY AppendProperties
<1> HIDE DEF a
<1>4. /\ Append(a, r.api) \in Seq(Apis) /\ Len(Append(a, r.api)) = Len(q) + 1
      /\ \A i \in 1..Len(q) : Append(a, r.api)[i] = a[i]
      /\ Append(a, r.api)[Len(q) + 1] = r.api
  BY <1>1, <1>2, AppendProperties
<1>5. Append(a, r.api) = [i \in 1..(Len(q) + 1) |-> Append(a, r.api)[i]]
  BY <1>4, LenProperties
<1>6. \A i \in 1..(Len(q) + 1) : Append(a, r.api)[i] = Append(q, r)[i].api
  BY <1>1, <1>3, <1>4
<1>7. ApisOf(Append(q, r)) = [i \in 1..(Len(q) + 1) |-> Append(q, r)[i].api]
  BY <1>3 DEF ApisOf
<1> QED
  BY <1>5, <1>6, <1>7 DEF a

LEMMA ApisOfTail ==
  ASSUME NEW q \in Seq(Request), q # <<>>
  PROVE  /\ ApisOf(q) # <<>> /\ Head(ApisOf(q)) = Head(q).api
         /\ ApisOf(Tail(q)) = Tail(ApisOf(q))
<1> DEFINE a == ApisOf(q)
<1>1. a \in Seq(Apis) /\ Len(a) = Len(q) /\ Len(q) \in Nat
      /\ \A i \in 1..Len(q) : a[i] = q[i].api
  BY ApisOfType
<1>2. Len(q) > 0
  BY <1>1, EmptySeq
<1>3. /\ Tail(q) \in Seq(Request) /\ Len(Tail(q)) = Len(q) - 1
      /\ \A i \in 1..(Len(q) - 1) : Tail(q)[i] = q[i + 1]
  BY HeadTailProperties
<1> HIDE DEF a
<1>4. a # <<>>
  BY <1>1, <1>2
<1>5. /\ Tail(a) \in Seq(Apis) /\ Len(Tail(a)) = Len(q) - 1
      /\ \A i \in 1..(Len(q) - 1) : Tail(a)[i] = a[i + 1]
  BY <1>1, <1>4, HeadTailProperties
<1>6. Head(a) = a[1] /\ Head(q) = q[1] /\ 1 \in 1..Len(q)
  BY <1>1, <1>2
<1>7. Tail(a) = [i \in 1..(Len(q) - 1) |-> Tail(a)[i]]
  BY <1>5, LenProperties
<1>8. \A i \in 1..(Len(q) - 1) : Tail(a)[i] = Tail(q)[i].api
  BY <1>1, <1>3, <1>5
<1>9. ApisOf(Tail(q)) = [i \in 1..(Len(q) - 1) |-> Tail(q)[i].api]
  BY <1>3 DEF ApisOf
<1> QED
  BY <1>1, <1>4, <1>6, <1>7, <1>8, <1>9 DEF a

(* Publishing a request pushes its API on the gate's stream. *)
LEMMA ApisOfPublish ==
  ASSUME NEW q \in Topic(Request), NEW r \in Request
  PROVE  ApisOf(KeepLast(q, r)) =
           Append(IF Len(ApisOf(q)) < QueueDepth THEN ApisOf(q) ELSE Tail(ApisOf(q)),
                  r.api)
<1>1. q \in Seq(Request) /\ Len(ApisOf(q)) = Len(q) /\ Len(q) \in Nat
  BY TopicProperties, ApisOfType
<1>2. CASE Len(q) < QueueDepth
  BY <1>1, <1>2, ApisOfAppend DEF KeepLast
<1>3. CASE ~(Len(q) < QueueDepth)
  <2>1. q # <<>>
    BY <1>1, <1>3, QueueDepthAssumption, EmptySeq
  <2>2. Tail(q) \in Seq(Request)
    BY <1>1, <2>1, HeadTailProperties
  <2> QED
    BY <1>1, <1>3, <2>1, <2>2, ApisOfAppend, ApisOfTail DEF KeepLast
<1> QED
  BY <1>2, <1>3

LEMMA PublishPushes ==
  ASSUME TypeOK, NEW r \in Request, PublishRequest(r)
  PROVE  Gate!Push(r.api)
BY ApisOfPublish DEF PublishRequest, Gate!Push, TypeOK, ValueTypes

(* Every step of the stack is a step of the gate or leaves it alone. *)
LEMMA StepRefines ==
  ASSUME TypeOK, [Next]_vars
  PROVE  [Gate!Next]_(Gate!vars)
<1>1. ASSUME UNCHANGED <<requestTopic, estopActive, executed>>
      PROVE  UNCHANGED Gate!vars
  BY <1>1 DEF Gate!vars
<1>2. CASE NodeStep
  <2>1. UNCHANGED executed.api
    BY <1>2 DEF NodeStep
  <2>2. CASE CmdVelCallback
    <3>1. CASE estopActive
      BY <1>1, <1>2, <2>2, <3>1 DEF NodeStep, CmdVelCallback
    <3>2. CASE ~estopActive
      <4> DEFINE r == [api |-> "MOVE", parameter |-> Head(cmdVelTopic)]
      <4>1. Head(cmdVelTopic) \in Twist
        BY <2>2, TailTopic DEF CmdVelCallback, TypeOK, ValueTypes
      <4>2. r \in Request /\ r.api = "MOVE"
        BY <4>1 DEF Request, Apis
      <4>3. PublishRequest(r) /\ UNCHANGED estopActive
        BY <2>2, <3>2 DEF CmdVelCallback, Move
      <4>4. Gate!Push("MOVE")
        BY <4>2, <4>3, PublishPushes
      <4>5. Gate!Drive
        BY <2>1, <3>2, <4>3, <4>4 DEF Gate!Drive
      <4> QED
        BY <4>5 DEF Gate!Next
    <3> QED
      BY <3>1, <3>2
  <2>3. CASE EstopCallback
    <3>1. CASE Head(estopTopic) = "stop" /\ ~estopActive
      <4> DEFINE r == [request EXCEPT !.api = "DAMP"]
      <4>1. r \in Request /\ r.api = "DAMP"
        BY RetargetType DEF Apis, TypeOK, ValueTypes, Request, FreshRequest
      <4>2. PublishRequest(r) /\ estopActive' = TRUE
        BY <2>3, <3>1 DEF EstopCallback, Damp
      <4>3. Gate!Push("DAMP")
        BY <4>1, <4>2, PublishPushes
      <4>4. Gate!Shut
        BY <2>1, <3>1, <4>2, <4>3 DEF Gate!Shut
      <4> QED
        BY <4>4 DEF Gate!Next
    <3>2. CASE Head(estopTopic) = "release" /\ estopActive
      <4>1. estopActive' = FALSE /\ UNCHANGED requestTopic
        BY <2>3, <3>2 DEF EstopCallback
      <4>2. Gate!Reopen
        BY <2>1, <3>2, <4>1 DEF Gate!Reopen
      <4> QED
        BY <4>2 DEF Gate!Next
    <3>3. CASE (Head(estopTopic) = "stop") <=> estopActive
      <4>1. UNCHANGED <<requestTopic, estopActive>>
        BY <2>3, <3>3 DEF EstopCallback
      <4> QED
        BY <1>1, <1>2, <4>1 DEF NodeStep
    <3> QED
      BY <2>3, <3>1, <3>2, <3>3 DEF EstopCallback
  <2>4. CASE PostureCallback
    <3> DEFINE command == Head(postureTopic)
    <3>1. CASE command \notin PostureCommands
      BY <1>1, <1>2, <2>4, <3>1 DEF NodeStep, PostureCallback
    <3>2. CASE command \in PostureCommands
      <4> DEFINE r == [request EXCEPT !.api = PostureApi[command]]
      <4>1. PostureApi[command] \in PostureApis /\ PostureApi[command] \in Apis
        BY <3>2, PostureApiType DEF Apis
      <4>2. r \in Request /\ r.api = PostureApi[command]
        BY <4>1, RetargetType DEF TypeOK, ValueTypes, Request, FreshRequest
      <4>3. PublishRequest(r) /\ estopActive' \in {estopActive, FALSE}
        BY <2>4, <3>2 DEF PostureCallback, Posture, TypeOK, FlagTypes
      <4>4. Gate!Push(PostureApi[command])
        BY <4>2, <4>3, PublishPushes
      <4>5. Gate!Pose
        BY <2>1, <4>1, <4>3, <4>4 DEF Gate!Pose
      <4> QED
        BY <4>5 DEF Gate!Next
    <3> QED
      BY <3>1, <3>2
  <2> QED
    BY <1>2, <2>2, <2>3, <2>4 DEF NodeStep, NodeNext
<1>3. CASE RobotExecutes
  <2>1. /\ requestTopic \in Seq(Request) /\ requestTopic # <<>>
        /\ executed' = Head(requestTopic) /\ requestTopic' = Tail(requestTopic)
        /\ UNCHANGED estopActive
    BY <1>3, TopicProperties DEF RobotExecutes, TypeOK, ValueTypes, nodeVars
  <2>2. Gate!Execute
    BY <2>1, ApisOfTail DEF Gate!Execute
  <2> QED
    BY <2>2 DEF Gate!Next
<1>4. CASE OperatorStep \/ TeleopEnds \/ TeleopRestarts
  BY <1>1, <1>4 DEF OperatorStep, TeleopEnds, TeleopRestarts, nodeVars
<1>5. CASE ForeignPublishes
  BY <1>1, <1>5 DEF ForeignPublishes, nodeVars
<1>6. CASE UNCHANGED vars
  BY <1>1, <1>6 DEF vars, topicVars, nodeVars
<1> QED
  BY <1>2, <1>3, <1>4, <1>5, <1>6 DEF Next

(* The operator's command path, whatever its depth and traffic, implements  *)
(* the gate on the robot's request stream.                                  *)
THEOREM StackImplementsGate == Spec => GateSpec
<1>1. Init => Gate!Init
  <2>1. ApisOf(<<>>) = <<>>
    BY EmptySeq DEF ApisOf
  <2> QED
    BY <2>1 DEF Init, NodeInit, FreshRequest, Gate!Init
<1>2. TypeOK /\ [Next]_vars => [Gate!Next]_(Gate!vars)
  BY StepRefines
<1> QED
  BY <1>1, <1>2, TypeCorrect, PTL DEF Spec, GateSpec, Gate!Spec

-----------------------------------------------------------------------------
(* The last request on its way to the robot, or the one it executed last.   *)
LastOf(q, none) == IF q = <<>> THEN none ELSE q[Len(q)]

LEMMA LastIsPublished ==
  ASSUME NEW S, NEW q \in Topic(S), NEW m \in S, NEW none
  PROVE  LastOf(KeepLast(q, m), none) = m
<1> DEFINE p == KeepLast(q, m)
<1>1. PICK d \in {0, 1} : /\ Len(p) = Len(q) + 1 - d /\ (d = 1 => Len(q) > 0)
                          /\ p[Len(q) + 1 - d] = m
  BY KeepLastTopic
<1>2. Len(q) \in Nat
  BY TopicProperties
<1> HIDE DEF p
<1>3. p[Len(p)] = m /\ Len(p) # 0
  BY <1>1, <1>2
<1>4. p # <<>>
  BY <1>3, EmptySeq
<1> QED
  BY <1>3, <1>4 DEF LastOf, p

(* Taking the oldest leaves the last where it is, unless they are the same. *)
LEMMA LastStays ==
  ASSUME NEW S, NEW q \in Topic(S), q # <<>>, NEW none
  PROVE  /\ LastOf(q, none) = LastOf(Tail(q), Head(q))
         /\ Tail(q) # <<>> => LastOf(q, none) = LastOf(Tail(q), none)
<1>1. /\ q \in Seq(S) /\ Len(q) \in Nat \ {0} /\ Head(q) = q[1]
      /\ Tail(q) \in Seq(S) /\ Len(Tail(q)) = Len(q) - 1
      /\ \A i \in 1..(Len(q) - 1) : Tail(q)[i] = q[i + 1]
  BY TopicProperties, TailTopic, EmptySeq, HeadTailProperties
<1>2. CASE Len(q) = 1
  <2>1. Len(Tail(q)) = 0
    BY <1>1, <1>2
  <2>2. Tail(q) = <<>>
    BY <1>1, <2>1, EmptySeq
  <2> QED
    BY <1>1, <1>2, <2>2 DEF LastOf
<1>3. CASE Len(q) # 1
  <2>1. Len(q) - 1 \in 1..(Len(q) - 1) /\ Len(Tail(q)) # 0
    BY <1>1, <1>3
  <2>2. Tail(q) # <<>>
    BY <2>1, EmptySeq
  <2>3. Tail(q)[Len(Tail(q))] = q[Len(q)]
    <3>1. Tail(q)[Len(q) - 1] = q[Len(q) - 1 + 1]
      BY <1>1, <2>1
    <3>2. Len(q) - 1 + 1 = Len(q)
      BY <1>1
    <3> QED
      BY <1>1, <3>1, <3>2
  <2> QED
    BY <2>2, <2>3 DEF LastOf
<1> QED
  BY <1>2, <1>3

(* A callback of the node sends one well-formed request or none. *)
LEMMA NodeSendsOne ==
  ASSUME TypeOK, NodeStep
  PROVE  \/ UNCHANGED <<request, requestTopic>>
         \/ \E r \in Request : PublishRequest(r)
<1>1. CASE CmdVelCallback
  <2>1. Head(cmdVelTopic) \in Twist
    BY <1>1, TailTopic DEF CmdVelCallback, TypeOK, ValueTypes
  <2>2. [api |-> "MOVE", parameter |-> Head(cmdVelTopic)] \in Request
    BY <2>1 DEF Request, Apis
  <2> QED
    BY <1>1, <2>2 DEF CmdVelCallback, Move
<1>2. CASE EstopCallback
  <2>1. [request EXCEPT !.api = "DAMP"] \in Request
    BY RetargetType DEF Apis
  <2> QED
    BY <1>2, <2>1 DEF EstopCallback, Damp
<1>3. CASE PostureCallback
  <2>1. CASE Head(postureTopic) \in PostureCommands
    <3>1. PostureApi[Head(postureTopic)] \in Apis
      BY <2>1, PostureApiType DEF Apis
    <3>2. [request EXCEPT !.api = PostureApi[Head(postureTopic)]] \in Request
      BY <3>1, RetargetType
    <3> QED
      BY <1>3, <2>1, <3>2 DEF PostureCallback, Posture
  <2>2. CASE Head(postureTopic) \notin PostureCommands
    BY <1>3, <2>2 DEF PostureCallback
  <2> QED
    BY <2>1, <2>2
<1> QED
  BY <1>1, <1>2, <1>3 DEF NodeStep, NodeNext

(* What the robot executes last is what the node's message says.            *)
RequestIsLast == LastOf(requestTopic, executed) = request

LEMMA LastRequest == Spec => []RequestIsLast
<1>1. Init => RequestIsLast
  BY DEF Init, NodeInit, RequestIsLast, LastOf
<1>2. TypeOK /\ RequestIsLast /\ [Next]_vars => RequestIsLast'
  <2> SUFFICES ASSUME TypeOK, RequestIsLast, [Next]_vars PROVE RequestIsLast'
    OBVIOUS
  <2>1. CASE NodeStep
    <3>1. CASE UNCHANGED <<request, requestTopic>>
      BY <2>1, <3>1 DEF NodeStep, RequestIsLast
    <3>2. ASSUME NEW r \in Request, PublishRequest(r)
          PROVE  RequestIsLast'
      <4>1. requestTopic \in Topic(Request)
        BY DEF TypeOK, ValueTypes
      <4>2. LastOf(KeepLast(requestTopic, r), executed') = r
        BY <4>1, LastIsPublished
      <4> QED
        BY <3>2, <4>2 DEF PublishRequest, RequestIsLast
    <3> QED
      BY <2>1, <3>1, <3>2, NodeSendsOne
  <2>2. CASE RobotExecutes
    <3>1. /\ requestTopic \in Topic(Request) /\ requestTopic # <<>> /\ request' = request
          /\ requestTopic' = Tail(requestTopic) /\ executed' = Head(requestTopic)
      BY <2>2 DEF RobotExecutes, nodeVars, TypeOK, ValueTypes
    <3> QED
      BY <3>1, LastStays DEF RequestIsLast
  <2>3. CASE OperatorStep \/ TeleopEnds \/ TeleopRestarts \/ ForeignPublishes \/ UNCHANGED vars
    BY <2>3 DEF OperatorStep, TeleopEnds, TeleopRestarts, ForeignPublishes, vars, topicVars, nodeVars,
                RequestIsLast
  <2> QED
    BY <2>1, <2>2, <2>3 DEF Next
<1> QED
  BY <1>1, <1>2, TypeCorrect, PTL DEF Spec

-----------------------------------------------------------------------------
(* A stopped node's last request is not a velocity, and once the teleop has *)
(* left, the velocity served last is zero.                                  *)
Velocity(r) == IF r.api = "MOVE" THEN r.parameter ELSE ZeroTwist
StoppedIsStill == estopActive => Velocity(request) = ZeroTwist
LeftIsStill == ~teleopUp => LastOf(cmdVelTopic, Velocity(request)) = ZeroTwist
StillInv == StoppedIsStill /\ LeftIsStill

LEMMA RetargetVelocity ==
  ASSUME TypeOK, NEW api, api # "MOVE"
  PROVE  Velocity([request EXCEPT !.api = api]) = ZeroTwist
BY DEF TypeOK, ValueTypes, Request, FreshRequest, Velocity

(* A callback that takes nothing from /cmd_vel either leaves the request as *)
(* it was or makes it one that is not a velocity.                           *)
LEMMA OtherCallbacksAreStill ==
  ASSUME TypeOK, StillInv, EstopCallback \/ PostureCallback
  PROVE  StoppedIsStill' /\ (Velocity(request') \in {Velocity(request), ZeroTwist})
<1>1. CASE EstopCallback
  <2>1. Velocity([request EXCEPT !.api = "DAMP"]) = ZeroTwist
    BY RetargetVelocity
  <2> QED
    BY <1>1, <2>1 DEF EstopCallback, Damp, PublishRequest, StillInv, StoppedIsStill
<1>2. CASE PostureCallback
  <2>1. CASE Head(postureTopic) \in PostureCommands
    <3>1. PostureApi[Head(postureTopic)] # "MOVE"
      BY <2>1, PostureApiType DEF PostureApis
    <3>2. Velocity([request EXCEPT !.api = PostureApi[Head(postureTopic)]]) = ZeroTwist
      BY <3>1, RetargetVelocity
    <3> QED
      BY <1>2, <2>1, <3>2 DEF PostureCallback, Posture, PublishRequest, StoppedIsStill
  <2>2. CASE Head(postureTopic) \notin PostureCommands
    BY <1>2, <2>2 DEF PostureCallback, StillInv, StoppedIsStill
  <2> QED
    BY <2>1, <2>2
<1> QED
  BY <1>1, <1>2

LEMMA NodeStaysStill ==
  ASSUME TypeOK, StillInv, NodeStep
  PROVE  StillInv'
<1>0. UNCHANGED teleopUp
  BY DEF NodeStep, teleopVars
<1>1. CASE CmdVelCallback
  <2>1. /\ cmdVelTopic \in Topic(Twist) /\ cmdVelTopic # <<>> /\ cmdVelTopic' = Tail(cmdVelTopic)
        /\ estopActive' = estopActive
    BY <1>1 DEF CmdVelCallback, TypeOK, ValueTypes
  <2>2. /\ LastOf(cmdVelTopic, Velocity(request)) = LastOf(Tail(cmdVelTopic), Head(cmdVelTopic))
        /\ Tail(cmdVelTopic) # <<>> =>
             LastOf(cmdVelTopic, Velocity(request)) = LastOf(Tail(cmdVelTopic), Velocity(request))
    BY <2>1, LastStays
  <2>3. CASE estopActive /\ UNCHANGED <<request, requestTopic>>
    BY <1>0, <2>1, <2>2, <2>3 DEF StillInv, StoppedIsStill, LeftIsStill, LastOf
  <2>4. CASE ~estopActive /\ Move(Head(cmdVelTopic))
    <3>1. Velocity(request') = Head(cmdVelTopic)
      BY <2>4 DEF Move, PublishRequest, Velocity
    <3> QED
      BY <1>0, <2>1, <2>2, <2>4, <3>1 DEF StillInv, StoppedIsStill, LeftIsStill
  <2> QED
    BY <1>1, <2>3, <2>4 DEF CmdVelCallback
<1>2. CASE EstopCallback \/ PostureCallback
  <2>1. StoppedIsStill' /\ (Velocity(request') \in {Velocity(request), ZeroTwist})
    BY <1>2, OtherCallbacksAreStill
  <2>2. UNCHANGED cmdVelTopic
    BY <1>2 DEF EstopCallback, PostureCallback
  <2> QED
    BY <1>0, <2>1, <2>2 DEF StillInv, LeftIsStill, LastOf
<1> QED
  BY <1>1, <1>2 DEF NodeStep, NodeNext

(* Leaving the program publishes a zero velocity last. *)
LEMMA TeleopLeavesStill ==
  ASSUME TypeOK, StillInv, PressKey \/ Interrupt \/ Restart, UNCHANGED nodeVars
  PROVE  StillInv'
<1>1. StoppedIsStill'
  BY DEF StillInv, StoppedIsStill, nodeVars
<1>2. cmdVelTopic \in Topic(Twist) /\ ZeroTwist \in Twist
  BY TeleopTwists DEF TypeOK, ValueTypes
<1>3. \A none : LastOf(KeepLast(cmdVelTopic, ZeroTwist), none) = ZeroTwist
  BY <1>2, LastIsPublished
<1>4. CASE QuitKey
  <2>1. KeepLast(cmdVelTopic, ZeroTwist) \in Topic(Twist)
    BY <1>2, KeepLastTopic
  <2>2. \A none : LastOf(KeepLast(KeepLast(cmdVelTopic, ZeroTwist), ZeroTwist), none) = ZeroTwist
    BY <1>2, <2>1, LastIsPublished
  <2> QED
    BY <1>1, <1>4, <2>2 DEF QuitKey, StillInv, LeftIsStill
<1>5. CASE Interrupt
  BY <1>1, <1>3, <1>5 DEF Interrupt, SendVelocity, StillInv, LeftIsStill
<1>6. CASE Restart
  BY <1>1, <1>6 DEF Restart, StillInv, LeftIsStill
<1>7. CASE EmergencyKey \/ ReleaseKey \/ PostureKey \/ StopKey \/ SpeedKey \/ MoveKey
  <2>1. teleopUp'
    BY <1>7 DEF EmergencyKey, ReleaseKey, PostureKey, StopKey, SpeedKey, MoveKey, GetKey
  <2> QED
    BY <1>1, <2>1 DEF StillInv, LeftIsStill
<1> QED
  BY <1>4, <1>5, <1>6, <1>7 DEF PressKey

(* However the teleop ends, and whatever was queued, the robot is left with *)
(* no velocity to follow (when no other package drives).                    *)
THEOREM QuitIsStill == Spec => []QuitLeavesNoMotion
<1>1. CASE ForeignTwists # {}
  <2>1. QuitLeavesNoMotion
    BY <1>1 DEF QuitLeavesNoMotion
  <2> QED
    BY <2>1, PTL
<1>2. CASE ForeignTwists = {}
  <2>1. Init => StillInv
    BY DEF Init, NodeInit, TeleopInit, StillInv, StoppedIsStill, LeftIsStill
  <2>2. TypeOK /\ StillInv /\ [Next]_vars => StillInv'
    <3> SUFFICES ASSUME TypeOK, StillInv, [Next]_vars PROVE StillInv'
      OBVIOUS
    <3>1. CASE NodeStep
      BY <3>1, NodeStaysStill
    <3>2. CASE OperatorStep \/ TeleopEnds \/ TeleopRestarts
      BY <3>2, TeleopLeavesStill DEF OperatorStep, TeleopEnds, TeleopRestarts
    <3>3. CASE ForeignPublishes
      <4>1. UNCHANGED <<cmdVelTopic, estopActive, request, teleopUp>>
        BY <1>2, <3>3 DEF ForeignPublishes, ForeignCmdVel, ForeignPosture, ForeignEstop,
                          nodeVars, teleopVars
      <4> QED
        BY <4>1 DEF StillInv, StoppedIsStill, LeftIsStill
    <3>4. CASE RobotExecutes \/ UNCHANGED vars
      BY <3>4 DEF RobotExecutes, vars, topicVars, nodeVars, teleopVars, StillInv, StoppedIsStill,
                  LeftIsStill
    <3> QED
      BY <3>1, <3>2, <3>3, <3>4 DEF Next
  <2>3. StillInv /\ RequestIsLast => QuitLeavesNoMotion
    BY DEF StillInv, LeftIsStill, LastOf, RequestIsLast, QuitLeavesNoMotion, Drained, Velocity
  <2> QED
    BY <2>1, <2>2, <2>3, TypeCorrect, LastRequest, PTL DEF Spec
<1> QED
  BY <1>1, <1>2

-----------------------------------------------------------------------------
(* What a patient operator may count on when nobody else sends postures or  *)
(* uses /emergency_stop: X is the only thing on its way, or it has arrived. *)
OnlyOperator == Patient /\ ForeignPostures = {} /\ ForeignEstops = {}

StopInv ==
  key = "x" => /\ postureTopic = <<>>
               /\ \/ estopTopic = <<"stop">>
                  \/ estopTopic = <<>> /\ estopActive

LEMMA StopInvariant == OnlyOperator => (Spec => []StopInv)
<1> SUFFICES ASSUME OnlyOperator PROVE Spec => []StopInv
  OBVIOUS
<1>1. Init => StopInv
  BY DEF Init, TeleopInit, StopInv
<1>2. StopInv /\ [Next]_vars => StopInv'
  <2> SUFFICES ASSUME StopInv, [Next]_vars PROVE StopInv'
    OBVIOUS
  <2> USE DEF StopInv
  <2>1. CASE NodeStep
    <3>0. UNCHANGED key
      BY <2>1 DEF NodeStep, teleopVars
    <3>1. CASE EstopCallback
      <4>1. Head(<<"stop">>) = "stop" /\ Tail(<<"stop">>) = <<>>
        OBVIOUS
      <4>2. CASE key = "x"
        <5>1. /\ estopTopic = <<"stop">> /\ Head(estopTopic) = "stop" /\ estopTopic' = <<>>
              /\ postureTopic' = <<>>
          BY <3>1, <4>1, <4>2 DEF EstopCallback
        <5>2. estopActive'
          BY <3>1, <5>1 DEF EstopCallback
        <5> QED
          BY <5>1, <5>2
      <4> QED
        BY <3>0, <4>2
    <3>2. CASE PostureCallback
      BY <3>0, <3>2 DEF PostureCallback
    <3>3. CASE CmdVelCallback
      BY <3>0, <3>3 DEF CmdVelCallback
    <3> QED
      BY <2>1, <3>1, <3>2, <3>3 DEF NodeStep, NodeNext
  <2>2. CASE OperatorStep
    <3>1. estopTopic = <<>> /\ postureTopic = <<>>
      BY <2>2 DEF OperatorStep, OnlyOperator, Drained
    <3>2. CASE EmergencyKey
      <4>1. KeepLast(<<>>, "stop") = <<"stop">>
        BY QueueDepthAssumption DEF KeepLast
      <4> QED
        BY <3>1, <3>2, <4>1 DEF EmergencyKey, SendEstop
    <3>3. CASE ~EmergencyKey
      <4>1. key' # "x"
        BY <2>2, <3>3 DEF OperatorStep, PressKey, ReleaseKey, PostureKey, StopKey, SpeedKey, MoveKey,
                          QuitKey, GetKey, PostureKeys, SpeedKeys, MoveKeys
      <4> QED
        BY <4>1
    <3> QED
      BY <3>2, <3>3
  <2>3. CASE TeleopEnds \/ TeleopRestarts
    BY <2>3 DEF TeleopEnds, TeleopRestarts, Interrupt, Restart, nodeVars
  <2>4. CASE ForeignPublishes
    BY <2>4 DEF ForeignPublishes, ForeignCmdVel, ForeignPosture, ForeignEstop, OnlyOperator,
                nodeVars, teleopVars
  <2>5. CASE RobotExecutes \/ UNCHANGED vars
    BY <2>5 DEF RobotExecutes, vars, topicVars, nodeVars, teleopVars
  <2> QED
    BY <2>1, <2>2, <2>3, <2>4, <2>5 DEF Next
<1> QED
  BY <1>1, <1>2, PTL DEF Spec

(* X of an operator who waits for each key to take effect sticks: the node  *)
(* is stopped or the stop is still on its way.                              *)
THEOREM StopOfPatientSticks == OnlyOperator => (Spec => []StopSticks)
<1>1. SUFFICES ASSUME OnlyOperator PROVE Spec => []StopSticks
  OBVIOUS
<1>2. StopInv => StopSticks
  BY DEF StopInv, StopSticks
<1>3. Spec => []StopInv
  BY <1>1, StopInvariant
<1> QED
  BY <1>2, <1>3, PTL

(* ... and, when every posture key in use clears the stop, the motors end   *)
(* up damped: a stopped node's last request is the DAMP.                    *)
PosturesRelease == Keys \cap PostureKeys \subseteq ReleasingCommands

DampInv == /\ postureTopic \in Topic(ReleasingCommands)
           /\ estopActive => request.api = "DAMP"

LEMMA DampInvariant == OnlyOperator /\ PosturesRelease => (Spec => []DampInv)
<1> SUFFICES ASSUME OnlyOperator, PosturesRelease PROVE Spec => []DampInv
  OBVIOUS
<1>1. Init => DampInv
  <2>1. <<>> \in Topic(ReleasingCommands)
    BY QueueDepthAssumption DEF Topic
  <2> QED
    BY <2>1 DEF Init, NodeInit, DampInv
<1>2. TypeOK /\ DampInv /\ [Next]_vars => DampInv'
  <2> SUFFICES ASSUME TypeOK, DampInv, [Next]_vars PROVE DampInv'
    OBVIOUS
  <2> USE DEF DampInv
  <2>1. CASE CmdVelCallback
    BY <2>1 DEF CmdVelCallback
  <2>2. CASE EstopCallback
    <3>1. [request EXCEPT !.api = "DAMP"].api = "DAMP"
      BY DEF TypeOK, ValueTypes, Request, FreshRequest
    <3>2. postureTopic' = postureTopic
      BY <2>2 DEF EstopCallback
    <3>3. CASE Damp
      BY <3>1, <3>2, <3>3 DEF Damp, PublishRequest
    <3>4. CASE ~Damp
      <4>1. estopActive' => estopActive /\ request' = request
        BY <2>2, <3>4 DEF EstopCallback
      <4> QED
        BY <3>2, <4>1
    <3> QED
      BY <3>3, <3>4
  <2>3. CASE PostureCallback
    <3>1. Head(postureTopic) \in ReleasingCommands /\ postureTopic' \in Topic(ReleasingCommands)
      BY <2>3, TailTopic DEF PostureCallback
    <3>2. Head(postureTopic) \in PostureCommands
      BY <3>1 DEF ReleasingCommands, PostureCommands
    <3> QED
      BY <2>3, <3>1, <3>2 DEF PostureCallback
  <2>4. CASE OperatorStep
    <3>1. CASE PostureKey
      <4>1. PICK k \in PostureKeys : GetKey(k) /\ SendPosture(k)
        BY <3>1 DEF PostureKey
      <4>2. k \in ReleasingCommands
        BY <4>1 DEF GetKey, PosturesRelease
      <4>3. postureTopic' \in Topic(ReleasingCommands)
        BY <4>1, <4>2, KeepLastTopic DEF SendPosture
      <4> QED
        BY <2>4, <4>3 DEF OperatorStep, nodeVars
    <3>2. CASE ~PostureKey
      BY <2>4, <3>2 DEF OperatorStep, nodeVars, PressKey, EmergencyKey, ReleaseKey, StopKey, SpeedKey,
                        MoveKey, QuitKey
    <3> QED
      BY <3>1, <3>2
  <2>5. CASE TeleopEnds \/ TeleopRestarts
    BY <2>5 DEF TeleopEnds, TeleopRestarts, Interrupt, Restart, nodeVars
  <2>6. CASE ForeignPublishes
    BY <2>6 DEF ForeignPublishes, ForeignCmdVel, ForeignPosture, ForeignEstop, OnlyOperator, nodeVars
  <2>7. CASE RobotExecutes \/ UNCHANGED vars
    BY <2>7 DEF RobotExecutes, vars, topicVars, nodeVars
  <2> QED
    BY <2>1, <2>2, <2>3, <2>4, <2>5, <2>6, <2>7 DEF Next, NodeStep, NodeNext
<1> QED
  BY <1>1, <1>2, TypeCorrect, PTL DEF Spec

THEOREM StopOfPatientDamps ==
  OnlyOperator /\ PosturesRelease => (Spec => []StopDampsRobot)
<1>1. SUFFICES ASSUME OnlyOperator, PosturesRelease PROVE Spec => []StopDampsRobot
  OBVIOUS
<1>2. StopInv /\ DampInv /\ RequestIsLast => StopDampsRobot
  <2> SUFFICES ASSUME StopInv, DampInv, RequestIsLast, key = "x", Drained
               PROVE  executed.api = "DAMP"
    BY DEF StopDampsRobot
  <2>1. estopTopic # <<"stop">>
    <3>1. Len(<<"stop">>) = 1 /\ Len(<<>>) = 0
      OBVIOUS
    <3> QED
      BY <3>1 DEF Drained
  <2>2. estopActive
    BY <2>1 DEF StopInv
  <2>3. executed = request
    BY DEF RequestIsLast, LastOf, Drained
  <2> QED
    BY <2>2, <2>3 DEF DampInv
<1>3. Spec => []StopInv
  BY <1>1, StopInvariant
<1>4. Spec => []DampInv
  BY <1>1, DampInvariant
<1> QED
  BY <1>2, <1>3, <1>4, LastRequest, PTL
=============================================================================
