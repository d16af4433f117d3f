----------------------------- MODULE TeleopStack -----------------------------
(***************************************************************************)
(* The operator's command path put together: keyboard_teleop, the nodes of *)
(* other packages that publish on the same topics, go2_control_node, and   *)
(* the robot's sport service, joined by the four topics.                   *)
(***************************************************************************)
EXTENDS Go2Control, KeyboardTeleop, FiniteSets

CONSTANTS
  ForeignTwists,     \* what other packages publish on /cmd_vel,
  ForeignPostures,   \* on /cmd_posture
  ForeignEstops,     \* and on /emergency_stop
  MaxForeign,        \* bound: messages from other packages
  MayRestart,        \* may the teleop process end and be started again?
  Patient            \* does the operator wait for a key to take full effect?

ASSUME StackAssumption ==
  /\ ForeignTwists \subseteq Twist
  /\ ForeignEstops \subseteq EstopMessages
  /\ MaxForeign \in Nat
  /\ MayRestart \in BOOLEAN
  /\ Patient \in BOOLEAN

VARIABLES
  executed,    \* the last request the robot executed
  foreign      \* messages other packages have published

topicVars == <<cmdVelTopic, estopTopic, postureTopic, requestTopic>>
vars == <<topicVars, nodeVars, teleopVars, executed, foreign>>

Init ==
  /\ cmdVelTopic = <<>> /\ estopTopic = <<>> /\ postureTopic = <<>>
  /\ requestTopic = <<>>
  /\ NodeInit
  /\ TeleopInit
  /\ executed = FreshRequest
  /\ foreign = 0

(* Nothing is on its way to the node or to the robot. *)
Drained == /\ cmdVelTopic = <<>> /\ estopTopic = <<>> /\ postureTopic = <<>>
           /\ requestTopic = <<>>

(* The robot's sport service takes the oldest request. *)
RobotExecutes ==
  /\ requestTopic # <<>>
  /\ executed' = Head(requestTopic)
  /\ requestTopic' = Tail(requestTopic)
  /\ UNCHANGED <<cmdVelTopic, estopTopic, postureTopic, nodeVars, teleopVars, foreign>>

ForeignCmdVel ==
  /\ \E twist \in ForeignTwists : cmdVelTopic' = KeepLast(cmdVelTopic, twist)
  /\ UNCHANGED <<estopTopic, postureTopic>>

ForeignPosture ==
  /\ \E command \in ForeignPostures : postureTopic' = KeepLast(postureTopic, command)
  /\ UNCHANGED <<cmdVelTopic, estopTopic>>

ForeignEstop ==
  /\ \E message \in ForeignEstops : estopTopic' = KeepLast(estopTopic, message)
  /\ UNCHANGED <<cmdVelTopic, postureTopic>>

ForeignPublishes ==
  /\ foreign < MaxForeign
  /\ foreign' = foreign + 1
  /\ ForeignCmdVel \/ ForeignPosture \/ ForeignEstop
  /\ UNCHANGED <<requestTopic, nodeVars, teleopVars, executed>>

NodeStep == NodeNext /\ UNCHANGED <<teleopVars, executed, foreign>>

OperatorStep ==
  /\ Patient => Drained
  /\ PressKey
  /\ UNCHANGED <<requestTopic, nodeVars, executed, foreign>>

TeleopEnds ==
  /\ MayRestart
  /\ Interrupt
  /\ UNCHANGED <<requestTopic, nodeVars, executed, foreign>>

TeleopRestarts ==
  /\ MayRestart
  /\ Restart
  /\ UNCHANGED <<requestTopic, nodeVars, executed, foreign>>

Next == \/ OperatorStep \/ TeleopEnds \/ TeleopRestarts
        \/ NodeStep \/ ForeignPublishes \/ RobotExecutes

Spec == Init /\ [][Next]_vars

(***************************************************************************)
(* The spin thread keeps serving each subscription that has messages, and  *)
(* the robot keeps executing.  Nothing obliges an operator or a foreign    *)
(* package to publish.                                                     *)
(***************************************************************************)
Fairness ==
  /\ WF_vars(CmdVelCallback /\ UNCHANGED <<teleopVars, executed, foreign>>)
  /\ WF_vars(EstopCallback /\ UNCHANGED <<teleopVars, executed, foreign>>)
  /\ WF_vars(PostureCallback /\ UNCHANGED <<teleopVars, executed, foreign>>)
  /\ WF_vars(RobotExecutes)

FairSpec == Spec /\ Fairness

-----------------------------------------------------------------------------
FlagTypes == /\ estopActive \in BOOLEAN
             /\ teleopEstop \in BOOLEAN /\ teleopUp \in BOOLEAN

(* A posture command is any string; only PostureCommands have an effect. *)
Commands == PostureCommands \cup ForeignPostures

ValueTypes ==
  /\ cmdVelTopic \in Topic(Twist) /\ estopTopic \in Topic(EstopMessages)
  /\ postureTopic \in Topic(Commands) /\ requestTopic \in Topic(Request)
  /\ request \in Request \cup {FreshRequest}
  /\ executed \in Request \cup {FreshRequest}
  /\ linearSpeed \in 100..1500 /\ angularSpeed \in 100..2000
  /\ key \in AllKeys \cup {"none"}
  /\ presses \in 0..MaxPresses /\ foreign \in 0..MaxForeign

(* Every variable keeps to the values the code can give it, and no topic    *)
(* holds more than its history depth.                                       *)
TypeOK == FlagTypes /\ ValueTypes

EveryMoveDamped(requests) ==
  \A i \in DOMAIN requests :
    requests[i].api = "MOVE" =>
      \E j \in DOMAIN requests : i < j /\ requests[j].api = "DAMP"

(* While go2_control_node holds the emergency stop, every MOVE the robot    *)
(* has yet to execute has a DAMP behind it: no velocity accepted before the *)
(* stop, and none accepted during it, is the last word.                     *)
MovesPrecedeDamp == estopActive => EveryMoveDamped(requestTopic)

(* The whole stack implements the gate on the robot's request stream.       *)
ApisOf(requests) == [i \in 1..Len(requests) |-> requests[i].api]

Gate == INSTANCE EStopGate WITH
          Depth <- QueueDepth, Postures <- PostureApis, shut <- estopActive,
          stream <- ApisOf(requestTopic), executed <- executed.api
GateSpec == Gate!Spec

(* R undoes the emergency stop: once its message has been served, the node  *)
(* is not stopped (as long as nobody else uses /emergency_stop).            *)
ReleaseKeyReleases == key = "r" /\ estopTopic = <<>> => ~estopActive

(* The node cannot be stopped behind the operator's back: with nothing left *)
(* on /emergency_stop, a node that is stopped has a teleop that knows it.   *)
NoPhantomStop == estopTopic = <<>> /\ estopActive => teleopEstop

(* Leaving the program, by ESC or by an exception, leaves no velocity       *)
(* behind: once everything is delivered the robot's last request is not a   *)
(* MOVE with a velocity (when no other package drives).                     *)
QuitLeavesNoMotion ==
  ForeignTwists = {} /\ ~teleopUp /\ Drained /\ executed.api = "MOVE" =>
    executed.parameter = ZeroTwist

(* X sticks: after it, the node is stopped or about to be.                  *)
StopSticks == key = "x" => estopActive \/ estopTopic # <<>>

(* X disables the motors: once all it caused is delivered, the last request *)
(* the robot executed is a DAMP.                                            *)
StopDampsRobot == key = "x" /\ Drained => executed.api = "DAMP"

(* A stop that is next in line at a node that is not stopped gets its DAMP  *)
(* executed by the robot.                                                   *)
StopReachesRobot ==
  (~estopActive /\ estopTopic # <<>> /\ Head(estopTopic) = "stop") ~> (executed.api = "DAMP")

=============================================================================
