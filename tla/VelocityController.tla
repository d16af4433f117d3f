------------------------- MODULE VelocityController -------------------------
(***************************************************************************)
(* go2_velocity_controller: a node that takes Twists from /cmd_vel and     *)
(* sends the robot one velocity datagram for each period of its control    *)
(* timer.  It sends a stop instead while the emergency stop is on and when *)
(* the last Twist is too old.  rclpy.spin serves timer and subscriptions   *)
(* one at a time, so that a callback is one step; which ready callback is  *)
(* next is left open.                                                      *)
(***************************************************************************)
EXTENDS Go2Sdk

CONSTANTS
  NaN,           \* a float that is not a number
  Twists,        \* velocities publishers may send, as <<vx, vy, wz>>
  MaxLinear,     \* max_linear_velocity
  MaxAngular,    \* max_angular_velocity
  Timeout,       \* timeout, in clock ticks
  Period,        \* 1 / control_frequency, in clock ticks
  EstopDepth     \* history depth of /emergency_stop (10 in the source)

ASSUME ControllerAssumption ==
  /\ MaxLinear \in Nat /\ MaxAngular \in Nat /\ Timeout \in Nat
  /\ Period \in Nat \ {0} /\ EstopDepth \in Nat \ {0}
  /\ NaN \notin Int
  /\ Twists \subseteq [1..3 -> Int \cup {NaN}]

VARIABLES
  cmdVelTopic,   \* /cmd_vel: best effort, depth 1
  estopTopic,    \* /emergency_stop: true is "stop", false is "release"
  currentCmd,    \* current_cmd
  cmdAge,        \* ticks since last_cmd_time, up to OldAge
  emergencyStop, \* emergency_stop
  connected,     \* what connect() returned
  spinning,      \* the node is spun; FALSE after destroy_node
  sinceTimer,    \* ticks since the control timer last fired
  robot,         \* the datagram the robot received last
  unheard        \* history: ticks since the node last took a Twist, up to OldAge

nodeVars == <<currentCmd, cmdAge, emergencyStop, connected, spinning, sinceTimer>>
vars == <<nodeVars, sdkVars, cmdVelTopic, estopTopic, robot, unheard>>

OldAge == Timeout + Period + 1

(* Python's float order: nothing is less or greater than a NaN.            *)
Less(a, b) == a # NaN /\ b # NaN /\ a < b

(* min(a, b) and max(a, b) keep their first argument unless the second is  *)
(* strictly better, so that a NaN in second place loses.                   *)
PyMin(a, b) == IF Less(b, a) THEN b ELSE a
PyMax(a, b) == IF Less(a, b) THEN b ELSE a

(* Fault: the arguments of min and max the other way round, NaN first.     *)
ClampNaN(x, limit) == PyMax(PyMin(x, limit), -limit)

Clamp(x, limit) == PyMax(-limit, PyMin(limit, x))

Limited(v) ==
  <<Clamp(v[1], MaxLinear), Clamp(v[2], MaxLinear), Clamp(v[3], MaxAngular)>>

(* __init__: connect() may fail before or after it has created the socket; *)
(* when it succeeds stand() sends a first datagram.                        *)
Init ==
  /\ connected \in BOOLEAN /\ spinning = TRUE
  /\ socketOpen \in {connected, TRUE}
  /\ command = [mode |-> IF connected THEN 1 ELSE 2, v |-> Still]
  /\ wire \in {<<>>} \cup (IF connected THEN {<<Standing>>} ELSE {})
  /\ cmdVelTopic = <<>> /\ estopTopic = <<>>
  /\ currentCmd = Still /\ cmdAge = 0
  /\ emergencyStop = FALSE
  /\ sinceTimer = 0
  /\ robot = Standing /\ unheard = 0

-----------------------------------------------------------------------------
(* Publishers.  A Twist replaces one that was not taken, and one that is   *)
(* lost is one that is not published here.                                 *)
PublishTwist ==
  /\ spinning
  /\ \E v \in Twists : cmdVelTopic' = <<v>>
  /\ UNCHANGED <<nodeVars, sdkVars, estopTopic, robot, unheard>>

PublishEstop ==
  /\ spinning
  /\ \E m \in {"stop", "release"} :
       estopTopic' = Append(IF Len(estopTopic) < EstopDepth
                            THEN estopTopic ELSE Tail(estopTopic), m)
  /\ UNCHANGED <<nodeVars, sdkVars, cmdVelTopic, robot, unheard>>

-----------------------------------------------------------------------------
(* The callbacks.                                                          *)
CmdVelCallback ==
  /\ spinning /\ cmdVelTopic # <<>>
  /\ cmdVelTopic' = <<>>
  /\ currentCmd' = Head(cmdVelTopic) /\ cmdAge' = 0 /\ unheard' = 0
  /\ UNCHANGED <<emergencyStop, connected, spinning, sinceTimer, sdkVars, estopTopic, robot>>

IfConnected(Sent) == (connected /\ Sent) \/ (~connected /\ UNCHANGED sdkVars)

(* Fault: the flag is set and the stop is left to the control loop.        *)
EstopCallbackSilent ==
  /\ spinning /\ estopTopic # <<>>
  /\ estopTopic' = Tail(estopTopic)
  /\ emergencyStop' = (Head(estopTopic) = "stop")
  /\ UNCHANGED <<currentCmd, cmdAge, connected, spinning, sinceTimer, sdkVars, cmdVelTopic, robot, unheard>>

EstopCallback ==
  /\ spinning /\ estopTopic # <<>>
  /\ estopTopic' = Tail(estopTopic)
  /\ emergencyStop' = (Head(estopTopic) = "stop")
  /\ IF emergencyStop' /\ ~emergencyStop
     THEN IfConnected(Stop)
     ELSE UNCHANGED sdkVars
  /\ UNCHANGED <<currentCmd, cmdAge, connected, spinning, sinceTimer, cmdVelTopic, robot, unheard>>

Expired == cmdAge > Timeout

(* Fault: the age of a Twist counts from the control loop that used it.    *)
ControlLoopRenews ==
  /\ spinning /\ sinceTimer = Period
  /\ sinceTimer' = 0
  /\ IfConnected(SetVelocity(IF emergencyStop \/ Expired THEN Still ELSE Limited(currentCmd)))
  /\ cmdAge' = IF emergencyStop \/ Expired THEN cmdAge ELSE 0
  /\ UNCHANGED <<currentCmd, emergencyStop, connected, spinning, cmdVelTopic, estopTopic, robot, unheard>>

(* Fault: a stop is sent when motion ends, and not again.                  *)
ControlLoopOnce ==
  /\ spinning /\ sinceTimer = Period
  /\ sinceTimer' = 0
  /\ IF emergencyStop \/ Expired
     THEN IF command.mode = 2 THEN IfConnected(Stop) ELSE UNCHANGED sdkVars
     ELSE IfConnected(SetVelocity(Limited(currentCmd)))
  /\ UNCHANGED <<currentCmd, cmdAge, emergencyStop, connected, spinning,
                 cmdVelTopic, estopTopic, robot, unheard>>

ControlLoop ==
  /\ spinning /\ sinceTimer = Period
  /\ sinceTimer' = 0
  /\ \/ /\ emergencyStop \/ Expired
        /\ IfConnected(Stop)
     \/ /\ ~emergencyStop /\ ~Expired
        /\ IfConnected(SetVelocity(Limited(currentCmd)))
  /\ UNCHANGED <<currentCmd, cmdAge, emergencyStop, connected, spinning,
                 cmdVelTopic, estopTopic, robot, unheard>>

(* Ctrl-C: spin returns and destroy_node runs.                             *)
DestroyNode ==
  /\ spinning /\ spinning' = FALSE
  /\ IfConnected(StopAndDisconnect)
  /\ UNCHANGED <<currentCmd, cmdAge, emergencyStop, connected, sinceTimer,
                 cmdVelTopic, estopTopic, robot, unheard>>

-----------------------------------------------------------------------------
Older(age) == IF age < OldAge THEN age + 1 ELSE OldAge

(* Time.  The executor keeps up with a 20 ms timer: its callbacks neither  *)
(* wait nor block, so that the control loop has run before the next tick.  *)
Tick ==
  /\ spinning /\ sinceTimer < Period
  /\ sinceTimer' = sinceTimer + 1
  /\ cmdAge' = Older(cmdAge) /\ unheard' = Older(unheard)
  /\ UNCHANGED <<currentCmd, emergencyStop, connected, spinning, sdkVars,
                 cmdVelTopic, estopTopic, robot>>

RobotReceives ==
  /\ wire # <<>>
  /\ wire' = Tail(wire) /\ robot' = Head(wire)
  /\ UNCHANGED <<nodeVars, socketOpen, command, cmdVelTopic, estopTopic, unheard>>

Next ==
  \/ PublishTwist \/ PublishEstop
  \/ CmdVelCallback \/ EstopCallback \/ ControlLoop \/ DestroyNode
  \/ Tick \/ RobotReceives

(* The clock runs, a due timer is served, what is under way arrives, and   *)
(* of datagrams sent for ever some get through.                            *)
Fairness ==
  /\ WF_vars(Tick) /\ WF_vars(ControlLoop) /\ WF_vars(RobotReceives)
  /\ SF_vars(ControlLoop /\ wire' # wire)

Spec == Init /\ [][Next]_vars
FairSpec == Spec /\ Fairness

-----------------------------------------------------------------------------
Velocity == [1..3 -> Int \cup {NaN}]
Datagram == [mode : {1, 2}, v : Velocity]

(* Every variable keeps to the values the code can give it.                *)
TypeOK ==
  /\ socketOpen \in BOOLEAN /\ connected \in BOOLEAN
  /\ spinning \in BOOLEAN /\ emergencyStop \in BOOLEAN
  /\ command \in Datagram /\ robot \in Datagram
  /\ wire \in Seq(Datagram) /\ Len(wire) <= WireCap
  /\ cmdVelTopic \in Seq(Velocity) /\ Len(cmdVelTopic) <= 1
  /\ estopTopic \in Seq({"stop", "release"}) /\ Len(estopTopic) <= EstopDepth
  /\ currentCmd \in Velocity
  /\ cmdAge \in 0..OldAge /\ unheard \in 0..OldAge /\ sinceTimer \in 0..Period

Within(v) ==
  /\ v[1] \in -MaxLinear..MaxLinear /\ v[2] \in -MaxLinear..MaxLinear
  /\ v[3] \in -MaxAngular..MaxAngular

(* Whatever is published, a NaN included, no datagram the robot receives   *)
(* and none under way exceeds the limits of the parameters.                *)
LimitsHold ==
  /\ Within(command.v) /\ Within(robot.v)
  /\ \A i \in DOMAIN wire : Within(wire[i].v)

(* A connected controller that holds the emergency stop, or was shut down, *)
(* has a stop as its last word to the robot: no Twist, timer or shutdown   *)
(* in any order puts a motion after it.                                    *)
StopIsLastWord ==
  connected /\ (emergencyStop \/ ~spinning) => command.v = Still

(* A connected controller commands a motion only within the timeout and    *)
(* one period of the last Twist it took: nothing but a Twist, neither a    *)
(* release nor the loop itself, prolongs a motion.                         *)
MotionIsRecent ==
  spinning /\ connected /\ command.v # Still => unheard <= Timeout + Period

(* Although any single datagram may be lost, a robot whose controller      *)
(* holds the emergency stop, or hears no Twist, comes to a stop and stays  *)
(* so.                                                                     *)
Quiet == connected /\ spinning /\ (emergencyStop \/ Expired)
RobotComesToRest == <>[]Quiet => <>[](robot.v = Still)

=============================================================================
