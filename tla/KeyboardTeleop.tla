---------------------------- MODULE KeyboardTeleop ----------------------------
(***************************************************************************)
(* keyboard_teleop: one loop that reads a key and publishes.  The node     *)
(* keeps its own belief of the emergency stop and never hears back from    *)
(* go2_control_node.  A posture key is named by the command it sends.      *)
(* Speeds are whole mm/s and mrad/s; the floats' rounding is not modelled. *)
(***************************************************************************)
EXTENDS RosTopics

CONSTANTS
  Keys,         \* the keys the operator may press, a subset of AllKeys
  MaxPresses    \* bound: key presses in one behaviour

VARIABLES
  teleopEstop,   \* KeyboardTeleop.estop_active
  linearSpeed,   \* KeyboardTeleop.linear_speed
  angularSpeed,  \* KeyboardTeleop.angular_speed
  teleopUp,      \* is the process in its key loop?
  key,           \* the last key read ("none" before the first)
  presses        \* keys read so far

MoveKeys == {"w", "s", "a", "d", "q", "e"}
PostureKeys == {"up", "down", "balance", "recovery", "hello", "stretch"}
SpeedKeys == {"plus", "minus"}
AllKeys == MoveKeys \cup PostureKeys \cup SpeedKeys \cup {"x", "r", "space", "esc"}

ASSUME KeysAssumption == Keys \subseteq AllKeys /\ MaxPresses \in Nat

teleopVars == <<teleopEstop, linearSpeed, angularSpeed, teleopUp, key, presses>>

Axis(k, plus, minus) == IF k = plus THEN 1 ELSE IF k = minus THEN -1 ELSE 0

(* MOVE_BINDINGS scaled by the current speeds. *)
MoveTwist(k) == [x |-> Axis(k, "w", "s") * linearSpeed,
                 y |-> Axis(k, "a", "d") * linearSpeed,
                 z |-> Axis(k, "q", "e") * angularSpeed]

ZeroTwist == [x |-> 0, y |-> 0, z |-> 0]

Clamp(speed, top) ==
  IF speed < 100 THEN 100 ELSE IF speed > top THEN top ELSE speed

(* SPEED_BINDINGS: 1.1 and 0.9, in tenths. *)
SpeedFactor(k) == IF k = "plus" THEN 11 ELSE 9

Rescale(speed, k, top) == Clamp((speed * SpeedFactor(k)) \div 10, top)

DefaultSpeeds == linearSpeed = 300 /\ angularSpeed = 500

TeleopInit ==
  /\ teleopEstop = FALSE /\ teleopUp = TRUE
  /\ DefaultSpeeds
  /\ key = "none" /\ presses = 0

SendVelocity(twist) == cmdVelTopic' = KeepLast(cmdVelTopic, twist)
SendPosture(command) == postureTopic' = KeepLast(postureTopic, command)
SendEstop(message) ==
  /\ estopTopic' = KeepLast(estopTopic, message)
  /\ teleopEstop' = (message = "stop")

GetKey(k) ==
  /\ teleopUp /\ presses < MaxPresses
  /\ k \in Keys
  /\ key' = k /\ presses' = presses + 1

(* Fault: X toggles the emergency stop. *)
EmergencyKeyToggles ==
  /\ GetKey("x")
  /\ SendEstop(IF teleopEstop THEN "release" ELSE "stop")
  /\ SendVelocity(ZeroTwist)
  /\ UNCHANGED <<postureTopic, linearSpeed, angularSpeed, teleopUp>>

(* Fault: X publishes the stop and does not record it. *)
EmergencyKeyUnrecorded ==
  /\ GetKey("x")
  /\ estopTopic' = KeepLast(estopTopic, "stop") /\ SendVelocity(ZeroTwist)
  /\ UNCHANGED <<postureTopic, teleopEstop, linearSpeed, angularSpeed, teleopUp>>

EmergencyKey ==
  /\ GetKey("x")
  /\ SendEstop("stop") /\ SendVelocity(ZeroTwist)
  /\ UNCHANGED <<postureTopic, linearSpeed, angularSpeed, teleopUp>>

ReleaseKey ==
  /\ GetKey("r")
  /\ \/ teleopEstop /\ SendEstop("release")
     \/ ~teleopEstop /\ UNCHANGED <<estopTopic, teleopEstop>>
  /\ UNCHANGED <<cmdVelTopic, postureTopic, linearSpeed, angularSpeed, teleopUp>>

PostureKey ==
  /\ \E k \in PostureKeys : GetKey(k) /\ SendPosture(k)
  /\ UNCHANGED <<cmdVelTopic, estopTopic, teleopEstop, linearSpeed, angularSpeed, teleopUp>>

StopKey ==
  /\ GetKey("space")
  /\ SendVelocity(ZeroTwist)
  /\ UNCHANGED <<estopTopic, postureTopic, teleopEstop, linearSpeed, angularSpeed, teleopUp>>

SpeedKey ==
  /\ \E k \in SpeedKeys :
       /\ GetKey(k)
       /\ linearSpeed' = Rescale(linearSpeed, k, 1500)
       /\ angularSpeed' = Rescale(angularSpeed, k, 2000)
  /\ UNCHANGED <<cmdVelTopic, estopTopic, postureTopic, teleopEstop, teleopUp>>

MoveKey ==
  /\ \E k \in MoveKeys :
       /\ GetKey(k)
       /\ \/ teleopEstop /\ UNCHANGED cmdVelTopic
          \/ ~teleopEstop /\ SendVelocity(MoveTwist(k))
  /\ UNCHANGED <<estopTopic, postureTopic, teleopEstop, linearSpeed, angularSpeed, teleopUp>>

(* Fault: the program just ends. *)
QuitKeySilent ==
  /\ GetKey("esc")
  /\ teleopUp' = FALSE
  /\ UNCHANGED <<cmdVelTopic, estopTopic, postureTopic, teleopEstop, linearSpeed, angularSpeed>>

(* ESC: one zero velocity before the break, one more in the finally block. *)
QuitKey ==
  /\ GetKey("esc")
  /\ cmdVelTopic' = KeepLast(KeepLast(cmdVelTopic, ZeroTwist), ZeroTwist)
  /\ teleopUp' = FALSE
  /\ UNCHANGED <<estopTopic, postureTopic, teleopEstop, linearSpeed, angularSpeed>>

(* An exception or Ctrl-C: only the zero velocity of the finally block. *)
Interrupt ==
  /\ teleopUp
  /\ teleopUp' = FALSE
  /\ SendVelocity(ZeroTwist)
  /\ UNCHANGED <<estopTopic, postureTopic, teleopEstop, linearSpeed, angularSpeed,
                 key, presses>>

(* The operator starts the program again: __init__ knows nothing of the node. *)
Restart ==
  /\ ~teleopUp
  /\ teleopUp' = TRUE /\ teleopEstop' = FALSE
  /\ linearSpeed' = 300 /\ angularSpeed' = 500
  /\ key' = "none"
  /\ UNCHANGED <<cmdVelTopic, estopTopic, postureTopic, presses>>

PressKey == EmergencyKey \/ ReleaseKey \/ PostureKey \/ StopKey \/ SpeedKey
            \/ MoveKey \/ QuitKey

=============================================================================
