----------------------------- MODULE SportClient -----------------------------
(***************************************************************************)
(* SportClient (go2_control): it fills in one caller-owned request message *)
(* and publishes it on /api/sport/request.  The message is reused, and     *)
(* only Move writes its parameter field, so every other request still      *)
(* carries the parameter of the last Move.                                 *)
(***************************************************************************)
EXTENDS RosTopics

CONSTANT NoParameter   \* the empty parameter string of a fresh request

VARIABLE request       \* Go2ControlNode::request_, reused for every call

(* A velocity in mm/s and mrad/s, as a Twist or the JSON parameter of Move. *)
Twist == [x : Int, y : Int, z : Int]

(* The operations of the sport service that the node calls. *)
PostureApis == {"STAND_UP", "STAND_DOWN", "BALANCE_STAND", "RECOVERY_STAND",
                "SIT", "HELLO", "STRETCH", "STOP_MOVE"}

Apis == PostureApis \cup {"DAMP", "MOVE"}

Request == [api : Apis, parameter : Twist \cup {NoParameter}]

(* The message as the node constructs it: no API chosen yet. *)
FreshRequest == [api |-> "NONE", parameter |-> NoParameter]

(* The request message is filled in and published. *)
PublishRequest(r) ==
  /\ request' = r
  /\ requestTopic' = KeepLast(requestTopic, r)

Move(twist) == PublishRequest([api |-> "MOVE", parameter |-> twist])

(* Fault: the stop is noted but never sent on. *)
DampForgotten == UNCHANGED <<request, requestTopic>>

Damp == PublishRequest([request EXCEPT !.api = "DAMP"])

(* StandUp, StandDown, BalanceStand, RecoveryStand, Sit, Hello, Stretch, StopMove *)
Posture(api) == PublishRequest([request EXCEPT !.api = api])

=============================================================================
