------------------------------ MODULE Go2Control ------------------------------
(***************************************************************************)
(* go2_control_node: three subscriptions and one emergency-stop flag.  The *)
(* node is spun by a single thread, so a callback is one step; which       *)
(* subscription is served next is up to the executor.                      *)
(***************************************************************************)
EXTENDS SportClient

VARIABLE estopActive   \* Go2ControlNode::estop_active_

(* The request each posture command issues; any other command is logged only. *)
PostureApi ==
  [up |-> "STAND_UP", stand |-> "STAND_UP", down |-> "STAND_DOWN",
   lie |-> "STAND_DOWN", balance |-> "BALANCE_STAND",
   recovery |-> "RECOVERY_STAND", sit |-> "SIT", hello |-> "HELLO",
   stretch |-> "STRETCH", stop |-> "STOP_MOVE"]

PostureCommands == {"up", "stand", "down", "lie", "balance", "recovery",
                    "sit", "hello", "stretch", "stop"}

(* The posture commands that clear the emergency stop. *)
ReleasingCommands == {"up", "stand", "recovery"}

nodeVars == <<estopActive, request>>

NodeInit ==
  /\ estopActive = FALSE
  /\ request = FreshRequest

(* Fault: velocities pass whether or not the node is stopped. *)
CmdVelCallbackUngated ==
  /\ cmdVelTopic # <<>>
  /\ cmdVelTopic' = Tail(cmdVelTopic)
  /\ Move(Head(cmdVelTopic))
  /\ UNCHANGED <<estopActive, estopTopic, postureTopic>>

CmdVelCallback ==
  /\ cmdVelTopic # <<>>
  /\ cmdVelTopic' = Tail(cmdVelTopic)
  /\ \/ /\ estopActive
        /\ UNCHANGED <<request, requestTopic>>
     \/ /\ ~estopActive
        /\ Move(Head(cmdVelTopic))
  /\ UNCHANGED <<estopActive, estopTopic, postureTopic>>

(* Fault: the release branch is missing. *)
EstopCallbackLatched ==
  /\ estopTopic # <<>>
  /\ estopTopic' = Tail(estopTopic)
  /\ \/ /\ Head(estopTopic) = "stop" /\ ~estopActive
        /\ estopActive' = TRUE
        /\ Damp
     \/ /\ Head(estopTopic) = "release" \/ estopActive
        /\ UNCHANGED <<estopActive, request, requestTopic>>
  /\ UNCHANGED <<cmdVelTopic, postureTopic>>

EstopCallback ==
  /\ estopTopic # <<>>
  /\ estopTopic' = Tail(estopTopic)
  /\ \/ /\ Head(estopTopic) = "stop" /\ ~estopActive
        /\ estopActive' = TRUE
        /\ Damp
     \/ /\ Head(estopTopic) = "release" /\ estopActive
        /\ estopActive' = FALSE
        /\ UNCHANGED <<request, requestTopic>>
     \/ /\ (Head(estopTopic) = "stop") <=> estopActive
        /\ UNCHANGED <<estopActive, request, requestTopic>>
  /\ UNCHANGED <<cmdVelTopic, postureTopic>>

PostureCallback ==
  /\ postureTopic # <<>>
  /\ postureTopic' = Tail(postureTopic)
  /\ LET command == Head(postureTopic) IN
       \/ /\ command \in PostureCommands
          /\ estopActive' = (estopActive /\ command \notin ReleasingCommands)
          /\ Posture(PostureApi[command])
       \/ /\ command \notin PostureCommands
          /\ UNCHANGED <<estopActive, request, requestTopic>>
  /\ UNCHANGED <<cmdVelTopic, estopTopic>>

NodeNext == CmdVelCallback \/ EstopCallback \/ PostureCallback

=============================================================================
