------------------------------ MODULE RosTopics ------------------------------
(***************************************************************************)
(* The four ROS 2 topics between the operator, go2_control_node and the    *)
(* robot's sport_mode service.  Every endpoint of the repository asks for  *)
(* QoS depth 10, i.e. reliable delivery with a KEEP_LAST history: messages *)
(* of one topic stay in order, a message that finds the history full       *)
(* evicts the oldest one, and nothing relates the topics to each other.    *)
(***************************************************************************)
EXTENDS Integers, Sequences

CONSTANT QueueDepth    \* history depth of every topic (10 in the source)

ASSUME QueueDepthAssumption == QueueDepth \in Nat \ {0}

VARIABLES
  cmdVelTopic,    \* /cmd_vel: Twists published and not yet taken by the node
  estopTopic,     \* /emergency_stop: EstopMessages, likewise
  postureTopic,   \* /cmd_posture: posture commands, likewise
  requestTopic    \* /api/sport/request: requests the robot has not executed

(* std_msgs/Bool on /emergency_stop: true is "stop", false is "release". *)
EstopMessages == {"stop", "release"}

(* Fault: a history without a bound. *)
KeepAll(q, m) == Append(q, m)

(* The history after m is published on a topic whose history is q. *)
KeepLast(q, m) == Append(IF Len(q) < QueueDepth THEN q ELSE Tail(q), m)


(* What a topic that carries messages of the set S may hold. *)
Topic(S) == {q \in Seq(S) : Len(q) <= QueueDepth}

=============================================================================
