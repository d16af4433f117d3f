------------------------------ MODULE EStopGate ------------------------------
(***************************************************************************)
(* What the emergency stop promises the robot, without operator, node or   *)
(* topics: a gate on the stream of requests.  Shutting the gate puts a     *)
(* DAMP on the stream in the same step; while it is shut no MOVE enters    *)
(* the stream; and the robot takes the stream in order, though the oldest  *)
(* requests may be lost before it does.                                    *)
(***************************************************************************)
EXTENDS Naturals, Sequences

CONSTANTS
  Depth,      \* requests the stream can hold
  Postures    \* the requests that are neither MOVE nor DAMP

VARIABLES
  shut,       \* is the gate shut?
  stream,     \* APIs requested and not yet executed, oldest first
  executed    \* the API the robot executed last

vars == <<shut, stream, executed>>

Init == shut = FALSE /\ stream = <<>> /\ executed = "NONE"

Push(api) ==
  stream' = Append(IF Len(stream) < Depth THEN stream ELSE Tail(stream), api)

Shut == ~shut /\ shut' = TRUE /\ Push("DAMP") /\ UNCHANGED executed

Reopen == shut /\ shut' = FALSE /\ UNCHANGED <<stream, executed>>

Drive == ~shut /\ Push("MOVE") /\ UNCHANGED <<shut, executed>>

(* A posture may pass at any time, and some of them open the gate. *)
Pose == /\ \E api \in Postures : Push(api)
        /\ shut' \in {shut, FALSE}
        /\ UNCHANGED executed

Execute ==
  /\ stream # <<>>
  /\ executed' = Head(stream) /\ stream' = Tail(stream)
  /\ UNCHANGED shut

Next == Shut \/ Reopen \/ Drive \/ Pose \/ Execute

Spec == Init /\ [][Next]_vars

-----------------------------------------------------------------------------
(* While the gate is shut, whatever MOVE is still on the stream is older    *)
(* than the DAMP: the robot damps after it.                                *)
MovesPrecedeDamp ==
  shut => \A i \in DOMAIN stream :
            stream[i] = "MOVE" => \E j \in DOMAIN stream : i < j /\ stream[j] = "DAMP"

=============================================================================
