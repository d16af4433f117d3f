------------------------------- MODULE Go2Sdk -------------------------------
(***************************************************************************)
(* Go2HighLevelInterface, the command side: the velocity command the       *)
(* object keeps and the datagrams it sends to the robot.  Gait and body    *)
(* height never leave their defaults in the repository and are left out.   *)
(* _command_lock is left out too: the one user of this side is a node spun *)
(* by a single thread.                                                     *)
(***************************************************************************)
EXTENDS Integers, Sequences

CONSTANT WireCap     \* datagrams that may be under way at once

ASSUME WireCapAssumption == WireCap \in Nat \ {0}

VARIABLES
  socketOpen,    \* _socket is not None
  command,       \* _current_command: mode and <<vx, vy, wz>>
  wire           \* datagrams on their way to the robot, in order

sdkVars == <<socketOpen, command, wire>>

Still == <<0, 0, 0>>

(* HighLevelCommand(mode=1), what stand() sends.                           *)
Standing == [mode |-> 1, v |-> Still]

(* One datagram for each command, if it gets through: without a socket     *)
(* nothing is sent, an exception of sendto is printed and forgotten, and   *)
(* UDP may drop a datagram that was sent.                                  *)
SendCommand(c) ==
  \/ socketOpen /\ Len(wire) < WireCap /\ wire' = Append(wire, c)
  \/ UNCHANGED wire

SetVelocity(v) ==
  /\ command' = [mode |-> IF v # Still THEN 2 ELSE 1, v |-> v]
  /\ SendCommand(command')
  /\ UNCHANGED socketOpen

Stop == SetVelocity(Still)

(* stop() and then disconnect().                                           *)
StopAndDisconnect ==
  /\ command' = Standing
  /\ SendCommand(command')
  /\ socketOpen' = FALSE

=============================================================================
