---------------------------- MODULE MCSdkLifecycle ----------------------------
(* Configurations of SdkLifecycle for TLC. *)
EXTENDS SdkLifecycle

(* A socket with two handle threads and PTC, one with a fault message source, *)
(* and a TCP connection, which lets Run start only when all is done.          *)
Sources ==
  {[early |-> TRUE, ptc |-> TRUE, faults |-> FALSE, threads |-> 2],
   [early |-> TRUE, ptc |-> FALSE, faults |-> TRUE, threads |-> 1],
   [early |-> FALSE, ptc |-> TRUE, faults |-> FALSE, threads |-> 1]}

(* A socket for the point cloud and one for the fault messages. *)
TwoSockets == {[early |-> TRUE, ptc |-> FALSE, faults |-> TRUE, threads |-> 1]}

=============================================================================
