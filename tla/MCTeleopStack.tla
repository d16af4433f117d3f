---------------------------- MODULE MCTeleopStack ----------------------------
(* Finite instances of the command path for TLC. *)
EXTENDS TeleopStack, TLC

MCTwists == {[x |-> 300, y |-> 0, z |-> 0]}
MCNoTwists == {}
MCPostures == {"up", "wave"}
MCEstops == {"stop", "release"}

MCAllKeys == {"w", "x", "r", "up", "balance", "esc"}
MCDriveKeys == {"w", "x", "r", "up", "space", "esc", "plus"}
MCStopKeys == {"w", "x", "r", "up"}
MCBalanceKeys == {"x", "balance", "up"}
=============================================================================
