------------------------ MODULE MCVelocityController ------------------------
(***************************************************************************)
(* VelocityController for TLC: limits of 1 and 2, the Twist of a stop, and *)
(* velocities at and beyond the limits on either side and not a number.    *)
(***************************************************************************)
EXTENDS VelocityController

MCTwists == {<<0, 0, 0>>, <<2, -1, NaN>>, <<NaN, -2, 3>>}

=============================================================================
