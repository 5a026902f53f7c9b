---------------------------- MODULE MCMountLoop ----------------------------
(* The mounts a and b. *)
EXTENDS MountPromises

CONSTANTS a, b, x, y

MCOne == [c \in Clients |-> 1]
MCTwoOne == [c \in Clients |-> IF c = a THEN 2 ELSE 1]
MCIdleB == [c \in Clients |-> IF c = a THEN 2 ELSE 0]
=============================================================================
