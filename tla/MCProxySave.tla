---------------------------- MODULE MCProxySave ----------------------------
(* Two proxies of one target, which holds one file at first. *)
EXTENDS ProxySave

CONSTANTS a, b, p1, p2, x, y

OneFile == [p \in Paths |-> IF p = p1 THEN x ELSE Absent]
MCTwoOne == [c \in Pushers |-> IF c = a THEN 2 ELSE 1]
=============================================================================
