---------------------------- MODULE MCLocalPush ----------------------------
(* Two proxies of one target, which holds one file at first. *)
EXTENDS LocalPush

CONSTANTS a, b, p1, p2, x, y

OneFile == [p \in Paths |-> IF p = p1 THEN x ELSE Absent]
=============================================================================
