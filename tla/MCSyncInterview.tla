--------------------------- MODULE MCSyncInterview ---------------------------
(* Two sessions, one of which reads too; HEAD is unborn or has one file. *)
EXTENDS SyncInterview

CONSTANTS p1, x

OneFile == [p \in Paths |-> IF p = p1 THEN x ELSE Absent]
=============================================================================
