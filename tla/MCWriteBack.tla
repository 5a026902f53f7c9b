---------------------------- MODULE MCWriteBack ----------------------------
(* Two paths, of which the remote has one; the longer content begins with the *)
(* shorter one.                                                              *)
EXTENDS WriteBack, TLC

CONSTANTS p1, p2, f1, f2

MCContents == {<<1>>, <<1, 2>>}
OneFile == [p \in Paths |-> IF p = p1 THEN <<1>> ELSE Absent]
Symmetric == Permutations({f1, f2})
MCRemote == {[p \in Paths |-> IF p = p1 THEN <<1, 2>> ELSE Absent]}
=============================================================================
