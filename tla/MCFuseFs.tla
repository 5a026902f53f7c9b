------------------------------ MODULE MCFuseFs ------------------------------
(* Trees of up to three entries and one directory, each a small change away *)
(* from another: an entry comes, goes, becomes a directory, which sorts it   *)
(* behind the next, or a submodule.                                          *)
EXTENDS FuseFs, TLC

CONSTANTS x, y, raw

Long == <<x, x, y>>
Short == <<x, y>>

RootFiles(names, text) == [q \in {<<n>> : n \in names} |-> text]
With(v, q, text) == [r \in Files(v) \cup {q} |-> IF r = q THEN text ELSE v[r]]

MCVersions ==
  {RootFiles({}, Long), RootFiles({1, 2, 4}, Long), RootFiles({2, 4}, Long),
   With(RootFiles({2, 4}, Long), <<2>>, Short),
   With(RootFiles({2, 4}, Short), <<1, 1>>, Short),
   With(RootFiles({4}, Short), <<1>>, Submodule)}

MCAsDir == (1 :> 3) @@ (2 :> 2) @@ (4 :> 5)

MCRawTree == <<raw>>
=============================================================================
