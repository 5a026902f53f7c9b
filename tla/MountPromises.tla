--------------------------- MODULE MountPromises ---------------------------
(***************************************************************************)
(* What the documentation and the comments of the code say of a mount and   *)
(* MountLoop, which models what the code does, refutes, each in a run of    *)
(* its own that ends in a counterexample; and after it what does hold.      *)
(***************************************************************************)
EXTENDS MountLoop

\* README.md:171, "the commits are still durable locally and go out on the
\* next mount - ... never lost"; git lib.rs:380, "there is nothing to lose by
\* force-moving it": a HEAD that moves off a commit leaves it on the remote.
CommitsSurvive ==
  [][ \A c \in Clients :
        Mounted(c) /\ ~IsPrefix(head[c], head'[c]) => Published(head[c]) ]_vars

\* main.rs:254, "a freshly-mounted proxy owes the remote nothing": a mount that
\* has committed nothing leaves the remote as it is.
IdleMountOwesNothing ==
  [][ \A c \in Clients : commits[c] = 0 /\ PushLands(c) => remote' = remote ]_vars

-----------------------------------------------------------------------------
(* What does hold of them. *)

\* A mount whose user renames nothing and that began at a published commit never
\* leaves a commit of its own behind: a fetch, which forces HEAD onto the remote's
\* tip, waits for the open batch, and the batch is all there is (main.rs:307).
SessionKeepsCommits ==
  [][ \A c \in Clients \ Renamers :
        ~IsPrefix(head[c], head'[c]) /\ Mounted(c) /\ Published(boot[c])
        => Published(head[c]) ]_vars

\* When the only writer counts its HEAD as pushed, HEAD is the remote's branch,
\* whatever the filter committed while a push or a fetch was under way.
CountedIsRemote ==
  \A w \in Writers : head[w] = pushed_head[w] /\ Published(boot[w]) => head[w] = remote

\* A mount starts again only from what it had pushed.
RemountsOwnNothing ==
  [][ \A c \in Clients : StartLoop(c) => Published(head[c]) ]_vars
=============================================================================
