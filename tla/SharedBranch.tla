---------------------------- MODULE SharedBranch ----------------------------
(***************************************************************************)
(* What mounts and proxies do to the branch of a remote, whatever a push or *)
(* a fetch is made of.  Each client has a HEAD of its own; it adds commits  *)
(* to it, sets the branch to the HEAD it had when its push set out,         *)
(* whatever the branch points at, and takes over the branch, or what the    *)
(* branch was when it looked.  MountLoop and LocalPush both implement this. *)
(*                                                                          *)
(* A commit is the history that leads to it, its last record naming its     *)
(* author and tree.                                                         *)
(***************************************************************************)
EXTENDS Integers, Sequences, SequencesExt

CONSTANTS
  Clients, Writers,   \* those that have a HEAD, and those that push
  Trees,
  None                \* the author of what was there at first

VARIABLES
  branch,             \* the branch of the remote
  published,          \* every commit it has pointed at
  head,               \* per client: its HEAD
  offer,              \* per client: the HEAD its push set out with
  seen                \* per client: what it read of the branch, to take it over

vars == <<branch, published, head, offer, seen>>

Record == [by : Clients \cup {None}, tree : Trees]
Commits == Seq(Record) \ {<<>>}

Init ==
  /\ branch \in Commits /\ published = {branch}
  /\ head = [c \in Clients |-> branch] /\ offer = head
  /\ seen = [c \in Clients |-> {}]

\* A commit on HEAD, made before a push sets out or while it is under way.
Commit(c) ==
  /\ \E tree \in Trees :
       head' = [head EXCEPT ![c] = Append(@, [by |-> c, tree |-> tree])]
  /\ \/ UNCHANGED offer
     \/ offer' = [offer EXCEPT ![c] = head'[c]]
  /\ UNCHANGED <<branch, published, seen>>

\* The client begins a push, or gives up an exchange.
SetOut(c) ==
  /\ offer' = [offer EXCEPT ![c] = head[c]]
  /\ seen' = [seen EXCEPT ![c] = {}]
  /\ UNCHANGED <<branch, published, head>>

Publish(c) ==
  /\ c \in Writers
  /\ branch' = offer[c] /\ published' = published \cup {offer[c]}
  /\ \/ UNCHANGED offer
     \/ offer' = [offer EXCEPT ![c] = head[c]]
  /\ seen' = [seen EXCEPT ![c] = {}]
  /\ UNCHANGED head

Look(c) ==
  /\ seen' = [seen EXCEPT ![c] = {branch}]
  /\ UNCHANGED <<branch, published, head, offer>>

Adopt(c) ==
  /\ \E commit \in seen[c] \cup {branch} :
       /\ head' = [head EXCEPT ![c] = commit]
       /\ offer' = [offer EXCEPT ![c] = commit]
  /\ seen' = [seen EXCEPT ![c] = {}]
  /\ UNCHANGED <<branch, published>>

Next ==
  \E c \in Clients :
    Commit(c) \/ SetOut(c) \/ Publish(c) \/ Look(c) \/ Adopt(c)

Spec == Init /\ [][Next]_vars

-----------------------------------------------------------------------------
TypeOK ==
  /\ branch \in Commits /\ published \subseteq Commits
  /\ head \in [Clients -> Commits] /\ offer \in [Clients -> Commits]
  /\ seen \in [Clients -> SUBSET Commits]

\* HEAD is a commit the branch has pointed at and, on top of it, work of the
\* client's own: nobody holds, or pushes, what another has not published.
OwnWork(c) ==
  \E r \in published :
    /\ IsPrefix(r, head[c])
    /\ \A i \in Len(r) + 1 .. Len(head[c]) : head[c][i].by = c

HeadsAreOwnWork == \A c \in Clients : OwnWork(c)

SoleWriter == \E w \in Clients : Writers = {w}

\* The branch only ever moves forward.
FastForwards == [][IsPrefix(branch, branch')]_branch

\* What the branch has pointed at, it still leads to, and so does the HEAD of
\* whoever pushes: no push can take back what was published.
NothingIsTakenBack ==
  /\ \A r \in published : IsPrefix(r, branch)
  /\ \A w \in Writers : IsPrefix(branch, offer[w]) /\ IsPrefix(branch, head[w])
=============================================================================
