----------------------------- MODULE LocalPush -----------------------------
(***************************************************************************)
(* GitBackend::push to a remote on the same machine: the objects HEAD needs *)
(* are copied one by one into the target's store, its branch is forced onto *)
(* HEAD, and its working copy is rewritten.  Any number of proxies push to  *)
(* one target, and a push may be cut at any step by a crash or an error.    *)
(*                                                                          *)
(* A commit is the history that leads to it, its last record naming its     *)
(* author and tree.  An object is a pair of its kind and what it holds, so  *)
(* equal contents are one object, as they are in git.                       *)
(***************************************************************************)
EXTENDS Integers, FiniteSets, Sequences, SequencesExt

CONSTANTS
  Pushers,            \* the proxies
  Paths, Contents, Absent,
  FirstTree,          \* what the target holds at first
  MaxCommits,         \* bound of the commits of a proxy
  MaxFaults,          \* bound of crashes and errors
  None

Trees == [Paths -> Contents \cup {Absent}]

ASSUME PushAssumption ==
  /\ Absent \notin Contents /\ None \notin Pushers
  /\ FirstTree \in Trees /\ IsFiniteSet(Paths)
  /\ MaxCommits \in Nat /\ MaxFaults \in Nat

VARIABLES
  store,        \* the objects of the target
  branch,       \* the commit its branch points at
  worktree,     \* the files of its working copy
  published,    \* history: every commit its branch has pointed at
  head, base,   \* per proxy: HEAD, and the shallow boundary of its clone
  step,         \* where its push is: "idle", "copy" or "mirror"
  want, tip,    \* what the push read first: HEAD and the target's branch
  stack,        \* the objects copy_missing_objects has yet to look at
  outcome,      \* of the last push: "none", "ok" or "failed"
  cut,          \* history: what was on the stack of a copy that was cut
  disturbed,    \* history: pushes overlapped or were cut after the reference
  commits, faults

target == <<store, branch, worktree, published>>
push == <<step, want, tip, stack, outcome>>
vars == <<target, head, base, push, cut, disturbed, commits, faults>>

Tree(commit) == Last(commit).tree
Files(tree) == {p \in Paths : tree[p] # Absent}

CommitObject(commit) == <<"commit", commit>>
TreeObject(tree) == <<"tree", tree>>
BlobObject(content) == <<"blob", content>>

Blobs(tree) == {BlobObject(tree[p]) : p \in Files(tree)}
Parents(commit) ==
  IF Len(commit) = 1 THEN {} ELSE {CommitObject(Front(commit))}

Children(o) ==
  CASE o[1] = "commit" -> {TreeObject(Tree(o[2]))} \cup Parents(o[2])
    [] o[1] = "tree" -> Blobs(o[2])
    [] OTHER -> {}

\* Variant: the parents of a commit are taken to be on the target.
PushedButParents(rest, o) ==
  LET kids == IF o[1] = "commit" THEN <<TreeObject(Tree(o[2]))>>
              ELSE SetToSeq(Children(o))
  IN  {rest \o kids}

\* The stack after an object's children were pushed on it: a commit's tree goes
\* below its parents, a tree's entries come in an order of their names.
Pushed(rest, o) ==
  {rest \o kids : kids \in
     {s \in [1 .. Cardinality(Children(o)) -> Children(o)] :
        /\ \A kid \in Children(o) : \E i \in DOMAIN s : s[i] = kid
        /\ o[1] = "commit" => s[1][1] = "tree"}}

\* What a shallow clone at depth 1 brings, and needs to find.
Snapshot(commit) ==
  {CommitObject(commit), TreeObject(Tree(commit))} \cup Blobs(Tree(commit))

Readable(commit) == Snapshot(commit) \subseteq store

\* The objects of a proxy: its history down to the shallow boundary.
Owns(c, o) ==
  \E n \in Len(base[c]) .. Len(head[c]) :
    o \in Snapshot(SubSeq(head[c], 1, n))

EmptyTree == [p \in Paths |-> Absent]

\* The target has a history already, of which a clone has the last commit.
Init ==
  /\ branch = <<[by |-> None, tree |-> EmptyTree],
                [by |-> None, tree |-> FirstTree]>>
  /\ store = Snapshot(Front(branch)) \cup Snapshot(branch)
  /\ worktree = FirstTree /\ published = {branch}
  /\ head = [c \in Pushers |-> branch] /\ base = head
  /\ step = [c \in Pushers |-> "idle"]
  /\ want = head /\ tip = head
  /\ stack = [c \in Pushers |-> <<>>]
  /\ outcome = [c \in Pushers |-> "none"]
  /\ cut = {} /\ disturbed = FALSE
  /\ commits = [c \in Pushers |-> 0] /\ faults = 0

-----------------------------------------------------------------------------
(* The proxy's own commits, which the filter's thread makes even while the  *)
(* loop pushes, and what it takes over from the target.                     *)

Commit(c, tree) ==
  /\ commits[c] < MaxCommits /\ tree # Tree(head[c])
  /\ head' = [head EXCEPT ![c] = Append(@, [by |-> c, tree |-> tree])]
  /\ commits' = [commits EXCEPT ![c] = @ + 1]
  /\ UNCHANGED <<target, base, push, cut, disturbed, faults>>

\* A fetch, or a clone: HEAD is the target's branch, and nothing below it.
Fetch(c) ==
  /\ step[c] = "idle" /\ head[c] # branch
  /\ Readable(branch)
  /\ head' = [head EXCEPT ![c] = branch]
  /\ base' = [base EXCEPT ![c] = branch]
  /\ UNCHANGED <<target, push, cut, disturbed, commits, faults>>

-----------------------------------------------------------------------------
(* A push, step by step. *)

Goto(c, where) == step' = [step EXCEPT ![c] = where]

\* push() returns; nothing of it is left.
End(c, result) ==
  /\ Goto(c, "idle")
  /\ outcome' = [outcome EXCEPT ![c] = result]
  /\ want' = [want EXCEPT ![c] = head[c]] /\ tip' = [tip EXCEPT ![c] = head[c]]
  /\ stack' = [stack EXCEPT ![c] = <<>>]

UpToDate(c) ==
  /\ step[c] = "idle" /\ head[c] = branch /\ End(c, "ok")
  /\ UNCHANGED <<target, head, base, cut, disturbed, commits, faults>>

\* The files of the target's commit cannot be listed.
TipUnreadable(c) ==
  /\ step[c] = "idle" /\ head[c] # branch
  /\ ~Readable(branch) /\ End(c, "failed")
  /\ UNCHANGED <<target, head, base, cut, disturbed, commits, faults>>

StartPush(c) ==
  /\ step[c] = "idle" /\ head[c] # branch
  /\ Readable(branch) /\ Goto(c, "copy")
  /\ want' = [want EXCEPT ![c] = head[c]] /\ tip' = [tip EXCEPT ![c] = branch]
  /\ stack' = [stack EXCEPT ![c] = <<CommitObject(head[c])>>]
  /\ outcome' = [outcome EXCEPT ![c] = "none"]
  /\ UNCHANGED <<target, head, base, cut, disturbed, commits, faults>>

\* Variant: an object that is there is walked like any other.
SkipObjectDescends(c) ==
  /\ step[c] = "copy" /\ stack[c] # <<>>
  /\ LET o == Last(stack[c])
     IN  o \in store /\ \E s \in Pushed(Front(stack[c]), o) :
                           stack' = [stack EXCEPT ![c] = s]
  /\ UNCHANGED <<target, head, base, step, want, tip, outcome, cut, disturbed,
                 commits, faults>>

SkipObject(c) ==
  /\ step[c] = "copy" /\ stack[c] # <<>>
  /\ Last(stack[c]) \in store
  /\ stack' = [stack EXCEPT ![c] = Front(@)]
  /\ UNCHANGED <<target, head, base, step, want, tip, outcome, cut, disturbed,
                 commits, faults>>

\* The object is written before its children are.
CopyObject(c) ==
  /\ step[c] = "copy" /\ stack[c] # <<>>
  /\ LET o == Last(stack[c])
     IN  /\ o \notin store
         /\ store' = store \cup {o}
         /\ \E s \in Pushed(Front(stack[c]), o) :
              stack' = [stack EXCEPT ![c] = s]
  /\ UNCHANGED <<branch, worktree, published, head, base, step, want, tip,
                 outcome, cut, disturbed, commits, faults>>

Overlaps(c) == \E d \in Pushers \ {c} : step[d] # "idle"

\* Variant: the branch is set while there are objects to copy.
SetRefEarly(c) ==
  /\ step[c] = "copy" /\ Goto(c, "mirror")
  /\ branch' = want[c] /\ published' = published \cup {want[c]}
  /\ disturbed' = (disturbed \/ Overlaps(c))
  /\ UNCHANGED <<store, worktree, head, base, want, tip, stack, outcome, cut,
                 commits, faults>>

\* PreviousValue::Any, and the name that an error or a crash leaves set.
SetRef(c) ==
  /\ step[c] = "copy" /\ stack[c] = <<>> /\ Goto(c, "mirror")
  /\ branch' = want[c] /\ published' = published \cup {want[c]}
  /\ disturbed' = (disturbed \/ Overlaps(c))
  /\ UNCHANGED <<store, worktree, head, base, want, tip, stack, outcome, cut,
                 commits, faults>>

\* sync_worktree: what the old tip had and the new one has not is removed, then
\* the files of the new one are written.
Removed(c) == Files(Tree(tip[c])) \ Files(Tree(want[c]))

Mirrored(c, removed, written) ==
  [p \in Paths |-> IF p \in written THEN Tree(want[c])[p]
                   ELSE IF p \in removed THEN Absent ELSE worktree[p]]

\* Variant: the files to remove are those of a commit before the tip.
MirrorRemovesNothing(c) ==
  /\ step[c] = "mirror" /\ Readable(want[c])
  /\ worktree' = Mirrored(c, {}, Files(Tree(want[c])))
  /\ End(c, "ok")
  /\ UNCHANGED <<store, branch, published, head, base, cut, disturbed, commits,
                 faults>>

Mirror(c) ==
  /\ step[c] = "mirror" /\ Readable(want[c])
  /\ worktree' = Mirrored(c, Removed(c), Files(Tree(want[c])))
  /\ End(c, "ok")
  /\ UNCHANGED <<store, branch, published, head, base, cut, disturbed, commits,
                 faults>>

\* Variant: it is copied again, at once.
MirrorUnreadableRetries(c) ==
  /\ step[c] = "mirror" /\ ~Readable(want[c]) /\ Goto(c, "copy")
  /\ UNCHANGED <<target, head, base, want, tip, stack, outcome, cut, disturbed,
                 commits, faults>>

\* The commit that was just pushed cannot be read back.
MirrorUnreadable(c) ==
  /\ step[c] = "mirror" /\ ~Readable(want[c]) /\ End(c, "failed")
  /\ disturbed' = TRUE
  /\ UNCHANGED <<target, head, base, cut, commits, faults>>

-----------------------------------------------------------------------------
(* A crash, a full disk, a file that cannot be written. *)

Fault == faults < MaxFaults /\ faults' = faults + 1

CutCopy(c) ==
  /\ Fault /\ step[c] = "copy" /\ End(c, "failed")
  /\ cut' = cut \cup ToSet(stack[c])
  /\ UNCHANGED <<target, head, base, disturbed, commits>>

\* Variant: the branch is put back to what it was.
CutMirrorRollsBack(c) ==
  /\ Fault /\ step[c] = "mirror" /\ End(c, "failed")
  /\ branch' = tip[c] /\ disturbed' = TRUE
  /\ UNCHANGED <<store, worktree, published, head, base, cut, commits>>

CutMirror(c) ==
  /\ Fault /\ step[c] = "mirror" /\ End(c, "failed")
  /\ \/ \E removed \in SUBSET Removed(c) : worktree' = Mirrored(c, removed, {})
     \/ \E written \in SUBSET Files(Tree(want[c])) :
          worktree' = Mirrored(c, Removed(c), written)
  /\ disturbed' = TRUE
  /\ UNCHANGED <<store, branch, published, head, base, cut, commits>>

-----------------------------------------------------------------------------
Push(c) ==
  \/ UpToDate(c) \/ TipUnreadable(c) \/ StartPush(c)
  \/ SkipObject(c) \/ CopyObject(c) \/ SetRef(c)
  \/ Mirror(c) \/ MirrorUnreadable(c)

Next ==
  \E c \in Pushers :
    \/ \E tree \in Trees : Commit(c, tree)
    \/ Fetch(c)
    \/ Push(c)
    \/ CutCopy(c) \/ CutMirror(c)

PushSpec == Init /\ [][Next]_vars

-----------------------------------------------------------------------------
Commits == Seq([by : Pushers \cup {None}, tree : Trees]) \ {<<>>}

Objects ==
  ({"commit"} \X Commits) \cup ({"tree"} \X Trees) \cup ({"blob"} \X Contents)

TypeOK ==
  /\ store \subseteq Objects /\ cut \subseteq Objects
  /\ branch \in Commits /\ published \subseteq Commits /\ worktree \in Trees
  /\ head \in [Pushers -> Commits] /\ base \in [Pushers -> Commits]
  /\ want \in [Pushers -> Commits] /\ tip \in [Pushers -> Commits]
  /\ step \in [Pushers -> {"idle", "copy", "mirror"}]
  /\ stack \in [Pushers -> Seq(Objects)]
  /\ outcome \in [Pushers -> {"none", "ok", "failed"}]
  /\ disturbed \in BOOLEAN
  /\ commits \in [Pushers -> Nat] /\ faults \in Nat

\* What an object of the target refers to and the target has not is on the
\* stack of a push that is on its way, or was when that push was cut: no other
\* interleaving of pushes leaves a hole, although each skips whatever another
\* has half copied (git lib.rs:597).
MissingIsPending ==
  \A o \in store : \A kid \in Children(o) :
    \/ kid \in store \cup cut
    \/ \E c \in Pushers : kid \in ToSet(stack[c])

\* Once the pushes have ended, and unless one was cut in the middle of its
\* copy, the target is whole: what its branch leads to, it has.
WholeWhenQuiet ==
  (\A c \in Pushers : step[c] = "idle") /\ cut \subseteq store =>
    /\ CommitObject(branch) \in store
    /\ \A o \in store : Children(o) \subseteq store

\* The walk never leaves the shallow clone: it asks the proxy for no object
\* below the boundary, whose parents the clone does not have.
WalkStaysInClone ==
  \A c \in Pushers : \A o \in ToSet(stack[c]) : Owns(c, o)

\* Pushes that neither overlap nor are cut leave the working copy at the
\* branch's tree, removed and renamed files included.
WorkingCopyFollows ==
  (\A c \in Pushers : step[c] = "idle") /\ ~disturbed =>
    worktree = Tree(branch)

\* What the code says of the copy: "every object reachable from `start` that
\* `dst` is missing" is there when the branch is set (git lib.rs:583).
BranchIsReadable == Readable(branch)

\* It does hold as long as no copy was cut, if no push was past the reference
\* while another was on its way.
ReadableUndisturbed == ~disturbed /\ cut = {} => BranchIsReadable

-----------------------------------------------------------------------------
(* However many objects it copies, a push sets the branch to the HEAD it read *)
(* first, and one that is cut sets it or leaves it: to the branch, a push is  *)
(* one step.                                                                  *)
Branch == INSTANCE SharedBranch WITH
  Clients <- Pushers, Writers <- Pushers,
  offer <- [c \in Pushers |-> IF step[c] = "idle" THEN head[c] ELSE want[c]],
  seen <- [c \in Pushers |-> {}]

ImplementsBranch == Branch!Spec
=============================================================================
