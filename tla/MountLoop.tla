----------------------------- MODULE MountLoop -----------------------------
(***************************************************************************)
(* Mounts of one remote, as far as their commits go: the loop of            *)
(* bosync-cli/src/main.rs, the push and the fetch it paces, each cut where  *)
(* it reads or moves a reference, and the filter's thread, which commits    *)
(* renames between any two of these steps.  The folder is WriteBack's.      *)
(*                                                                          *)
(* A commit is the history that leads to it: a sequence whose last record   *)
(* is the commit's author and tree, so "is an ancestor of" is IsPrefix.     *)
(* Time is abstract: SyncScheduler shows that the scheduler behind `owed'   *)
(* keeps the contract of PushPacing, and a turn here relies on no more.     *)
(***************************************************************************)
EXTENDS Integers, FiniteSets, Sequences, SequencesExt

CONSTANTS
  Clients, ReadOnly,  \* the mounts, and those mounted with --readonly
  Renamers,           \* the mounts whose user renames files
  Trees, FirstTree,   \* what a commit may hold, and the first one's
  MaxCommits,         \* bound of commits, per mount
  MaxFaults,          \* bound of shutdowns, crashes and half-done exchanges
  None

ASSUME MountAssumption ==
  /\ ReadOnly \subseteq Clients /\ Renamers \subseteq Clients
  /\ FirstTree \in Trees
  /\ None \notin Clients
  /\ MaxCommits \in [Clients -> Nat] /\ MaxFaults \in Nat

Writers == Clients \ ReadOnly

VARIABLES
  remote,       \* the branch of the remote repository
  published,    \* history: every commit it has pointed at
  head, track,  \* per mount: HEAD and refs/remotes/origin/<branch>
  phase,        \* "new", "down", or where the loop is in its turn
  sent,         \* the HEAD that the push under way has read
  last_head, pushed_head,
  owed,         \* the scheduler holds an open batch
  boot,         \* history: HEAD when the loop began
  commits, faults

git == <<remote, published, head, track>>
loop == <<last_head, pushed_head, owed, boot>>
vars == <<git, loop, phase, sent, commits, faults>>

\* What the remote has been given.
Published(commit) == \E r \in published : IsPrefix(commit, r)

Mounted(c) == phase[c] \notin {"new", "down"}

Goto(c, where) == phase' = [phase EXCEPT ![c] = where]

Fault == faults < MaxFaults /\ faults' = faults + 1

Init ==
  /\ remote = <<[by |-> None, tree |-> FirstTree]>>
  /\ published = {remote}
  /\ head = [c \in Clients |-> remote] /\ track = head
  /\ phase = [c \in Clients |-> "new"]
  /\ last_head = head /\ pushed_head = head /\ boot = head /\ sent = head
  /\ owed = [c \in Clients |-> FALSE]
  /\ commits = [c \in Clients |-> 0] /\ faults = 0

-----------------------------------------------------------------------------
(* Commits: HEAD is read, and edited only if it still is what was read, so   *)
(* that a commit goes on top of HEAD in one step, whichever thread makes it. *)

\* Variant: the commit takes the place of HEAD's.
CommitAmends(c) ==
  /\ commits[c] < MaxCommits[c]
  /\ \E tree \in Trees :
       head' = [head EXCEPT ![c] = Append(Front(@), [by |-> c, tree |-> tree])]
  /\ commits' = [commits EXCEPT ![c] = @ + 1]

Commit(c) ==
  /\ commits[c] < MaxCommits[c]
  /\ \E tree \in Trees :
       head' = [head EXCEPT ![c] = Append(@, [by |-> c, tree |-> tree])]
  /\ commits' = [commits EXCEPT ![c] = @ + 1]

\* renamed(), on a thread of its own, for as long as the filter is connected.
FilterCommits(c) ==
  /\ c \in Renamers /\ Mounted(c) /\ Commit(c)
  /\ UNCHANGED <<remote, published, track, loop, phase, sent, faults>>

\* reconcile_path, on a drained path: before the loop looks at HEAD, and in the
\* flush.
LoopCommits(c) ==
  /\ phase[c] \in {"reconcile", "flush"} /\ Commit(c)
  /\ UNCHANGED <<remote, published, track, loop, phase, sent, faults>>

-----------------------------------------------------------------------------
(* Mounting: the filter is connected before the loop looks at HEAD.          *)

Clone(c) ==
  /\ phase[c] = "new" /\ Goto(c, "start")
  /\ head' = [head EXCEPT ![c] = remote]
  /\ track' = [track EXCEPT ![c] = remote]
  /\ UNCHANGED <<remote, published, loop, sent, commits, faults>>

Remount(c) ==
  /\ phase[c] = "down" /\ Goto(c, "start")
  /\ UNCHANGED <<git, loop, sent, commits, faults>>

\* Variant: a read-only mount writes back like any other.
NextTurnWritesBack(c) == Goto(c, "reconcile")

\* Where a turn begins: a read-only mount only ever fetches.
NextTurn(c) == Goto(c, IF c \in ReadOnly THEN "act" ELSE "reconcile")

\* Whatever HEAD is, it counts as pushed.
StartLoop(c) ==
  /\ phase[c] = "start" /\ NextTurn(c)
  /\ last_head' = [last_head EXCEPT ![c] = head[c]]
  /\ pushed_head' = [pushed_head EXCEPT ![c] = head[c]]
  /\ boot' = [boot EXCEPT ![c] = head[c]]
  /\ owed' = [owed EXCEPT ![c] = FALSE]
  /\ UNCHANGED <<git, sent, commits, faults>>

-----------------------------------------------------------------------------
(* One turn of the loop: reconcile, notice where HEAD is, then push, fetch   *)
(* or wait as the scheduler says.                                            *)

NoticeHead(c) ==
  /\ phase[c] = "reconcile" /\ Goto(c, "act")
  /\ owed' = [owed EXCEPT ![c] = @ \/ head[c] # last_head[c]]
  /\ last_head' = [last_head EXCEPT ![c] = head[c]]
  /\ UNCHANGED <<git, pushed_head, boot, sent, commits, faults>>

Wait(c) ==
  /\ phase[c] = "act" /\ NextTurn(c)
  /\ UNCHANGED <<git, loop, sent, commits, faults>>

Outstanding(c) == last_head[c] # pushed_head[c]

\* Tick::Push with nothing unpushed closes the batch.
PushNothing(c) ==
  /\ phase[c] = "act" /\ owed[c] /\ ~Outstanding(c) /\ NextTurn(c)
  /\ owed' = [owed EXCEPT ![c] = FALSE]
  /\ UNCHANGED <<git, last_head, pushed_head, boot, sent, commits, faults>>

\* Variant: the push sets out with HEAD's tree.
PushStartBare(c) ==
  /\ phase[c] = "act" /\ owed[c] /\ Outstanding(c) /\ Goto(c, "push")
  /\ sent' = [sent EXCEPT ![c] = <<Last(head[c]).tree>>]
  /\ UNCHANGED <<git, loop, commits, faults>>

\* Tick::Push; what will go out is HEAD, not last_head.
PushStart(c) ==
  /\ phase[c] = "act" /\ owed[c] /\ Outstanding(c) /\ Goto(c, "push")
  /\ sent' = [sent EXCEPT ![c] = head[c]]
  /\ UNCHANGED <<git, loop, commits, faults>>

\* PreviousValue::Any: the branch is set, whatever it pointed at.
SetRemote(c) == remote' = sent[c] /\ published' = published \cup {sent[c]}

\* The objects are copied and the reference is edited; what is left is the
\* target's working copy.
PushLands(c) ==
  /\ phase[c] = "push" /\ Goto(c, "landed")
  /\ SetRemote(c)
  /\ UNCHANGED <<head, track, loop, sent, commits, faults>>

\* push returned Ok, at its end or because the tip was there already.
PushCounts(c) ==
  /\ phase[c] = "landed" \/ (phase[c] = "push" /\ remote = sent[c])
  /\ NextTurn(c)
  /\ pushed_head' = [pushed_head EXCEPT ![c] = last_head[c]]
  /\ owed' = [owed EXCEPT ![c] = FALSE]
  /\ UNCHANGED <<git, last_head, boot, sent, commits, faults>>

\* Variants: a failed push closes the batch, or is counted as pushed.
PushFailsCloses(c) ==
  /\ phase[c] = "push" /\ NextTurn(c)
  /\ owed' = [owed EXCEPT ![c] = FALSE]
  /\ UNCHANGED <<git, last_head, pushed_head, boot, sent, commits, faults>>

PushFailsCounts(c) ==
  /\ phase[c] = "push" /\ NextTurn(c)
  /\ pushed_head' = [pushed_head EXCEPT ![c] = last_head[c]]
  /\ owed' = [owed EXCEPT ![c] = FALSE]
  /\ UNCHANGED <<git, last_head, boot, sent, commits, faults>>

\* The batch stays open, to be pushed again.
PushFails(c) ==
  /\ phase[c] = "push" /\ NextTurn(c)
  /\ UNCHANGED <<git, loop, sent, commits, faults>>

\* The branch is set and the working copy cannot be written: push errs, and the
\* loop does not know that the commit is out.
HalfPush(c) ==
  /\ Fault /\ phase[c] = "landed" /\ NextTurn(c)
  /\ UNCHANGED <<git, loop, sent, commits>>

\* Variant: the fetch does not wait for the open batch.
FetchStartEager(c) ==
  /\ phase[c] = "act" /\ Goto(c, "fetch")
  /\ UNCHANGED <<git, loop, sent, commits, faults>>

\* Tick::Fetch: no batch is open.
FetchStart(c) ==
  /\ phase[c] = "act" /\ ~owed[c] /\ Goto(c, "fetch")
  /\ UNCHANGED <<git, loop, sent, commits, faults>>

\* Variant: a fetch that found nothing new for HEAD stores the tracking ref.
FetchNothingTracks(c) ==
  /\ phase[c] = "fetch" /\ NextTurn(c)
  /\ track' = [track EXCEPT ![c] = remote]
  /\ UNCHANGED <<remote, published, head, loop, sent, commits, faults>>

\* The remote has not moved, or cannot be reached.
FetchNothing(c) ==
  /\ phase[c] = "fetch" /\ NextTurn(c)
  /\ UNCHANGED <<git, loop, sent, commits, faults>>

\* receive() stores the remote's tip in the tracking ref, which has moved.
FetchTracks(c) ==
  /\ phase[c] = "fetch" /\ track[c] # remote /\ Goto(c, "track")
  /\ track' = [track EXCEPT ![c] = remote]
  /\ UNCHANGED <<remote, published, head, loop, sent, commits, faults>>

\* HEAD is forced onto the tracking ref, whatever it is.
FetchMoves(c) ==
  /\ phase[c] = "track" /\ NextTurn(c)
  /\ head' = [head EXCEPT ![c] = track[c]]
  /\ UNCHANGED <<remote, published, track, loop, sent, commits, faults>>

\* HEAD cannot be moved: the fetch fails, and the next one will find that the
\* tracking ref has not moved.
HalfFetch(c) ==
  /\ Fault /\ phase[c] = "track" /\ NextTurn(c)
  /\ UNCHANGED <<git, loop, sent, commits>>

-----------------------------------------------------------------------------
(* Unmounting and crashing. *)

\* Ctrl-C, seen at the top of a turn.
Shutdown(c) ==
  /\ Fault
  /\ IF c \in ReadOnly THEN phase[c] = "act" /\ Goto(c, "closing")
     ELSE phase[c] = "reconcile" /\ Goto(c, "flush")
  /\ UNCHANGED <<git, loop, sent, commits>>

\* flush_to_remote compares HEAD with what it knows to be pushed.
FlushStart(c) ==
  /\ phase[c] = "flush" /\ head[c] # pushed_head[c] /\ Goto(c, "flushing")
  /\ sent' = [sent EXCEPT ![c] = head[c]]
  /\ UNCHANGED <<git, loop, commits, faults>>

FlushLands(c) ==
  /\ phase[c] = "flushing" /\ Goto(c, "closing")
  /\ SetRemote(c)
  /\ UNCHANGED <<head, track, loop, sent, commits, faults>>

FlushFails(c) ==
  /\ phase[c] = "flushing" /\ Goto(c, "closing")
  /\ UNCHANGED <<git, loop, sent, commits, faults>>

FlushNothing(c) ==
  /\ phase[c] = "flush" /\ head[c] = pushed_head[c] /\ Goto(c, "closing")
  /\ UNCHANGED <<git, loop, sent, commits, faults>>

Close(c) ==
  /\ phase[c] = "closing" /\ Goto(c, "down")
  /\ UNCHANGED <<git, loop, sent, commits, faults>>

\* The references are on disk, between any two steps.
Crash(c) ==
  /\ Fault /\ Mounted(c) /\ Goto(c, "down")
  /\ UNCHANGED <<git, loop, sent, commits>>

-----------------------------------------------------------------------------
Push(c) ==
  PushStart(c) \/ PushLands(c) \/ PushCounts(c) \/ PushFails(c) \/ PushNothing(c)

Fetch(c) ==
  FetchStart(c) \/ FetchTracks(c) \/ FetchMoves(c) \/ FetchNothing(c)

Turn(c) == StartLoop(c) \/ NoticeHead(c) \/ Wait(c) \/ Push(c) \/ Fetch(c)

Unmount(c) ==
  FlushStart(c) \/ FlushLands(c) \/ FlushFails(c) \/ FlushNothing(c) \/ Close(c)

Next ==
  \E c \in Clients :
    \/ FilterCommits(c) \/ LoopCommits(c)
    \/ Clone(c) \/ Remount(c)
    \/ Turn(c) \/ HalfPush(c) \/ HalfFetch(c)
    \/ Shutdown(c) \/ Unmount(c) \/ Crash(c)

Spec == Init /\ [][Next]_vars

\* The loop never stops turning, and polls the scheduler for ever; a remote that
\* is asked again and again answers in the end.  Users, crashes and unmounts owe
\* nothing.
Fairness ==
  /\ \A c \in Clients :
       /\ WF_vars(Clone(c)) /\ WF_vars(Turn(c)) /\ WF_vars(Unmount(c))
       /\ SF_vars(FetchStart(c)) /\ SF_vars(FetchTracks(c))
  /\ \A c \in Writers :
       /\ SF_vars(PushNothing(c)) /\ SF_vars(PushStart(c))
       /\ SF_vars(PushLands(c) \/ PushCounts(c))

FairSpec == Spec /\ Fairness

-----------------------------------------------------------------------------
Commits == Seq([by : Clients \cup {None}, tree : Trees]) \ {<<>>}

Phases ==
  {"new", "down", "start", "reconcile", "act", "push", "landed", "fetch",
   "track", "flush", "flushing", "closing"}

TypeOK ==
  /\ remote \in Commits /\ published \subseteq Commits
  /\ head \in [Clients -> Commits] /\ track \in [Clients -> Commits]
  /\ phase \in [Clients -> Phases] /\ sent \in [Clients -> Commits]
  /\ last_head \in [Clients -> Commits]
  /\ pushed_head \in [Clients -> Commits]
  /\ boot \in [Clients -> Commits]
  /\ owed \in [Clients -> BOOLEAN]
  /\ commits \in [Clients -> Nat] /\ faults \in Nat

\* What the loop believes it pushed, the remote was given: pushed_head is set
\* from last_head although the push sent HEAD, which the filter's thread may
\* have moved before, and since (main.rs:307).
PushedIsPublished ==
  \A c \in Clients : Published(pushed_head[c]) \/ pushed_head[c] = boot[c]

\* The fetch forces HEAD onto the remote's tip, so it may drop commits.  It
\* drops none that the loop had noticed in this session: a fetch waits for
\* the open batch (schedule.rs, "we finish saying our piece before asking
\* what's new").
FetchKeepsNoticedWork ==
  [][ \A c \in Clients :
        ~IsPrefix(head[c], head'[c]) /\ Mounted(c) /\ last_head[c] # boot[c]
        => Published(last_head[c]) ]_vars

\* With one writer, however many read-only mounts and whatever crashes, broken
\* fetches and half-done pushes, the remote's branch only ever moves forward
\* although every push forces it (git lib.rs:449, "Fast-forward").
RemoteFastForwards == [][IsPrefix(remote, remote')]_remote

\* Every head the loop noticed is given to the remote in the end, unless the
\* mount goes down first.
NoticedIsPushed ==
  \A c \in Writers : Outstanding(c) ~> ~Outstanding(c) \/ ~Mounted(c)

\* If nothing crashes or is left half-done, then once the users stop every reader
\* ends up at the remote's commit, unless it is at a rename of its own and the
\* branch has not moved since; and so does a writer that began at a published one:
\* what was pushed since a mount's last fetch is taken over by the next.  (Half of
\* a fetch leaves a reader where it is until the branch moves again, for the
\* tracking ref has moved: git lib.rs:376-391.)
MountsFollow ==
  LET Follows(c) ==
        \/ head[c] = remote
        \/ IF c \in Writers THEN ~Published(boot[c]) ELSE Last(head[c]).by = c
  IN  [](faults = 0) => <>[](\A c \in Clients : Follows(c))

\* What the mounts do to the branch, whatever their steps are made of.
Pushing(c) == phase[c] \in {"push", "flushing"}

Branch == INSTANCE SharedBranch WITH
  branch <- remote,
  offer <- [c \in Clients |-> IF Pushing(c) THEN sent[c] ELSE head[c]],
  seen <- [c \in Clients |-> IF phase[c] = "track" THEN {track[c]} ELSE {}]

\* Of all that turns, callbacks, crashes and broken exchanges do, the branch
\* sees commits on top of a HEAD, HEADs pushed, and itself taken over.
ImplementsBranch == Branch!Spec
=============================================================================
