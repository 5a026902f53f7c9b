--------------------------- MODULE MountLoopProofs ---------------------------
(* The safety of the mount loop for every set of mounts and trees: what it    *)
(* owes the remote, what it does to the branch, and where the promises that   *)
(* MountPromises refutes do hold.                                             *)
EXTENDS MountPromises, TLAPS

Record == [by : Clients \cup {None}, tree : Trees]

LEMMA CommitsAreSequences == Commits = Seq(Record) \ {<<>>}
BY DEF Commits, Record

LEMMA PrefixReflexive ==
  ASSUME NEW s \in Commits PROVE IsPrefix(s, s)
BY CommitsAreSequences DEF IsPrefix

LEMMA PrefixTransitive ==
  ASSUME NEW s \in Commits, NEW t \in Commits, NEW u \in Commits,
         IsPrefix(s, t), IsPrefix(t, u)
  PROVE  IsPrefix(s, u)
BY CommitsAreSequences DEF IsPrefix

LEMMA PrefixAntisymmetric ==
  ASSUME NEW s \in Commits, NEW t \in Commits, IsPrefix(s, t), IsPrefix(t, s)
  PROVE  s = t
<1>1. s \in Seq(Record) /\ t \in Seq(Record) /\ Len(s) \in Nat /\ Len(t) \in Nat
  BY CommitsAreSequences
<1>2. s = SubSeq(t, 1, Len(s)) /\ Len(s) <= Len(t) /\ Len(t) <= Len(s)
  BY <1>1 DEF IsPrefix
<1> QED BY <1>1, <1>2

\* What a commit does, whichever thread makes it: it extends one mount's HEAD.
LEMMA CommitExtends ==
  ASSUME TypeOK, NEW c \in Clients, Commit(c)
  PROVE  /\ head' \in [Clients -> Commits]
         /\ IsPrefix(head[c], head'[c])
         /\ \A d \in Clients \ {c} : head'[d] = head[d]
         /\ commits' \in [Clients -> Nat] /\ commits'[c] # 0
         /\ \A d \in Clients \ {c} : commits'[d] = commits[d]
<1>1. PICK tree \in Trees :
        head' = [head EXCEPT ![c] = Append(@, [by |-> c, tree |-> tree])]
  BY DEF Commit
<1> DEFINE e == [by |-> c, tree |-> tree]
           s == head[c]
<1>2. e \in Record /\ s \in Seq(Record) /\ s # <<>>
  BY CommitsAreSequences DEF Record, TypeOK
<1> HIDE DEF s, e
<1>3. Append(s, e) \in Seq(Record) /\ Append(s, e) # <<>>
  BY <1>2
<1>4. IsPrefix(s, Append(s, e))
  BY <1>2 DEF IsPrefix
<1>5. head' = [head EXCEPT ![c] = Append(s, e)]
  BY <1>1 DEF s, e
<1>6. commits' = [commits EXCEPT ![c] = commits[c] + 1] /\ commits[c] \in Nat
  BY DEF Commit, TypeOK
<1> QED
  BY <1>3, <1>4, <1>5, <1>6, CommitsAreSequences DEF s, TypeOK

\* The same of every HEAD at once.
LEMMA HeadsGrow ==
  ASSUME TypeOK, NEW c \in Clients, Commit(c), NEW d \in Clients
  PROVE  IsPrefix(head[d], head'[d])
BY CommitExtends, PrefixReflexive DEF TypeOK

-----------------------------------------------------------------------------
LEMMA InitType == Init => TypeOK
<1> SUFFICES ASSUME Init PROVE TypeOK
  OBVIOUS
<1>1. remote \in Commits
  <2> DEFINE e == [by |-> None, tree |-> FirstTree]
  <2>1. e \in Record
    BY MountAssumption DEF Record
  <2>2. <<e>> \in Seq(Record) /\ <<e>> # <<>>
    BY <2>1
  <2> QED BY <2>2, CommitsAreSequences DEF Init
<1> QED BY <1>1 DEF Init, TypeOK, Phases

LEMMA StepType == TypeOK /\ [Next]_vars => TypeOK'
<1> SUFFICES ASSUME TypeOK, [Next]_vars PROVE TypeOK'
  OBVIOUS
<1> USE DEF TypeOK, Phases, Goto, NextTurn
<1>1. CASE UNCHANGED vars
  BY <1>1 DEF vars, git, loop
<1>2. ASSUME NEW c \in Clients, FilterCommits(c) \/ LoopCommits(c) PROVE TypeOK'
  <2>1. /\ UNCHANGED <<remote, published, track, loop, phase, sent, faults>>
        /\ head' \in [Clients -> Commits] /\ commits' \in [Clients -> Nat]
    BY <1>2, CommitExtends DEF FilterCommits, LoopCommits
  <2> QED BY <2>1 DEF loop
<1>3. ASSUME NEW c \in Clients, Clone(c) \/ Remount(c) \/ StartLoop(c)
      PROVE  TypeOK'
  <2>1. CASE Clone(c) \/ Remount(c)
    BY <2>1 DEF Clone, Remount, git, loop
  <2>2. CASE StartLoop(c)
    BY <2>2 DEF StartLoop, git
  <2> QED BY <1>3, <2>1, <2>2
<1>4. ASSUME NEW c \in Clients, NoticeHead(c) \/ Wait(c) PROVE TypeOK'
  BY <1>4 DEF NoticeHead, Wait, git, loop
<1>5. ASSUME NEW c \in Clients,
             PushStart(c) \/ PushLands(c) \/ PushCounts(c) \/ PushNothing(c)
      PROVE  TypeOK'
  BY <1>5
  DEF PushStart, PushLands, PushCounts, PushNothing, SetRemote, git, loop
<1>6. ASSUME NEW c \in Clients, PushFails(c) \/ HalfPush(c) \/ HalfFetch(c)
      PROVE  TypeOK'
  BY <1>6 DEF PushFails, HalfPush, HalfFetch, Fault, git, loop
<1>7. ASSUME NEW c \in Clients, Fetch(c) PROVE TypeOK'
  BY <1>7
  DEF Fetch, FetchStart, FetchTracks, FetchMoves, FetchNothing, git, loop
<1>8. ASSUME NEW c \in Clients, Unmount(c) PROVE TypeOK'
  BY <1>8
  DEF Unmount, FlushStart, FlushLands, FlushFails, FlushNothing, Close,
      SetRemote, git, loop
<1>9. ASSUME NEW c \in Clients, Shutdown(c) \/ Crash(c) PROVE TypeOK'
  BY <1>9 DEF Shutdown, Crash, Fault, git, loop
<1> QED
  BY <1>1, <1>2, <1>3, <1>4, <1>5, <1>6, <1>7, <1>8, <1>9
  DEF Next, Turn, Push

\* Every variable keeps its type.
THEOREM TypeCorrect == Spec => []TypeOK
BY InitType, StepType, PTL DEF Spec

-----------------------------------------------------------------------------
(* What the loop knows of the remote.  HEAD may run ahead of last_head while *)
(* the loop acts, for the filter's thread commits too; but it only extends   *)
(* it, so a push of HEAD is a push of last_head as well.  A batch is closed  *)
(* while the loop fetches, and a read-only mount never opens one.            *)
Batch(c) ==
  /\ Outstanding(c) => owed[c]
  /\ phase[c] \in {"fetch", "track"} => ~owed[c]
  /\ c \in ReadOnly =>
       ~owed[c] /\ phase[c] \notin {"reconcile", "push", "landed", "flush", "flushing"}
  /\ c \in Writers /\ phase[c] = "act" => IsPrefix(last_head[c], head[c])
  /\ phase[c] \in {"push", "landed"} => IsPrefix(last_head[c], sent[c])
  /\ phase[c] = "landed" => sent[c] \in published
  /\ track[c] \in published
  /\ Published(pushed_head[c]) \/ pushed_head[c] = boot[c]

PushInv == remote \in published /\ \A c \in Clients : Batch(c)

LEMMA InitPushInv == Init => PushInv
<1> SUFFICES ASSUME Init PROVE PushInv
  OBVIOUS
<1>1. remote \in Commits /\ published = {remote}
  BY InitType DEF Init, TypeOK
<1> QED
  BY <1>1, PrefixReflexive DEF Init, PushInv, Batch, Published, Outstanding

\* What one mount knows stays true while another takes a step.
LEMMA OthersKeepBatch ==
  ASSUME PushInv, NEW c \in Clients, published \subseteq published',
         remote' \in published',
         \A d \in Clients \ {c} :
           UNCHANGED <<head[d], track[d], phase[d], sent[d], last_head[d],
                       pushed_head[d], boot[d], owed[d]>>,
         Batch(c)'
  PROVE  PushInv'
BY DEF PushInv, Batch, Published, Outstanding

LEMMA StepPushInv == TypeOK /\ PushInv /\ [Next]_vars => PushInv'
<1> SUFFICES ASSUME TypeOK, PushInv, [Next]_vars PROVE PushInv'
  OBVIOUS
<1>0. TypeOK' /\ remote \in published /\ \A c \in Clients : Batch(c)
  BY StepType DEF PushInv
<1>1. CASE UNCHANGED vars
  BY <1>1 DEF vars, git, loop, PushInv, Batch, Published, Outstanding
<1>2. ASSUME NEW c \in Clients, FilterCommits(c) \/ LoopCommits(c)
      PROVE  PushInv'
  <2>1. /\ UNCHANGED <<remote, published, track, loop, phase, sent>>
        /\ \A d \in Clients \ {c} : head'[d] = head[d]
        /\ IsPrefix(head[c], head'[c]) /\ head'[c] \in Commits
    BY <1>2, CommitExtends DEF FilterCommits, LoopCommits
  <2>2. IsPrefix(last_head[c], head[c]) => IsPrefix(last_head[c], head'[c])
    BY <2>1, PrefixTransitive DEF TypeOK
  <2>3. Batch(c)'
    BY <1>0, <2>1, <2>2 DEF Batch, Published, Outstanding, loop
  <2> QED BY <1>0, <2>1, <2>3, OthersKeepBatch DEF loop
<1>3. ASSUME NEW c \in Clients, Clone(c) \/ Remount(c) PROVE PushInv'
  <2>1. Batch(c)'
    BY <1>0, <1>3
    DEF Clone, Remount, Goto, git, loop, Batch, Published, Outstanding, TypeOK
  <2> QED
    BY <1>0, <1>3, <2>1, OthersKeepBatch
    DEF Clone, Remount, Goto, git, loop, TypeOK
<1>4. ASSUME NEW c \in Clients, StartLoop(c) PROVE PushInv'
  <2>1. /\ UNCHANGED <<git, sent>> /\ phase'[c] \in {"act", "reconcile"}
        /\ c \in ReadOnly => phase'[c] # "reconcile"
        /\ last_head'[c] = head[c] /\ pushed_head'[c] = head[c]
        /\ boot'[c] = head[c] /\ owed'[c] = FALSE
    BY <1>4 DEF StartLoop, NextTurn, Goto, TypeOK
  <2>2. IsPrefix(head[c], head[c])
    BY PrefixReflexive DEF TypeOK
  <2>3. Batch(c)'
    BY <1>0, <2>1, <2>2 DEF Batch, Published, Outstanding, git
  <2> QED
    BY <1>0, <1>4, <2>3, OthersKeepBatch
    DEF StartLoop, NextTurn, Goto, git, TypeOK
<1>5. ASSUME NEW c \in Clients, NoticeHead(c) PROVE PushInv'
  <2>1. /\ UNCHANGED <<git, sent, pushed_head, boot>>
        /\ phase[c] = "reconcile" /\ phase'[c] = "act"
        /\ last_head'[c] = head[c]
        /\ owed'[c] = (owed[c] \/ head[c] # last_head[c])
    BY <1>5 DEF NoticeHead, Goto, TypeOK
  <2>2. IsPrefix(head[c], head[c])
    BY PrefixReflexive DEF TypeOK
  <2>3. Batch(c)'
    BY <1>0, <2>1, <2>2 DEF Batch, Published, Outstanding, git
  <2> QED
    BY <1>0, <1>5, <2>3, OthersKeepBatch DEF NoticeHead, Goto, git, TypeOK
<1>6. ASSUME NEW c \in Clients,
             \/ Wait(c) \/ PushFails(c) \/ HalfPush(c)
             \/ FetchNothing(c) \/ HalfFetch(c)
      PROVE  PushInv'
  <2>1. UNCHANGED <<git, loop, sent>> /\ NextTurn(c)
        /\ phase[c] \in {"act", "push", "landed", "fetch", "track"}
    BY <1>6 DEF Wait, PushFails, HalfPush, FetchNothing, HalfFetch
  <2>2. /\ phase'[c] = IF c \in ReadOnly THEN "act" ELSE "reconcile"
        /\ \A d \in Clients \ {c} : phase'[d] = phase[d]
    BY <2>1 DEF NextTurn, Goto, TypeOK
  <2>3. Batch(c)'
    BY <1>0, <2>1, <2>2 DEF Batch, Published, Outstanding, git, loop, Writers
  <2> QED BY <1>0, <2>1, <2>2, <2>3, OthersKeepBatch DEF git, loop
<1>7. ASSUME NEW c \in Clients, PushNothing(c) PROVE PushInv'
  <2>1. /\ UNCHANGED <<git, last_head, pushed_head, boot, sent>>
        /\ owed[c] /\ ~Outstanding(c) /\ owed'[c] = FALSE
        /\ phase'[c] = IF c \in ReadOnly THEN "act" ELSE "reconcile"
    BY <1>7 DEF PushNothing, NextTurn, Goto, TypeOK
  <2>2. Batch(c)'
    BY <1>0, <2>1 DEF Batch, Published, Outstanding, git
  <2> QED
    BY <1>0, <1>7, <2>2, OthersKeepBatch
    DEF PushNothing, NextTurn, Goto, git, TypeOK
<1>8. ASSUME NEW c \in Clients, PushStart(c) PROVE PushInv'
  <2>1. /\ UNCHANGED <<git, loop>> /\ sent'[c] = head[c]
        /\ phase[c] = "act" /\ owed[c] /\ phase'[c] = "push"
    BY <1>8 DEF PushStart, Goto, TypeOK
  <2>2. Batch(c)'
    BY <1>0, <2>1 DEF Batch, Published, Outstanding, Writers, git, loop
  <2> QED
    BY <1>0, <1>8, <2>2, OthersKeepBatch DEF PushStart, Goto, git, loop, TypeOK
<1>9. ASSUME NEW c \in Clients, PushLands(c) PROVE PushInv'
  <2>1. /\ UNCHANGED <<head, track, loop, sent>>
        /\ phase[c] = "push" /\ phase'[c] = "landed"
        /\ remote' = sent[c] /\ published' = published \cup {sent[c]}
    BY <1>9 DEF PushLands, SetRemote, Goto, TypeOK
  <2>2. Batch(c)'
    BY <1>0, <2>1 DEF Batch, Published, Outstanding, loop
  <2> QED
    BY <1>9, <2>1, <2>2, OthersKeepBatch DEF PushLands, Goto, loop, TypeOK
<1>10. ASSUME NEW c \in Clients, PushCounts(c) PROVE PushInv'
  <2>1. /\ UNCHANGED <<git, last_head, boot, sent>>
        /\ pushed_head'[c] = last_head[c] /\ owed'[c] = FALSE
        /\ phase[c] \in {"push", "landed"}
        /\ phase'[c] = IF c \in ReadOnly THEN "act" ELSE "reconcile"
    BY <1>10 DEF PushCounts, NextTurn, Goto, TypeOK
  <2>2. sent[c] \in published /\ IsPrefix(last_head[c], sent[c])
    BY <1>0, <1>10 DEF PushCounts, Batch
  <2>3. Batch(c)'
    BY <1>0, <2>1, <2>2 DEF Batch, Published, Outstanding, Writers, git
  <2> QED
    BY <1>0, <1>10, <2>3, OthersKeepBatch
    DEF PushCounts, NextTurn, Goto, git, TypeOK
<1>11. ASSUME NEW c \in Clients, FetchStart(c) PROVE PushInv'
  <2>1. UNCHANGED <<git, loop, sent>> /\ ~owed[c] /\ phase'[c] = "fetch"
    BY <1>11 DEF FetchStart, Goto, TypeOK
  <2>2. Batch(c)'
    BY <1>0, <2>1 DEF Batch, Published, Outstanding, git, loop
  <2> QED
    BY <1>0, <1>11, <2>2, OthersKeepBatch
    DEF FetchStart, Goto, git, loop, TypeOK
<1>12. ASSUME NEW c \in Clients, FetchTracks(c) PROVE PushInv'
  <2>1. /\ UNCHANGED <<remote, published, head, loop, sent>>
        /\ phase[c] = "fetch" /\ phase'[c] = "track" /\ track'[c] = remote
    BY <1>12 DEF FetchTracks, Goto, TypeOK
  <2>2. Batch(c)'
    BY <1>0, <2>1 DEF Batch, Published, Outstanding, loop
  <2> QED
    BY <1>0, <1>12, <2>2, OthersKeepBatch DEF FetchTracks, Goto, loop, TypeOK
<1>13. ASSUME NEW c \in Clients, FetchMoves(c) PROVE PushInv'
  <2>1. /\ UNCHANGED <<remote, published, track, loop, sent>>
        /\ phase[c] = "track"
        /\ phase'[c] = IF c \in ReadOnly THEN "act" ELSE "reconcile"
    BY <1>13 DEF FetchMoves, NextTurn, Goto, TypeOK
  <2>2. Batch(c)'
    BY <1>0, <2>1 DEF Batch, Published, Outstanding, Writers, loop
  <2> QED
    BY <1>0, <1>13, <2>2, OthersKeepBatch
    DEF FetchMoves, NextTurn, Goto, loop, TypeOK
<1>14. ASSUME NEW c \in Clients, Shutdown(c) \/ Unmount(c) \/ Crash(c)
       PROVE  PushInv'
  <2>1. /\ UNCHANGED <<head, track, loop>>
        /\ \A d \in Clients \ {c} : UNCHANGED <<phase[d], sent[d]>>
        /\ phase'[c] \in {"flush", "flushing", "closing", "down"}
        /\ c \in ReadOnly => phase'[c] \notin {"flush", "flushing"}
    BY <1>0, <1>14
    DEF Shutdown, Unmount, FlushStart, FlushLands, FlushFails, FlushNothing,
        Close, Crash, Goto, git, Batch, TypeOK
  <2>2. remote' \in published' /\ published \subseteq published'
    BY <1>0, <1>14
    DEF Shutdown, Unmount, FlushStart, FlushLands, FlushFails, FlushNothing,
        Close, Crash, SetRemote, git
  <2>3. Batch(c)'
    BY <1>0, <2>1, <2>2 DEF Batch, Published, Outstanding, loop
  <2> QED BY <2>1, <2>2, <2>3, OthersKeepBatch DEF loop
<1> QED
  BY <1>1, <1>2, <1>3, <1>4, <1>5, <1>6, <1>7, <1>8, <1>9, <1>10, <1>11,
     <1>12, <1>13, <1>14
  DEF Next, Turn, Push, Fetch

LEMMA SpecPushInv == Spec => [](TypeOK /\ PushInv)
<1>1. Init => TypeOK /\ PushInv
  BY InitType, InitPushInv
<1>2. TypeOK /\ PushInv /\ [Next]_vars => (TypeOK /\ PushInv)'
  BY StepType, StepPushInv
<1> QED BY <1>1, <1>2, PTL DEF Spec

\* A head that was noticed and not pushed keeps the batch open.
Accounted ==
  \A c \in Clients :
    Outstanding(c) => owed[c] /\ phase[c] \notin {"fetch", "track"}

\* The loop never forgets what it owes the remote, whatever fails or is left
\* half-done, and no fetch runs over it (main.rs:302).
THEOREM NoticedIsAccounted == Spec => []Accounted
<1>1. PushInv => Accounted
  BY DEF PushInv, Batch, Accounted
<1> QED BY <1>1, SpecPushInv, PTL

\* What the loop counts as pushed, the remote was given.
THEOREM PushedWasPublished == Spec => []PushedIsPublished
<1>1. PushInv => PushedIsPublished
  BY DEF PushInv, Batch, PushedIsPublished
<1> QED BY <1>1, SpecPushInv, PTL

-----------------------------------------------------------------------------
(* Which steps move HEAD other than forward. *)

LEMMA HeadMoves ==
  ASSUME TypeOK, Next, NEW d \in Clients, ~IsPrefix(head[d], head'[d])
  PROVE  phase[d] \in {"new", "track"}
<1>1. PICK c \in Clients :
        \/ FilterCommits(c) \/ LoopCommits(c)
        \/ Clone(c) \/ Remount(c)
        \/ Turn(c) \/ HalfPush(c) \/ HalfFetch(c)
        \/ Shutdown(c) \/ Unmount(c) \/ Crash(c)
  BY DEF Next
<1>2. head'[d] # head[d]
  BY PrefixReflexive DEF TypeOK
<1>3. ~Commit(c)
  BY HeadsGrow
<1>4. Clone(c) \/ FetchMoves(c)
  BY <1>1, <1>2, <1>3
  DEF FilterCommits, LoopCommits, Remount, Turn, StartLoop, NoticeHead, Wait,
      Push, PushStart, PushLands, PushCounts, PushFails, PushNothing, HalfPush,
      Fetch, FetchStart, FetchTracks, FetchNothing, HalfFetch, Shutdown,
      Unmount, FlushStart, FlushLands, FlushFails, FlushNothing, Close, Crash,
      git
<1> QED BY <1>2, <1>4 DEF Clone, FetchMoves, TypeOK

\* A fetch, wherever it is cut, drops no commit the loop had noticed in this
\* session: it waits for the open batch (schedule.rs, poll).
THEOREM FetchesKeepNoticedWork == Spec => FetchKeepsNoticedWork
<1> DEFINE Kept ==
      \A c \in Clients :
        ~IsPrefix(head[c], head'[c]) /\ Mounted(c) /\ last_head[c] # boot[c]
        => Published(last_head[c])
<1>1. TypeOK /\ PushInv /\ [Next]_vars => [Kept]_vars
  <2> SUFFICES ASSUME TypeOK, PushInv, Next, NEW c \in Clients,
                      ~IsPrefix(head[c], head'[c]), Mounted(c),
                      last_head[c] # boot[c]
               PROVE  Published(last_head[c])
    OBVIOUS
  <2>1. phase[c] = "track"
    BY HeadMoves DEF Mounted
  <2>2. last_head[c] = pushed_head[c]
    BY <2>1 DEF PushInv, Batch, Outstanding
  <2> QED BY <2>2 DEF PushInv, Batch
<1> QED BY <1>1, SpecPushInv, PTL DEF Spec, FetchKeepsNoticedWork

-----------------------------------------------------------------------------
(* The branch the mounts share. *)

Offered == [c \in Clients |-> IF Pushing(c) THEN sent[c] ELSE head[c]]
Seen == [c \in Clients |-> IF phase[c] = "track" THEN {track[c]} ELSE {}]

BranchProofs ==
  INSTANCE SharedBranchProofs
  WITH branch <- remote, offer <- Offered, seen <- Seen

\* Outside a push, the HEAD that would go out is HEAD itself.
LEMMA OfferedFacts ==
  ASSUME TypeOK, TypeOK', NEW c \in Clients,
         \A d \in Clients \ {c} :
           UNCHANGED <<head[d], track[d], phase[d], sent[d]>>
  PROVE  /\ Offered' = [Offered EXCEPT ![c] = Offered'[c]]
         /\ Seen' = [Seen EXCEPT ![c] = Seen'[c]]
         /\ head' = [head EXCEPT ![c] = head'[c]]
         /\ Offered[c] = IF phase[c] \in {"push", "flushing"} THEN sent[c]
                         ELSE head[c]
         /\ Offered'[c] = IF phase'[c] \in {"push", "flushing"} THEN sent'[c]
                          ELSE head'[c]
         /\ Seen[c] = IF phase[c] = "track" THEN {track[c]} ELSE {}
         /\ Seen'[c] = IF phase'[c] = "track" THEN {track'[c]} ELSE {}
BY DEF Offered, Seen, Pushing, TypeOK

LEMMA SameMapping ==
  /\ Offered = [c \in Clients |-> IF Pushing(c) THEN sent[c] ELSE head[c]]
  /\ Seen = [c \in Clients |-> IF phase[c] = "track" THEN {track[c]} ELSE {}]
BY DEF Offered, Seen

\* A step of one mount, as far as the branch goes.
LEMMA OneMountSteps ==
  ASSUME TypeOK, PushInv, NEW c \in Clients,
         \/ FilterCommits(c) \/ LoopCommits(c) \/ Clone(c) \/ Remount(c)
         \/ Turn(c) \/ HalfPush(c) \/ HalfFetch(c) \/ Shutdown(c)
         \/ Unmount(c) \/ Crash(c)
  PROVE  /\ \A d \in Clients \ {c} :
              UNCHANGED <<head[d], track[d], phase[d], sent[d]>>
         /\ \/ Commit(c) /\ UNCHANGED <<remote, published, track, phase, sent>>
            \/ UNCHANGED git /\ phase'[c] \notin {"push", "flushing", "track"}
            \/ /\ UNCHANGED git /\ sent'[c] = head[c]
               /\ phase[c] \in {"act", "flush"} /\ phase'[c] \in {"push", "flushing"}
            \/ /\ phase[c] \in {"push", "flushing"} /\ c \in Writers
               /\ phase'[c] \in {"landed", "closing"}
               /\ SetRemote(c) /\ UNCHANGED <<head, track, sent>>
            \/ /\ phase[c] = "fetch" /\ phase'[c] = "track"
               /\ track'[c] = remote /\ UNCHANGED <<remote, published, head>>
            \/ /\ phase[c] \in {"new", "track"}
               /\ phase'[c] \in {"start", "act", "reconcile"}
               /\ head'[c] = IF phase[c] = "new" THEN remote ELSE track[c]
               /\ UNCHANGED <<remote, published>>
<1>1. CASE FilterCommits(c) \/ LoopCommits(c)
  BY <1>1, CommitExtends DEF FilterCommits, LoopCommits
<1>2. CASE Clone(c) \/ FetchMoves(c)
  BY <1>2 DEF Clone, FetchMoves, NextTurn, Goto, TypeOK
<1>3. CASE PushLands(c) \/ FlushLands(c)
  <2>1. c \in Writers
    BY <1>3 DEF PushLands, FlushLands, PushInv, Batch, Writers
  <2> QED BY <1>3, <2>1 DEF PushLands, FlushLands, Goto, TypeOK
<1>4. CASE FetchTracks(c)
  BY <1>4 DEF FetchTracks, Goto, TypeOK
<1>5. CASE PushStart(c) \/ FlushStart(c)
  BY <1>5 DEF PushStart, FlushStart, Goto, git, TypeOK
<1>6. CASE \/ Remount(c) \/ StartLoop(c) \/ NoticeHead(c) \/ Wait(c)
           \/ PushCounts(c) \/ PushFails(c) \/ PushNothing(c)
           \/ HalfPush(c) \/ FetchStart(c) \/ FetchNothing(c) \/ HalfFetch(c)
           \/ Shutdown(c) \/ FlushFails(c) \/ FlushNothing(c)
           \/ Close(c) \/ Crash(c)
  <2>1. /\ UNCHANGED git /\ phase'[c] \notin {"push", "flushing", "track"}
        /\ \A d \in Clients \ {c} : UNCHANGED <<phase[d], sent[d]>>
    BY <1>6
    DEF Remount, StartLoop, NoticeHead, Wait, PushCounts, PushFails,
        PushNothing, HalfPush, FetchStart, FetchNothing, HalfFetch, Shutdown,
        FlushFails, FlushNothing, Close, Crash, NextTurn, Goto, TypeOK
  <2> QED BY <2>1 DEF git
<1> QED
  BY <1>1, <1>2, <1>3, <1>4, <1>5, <1>6 DEF Turn, Push, Fetch, Unmount

LEMMA BranchStep ==
  TypeOK /\ PushInv /\ [Next]_vars => [BranchProofs!Next]_(BranchProofs!vars)
<1> SUFFICES ASSUME TypeOK, PushInv, [Next]_vars
             PROVE  BranchProofs!Next \/ UNCHANGED BranchProofs!vars
  OBVIOUS
<1>0. TypeOK'
  BY StepType
<1>1. CASE UNCHANGED vars
  BY <1>1 DEF vars, git, Offered, Seen, Pushing, BranchProofs!vars
<1>2. CASE Next
  <2>1. PICK c \in Clients :
          \/ FilterCommits(c) \/ LoopCommits(c)
          \/ Clone(c) \/ Remount(c)
          \/ Turn(c) \/ HalfPush(c) \/ HalfFetch(c)
          \/ Shutdown(c) \/ Unmount(c) \/ Crash(c)
    BY <1>2 DEF Next
  <2>2. /\ Offered' = [Offered EXCEPT ![c] = Offered'[c]]
        /\ Seen' = [Seen EXCEPT ![c] = Seen'[c]]
        /\ head' = [head EXCEPT ![c] = head'[c]]
        /\ Offered[c] = IF phase[c] \in {"push", "flushing"} THEN sent[c]
                        ELSE head[c]
        /\ Offered'[c] = IF phase'[c] \in {"push", "flushing"} THEN sent'[c]
                         ELSE head'[c]
        /\ Seen[c] = IF phase[c] = "track" THEN {track[c]} ELSE {}
        /\ Seen'[c] = IF phase'[c] = "track" THEN {track'[c]} ELSE {}
    BY <1>0, <2>1, OneMountSteps, OfferedFacts
  <2>3. Offered = [Offered EXCEPT ![c] = Offered[c]]
        /\ Seen = [Seen EXCEPT ![c] = Seen[c]]
    BY DEF Offered, Seen
  <2>4. CASE Commit(c) /\ UNCHANGED <<remote, published, track, phase, sent>>
    <3>1. /\ Seen' = Seen
          /\ Offered' = Offered \/ Offered' = [Offered EXCEPT ![c] = head'[c]]
      BY <2>2, <2>3, <2>4
    <3> QED BY <2>4, <3>1 DEF Commit, BranchProofs!Commit, BranchProofs!Next
  <2>5. CASE UNCHANGED git /\ phase'[c] \notin {"push", "flushing", "track"}
    <3>1. /\ Offered' = [Offered EXCEPT ![c] = head[c]]
          /\ Seen' = [Seen EXCEPT ![c] = {}]
      BY <2>2, <2>5 DEF git
    <3> QED BY <2>5, <3>1 DEF git, BranchProofs!SetOut, BranchProofs!Next
  <2>6. CASE /\ UNCHANGED git /\ sent'[c] = head[c]
             /\ phase[c] \in {"act", "flush"}
             /\ phase'[c] \in {"push", "flushing"}
    <3>1. Offered' = Offered /\ Seen' = Seen
      BY <2>2, <2>3, <2>6
    <3> QED BY <2>6, <3>1 DEF git, BranchProofs!vars
  <2>7. CASE /\ phase[c] \in {"push", "flushing"} /\ c \in Writers
             /\ phase'[c] \in {"landed", "closing"}
             /\ SetRemote(c) /\ UNCHANGED <<head, track, sent>>
    <3>1. /\ Offered' = [Offered EXCEPT ![c] = head[c]]
          /\ Seen' = [Seen EXCEPT ![c] = {}]
          /\ remote' = Offered[c] /\ published' = published \cup {Offered[c]}
      BY <2>2, <2>7 DEF SetRemote
    <3> QED BY <2>7, <3>1 DEF BranchProofs!Publish, BranchProofs!Next
  <2>8. CASE /\ phase[c] = "fetch" /\ phase'[c] = "track"
             /\ track'[c] = remote /\ UNCHANGED <<remote, published, head>>
    <3>1. Offered' = Offered /\ Seen' = [Seen EXCEPT ![c] = {remote}]
      BY <2>2, <2>3, <2>8
    <3> QED BY <2>8, <3>1 DEF BranchProofs!Look, BranchProofs!Next
  <2>9. CASE /\ phase[c] \in {"new", "track"}
             /\ phase'[c] \in {"start", "act", "reconcile"}
             /\ head'[c] = IF phase[c] = "new" THEN remote ELSE track[c]
             /\ UNCHANGED <<remote, published>>
    <3>1. /\ Offered' = [Offered EXCEPT ![c] = head'[c]]
          /\ Seen' = [Seen EXCEPT ![c] = {}]
          /\ head'[c] \in Seen[c] \cup {remote}
      BY <2>2, <2>9
    <3> QED BY <2>2, <2>9, <3>1 DEF BranchProofs!Adopt, BranchProofs!Next
  <2> QED BY <2>1, <2>4, <2>5, <2>6, <2>7, <2>8, <2>9, OneMountSteps
<1> QED BY <1>1, <1>2

LEMMA MountsShareProvedBranch == Spec => BranchProofs!Spec
<1>1. Init => BranchProofs!Init
  <2> SUFFICES ASSUME Init PROVE BranchProofs!Init
    OBVIOUS
  <2>1. TypeOK
    BY InitType
  <2>2. /\ Offered = head /\ Seen = [c \in Clients |-> {}]
        /\ head = [c \in Clients |-> remote]
    BY <2>1 DEF Init, Offered, Seen, Pushing
  <2> QED
    BY <2>1, <2>2
    DEF Init, TypeOK, Commits, BranchProofs!Init, BranchProofs!Commits,
        BranchProofs!Record
<1>2. TypeOK /\ PushInv /\ [Next]_vars => [BranchProofs!Next]_(BranchProofs!vars)
  BY BranchStep
<1> QED BY <1>1, <1>2, SpecPushInv, PTL DEF Spec, BranchProofs!Spec

\* Clones, commits, pushes, fetches, callbacks, crashes and exchanges that are
\* cut share the branch as SharedBranch has it.
THEOREM MountsShareBranch == Spec => ImplementsBranch
<1>1. BranchProofs!Init => Branch!Init
  BY DEF Branch!Init, Branch!Commits, Branch!Record, BranchProofs!Init,
         BranchProofs!Commits, BranchProofs!Record, Offered, Seen
<1>2. [BranchProofs!Next]_(BranchProofs!vars) => [Branch!Next]_(Branch!vars)
  BY DEF Branch!Next, Branch!Commit, Branch!SetOut, Branch!Publish, Branch!Look,
         Branch!Adopt, Branch!vars, BranchProofs!Next, BranchProofs!Commit,
         BranchProofs!SetOut, BranchProofs!Publish, BranchProofs!Look,
         BranchProofs!Adopt, BranchProofs!vars, Offered, Seen
<1> QED
  BY <1>1, <1>2, MountsShareProvedBranch, PTL
  DEF ImplementsBranch, Branch!Spec, BranchProofs!Spec

\* Nobody mounts, or pushes, what another mount has not published: below a
\* HEAD's own commits there is one the remote's branch has pointed at.
THEOREM MountsHoldOwnWork == Spec => []Branch!HeadsAreOwnWork
<1>1. BranchProofs!HeadsAreOwnWork => Branch!HeadsAreOwnWork
  BY DEF Branch!HeadsAreOwnWork, Branch!OwnWork, Branch!IsPrefix,
         BranchProofs!HeadsAreOwnWork, BranchProofs!OwnWork, BranchProofs!IsPrefix
<1> QED
  BY <1>1, MountsShareProvedBranch, BranchProofs!NobodyHoldsUnpublished, PTL

\* With a single writer the remote's branch only moves forward, although every
\* push forces it, whatever the writer fetches and wherever it crashes.
THEOREM SoleWriterFastForwards ==
  ASSUME Branch!SoleWriter PROVE Spec => RemoteFastForwards
<1>1. BranchProofs!SoleWriter
  BY DEF Branch!SoleWriter, BranchProofs!SoleWriter
<1>2. [BranchProofs!IsPrefix(remote, remote')]_remote
        => [IsPrefix(remote, remote')]_remote
  BY DEF IsPrefix, BranchProofs!IsPrefix
<1> QED
  BY <1>1, <1>2, MountsShareProvedBranch, BranchProofs!SoleWriterMovesForward, PTL
  DEF RemoteFastForwards, BranchProofs!FastForwards

-----------------------------------------------------------------------------
(* Where the promises that MountPromises refutes do hold. *)

\* On a mount whose user renames nothing, only the loop moves HEAD, and between
\* two reconciles it does not: what a turn noticed and HEAD are one commit.
Quiet(c) ==
  /\ c \in ReadOnly => head[c] \in published
  /\ c \in Writers /\ phase[c] \in {"act", "fetch", "track"}
       => head[c] = last_head[c]

QuietInv == \A c \in Clients \ Renamers : Quiet(c)

LEMMA StepQuietInv == TypeOK /\ PushInv /\ QuietInv /\ [Next]_vars => QuietInv'
<1> SUFFICES ASSUME TypeOK, PushInv, QuietInv, [Next]_vars,
                    NEW d \in Clients \ Renamers
             PROVE  Quiet(d)'
  BY DEF QuietInv
<1>0. remote \in published /\ Batch(d) /\ Quiet(d)
  BY DEF PushInv, QuietInv
<1>1. CASE UNCHANGED vars
  BY <1>0, <1>1 DEF vars, git, loop, Quiet
<1>2. ASSUME NEW c \in Clients, FilterCommits(c) \/ LoopCommits(c)
      PROVE  Quiet(d)'
  <2>1. UNCHANGED <<published, phase, last_head>>
    BY <1>2 DEF FilterCommits, LoopCommits, loop
  <2>2. CASE c # d
    <3>1. head'[d] = head[d]
      BY <1>2, <2>2, CommitExtends DEF FilterCommits, LoopCommits
    <3> QED BY <1>0, <2>1, <3>1 DEF Quiet
  <2>3. CASE c = d
    <3>1. phase[d] \in {"reconcile", "flush"}
      BY <1>2, <2>3 DEF FilterCommits, LoopCommits
    <3>2. d \notin ReadOnly
      BY <1>0, <3>1 DEF Batch
    <3> QED BY <2>1, <3>1, <3>2 DEF Quiet
  <2> QED BY <2>2, <2>3
<1>3. ASSUME NEW c \in Clients, Clone(c) \/ Remount(c) PROVE Quiet(d)'
  BY <1>0, <1>3 DEF Clone, Remount, Goto, git, loop, Quiet, TypeOK
<1>4. ASSUME NEW c \in Clients, StartLoop(c) \/ NoticeHead(c) PROVE Quiet(d)'
  <2>1. CASE c = d
    <3>1. UNCHANGED git /\ last_head'[d] = head[d]
      BY <1>4, <2>1 DEF StartLoop, NoticeHead, TypeOK
    <3> QED BY <1>0, <3>1 DEF git, Quiet
  <2>2. CASE c # d
    BY <1>0, <1>4, <2>2
    DEF StartLoop, NoticeHead, NextTurn, Goto, git, Quiet, TypeOK
  <2> QED BY <2>1, <2>2
<1>5. ASSUME NEW c \in Clients,
             \/ Wait(c) \/ PushFails(c) \/ HalfPush(c)
             \/ FetchNothing(c) \/ HalfFetch(c) \/ PushNothing(c) \/ PushCounts(c)
      PROVE  Quiet(d)'
  <2>1. UNCHANGED <<git, last_head>> /\ NextTurn(c)
    BY <1>5
    DEF Wait, PushFails, HalfPush, FetchNothing, HalfFetch, PushNothing,
        PushCounts, loop
  <2>2. phase'[d] = phase[d] \/ (d \in Writers => phase'[d] = "reconcile")
    BY <2>1 DEF NextTurn, Goto, Writers, TypeOK
  <2> QED BY <1>0, <2>1, <2>2 DEF git, Quiet
<1>6. ASSUME NEW c \in Clients,
             PushStart(c) \/ PushLands(c) \/ FetchStart(c) \/ FetchTracks(c)
      PROVE  Quiet(d)'
  <2>1. UNCHANGED <<head, last_head>> /\ published \subseteq published'
    BY <1>6
    DEF PushStart, PushLands, SetRemote, FetchStart, FetchTracks, git, loop
  <2>2. \/ phase'[d] = phase[d] \/ phase'[d] \in {"push", "landed"}
        \/ phase[d] \in {"act", "fetch"}
    BY <1>6 DEF PushStart, PushLands, FetchStart, FetchTracks, Goto, TypeOK
  <2> QED BY <1>0, <2>1, <2>2 DEF Quiet
<1>7. ASSUME NEW c \in Clients, FetchMoves(c) PROVE Quiet(d)'
  <2>1. /\ UNCHANGED <<published, last_head>>
        /\ head'[d] \in {head[d], track[d]}
    BY <1>7 DEF FetchMoves, loop, TypeOK
  <2>2. CASE c = d
    <3>1. d \in Writers => phase'[d] = "reconcile"
      BY <1>7, <2>2 DEF FetchMoves, NextTurn, Goto, Writers, TypeOK
    <3> QED BY <1>0, <2>1, <3>1 DEF Batch, Quiet
  <2>3. CASE c # d
    BY <1>0, <1>7, <2>1, <2>3 DEF FetchMoves, NextTurn, Goto, Quiet, TypeOK
  <2> QED BY <2>2, <2>3
<1>8. ASSUME NEW c \in Clients, Shutdown(c) \/ Unmount(c) \/ Crash(c)
      PROVE  Quiet(d)'
  <2>1. UNCHANGED <<head, last_head>> /\ published \subseteq published'
    BY <1>8
    DEF Shutdown, Unmount, FlushStart, FlushLands, FlushFails, FlushNothing,
        Close, Crash, SetRemote, git, loop
  <2>2. \/ phase'[d] = phase[d]
        \/ phase'[d] \in {"flush", "flushing", "closing", "down"}
    BY <1>8
    DEF Shutdown, Unmount, FlushStart, FlushLands, FlushFails, FlushNothing,
        Close, Crash, Goto, TypeOK
  <2> QED BY <1>0, <2>1, <2>2 DEF Quiet
<1> QED
  BY <1>1, <1>2, <1>3, <1>4, <1>5, <1>6, <1>7, <1>8 DEF Next, Turn, Push, Fetch

LEMMA SpecQuietInv == Spec => [](TypeOK /\ PushInv /\ QuietInv)
<1>1. Init => QuietInv
  BY DEF Init, QuietInv, Quiet
<1>2. TypeOK /\ PushInv /\ QuietInv /\ [Next]_vars => QuietInv'
  BY StepQuietInv
<1> QED BY <1>1, <1>2, SpecPushInv, PTL DEF Spec

\* A mount that started from what was published, and whose user renames nothing,
\* drops no commit of its own that the remote was not given: a fetch waits for
\* the open batch, and the batch is all there is.
THEOREM SessionsKeepCommits == Spec => SessionKeepsCommits
<1> DEFINE Kept ==
      \A c \in Clients \ Renamers :
        ~IsPrefix(head[c], head'[c]) /\ Mounted(c) /\ Published(boot[c])
        => Published(head[c])
<1>1. TypeOK /\ PushInv /\ QuietInv /\ [Next]_vars => [Kept]_vars
  <2> SUFFICES ASSUME TypeOK, PushInv, QuietInv, Next,
                      NEW c \in Clients \ Renamers,
                      ~IsPrefix(head[c], head'[c]), Mounted(c),
                      Published(boot[c])
               PROVE  Published(head[c])
    OBVIOUS
  <2>1. phase[c] = "track" /\ Quiet(c) /\ Batch(c)
    BY HeadMoves DEF Mounted, QuietInv, PushInv
  <2>2. CASE c \in ReadOnly
    BY <2>1, <2>2, PrefixReflexive DEF Quiet, Published, TypeOK
  <2>3. CASE c \in Writers
    <3>1. head[c] = last_head[c] /\ last_head[c] = pushed_head[c]
      BY <2>1, <2>3 DEF Quiet, Batch, Outstanding
    <3> QED BY <2>1, <3>1 DEF Batch
  <2> QED BY <2>2, <2>3 DEF Writers
<1> QED BY <1>1, SpecQuietInv, PTL DEF Spec, SessionKeepsCommits

BootIsPublished == \A c \in Clients : Published(boot[c])

\* Without renames, the promise that commits survive is kept but where a mount is
\* started again on commits that had not gone out (main.rs:256).
THEOREM CommitsSurviveQuietly ==
  ASSUME Renamers = {}
  PROVE  Spec /\ RemountsOwnNothing => CommitsSurvive
<1> DEFINE Careful == \A c \in Clients : StartLoop(c) => Published(head[c])
           Kept == \A c \in Clients \ Renamers :
                     ~IsPrefix(head[c], head'[c]) /\ Mounted(c)
                       /\ Published(boot[c])
                     => Published(head[c])
           Survive == \A c \in Clients :
                        Mounted(c) /\ ~IsPrefix(head[c], head'[c])
                          => Published(head[c])
<1>1. Init => BootIsPublished
  <2> SUFFICES ASSUME Init PROVE BootIsPublished
    OBVIOUS
  <2>1. remote \in Commits /\ published = {remote}
    BY InitType DEF Init, TypeOK
  <2> QED BY <2>1, PrefixReflexive DEF Init, BootIsPublished, Published
<1>2. TypeOK /\ BootIsPublished /\ [Next]_vars /\ [Careful]_vars
        => BootIsPublished'
  <2>1. CASE UNCHANGED vars
    BY <2>1 DEF vars, git, loop, BootIsPublished, Published
  <2> SUFFICES ASSUME TypeOK, BootIsPublished, Next, Careful
               PROVE  BootIsPublished'
    BY <2>1
  <2>2. ASSUME NEW c \in Clients, StartLoop(c) PROVE BootIsPublished'
    <3>1. Published(head[c]) /\ UNCHANGED published
      BY <2>2 DEF StartLoop, git
    <3>2. \A d \in Clients : boot'[d] \in {boot[d], head[c]}
      BY <2>2 DEF StartLoop, TypeOK
    <3> QED BY <3>1, <3>2 DEF BootIsPublished, Published
  <2>3. ASSUME UNCHANGED boot, published \subseteq published'
        PROVE  BootIsPublished'
    BY <2>3 DEF BootIsPublished, Published
  <2>4. ASSUME NEW c \in Clients,
               \/ FilterCommits(c) \/ LoopCommits(c) \/ Clone(c) \/ Remount(c)
               \/ NoticeHead(c) \/ Wait(c) \/ Push(c) \/ Fetch(c) \/ HalfPush(c)
               \/ HalfFetch(c) \/ Shutdown(c) \/ Unmount(c) \/ Crash(c)
        PROVE  UNCHANGED boot /\ published \subseteq published'
    BY <2>4
    DEF FilterCommits, LoopCommits, Clone, Remount, NoticeHead, Wait, Push,
        PushStart, PushLands, PushCounts, PushFails, PushNothing, HalfPush,
        Fetch, FetchStart, FetchTracks, FetchMoves, FetchNothing, HalfFetch,
        Shutdown, Unmount, FlushStart, FlushLands, FlushFails, FlushNothing,
        Close, Crash, SetRemote, git, loop
  <2> QED BY <2>2, <2>3, <2>4 DEF Next, Turn
<1>3. BootIsPublished /\ [Kept]_vars => [Survive]_vars
  BY DEF BootIsPublished
<1> QED
  BY <1>1, <1>2, <1>3, SpecPushInv, SessionsKeepCommits, PTL
  DEF Spec, SessionKeepsCommits, RemountsOwnNothing, CommitsSurvive

-----------------------------------------------------------------------------
(* The only writer and its remote. *)

LEMMA SoleWriterLeads ==
  ASSUME Branch!SoleWriter
  PROVE  Spec => [](TypeOK /\ PushInv /\ BranchProofs!NothingIsTakenBack)
<1>1. BranchProofs!SoleWriter
  BY DEF Branch!SoleWriter, BranchProofs!SoleWriter
<1> QED
  BY <1>1, SpecPushInv, MountsShareProvedBranch,
     BranchProofs!SoleWriterKeepsAll, PTL

\* When the only writer counts its HEAD as pushed, HEAD is the remote's branch,
\* whatever its filter committed in the midst of pushes and fetches, and whatever
\* of these failed or was cut.
THEOREM CountedHeadIsRemote ==
  ASSUME Branch!SoleWriter PROVE Spec => []CountedIsRemote
<1>1. TypeOK /\ PushInv /\ BranchProofs!NothingIsTakenBack => CountedIsRemote
  <2> SUFFICES ASSUME TypeOK, PushInv, BranchProofs!NothingIsTakenBack,
                      NEW w \in Writers, head[w] = pushed_head[w],
                      Published(boot[w])
               PROVE  head[w] = remote
    BY DEF CountedIsRemote
  <2>0. w \in Clients
    BY DEF Writers
  <2>1. /\ \A r \in published : IsPrefix(r, remote)
        /\ IsPrefix(remote, head[w])
    BY DEF BranchProofs!NothingIsTakenBack, BranchProofs!IsPrefix, IsPrefix
  <2>2. PICK r \in published : IsPrefix(head[w], r)
    BY <2>0 DEF PushInv, Batch, Published
  <2>3. head[w] \in Commits /\ remote \in Commits /\ r \in Commits
    BY <2>0 DEF TypeOK
  <2>4. IsPrefix(head[w], remote)
    BY <2>1, <2>2, <2>3, PrefixTransitive
  <2> QED BY <2>1, <2>3, <2>4, PrefixAntisymmetric
<1> QED BY <1>1, SoleWriterLeads, PTL

\* As long as its user does nothing, all the only writer has is the remote's.
IdleInv ==
  \A w \in Writers :
    commits[w] = 0 =>
      /\ head[w] = remote /\ track[w] = remote /\ sent[w] = remote
      /\ last_head[w] = remote /\ pushed_head[w] = remote

LEMMA StepIdleInv ==
  ASSUME Branch!SoleWriter, TypeOK, PushInv, IdleInv, [Next]_vars
  PROVE  IdleInv'
<1> SUFFICES ASSUME NEW w \in Writers, commits'[w] = 0
             PROVE  /\ head'[w] = remote' /\ track'[w] = remote'
                    /\ sent'[w] = remote' /\ last_head'[w] = remote'
                    /\ pushed_head'[w] = remote'
  BY DEF IdleInv
<1> DEFINE Idle == /\ head'[w] = remote' /\ track'[w] = remote'
                   /\ sent'[w] = remote' /\ last_head'[w] = remote'
                   /\ pushed_head'[w] = remote'
<1>0. w \in Clients /\ \A c \in Writers : c = w
  BY DEF Branch!SoleWriter, Writers
<1>1. ASSUME commits'[w] = commits[w], remote' = remote,
             head'[w] \in {head[w], remote, track[w]},
             track'[w] \in {track[w], remote}, sent'[w] \in {sent[w], head[w]},
             last_head'[w] \in {last_head[w], head[w]},
             pushed_head'[w] \in {pushed_head[w], head[w], last_head[w]}
      PROVE  Idle
  BY <1>1 DEF IdleInv
<1>2. CASE UNCHANGED vars
  BY <1>1, <1>2 DEF vars, git, loop
<1>3. ASSUME NEW c \in Clients, FilterCommits(c) \/ LoopCommits(c) PROVE Idle
  <2>1. /\ c # w /\ head'[w] = head[w] /\ commits'[w] = commits[w]
        /\ UNCHANGED <<remote, track, loop, sent>>
    BY <1>0, <1>3, CommitExtends DEF FilterCommits, LoopCommits
  <2> QED BY <1>1, <2>1 DEF loop
<1>4. ASSUME NEW c \in Clients, Clone(c) \/ Remount(c) \/ StartLoop(c) PROVE Idle
  <2>1. CASE Clone(c) \/ Remount(c)
    BY <1>0, <1>1, <2>1 DEF Clone, Remount, git, loop, TypeOK
  <2>2. CASE StartLoop(c)
    BY <1>0, <1>1, <2>2 DEF StartLoop, git, TypeOK
  <2> QED BY <1>4, <2>1, <2>2
<1>5. ASSUME NEW c \in Clients, NoticeHead(c) \/ Wait(c) \/ PushNothing(c)
      PROVE  Idle
  BY <1>0, <1>1, <1>5 DEF NoticeHead, Wait, PushNothing, git, loop, TypeOK
<1>6. ASSUME NEW c \in Clients, PushLands(c) \/ FlushLands(c) PROVE Idle
  <2>1. c \in Writers /\ remote' = sent[c]
    BY <1>6
    DEF PushLands, FlushLands, SetRemote, PushInv, Batch, Writers
  <2>2. UNCHANGED <<head, track, loop, sent, commits>>
    BY <1>6 DEF PushLands, FlushLands
  <2> QED BY <1>0, <2>1, <2>2 DEF IdleInv, loop
<1>7. ASSUME NEW c \in Clients,
             \/ PushStart(c) \/ PushCounts(c) \/ PushFails(c) \/ HalfPush(c)
             \/ FlushStart(c)
      PROVE  Idle
  BY <1>0, <1>1, <1>7
  DEF PushStart, PushCounts, PushFails, HalfPush, FlushStart, git, loop, TypeOK
<1>8. ASSUME NEW c \in Clients, Fetch(c) \/ HalfFetch(c) PROVE Idle
  BY <1>0, <1>1, <1>8
  DEF Fetch, FetchStart, FetchTracks, FetchMoves, FetchNothing, HalfFetch, git,
      loop, TypeOK
<1>9. ASSUME NEW c \in Clients,
             Shutdown(c) \/ FlushFails(c) \/ FlushNothing(c) \/ Close(c) \/ Crash(c)
      PROVE  Idle
  BY <1>0, <1>1, <1>9
  DEF Shutdown, FlushFails, FlushNothing, Close, Crash, git, loop
<1> QED
  BY <1>2, <1>3, <1>4, <1>5, <1>6, <1>7, <1>8, <1>9
  DEF Next, Turn, Push, Unmount

\* The only writer, while it has committed nothing, leaves the remote as it is,
\* whatever crashes and broken exchanges it goes through.
THEOREM IdleSoleWriterOwesNothing ==
  ASSUME Branch!SoleWriter PROVE Spec => IdleMountOwesNothing
<1> DEFINE Owes ==
      \A c \in Clients : commits[c] = 0 /\ PushLands(c) => remote' = remote
<1>1. Init => IdleInv
  BY DEF Init, IdleInv, Writers
<1>2. TypeOK /\ PushInv /\ IdleInv /\ [Next]_vars => IdleInv'
  BY StepIdleInv
<1>3. TypeOK /\ PushInv /\ IdleInv => [Owes]_vars
  <2> SUFFICES ASSUME TypeOK, PushInv, IdleInv, NEW c \in Clients,
                      commits[c] = 0, PushLands(c)
               PROVE  remote' = remote
    OBVIOUS
  <2>1. c \in Writers
    BY DEF PushLands, PushInv, Batch, Writers
  <2> QED BY <2>1 DEF IdleInv, PushLands, SetRemote
<1> QED
  BY <1>1, <1>2, <1>3, SpecPushInv, PTL DEF Spec, IdleMountOwesNothing
=============================================================================
