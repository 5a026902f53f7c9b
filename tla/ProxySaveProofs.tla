-------------------------- MODULE ProxySaveProofs --------------------------
(* What a save, a refresh and the in-sync overlay promise, for any number of *)
(* proxies of one target, users that go on editing, crashes included.       *)
EXTENDS ProxySave, LocalPushProofs

LEMMA SaveTypeInit == SaveInit => SaveTypeOK
<1> SUFFICES ASSUME SaveInit PROVE SaveTypeOK
  OBVIOUS
<1>1. TypeOK
  BY TypeInit DEF SaveInit
<1>2. FirstTree \in Trees /\ branch \in Commits
  BY <1>1, PushAssumption DEF PushAssumption, TypeOK
<1> QED BY <1>1, <1>2 DEF SaveInit, SaveTypeOK

\* The tree a save commits, and the step it is of the proxy's pushes.
LEMMA SavedTree ==
  ASSUME SaveTypeOK, NEW c \in Pushers, NEW p \in Paths, Save(c, p)
  PROVE  LET tree == [Tree(head[c]) EXCEPT ![p] = disk[c][p]]
         IN  /\ tree \in Trees /\ Commit(c, tree)
             /\ head'[c] = Append(head[c], [by |-> c, tree |-> tree])
             /\ Tree(head'[c]) = tree /\ Tree(head'[c])[p] = disk[c][p]
             /\ \A d \in Pushers \ {c} : head'[d] = head[d]
<1> DEFINE tree == [Tree(head[c]) EXCEPT ![p] = disk[c][p]]
           r == [by |-> c, tree |-> tree]
<1>1. head[c] \in Commits /\ disk[c] \in Trees
  BY DEF SaveTypeOK, TypeOK
<1>2. Tree(head[c]) \in Trees /\ disk[c][p] \in Contents \cup {Absent}
  BY <1>1, CommitFacts DEF Trees
<1>3. tree \in Trees /\ tree[p] = disk[c][p]
  BY <1>2 DEF Trees
<1>4. Commit(c, tree)
  BY DEF Save
<1> HIDE DEF tree
<1>5. /\ head'[c] = Append(head[c], r)
      /\ \A d \in Pushers \ {c} : head'[d] = head[d]
  BY <1>4 DEF Commit, SaveTypeOK, TypeOK
<1>6. r \in Record /\ r.tree = tree
  BY <1>3 DEF Record
<1> HIDE DEF r
<1>7. Tree(Append(head[c], r)) = tree
  <2>1. head[c] \in Seq(Record) /\ Len(head[c]) \in Nat
    BY <1>1, CommitFacts
  <2>2. /\ Len(Append(head[c], r)) = Len(head[c]) + 1
        /\ Append(head[c], r)[Len(head[c]) + 1] = r
    BY <1>6, <2>1, AppendProperties
  <2> QED BY <1>6, <2>2 DEF Tree, Last
<1>8. head'[c] = Append(head[c], [by |-> c, tree |-> tree])
  BY <1>5 DEF r
<1> QED BY <1>3, <1>4, <1>5, <1>7, <1>8 DEF tree

\* Every step of a proxy is one of LocalPush, or leaves it alone.
LEMMA StepMaps == SaveTypeOK /\ [SaveNext]_allvars => [Next]_vars
<1> SUFFICES ASSUME SaveTypeOK, [SaveNext]_allvars PROVE [Next]_vars
  OBVIOUS
<1>1. ASSUME NEW c \in Pushers, NEW p \in Paths, Save(c, p)
      PROVE  [Next]_vars
  BY <1>1, SavedTree DEF Next
<1>2. ASSUME NEW c \in Pushers, SavePushes(c)
      PROVE  [Next]_vars
  BY <1>2 DEF SavePushes, Next
<1>3. ASSUME NEW c \in Pushers, Clone(c)
      PROVE  [Next]_vars
  BY <1>3 DEF Clone, Next
<1>4. ASSUME NEW c \in Pushers,
             \/ \E p \in Paths, content \in Contents \cup {Absent} :
                  UserEdit(c, p, content)
             \/ Crash(c) \/ Wipe(c) \/ DehydrateStale(c)
      PROVE  UNCHANGED vars
  BY <1>4 DEF UserEdit, Crash, Wipe, DehydrateStale
<1> QED BY <1>1, <1>2, <1>3, <1>4 DEF SaveNext, allvars

LEMMA SaveTypeStep == SaveTypeOK /\ [SaveNext]_allvars => SaveTypeOK'
<1> SUFFICES ASSUME SaveTypeOK, [SaveNext]_allvars PROVE SaveTypeOK'
  OBVIOUS
<1>1. TypeOK'
  BY StepMaps, TypeStep DEF SaveTypeOK
<1>2. ASSUME NEW c \in Pushers, NEW p \in Paths, NEW content \in Contents \cup {Absent},
             UserEdit(c, p, content)
      PROVE  SaveTypeOK'
  <2>1. disk' \in [Pushers -> Trees]
    <3>1. disk[c] \in Trees
      BY DEF SaveTypeOK
    <3>2. [disk[c] EXCEPT ![p] = content] \in Trees
      BY <3>1 DEF Trees
    <3>3. disk' = [disk EXCEPT ![c] = [disk[c] EXCEPT ![p] = content]]
      BY <1>2 DEF UserEdit
    <3> QED BY <3>2, <3>3 DEF SaveTypeOK
  <2>2. edits' \in [Pushers -> Nat]
    BY <1>2 DEF UserEdit, SaveTypeOK
  <2> QED BY <1>1, <1>2, <2>1, <2>2 DEF UserEdit, SaveTypeOK
<1>3. ASSUME NEW c \in Pushers, NEW p \in Paths, Save(c, p)
      PROVE  SaveTypeOK'
  BY <1>1, <1>3 DEF Save, SaveTypeOK
<1>4. ASSUME NEW c \in Pushers, SavePushes(c)
      PROVE  SaveTypeOK'
  <2>1. published' \subseteq Commits
    BY <1>1, <1>4 DEF SavePushes, SaveTypeOK, TypeOK
  <2>2. CASE Returned(c)
    <3>1. synced' \in [Pushers -> SUBSET Paths]
      BY <2>2 DEF Returned, MarkSynced, Present, SaveTypeOK
    <3> QED BY <1>1, <1>4, <2>1, <2>2, <3>1 DEF SavePushes, Returned, SaveTypeOK
  <2>3. CASE UNCHANGED <<synced, saving, kind, unsent>>
    BY <1>1, <1>4, <2>1, <2>3 DEF SavePushes, SaveTypeOK
  <2> QED BY <1>4, <2>2, <2>3 DEF SavePushes
<1>5. ASSUME NEW c \in Pushers, Crash(c)
      PROVE  SaveTypeOK'
  BY <1>1, <1>5 DEF Crash, SaveTypeOK
<1>6. ASSUME NEW c \in Pushers, Wipe(c)
      PROVE  SaveTypeOK'
  <2>1. EmptyTree \in Trees
    BY DEF EmptyTree, Trees
  <2> QED BY <1>1, <1>6, <2>1 DEF Wipe, SaveTypeOK
<1>7. ASSUME NEW c \in Pushers, Clone(c)
      PROVE  SaveTypeOK'
  <2>1. Tree(branch) \in Trees
    BY CommitFacts DEF SaveTypeOK, TypeOK
  <2> QED BY <1>1, <1>7, <2>1 DEF Clone, SaveTypeOK
<1>8. ASSUME NEW c \in Pushers, DehydrateStale(c)
      PROVE  SaveTypeOK'
  BY <1>1, <1>8 DEF DehydrateStale, Present, SaveTypeOK
<1>9. CASE UNCHANGED allvars
  BY <1>1, <1>9 DEF allvars, save, SaveTypeOK
<1> QED
  BY <1>2, <1>3, <1>4, <1>5, <1>6, <1>7, <1>8, <1>9 DEF SaveNext

\* The state of saves, overlays and refreshes keeps its types.
THEOREM SaveTypeCorrect == SaveSpec => []SaveTypeOK
BY SaveTypeInit, SaveTypeStep, PTL DEF SaveSpec

\* A proxy's saves push as LocalPush has it: what is proved of its pushes holds
\* of the proxies.
LEMMA Refinement == SaveSpec => PushSpec
<1>1. SaveInit => Init
  BY DEF SaveInit
<1> QED
  BY <1>1, SaveTypeInit, SaveTypeStep, StepMaps, PTL
     DEF SaveSpec, PushSpec
-----------------------------------------------------------------------------
(* What was pushed, and what the overlay and a refresh make of it.  A push is *)
(* under way only inside a save, HEAD rests until it returns, and the bytes   *)
(* of the saved file are HEAD's unless a user has overtaken the save.        *)

Sequential ==
  /\ branch \in published
  /\ \A c \in Pushers :
       /\ saving[c] = None => step[c] = "idle"
       /\ step[c] # "idle" => want[c] = head[c]
       /\ step[c] = "mirror" => want[c] \in published
       /\ gone[c] => saving[c] = None

SavedIsHead ==
  \A c \in Pushers : \A p \in Paths :
    saving[c] = p /\ p \notin overtaken[c] /\ kind[c] = "update" =>
      Tree(head[c])[p] = disk[c][p]

SentUnlessUnsent ==
  \A c \in Pushers :
    saving[c] = None /\ ~unsent[c] =>
      \E r \in published : IsPrefix(head[c], r)

SaveInv == Sequential /\ SavedIsHead /\ SentUnlessUnsent /\ SyncedIsOnRemote

LEMMA PrefixOfItself == \A h \in Commits : IsPrefix(h, h)
BY CommitFacts DEF IsPrefix

LEMMA PrefixOfMore ==
  ASSUME NEW h \in Commits, NEW r \in Record
  PROVE  IsPrefix(h, Append(h, r))
<1> DEFINE n == Len(h)
<1>1. n \in Nat \ {0} /\ SubSeq(h, 1, n) = h
  BY CommitFacts
<1>2. /\ Len(Append(h, r)) = n + 1
      /\ \A i \in 1 .. n : SubSeq(Append(h, r), 1, i) = SubSeq(h, 1, i)
  BY AppendFacts
<1> HIDE DEF n
<1>3. n \in 1 .. n /\ n <= n + 1
  BY <1>1
<1> QED BY <1>1, <1>2, <1>3 DEF IsPrefix, n

LEMMA SaveInvInit == SaveInit => SaveInv
<1> SUFFICES ASSUME SaveInit PROVE SaveInv
  OBVIOUS
<1>1. SaveTypeOK
  BY SaveTypeInit
<1>2. branch \in Commits /\ branch \in published /\ \A c \in Pushers : head[c] = branch
  BY <1>1 DEF SaveTypeOK, TypeOK, SaveInit, Init
<1>3. Sequential
  BY <1>2 DEF Sequential, SaveInit, Init
<1>4. SavedIsHead
  BY SaveAssumption DEF SavedIsHead, SaveInit, SaveAssumption
<1>5. SentUnlessUnsent
  BY <1>2, PrefixOfItself DEF SentUnlessUnsent
<1>6. SyncedIsOnRemote
  BY DEF SyncedIsOnRemote, SaveInit
<1> QED BY <1>3, <1>4, <1>5, <1>6 DEF SaveInv

LEMMA EditKeeps ==
  ASSUME SaveTypeOK, SaveInv, NEW c \in Pushers, NEW p \in Paths,
         NEW content \in Contents \cup {Absent}, UserEdit(c, p, content)
  PROVE  SaveInv'
<1> USE DEF UserEdit
<1>1. /\ UNCHANGED <<vars, published, saving, kind, gone, unsent>>
      /\ \A d \in Pushers : \A q \in Paths :
           (d # c \/ q # p) => disk'[d][q] = disk[d][q]
      /\ \A d \in Pushers : \A q \in Paths :
           (d # c \/ q # p) => (q \in overtaken'[d] <=> q \in overtaken[d])
  BY DEF vars, target, SaveTypeOK, Trees
<1>2. saving[c] = p => p \in overtaken'[c]
  BY DEF SaveTypeOK
<1>3. /\ p \notin synced'[c]
      /\ \A d \in Pushers : synced'[d] \subseteq synced[d]
      /\ \A d \in Pushers : \A q \in Paths :
           (d # c \/ q # p) => (q \in idled'[d] <=> q \in idled[d])
  BY DEF SaveTypeOK
<1>4. Sequential' /\ SentUnlessUnsent'
  BY <1>1 DEF vars, target, push, SaveInv, Sequential, SentUnlessUnsent
<1>5. SavedIsHead'
  BY <1>1, <1>2 DEF vars, SaveInv, SavedIsHead
<1>6. SyncedIsOnRemote'
  <2> SUFFICES ASSUME NEW d \in Pushers,
                      NEW q \in synced'[d] \ (idled'[d] \cup overtaken'[d])
               PROVE  \E r \in published' : Tree(r)[q] = disk'[d][q]
    BY DEF SyncedIsOnRemote
  <2>1. q \in Paths /\ (d # c \/ q # p) /\ q \in synced[d]
    BY <1>3 DEF SaveTypeOK
  <2> QED BY <1>1, <1>3, <2>1 DEF SaveInv, SyncedIsOnRemote
<1> QED BY <1>4, <1>5, <1>6 DEF SaveInv

LEMMA SaveKeeps ==
  ASSUME SaveTypeOK, SaveInv, NEW c \in Pushers, NEW p \in Paths, Save(c, p)
  PROVE  SaveInv'
<1>1. /\ Tree(head'[c])[p] = disk[c][p]
      /\ \A d \in Pushers \ {c} : head'[d] = head[d]
      /\ UNCHANGED <<target, base, push, cut, disturbed, faults>>
      /\ UNCHANGED published
  BY SavedTree DEF Commit, target
<1>2. /\ UNCHANGED <<disk, gone, unsent>>
      /\ saving[c] = None /\ ~gone[c] /\ step[c] = "idle"
      /\ saving'[c] = p /\ \A d \in Pushers \ {c} : saving'[d] = saving[d]
  BY DEF Save, SaveTypeOK, SaveInv, Sequential
<1>3. \A d \in Pushers \ {c} :
        kind'[d] = kind[d] /\ overtaken'[d] = overtaken[d]
  BY DEF Save, SaveTypeOK
<1>4. Sequential'
  BY <1>1, <1>2 DEF target, push, SaveInv, Sequential
<1>5. SavedIsHead'
  BY <1>1, <1>2, <1>3, SaveAssumption DEF SaveInv, SavedIsHead, SaveAssumption
<1>6. SentUnlessUnsent'
  BY <1>1, <1>2, SaveAssumption DEF SaveInv, SentUnlessUnsent, SaveAssumption
<1>7. SyncedIsOnRemote'
  <2> SUFFICES ASSUME NEW d \in Pushers,
                      NEW q \in synced'[d] \ (idled'[d] \cup overtaken'[d])
               PROVE  \E r \in published' : Tree(r)[q] = disk'[d][q]
    BY DEF SyncedIsOnRemote
  <2>1. q \in synced[d] \ (idled[d] \cup overtaken[d])
    BY DEF Save, SaveTypeOK
  <2> QED BY <1>1, <1>2, <2>1 DEF SaveInv, SyncedIsOnRemote
<1> QED BY <1>4, <1>5, <1>6, <1>7 DEF SaveInv

\* What a step of the push does to the step, HEAD and the target's branch.
LEMMA PushStep ==
  ASSUME SaveTypeOK, SaveInv, NEW c \in Pushers, SavePushes(c)
  PROVE  /\ UNCHANGED <<head, base, disk, gone, idled, overtaken, edits>>
         /\ \A d \in Pushers \ {c} : step'[d] = step[d] /\ want'[d] = want[d]
         /\ branch' \in published' /\ published \subseteq published'
         /\ step'[c] # "idle" => want'[c] = head[c]
         /\ step'[c] = "mirror" => want'[c] \in published'
         /\ step'[c] = "idle" /\ outcome'[c] = "ok" => head[c] \in published'
<1> USE DEF End, Goto
<1>1. /\ branch \in published
      /\ step[c] # "idle" => want[c] = head[c]
      /\ step[c] = "mirror" => want[c] \in published
      /\ UNCHANGED <<disk, gone, idled, overtaken, edits>>
  BY DEF SavePushes, SaveInv, Sequential
<1> USE DEF SaveTypeOK, TypeOK
<1>2. CASE UpToDate(c)
  BY <1>1, <1>2 DEF UpToDate, target
<1>3. CASE TipUnreadable(c)
  BY <1>1, <1>3 DEF TipUnreadable, target
<1>4. CASE StartPush(c)
  BY <1>1, <1>4 DEF StartPush, target
<1>5. CASE SkipObject(c) \/ CopyObject(c)
  BY <1>1, <1>5 DEF SkipObject, CopyObject, target
<1>6. CASE SetRef(c)
  BY <1>1, <1>6 DEF SetRef
<1>7. CASE Mirror(c)
  BY <1>1, <1>7 DEF Mirror
<1>8. CASE MirrorUnreadable(c)
  BY <1>1, <1>8 DEF MirrorUnreadable, target
<1>9. CASE CutCopy(c)
  BY <1>1, <1>9 DEF CutCopy, target
<1>10. CASE CutMirror(c)
  BY <1>1, <1>10 DEF CutMirror
<1> QED
  BY <1>2, <1>3, <1>4, <1>5, <1>6, <1>7, <1>8, <1>9, <1>10 DEF SavePushes, Push

LEMMA PushKeeps ==
  ASSUME SaveTypeOK, SaveInv, NEW c \in Pushers, SavePushes(c)
  PROVE  SaveInv'
<1>1. /\ UNCHANGED <<head, base, disk, gone, idled, overtaken, edits>>
      /\ \A d \in Pushers \ {c} : step'[d] = step[d] /\ want'[d] = want[d]
      /\ branch' \in published' /\ published \subseteq published'
      /\ step'[c] # "idle" => want'[c] = head[c]
      /\ step'[c] = "mirror" => want'[c] \in published'
      /\ step'[c] = "idle" /\ outcome'[c] = "ok" => head[c] \in published'
  BY PushStep
<1>2. saving[c] # None /\ saving[c] \in Paths /\ head[c] \in Commits
  BY DEF SavePushes, SaveTypeOK, TypeOK
<1>3. CASE step'[c] # "idle" /\ UNCHANGED <<synced, saving, kind, unsent>>
  <2>1. Sequential'
    BY <1>1, <1>2, <1>3 DEF SaveInv, Sequential
  <2>2. SavedIsHead' /\ SentUnlessUnsent' /\ SyncedIsOnRemote'
    BY <1>1, <1>3
       DEF SaveInv, SavedIsHead, SentUnlessUnsent, SyncedIsOnRemote
  <2> QED BY <2>1, <2>2 DEF SaveInv
<1>4. CASE Returned(c)
  <2>1. /\ step'[c] = "idle" /\ saving'[c] = None
        /\ unsent'[c] = (outcome'[c] # "ok")
        /\ \A d \in Pushers \ {c} : /\ saving'[d] = saving[d] /\ kind'[d] = kind[d]
                                    /\ unsent'[d] = unsent[d]
    BY <1>4 DEF Returned, SaveTypeOK
  <2>2. Sequential'
    BY <1>1, <2>1 DEF SaveInv, Sequential
  <2>3. SavedIsHead'
    BY <1>1, <2>1, SaveAssumption DEF SaveInv, SavedIsHead, SaveAssumption
  <2>4. SentUnlessUnsent'
    BY <1>1, <1>2, <2>1, PrefixOfItself DEF SaveInv, SentUnlessUnsent
  <2>5. ASSUME NEW d \in Pushers,
               NEW q \in synced'[d] \ (idled'[d] \cup overtaken'[d])
        PROVE  \E r \in published' : Tree(r)[q] = disk'[d][q]
    <3>1. CASE q \in synced[d]
      BY <1>1, <2>5, <3>1 DEF SaveInv, SyncedIsOnRemote
    <3>2. CASE q \notin synced[d]
      <4>1. d = c /\ q = saving[c] /\ outcome'[c] = "ok" /\ kind[c] = "update"
        BY <1>4, <2>5, <3>2 DEF Returned, MarkSynced, SaveTypeOK
      <4>2. Tree(head[c])[q] = disk[c][q]
        BY <1>1, <1>2, <2>5, <4>1 DEF SaveInv, SavedIsHead
      <4> QED BY <1>1, <2>1, <4>1, <4>2
    <3> QED BY <3>1, <3>2
  <2> QED BY <2>2, <2>3, <2>4, <2>5 DEF SaveInv, SyncedIsOnRemote
<1> QED BY <1>3, <1>4 DEF SavePushes

LEMMA CloneKeeps ==
  ASSUME SaveTypeOK, SaveInv, NEW c \in Pushers, Clone(c)
  PROVE  SaveInv'
<1>1. /\ head'[c] = branch /\ disk'[c] = Tree(branch)
      /\ \A d \in Pushers \ {c} : /\ head'[d] = head[d] /\ disk'[d] = disk[d]
                                  /\ overtaken'[d] = overtaken[d]
                                  /\ unsent'[d] = unsent[d] /\ gone'[d] = gone[d]
      /\ ~gone'[c]
  BY DEF Clone, Fetch, vars, SaveTypeOK, TypeOK
<1>2. UNCHANGED <<synced, saving, kind, idled, edits, target, push>>
  BY DEF Clone, Fetch, vars
<1>3. /\ branch \in published /\ branch \in Commits
      /\ saving[c] = None /\ step[c] = "idle"
  BY DEF Clone, SaveInv, Sequential, SaveTypeOK, TypeOK
<1>4. Sequential'
  BY <1>1, <1>2, <1>3 DEF SaveInv, Sequential, push, target
<1>5. SavedIsHead'
  BY <1>1, <1>2, <1>3, SaveAssumption DEF SaveInv, SavedIsHead, SaveAssumption
<1>6. SentUnlessUnsent'
  BY <1>1, <1>2, <1>3, PrefixOfItself DEF target, SaveInv, SentUnlessUnsent
<1>7. SyncedIsOnRemote'
  BY <1>1, <1>2, <1>3 DEF target, SaveInv, SyncedIsOnRemote
<1> QED BY <1>4, <1>5, <1>6, <1>7 DEF SaveInv

\* A crash, a wipe and idle maintenance leave HEAD and the target alone.
LEMMA OthersKeep ==
  ASSUME SaveTypeOK, SaveInv, NEW c \in Pushers,
         Crash(c) \/ Wipe(c) \/ DehydrateStale(c)
  PROVE  SaveInv'
<1>1. UNCHANGED <<vars, overtaken>>
  BY DEF Crash, Wipe, DehydrateStale
<1>2. CASE Crash(c)
  <2>1. /\ saving'[c] = None /\ step[c] = "idle" /\ unsent'[c]
        /\ \A d \in Pushers \ {c} : /\ saving'[d] = saving[d] /\ kind'[d] = kind[d]
                                    /\ unsent'[d] = unsent[d]
        /\ UNCHANGED <<disk, synced, gone, idled>>
    BY <1>2 DEF Crash, SaveTypeOK
  <2>2. Sequential'
    BY <1>1, <2>1 DEF SaveInv, Sequential, vars, target, push
  <2>3. SavedIsHead'
    BY <1>1, <2>1, SaveAssumption DEF SaveInv, SavedIsHead, SaveAssumption, vars
  <2>4. SentUnlessUnsent' /\ SyncedIsOnRemote'
    BY <1>1, <2>1 DEF SaveInv, SentUnlessUnsent, SyncedIsOnRemote, vars, target
  <2> QED BY <2>2, <2>3, <2>4 DEF SaveInv
<1>3. CASE Wipe(c)
  <2>1. /\ saving[c] = None /\ synced'[c] = {}
        /\ \A d \in Pushers \ {c} : /\ gone'[d] = gone[d] /\ disk'[d] = disk[d]
                                    /\ synced'[d] = synced[d] /\ idled'[d] = idled[d]
        /\ UNCHANGED <<saving, kind, unsent>>
    BY <1>3 DEF Wipe, SaveTypeOK
  <2>2. Sequential'
    BY <1>1, <2>1 DEF SaveInv, Sequential, vars, target, push
  <2>3. SavedIsHead'
    BY <1>1, <2>1, SaveAssumption DEF SaveInv, SavedIsHead, SaveAssumption, vars
  <2>4. SentUnlessUnsent'
    BY <1>1, <2>1 DEF SaveInv, SentUnlessUnsent, vars, target
  <2>5. SyncedIsOnRemote'
    BY <1>1, <2>1 DEF SaveInv, SyncedIsOnRemote, vars, target
  <2> QED BY <2>2, <2>3, <2>4, <2>5 DEF SaveInv
<1>4. CASE DehydrateStale(c)
  <2>1. UNCHANGED <<disk, saving, kind, gone, unsent>>
    BY <1>4 DEF DehydrateStale
  <2>2. Sequential' /\ SavedIsHead' /\ SentUnlessUnsent'
    BY <1>1, <2>1
       DEF SaveInv, Sequential, SavedIsHead, SentUnlessUnsent, vars, target, push
  <2>3. \A d \in Pushers : synced'[d] \ idled'[d] \subseteq synced[d] \ idled[d]
    BY <1>4 DEF DehydrateStale, SaveTypeOK
  <2>4. SyncedIsOnRemote'
    BY <1>1, <2>1, <2>3 DEF SaveInv, SyncedIsOnRemote, vars, target
  <2> QED BY <2>2, <2>4 DEF SaveInv
<1> QED BY <1>2, <1>3, <1>4

LEMMA SaveInvStep == SaveTypeOK /\ SaveInv /\ [SaveNext]_allvars => SaveInv'
<1> SUFFICES ASSUME SaveTypeOK, SaveInv, [SaveNext]_allvars PROVE SaveInv'
  OBVIOUS
<1>1. CASE UNCHANGED allvars
  BY <1>1 DEF allvars, save, vars, target, push, SaveInv, Sequential, SavedIsHead,
              SentUnlessUnsent, SyncedIsOnRemote
<1> QED
  BY <1>1, EditKeeps, SaveKeeps, PushKeeps, CloneKeeps, OthersKeep DEF SaveNext

LEMMA SaveInvariance == SaveSpec => [](SaveTypeOK /\ SaveInv)
BY SaveTypeInit, SaveInvInit, SaveTypeStep, SaveInvStep, PTL DEF SaveSpec

\* A file that shows the in-sync overlay holds what the target was given, but
\* for those idle maintenance marked and those a user overtook.
THEOREM OverlayIsEarned == SaveSpec => []SyncedIsOnRemote
BY SaveInvariance, PTL DEF SaveInv

\* A refresh drops commits the target was never given only if their push failed
\* or was cut.
THEOREM RefreshIsSafe == SaveSpec => RefreshDropsOnlyUnsent
<1> DEFINE Kept ==
      \A c \in Pushers :
        ~IsPrefix(head[c], head'[c]) =>
          unsent[c] \/ \E r \in published : IsPrefix(head[c], r)
<1>1. SaveTypeOK /\ SaveInv /\ [SaveNext]_allvars => [Kept]_allvars
  <2> SUFFICES ASSUME SaveTypeOK, SaveInv, SaveNext, NEW c \in Pushers
               PROVE  \/ IsPrefix(head[c], head'[c]) \/ unsent[c]
                      \/ \E r \in published : IsPrefix(head[c], r)
    OBVIOUS
  <2>1. head[c] \in Commits
    BY DEF SaveTypeOK, TypeOK
  <2>2. CASE head'[c] = head[c]
    BY <2>1, <2>2, PrefixOfItself
  <2>3. ASSUME NEW d \in Pushers, NEW p \in Paths, Save(d, p), d = c
        PROVE  IsPrefix(head[c], head'[c])
    <3> DEFINE tree == [Tree(head[d]) EXCEPT ![p] = disk[d][p]]
               r == [by |-> d, tree |-> tree]
    <3>1. tree \in Trees /\ head'[d] = Append(head[d], r)
      BY <2>3, SavedTree
    <3> HIDE DEF tree
    <3>2. r \in Record
      BY <3>1 DEF Record
    <3> QED BY <2>1, <2>3, <3>1, <3>2, PrefixOfMore
  <2>4. ASSUME NEW d \in Pushers, NEW p \in Paths, Save(d, p), d # c
        PROVE  head'[c] = head[c]
    BY <2>4, SavedTree
  <2>5. ASSUME NEW d \in Pushers, SavePushes(d)
        PROVE  head'[c] = head[c]
    BY <2>5, PushStep
  <2>6. ASSUME NEW d \in Pushers, Clone(d), d # c
        PROVE  head'[c] = head[c]
    BY <2>6 DEF Clone, Fetch, vars, SaveTypeOK, TypeOK
  <2>7. ASSUME NEW d \in Pushers, Clone(d), d = c
        PROVE  unsent[c] \/ \E r \in published : IsPrefix(head[c], r)
    BY <2>7 DEF Clone, SaveInv, Sequential, SentUnlessUnsent
  <2>8. ASSUME NEW d \in Pushers,
               \/ \E p \in Paths, content \in Contents \cup {Absent} :
                    UserEdit(d, p, content)
               \/ Crash(d) \/ Wipe(d) \/ DehydrateStale(d)
        PROVE  head'[c] = head[c]
    BY <2>8 DEF UserEdit, Crash, Wipe, DehydrateStale, vars
  <2> QED BY <2>2, <2>3, <2>4, <2>5, <2>6, <2>7, <2>8 DEF SaveNext
<1> QED
  BY <1>1, SaveInvariance, PTL DEF SaveSpec, RefreshDropsOnlyUnsent

-----------------------------------------------------------------------------
(* Where one proxy alone pushes to the target. *)

\* What a file that shows the overlay holds, HEAD has; a wiped folder has none.
SyncedIsHead ==
  \A c \in Pushers :
    /\ gone[c] => synced[c] = {} /\ Present(c) = {}
    /\ \A p \in synced[c] \ (idled[c] \cup overtaken[c]) :
         Tree(head[c])[p] = disk[c][p]

LEMMA SyncedIsHeadStep ==
  SaveTypeOK /\ SaveInv /\ SyncedIsHead /\ [SaveNext]_allvars => SyncedIsHead'
<1> SUFFICES ASSUME SaveTypeOK, SaveInv, SyncedIsHead, [SaveNext]_allvars
             PROVE  SyncedIsHead'
  OBVIOUS
<1> USE DEF SyncedIsHead, Present
<1>1. ASSUME NEW c \in Pushers, NEW p \in Paths, NEW content \in Contents \cup {Absent},
             UserEdit(c, p, content)
      PROVE  SyncedIsHead'
  <2>1. /\ UNCHANGED <<head, gone>> /\ ~gone[c] /\ p \notin synced'[c]
        /\ \A d \in Pushers : synced'[d] \subseteq synced[d]
    BY <1>1 DEF UserEdit, vars, SaveTypeOK
  <2>2. \A d \in Pushers : \A q \in Paths : (d # c \/ q # p) =>
          /\ disk'[d][q] = disk[d][q] /\ (q \in idled'[d] <=> q \in idled[d])
          /\ (q \in overtaken'[d] <=> q \in overtaken[d])
    BY <1>1 DEF UserEdit, SaveTypeOK, Trees
  <2> QED BY <2>1, <2>2 DEF SaveTypeOK
<1>2. ASSUME NEW c \in Pushers, NEW p \in Paths, Save(c, p)
      PROVE  SyncedIsHead'
  <2>1. /\ UNCHANGED <<disk, gone>> /\ p \notin synced'[c]
        /\ \A d \in Pushers : synced'[d] \subseteq synced[d]
        /\ \A d \in Pushers : \A q \in Paths : (d # c \/ q # p) =>
             /\ (q \in idled'[d] <=> q \in idled[d])
             /\ (q \in overtaken'[d] <=> q \in overtaken[d])
    BY <1>2 DEF Save, SaveTypeOK
  <2>2. \A d \in Pushers : \A q \in Paths :
          (d # c \/ q # p) => Tree(head'[d])[q] = Tree(head[d])[q]
    <3>1. /\ Tree(head'[c]) = [Tree(head[c]) EXCEPT ![p] = disk[c][p]]
          /\ \A d \in Pushers \ {c} : head'[d] = head[d]
      BY <1>2, SavedTree
    <3>2. Tree(head[c]) \in Trees
      BY CommitFacts DEF SaveTypeOK, TypeOK
    <3>3. \A q \in Paths \ {p} : Tree(head'[c])[q] = Tree(head[c])[q]
      BY <3>1, <3>2 DEF Trees
    <3> QED BY <3>1, <3>3
  <2> QED BY <2>1, <2>2 DEF SaveTypeOK
<1>3. ASSUME NEW c \in Pushers, SavePushes(c)
      PROVE  SyncedIsHead'
  <2>1. UNCHANGED <<head, disk, gone, idled, overtaken>>
    BY <1>3, PushStep
  <2>2. ASSUME NEW d \in Pushers, NEW q \in synced'[d] \ synced[d]
        PROVE  /\ d = c /\ q = saving[c] /\ kind[c] = "update"
               /\ saving[c] # None /\ q \in Paths
    BY <1>3, <2>2 DEF SavePushes, Returned, MarkSynced, SaveTypeOK
  <2>3. ASSUME NEW d \in Pushers, NEW q \in synced'[d] \ synced[d]
        PROVE  ~gone[d] /\ (q \notin overtaken[d] => Tree(head[d])[q] = disk[d][q])
    BY <2>2, <2>3 DEF SaveInv, Sequential, SavedIsHead
  <2> QED BY <2>1, <2>3
<1>4. ASSUME NEW c \in Pushers, Clone(c)
      PROVE  SyncedIsHead'
  <2>1. /\ ~gone'[c] /\ synced[c] = {} /\ UNCHANGED <<synced, idled>>
        /\ \A d \in Pushers \ {c} :
             /\ head'[d] = head[d] /\ disk'[d] = disk[d]
             /\ gone'[d] = gone[d] /\ overtaken'[d] = overtaken[d]
    BY <1>4 DEF Clone, Fetch, vars, SaveTypeOK, TypeOK
  <2> QED BY <2>1
<1>5. ASSUME NEW c \in Pushers, Crash(c) \/ Wipe(c)
      PROVE  SyncedIsHead'
  <2>1. /\ UNCHANGED <<head, overtaken>>
        /\ \A d \in Pushers \ {c} :
             /\ disk'[d] = disk[d] /\ gone'[d] = gone[d]
             /\ synced'[d] = synced[d] /\ idled'[d] = idled[d]
        /\ \/ synced'[c] = {} /\ disk'[c] = EmptyTree
           \/ UNCHANGED <<disk, gone, synced, idled>>
    BY <1>5 DEF Crash, Wipe, vars, SaveTypeOK
  <2> QED BY <2>1 DEF EmptyTree
<1>6. ASSUME NEW c \in Pushers, DehydrateStale(c)
      PROVE  SyncedIsHead'
  <2>1. UNCHANGED <<head, overtaken, disk, gone>>
    BY <1>6 DEF DehydrateStale, vars
  <2>2. \A d \in Pushers : synced'[d] \ idled'[d] \subseteq synced[d] \ idled[d]
    BY <1>6 DEF DehydrateStale, SaveTypeOK
  <2>3. ~gone[c]
    BY <1>6 DEF DehydrateStale
  <2>4. \A d \in Pushers \ {c} : synced'[d] = synced[d]
    BY <1>6 DEF DehydrateStale, SaveTypeOK
  <2>5. \A d \in Pushers : gone[d] => synced'[d] = {}
    BY <2>3, <2>4
  <2> QED BY <2>1, <2>2, <2>5
<1>7. CASE UNCHANGED allvars
  BY <1>7 DEF allvars, save, vars
<1> QED BY <1>1, <1>2, <1>3, <1>4, <1>5, <1>6, <1>7 DEF SaveNext

LEMMA PrefixOfPrefix ==
  \A g, h, k \in Commits : IsPrefix(g, h) /\ IsPrefix(h, k) => IsPrefix(g, k)
BY DEF IsPrefix, Commits

LEMMA PrefixesAgree ==
  ASSUME NEW g \in Commits, NEW h \in Commits, IsPrefix(g, h), IsPrefix(h, g)
  PROVE  g = h
<1>1. Len(g) \in Nat /\ Len(h) \in Nat /\ SubSeq(g, 1, Len(g)) = g
  BY CommitFacts
<1>2. Len(g) <= Len(h) /\ Len(h) <= Len(g)
  BY DEF IsPrefix
<1>3. Len(g) = Len(h)
  BY <1>1, <1>2
<1> QED BY <1>1, <1>3, CommitFacts DEF IsPrefix

\* A lone proxy whose last push went through has the target's branch for a HEAD
\* while it rests, and its folder agrees with it where it shows the overlay.
THEOREM LoneProxyRestsOnBranch ==
  ASSUME Branch!SoleWriter PROVE SaveSpec => []RestsOnBranch
<1>1. SaveTypeOK /\ SaveInv /\ SyncedIsHead /\ [SaveNext]_allvars => SyncedIsHead'
  BY SyncedIsHeadStep
<1>2. SaveInit => SyncedIsHead
  BY DEF SaveInit, SyncedIsHead
<1>3. SaveTypeOK /\ SaveInv /\ SyncedIsHead /\ Branch!NothingIsTakenBack
        => RestsOnBranch
  <2> SUFFICES ASSUME SaveTypeOK, SaveInv, SyncedIsHead, Branch!NothingIsTakenBack,
                      NEW c \in Pushers, saving[c] = None, ~unsent[c]
               PROVE  head[c] = branch
    BY DEF RestsOnBranch, SyncedIsHead
  <2>1. PICK r \in published : IsPrefix(head[c], r)
    BY DEF SaveInv, SentUnlessUnsent
  <2>2. IsPrefix(r, branch) /\ IsPrefix(branch, head[c])
    BY DEF Branch!NothingIsTakenBack, Branch!IsPrefix, IsPrefix
  <2>3. head[c] \in Commits /\ branch \in Commits /\ r \in Commits
    BY DEF SaveTypeOK, TypeOK
  <2>4. IsPrefix(head[c], branch)
    BY <2>1, <2>2, <2>3, PrefixOfPrefix
  <2> QED BY <2>2, <2>3, <2>4, PrefixesAgree
<1> QED
  BY <1>1, <1>2, <1>3, SaveInvariance, Refinement, SolePusherKeepsAll, PTL
  DEF SaveSpec

\* Saves, refreshes, wipes and crashes share the target's branch as SharedBranch
\* has it: to those who look at nothing else a push of many steps, cut or not, is
\* one step or none.
THEOREM SavesShareBranch == SaveSpec => ImplementsBranch
BY Refinement, PushesShareBranch, PTL

\* What the target's branch points at can be read, while saves, refreshes and
\* crashes leave the copies alone.
THEOREM UndisturbedSavesAreReadable == SaveSpec => []ReadableUndisturbed
BY Refinement, UndisturbedIsReadable, PTL
=============================================================================
