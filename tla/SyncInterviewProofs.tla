------------------------ MODULE SyncInterviewProofs ------------------------
(* The promises of the sync interview, for any number of sessions, of files *)
(* and of pushes.                                                           *)
EXTENDS SyncInterview, SequenceTheorems, TLAPS

LEMMA TreeOfHistory == ASSUME NEW h \in Histories PROVE Tree(h) \in Trees
<1>1. CASE h = <<>>
  BY <1>1 DEF Tree, EmptyTree, Trees
<1>2. CASE h # <<>>
  <2>1. Len(h) \in 1..Len(h)
    BY <1>2, EmptySeq, LenProperties DEF Histories
  <2>2. h[Len(h)] \in [tree : Trees, id : (Sessions \cup {"mount"}) \X Nat]
    BY <2>1, ElementOfSeq DEF Histories
  <2> QED BY <1>2, <2>2 DEF Tree, Last
<1> QED BY <1>1, <1>2

LEMMA CommitType ==
  ASSUME NEW tree \in Trees, NEW by \in Sessions \cup {"mount"}, NEW n \in Nat,
         NEW h \in Histories
  PROVE  /\ Append(h, Commit(tree, by, n)) \in Histories
         /\ Tree(Append(h, Commit(tree, by, n))) = tree
<1> DEFINE Commits == [tree : Trees, id : (Sessions \cup {"mount"}) \X Nat]
           c == Commit(tree, by, n)
           g == Append(h, c)
<1>1. c \in Commits
  BY DEF Commit
<1>2. h \in Seq(Commits)
  BY DEF Histories
<1> HIDE DEF c, Commits
<1>3. /\ g \in Seq(Commits) /\ g # <<>>
      /\ Len(g) = Len(h) + 1 /\ g[Len(h) + 1] = c
  BY <1>1, <1>2, AppendProperties
<1>4. c.tree = tree
  BY DEF c, Commit
<1>5. Tree(g) = tree
  BY <1>3, <1>4 DEF Tree, Last
<1> QED BY <1>3, <1>5 DEF c, Histories, Commits

\* What one session's push makes of the commit it was built on.
LEMMA CommittedType ==
  ASSUME TypeOK, NEW s \in Sessions, pc[s] = "ref", request[s] \in Pushes
  PROVE  /\ Committed(s) \in Histories
         /\ Tree(Committed(s)) =
              [Tree(parent[s]) EXCEPT ![request[s].path] = request[s].content]
<1>1. parent[s] \in Histories /\ changes \in Nat
  BY DEF TypeOK
<1>2. Tree(parent[s]) \in Trees
  BY <1>1, TreeOfHistory
<1>3. request[s].content \in Contents /\ request[s].path \in Paths
  BY DEF Pushes
<1>4. [Tree(parent[s]) EXCEPT ![request[s].path] = request[s].content] \in Trees
  BY <1>2, <1>3 DEF Trees
<1> QED BY <1>1, <1>4, CommitType DEF Committed

\* A push is a push from its check to its end; the types follow.
Pushing == {"check", "read", "write", "ref", "told"}
RequestFits ==
  \A s \in Sessions : /\ pc[s] \in Pushing => request[s] \in Pushes
                      /\ pc[s] = "look" => request[s] \in Reads

TypeInv == TypeOK /\ RequestFits

LEMMA TipType == TypeOK => Tip \in Trees
BY TreeOfHistory DEF TypeOK, Tip

LEMMA InitTypeInv == Init => TypeInv
<1> SUFFICES ASSUME Init PROVE TypeInv
  OBVIOUS
<1>1. FirstTree \in Trees /\ 0 \in Nat /\ <<>> \in Histories
  BY InterviewAssumption DEF Histories
<1>2. <<Commit(FirstTree, "mount", 0)>> =
        Append(<<>>, Commit(FirstTree, "mount", 0))
  OBVIOUS
<1>3. head \in Histories
  BY <1>1, <1>2, CommitType DEF Init
<1>4. Tip \in Trees
  BY <1>3, TreeOfHistory DEF Tip
<1>5. request \in [Sessions -> Pushes \cup Reads]
  BY DEF Init, Reads
<1> QED
  BY <1>1, <1>3, <1>4, <1>5 DEF Init, TypeInv, TypeOK, RequestFits, Pushing,
                                Unanswered, Trees

LEMMA MoveHeadType ==
  ASSUME TypeOK, NEW history \in Histories, MoveHead(history)
  PROVE  /\ head' \in Histories /\ during' \in [Sessions -> SUBSET Trees]
BY TreeOfHistory DEF TypeOK, MoveHead

\* The commits a mount may push, on any part of HEAD's history.
LEMMA MountCommitType ==
  ASSUME TypeOK, NEW n \in 0..Len(head), NEW p \in Paths,
         NEW content \in Contents \cup {Absent}, NEW k \in Nat
  PROVE  LET base == SubSeq(head, 1, n)
             tree == [Tree(base) EXCEPT ![p] = content]
         IN  /\ base \in Histories /\ tree \in Trees
             /\ Append(base, Commit(tree, "mount", k)) \in Histories
<1> DEFINE base == SubSeq(head, 1, n)
           tree == [Tree(base) EXCEPT ![p] = content]
<1>1. base \in Histories
  <2>1. head \in Histories /\ n \in Nat /\ n <= Len(head)
    BY LenProperties DEF TypeOK, Histories
  <2> DEFINE Commits == [tree : Trees, id : (Sessions \cup {"mount"}) \X Nat]
  <2>2. head \in Seq(Commits)
    BY <2>1 DEF Histories
  <2> HIDE DEF Commits
  <2>3. \A i \in 1..n : head[i] \in Commits
    BY <2>1, <2>2, ElementOfSeq
  <2>4. SubSeq(head, 1, n) \in Seq(Commits)
    BY <2>1, <2>3, SubSeqProperties
  <2> QED BY <2>4 DEF Histories, Commits
<1>2. Tree(base) \in Trees
  BY <1>1, TreeOfHistory
<1>3. tree \in Trees
  BY <1>2 DEF Trees
<1> QED BY <1>1, <1>3, CommitType

LEMMA LastOfAppend ==
  ASSUME NEW h \in Histories, NEW tree \in Trees,
         NEW by \in Sessions \cup {"mount"}, NEW n \in Nat
  PROVE  LET g == Append(h, Commit(tree, by, n))
         IN  g # <<>> /\ Last(g) = Commit(tree, by, n)
<1> DEFINE Commits == [tree : Trees, id : (Sessions \cup {"mount"}) \X Nat]
           c == Commit(tree, by, n)
<1>1. c \in Commits /\ h \in Seq(Commits)
  BY DEF Commit, Histories
<1> HIDE DEF c, Commits
<1>2. /\ Append(h, c) # <<>> /\ Len(Append(h, c)) = Len(h) + 1
      /\ Append(h, c)[Len(h) + 1] = c
  BY <1>1, AppendProperties
<1> QED BY <1>2 DEF Last, c

LEMMA MountReadsPush ==
  ASSUME TypeOK, MountReads
  PROVE  /\ push' \in MountPushes /\ push'.stage = "objects" /\ push' # None
         /\ push'.history # <<>>
         /\ Last(push'.history).id = <<"mount", changes'>>
<1>1. changes' \in Nat
  BY DEF MountReads, TypeOK
<1>2. PICK n \in 0..Len(head), p \in Paths, content \in Contents \cup {Absent} :
        LET base == SubSeq(head, 1, n)
            tree == [Tree(base) EXCEPT ![p] = content]
        IN  push' = [stage |-> "objects", old |-> {q \in Paths : Tip[q] # Absent},
                     history |-> Append(base, Commit(tree, "mount", changes'))]
  BY DEF MountReads
<1> DEFINE base == SubSeq(head, 1, n)
           tree == [Tree(base) EXCEPT ![p] = content]
           history == Append(base, Commit(tree, "mount", changes'))
<1>3. base \in Histories /\ tree \in Trees /\ history \in Histories
  BY <1>1, MountCommitType
<1>4. push' = [stage |-> "objects", old |-> {q \in Paths : Tip[q] # Absent},
               history |-> history]
  BY <1>2
<1> HIDE DEF base, tree
<1>5. history # <<>> /\ Last(history).id = <<"mount", changes'>>
  BY <1>1, <1>3, LastOfAppend DEF Commit
<1> HIDE DEF history
<1>6. push' \in MountPushes
  BY <1>3, <1>4 DEF MountPushes
<1> QED BY <1>4, <1>5, <1>6, InterviewAssumption DEF InterviewAssumption

LEMMA StepTypeInv == TypeInv /\ [Next]_vars => TypeInv'
<1> SUFFICES ASSUME TypeInv, [Next]_vars PROVE TypeInv'
  OBVIOUS
<1> USE DEF TypeInv, RequestFits, Pushing
<1>0. Tip \in Trees /\ \A p \in Paths : Tip[p] \in Contents \cup {Absent}
  BY TipType DEF Trees
<1>1. CASE UNCHANGED vars
  BY <1>1 DEF vars, session, TypeOK
<1>2. ASSUME NEW s \in Sessions, AskRead(s) PROVE TypeInv'
  BY <1>0, <1>2 DEF AskRead, Ask, Goto, Unanswered, Reads, TypeOK
<1>3. ASSUME NEW s \in Sessions, AskPush(s) PROVE TypeInv'
  BY <1>0, <1>3 DEF AskPush, Ask, Goto, Unanswered, Pushes, TypeOK
<1>4. ASSUME NEW s \in Sessions, NEW p \in Paths, Verdict(s, p) PROVE TypeInv'
  BY <1>0, <1>4 DEF Verdict, TypeOK
<1>5. ASSUME NEW s \in Sessions, Missing(s) PROVE TypeInv'
  BY <1>0, <1>5 DEF Missing, Reply, Goto, TypeOK
<1>6. ASSUME NEW s \in Sessions, CheckBase(s) PROVE TypeInv'
  <2>1. request[s].path \in Paths
    BY <1>6 DEF CheckBase, Pushes
  <2>2. answer' \in [Sessions -> [Paths -> Contents \cup {Absent, Unasked}]]
    BY <1>0, <1>6, <2>1 DEF CheckBase, TypeOK
  <2> QED BY <1>6, <2>2 DEF CheckBase, Reply, Goto, TypeOK
<1>7. ASSUME NEW s \in Sessions, ReadHead(s) PROVE TypeInv'
  BY <1>7 DEF ReadHead, Goto, TypeOK
<1>8. ASSUME NEW s \in Sessions, WriteFile(s) PROVE TypeInv'
  <2>1. request[s].path \in Paths /\ request[s].content \in Contents
    BY <1>8 DEF WriteFile, Pushes
  <2>2. folder' \in Trees
    BY <1>8, <2>1 DEF WriteFile, TypeOK, Trees
  <2> QED BY <1>8, <2>1, <2>2 DEF WriteFile, Goto, TypeOK
<1>9. ASSUME NEW s \in Sessions, WriteFails(s) PROVE TypeInv'
  BY <1>9 DEF WriteFails, Reply, Goto, TypeOK, Pushes
<1>10. ASSUME NEW s \in Sessions, SetRef(s) PROVE TypeInv'
  <2>1. head' \in Histories /\ during' \in [Sessions -> SUBSET Trees]
    BY <1>10, CommittedType, MoveHeadType DEF SetRef
  <2> QED BY <1>10, <2>1 DEF SetRef, Goto, TypeOK
<1>11. ASSUME NEW s \in Sessions, SetRefFails(s) PROVE TypeInv'
  BY <1>11 DEF SetRefFails, Reply, Goto, TypeOK, Pushes
<1>12. ASSUME NEW s \in Sessions, Told(s) PROVE TypeInv'
  <2>1. request[s].path \in Paths
    BY <1>12 DEF Told, Pushes
  <2> QED BY <1>0, <1>12, <2>1 DEF Told, Reply, Goto, TypeOK
<1>13. CASE MountReads
  <2>1. changes' \in Nat
    BY <1>13 DEF MountReads, TypeOK
  <2>2. push' \in MountPushes
    BY <1>13, <2>1, MountReadsPush
  <2> QED BY <1>13, <2>1, <2>2 DEF MountReads, session, TypeOK
<1>14. CASE MountForces
  <2>1. push \in MountPushes /\ push' = [push EXCEPT !.stage = "files"]
    BY <1>14 DEF MountForces, Copying, TypeOK
  <2>2. push' \in MountPushes /\ push.history \in Histories
    BY <2>1 DEF MountPushes
  <2>3. head' \in Histories /\ during' \in [Sessions -> SUBSET Trees]
    BY <1>14, <2>2, MoveHeadType DEF MountForces
  <2> QED BY <1>14, <2>2, <2>3 DEF MountForces, session, TypeOK
<1>15. CASE Mirror \/ MountFails
  <2>1. push # None
    BY <1>15 DEF Mirror, MountFails, Copying
  <2>2. Tree(push.history) \in Trees
    BY <2>1, TreeOfHistory DEF MountPushes, TypeOK
  <2>3. folder' \in Trees /\ spoiled' \subseteq Paths
    <3>1. CASE Mirror
      BY <2>2, <3>1 DEF Mirror, Trees, TypeOK
    <3>2. CASE MountFails
      BY <2>2, <3>2 DEF MountFails, Mirrored, Trees, TypeOK
    <3> QED BY <1>15, <3>1, <3>2
  <2> QED BY <1>15, <2>3 DEF Mirror, MountFails, session, TypeOK
<1> QED
  BY <1>1, <1>2, <1>3, <1>4, <1>5, <1>6, <1>7, <1>8, <1>9, <1>10, <1>11, <1>12,
     <1>13, <1>14, <1>15 DEF Next

LEMMA AlwaysTypeInv == Spec => []TypeInv
BY InitTypeInv, StepTypeInv, PTL DEF Spec

\* Every variable of the sessions and of their repository keeps its type.
THEOREM TypeCorrect == Spec => []TypeOK
BY AlwaysTypeInv, PTL DEF TypeInv

-----------------------------------------------------------------------------
\* A push adds one commit to HEAD and changes one file in it, whatever the
\* other sessions and the mounts did since its base was checked: the reference
\* edit of `commit` needs HEAD to be the commit it read.
THEOREM PushesOnlyAppend == Spec => PushesAppend
<1> DEFINE A(s) == /\ Front(head') = head
                   /\ Last(head').tree = [Tip EXCEPT ![request[s].path] =
                                            request[s].content]
<1>1. ASSUME TypeInv, [Next]_vars, NEW s \in Sessions,
             pc[s] = "ref", head' # head, pc'[s] # pc[s]
      PROVE  A(s)
  <2>1. SetRef(s)
    BY <1>1 DEF Next, vars, session, AskRead, AskPush, Ask, Verdict, Missing,
                CheckBase, ReadHead, WriteFile, WriteFails, SetRef, SetRefFails,
                Told, MountReads, MountForces, Mirror, MountFails, Goto,
                TypeInv, TypeOK
  <2>2. head \in Histories /\ request[s] \in Pushes /\ changes \in Nat
    BY <1>1 DEF TypeInv, TypeOK, RequestFits, Pushing
  <2> DEFINE tree == [Tip EXCEPT ![request[s].path] = request[s].content]
             c == Commit(tree, s, changes)
  <2>3. head' = Append(head, c)
    BY <2>1 DEF SetRef, MoveHead, Committed, Tip
  <2>4. c \in [tree : Trees, id : (Sessions \cup {"mount"}) \X Nat]
    BY <1>1, <2>2, TipType DEF TypeInv, Commit, Trees, Pushes
  <2>5. c.tree = tree
    BY DEF Commit
  <2> HIDE DEF c
  <2>6. Len(head') = Len(head) + 1 /\ head'[Len(head) + 1] = c
    BY <2>2, <2>3, <2>4, AppendProperties DEF Histories
  <2>7. Front(head') = head
    BY <2>2, <2>3, <2>4, <2>6 DEF Front, Histories
  <2> QED BY <2>5, <2>6, <2>7 DEF Last
<1>2. TypeInv /\ [Next]_vars =>
        [ \A s \in Sessions :
            pc[s] = "ref" /\ head' # head /\ pc'[s] # pc[s] => A(s) ]_vars
  BY <1>1
<1> QED BY <1>2, AlwaysTypeInv, PTL DEF Spec, PushesAppend

-----------------------------------------------------------------------------
\* What a session has seen: its answers, and, of a push, the base and then the
\* content, are HEAD's at some time since the request.  HEAD as it is now is
\* among those as long as the request is served; without this no step could
\* answer from it.
Seen(s, p, v) == \E t \in during[s] : v = t[p]

Witnessed(s) ==
  /\ pc[s] # "idle" => Tip \in during[s] /\ outcome[s] = "none"
  /\ \A p \in Paths : answer[s][p] # Unasked => Seen(s, p, answer[s][p])
  /\ pc[s] \in {"read", "write", "ref", "told"} =>
       Seen(s, request[s].path, request[s].base)
  /\ pc[s] = "told" => Seen(s, request[s].path, request[s].content)
  /\ outcome[s] = "committed" =>
       /\ Seen(s, request[s].path, request[s].base)
       /\ Seen(s, request[s].path, request[s].content)

SeenInv == \A s \in Sessions : Witnessed(s)

\* The parts of a session that its own requests change.
Own(s) == <<pc[s], request[s], answer[s], outcome[s]>>

\* HEAD stays, or moves under every request that is being served.
HeadSteps == UNCHANGED <<head, during>> \/ \E h \in Histories : MoveHead(h)

LEMMA SeenGrows ==
  ASSUME TypeOK, HeadSteps, NEW s \in Sessions, NEW p, NEW v, Seen(s, p, v)
  PROVE  Seen(s, p, v)'
BY DEF HeadSteps, MoveHead, Seen, TypeOK

LEMMA TipSeen ==
  ASSUME TypeOK, HeadSteps, NEW s \in Sessions, pc[s] # "idle",
         Tip \in during[s]
  PROVE  Tip' \in during'[s]
BY DEF HeadSteps, MoveHead, Tip, TypeOK

LEMMA OthersWitnessed ==
  ASSUME TypeOK, HeadSteps, NEW s \in Sessions, Witnessed(s), UNCHANGED Own(s)
  PROVE  Witnessed(s)'
<1>1. /\ pc'[s] = pc[s] /\ request'[s] = request[s]
      /\ answer'[s] = answer[s] /\ outcome'[s] = outcome[s]
  BY DEF Own
<1>2. \A p, v : (\E t \in during[s] : v = t[p]) =>
                 (\E t \in during'[s] : v = t[p])
  BY SeenGrows DEF Seen
<1>3. pc[s] # "idle" => Tip' \in during'[s]
  BY TipSeen DEF Witnessed
<1>4. ASSUME NEW p \in Paths, answer'[s][p] # Unasked
      PROVE  \E t \in during'[s] : answer'[s][p] = t[p]
  BY <1>1, <1>2, <1>4 DEF Witnessed, Seen
<1> DEFINE r == request[s]
<1>5. ASSUME pc'[s] \in {"read", "write", "ref", "told"}
             \/ outcome'[s] = "committed"
      PROVE  \E t \in during'[s] : r.base = t[r.path]
  BY <1>1, <1>2, <1>5 DEF Witnessed, Seen
<1>6. ASSUME pc'[s] = "told" \/ outcome'[s] = "committed"
      PROVE  \E t \in during'[s] : r.content = t[r.path]
  BY <1>1, <1>2, <1>6 DEF Witnessed, Seen
<1> QED BY <1>1, <1>3, <1>4, <1>5, <1>6 DEF Witnessed, Seen

LEMMA InitSeenInv == Init => SeenInv
BY InterviewAssumption DEF Init, SeenInv, Witnessed, Unanswered

LEMMA StepSeenInv == TypeInv /\ SeenInv /\ [Next]_vars => SeenInv'
<1> SUFFICES ASSUME TypeInv, SeenInv, [Next]_vars, NEW d \in Sessions
             PROVE  Witnessed(d)'
  BY DEF SeenInv
<1>t. TypeOK /\ Witnessed(d)
  BY DEF TypeInv, SeenInv
<1>tip. \A p : pc[d] # "idle" => Seen(d, p, Tip[p])
  BY <1>t DEF Witnessed, Seen
<1>1. CASE UNCHANGED vars
  BY <1>t, <1>1, OthersWitnessed DEF vars, session, HeadSteps, Own
<1>2. ASSUME NEW s \in Sessions, AskRead(s) \/ AskPush(s) PROVE Witnessed(d)'
  <2>1. UNCHANGED head
    BY <1>2 DEF AskRead, AskPush, Ask
  <2>2. CASE d = s
    BY <1>t, <1>2, <2>1, <2>2
       DEF AskRead, AskPush, Ask, Goto, Witnessed, Unanswered, Tip, TypeOK
  <2>3. CASE d # s
    <3>1. UNCHANGED <<Own(d), during[d]>>
      BY <1>t, <1>2, <2>3 DEF AskRead, AskPush, Ask, Goto, Own, TypeOK
    <3> QED BY <1>t, <2>1, <3>1 DEF Own, Witnessed, Seen, Tip
  <2> QED BY <2>2, <2>3
<1>3. ASSUME NEW s \in Sessions, NEW p \in Paths, Verdict(s, p)
      PROVE  Witnessed(d)'
  <2>1. HeadSteps
    BY <1>3 DEF Verdict, HeadSteps
  <2>2. CASE d = s
    BY <1>t, <1>tip, <1>3, <2>2 DEF Verdict, Witnessed, Seen, Tip, TypeOK
  <2>3. CASE d # s
    BY <1>t, <1>3, <2>1, <2>3, OthersWitnessed DEF Verdict, Own, TypeOK
  <2> QED BY <2>2, <2>3
<1>4. ASSUME NEW s \in Sessions, Missing(s) PROVE Witnessed(d)'
  <2>1. HeadSteps
    BY <1>4 DEF Missing, HeadSteps
  <2>2. CASE d = s
    BY <1>t, <1>tip, <1>4, <2>2 DEF Missing, Reply, Goto, Witnessed, Seen, TypeOK
  <2>3. CASE d # s
    BY <1>t, <1>4, <2>1, <2>3, OthersWitnessed
       DEF Missing, Reply, Goto, Own, TypeOK
  <2> QED BY <2>2, <2>3
<1>5. ASSUME NEW s \in Sessions, CheckBase(s) PROVE Witnessed(d)'
  <2>1. HeadSteps
    BY <1>5 DEF CheckBase, HeadSteps
  <2>2. CASE d = s
    BY <1>t, <1>tip, <1>5, <2>2
       DEF CheckBase, Conflict, Reply, Goto, Witnessed, Seen, Tip, TypeOK
  <2>3. CASE d # s
    BY <1>t, <1>5, <2>1, <2>3, OthersWitnessed
       DEF CheckBase, Reply, Goto, Own, TypeOK
  <2> QED BY <2>2, <2>3
<1>6. ASSUME NEW s \in Sessions,
             ReadHead(s) \/ WriteFile(s) \/ WriteFails(s) \/ SetRefFails(s)
      PROVE  Witnessed(d)'
  <2>1. HeadSteps
    BY <1>6 DEF ReadHead, WriteFile, WriteFails, SetRefFails, HeadSteps
  <2>2. CASE d = s
    BY <1>t, <1>6, <2>2
       DEF ReadHead, WriteFile, WriteFails, SetRefFails, Reply, Goto, Witnessed,
           Seen, Tip, TypeOK
  <2>3. CASE d # s
    BY <1>t, <1>6, <2>1, <2>3, OthersWitnessed
       DEF ReadHead, WriteFile, WriteFails, SetRefFails, Reply, Goto, Own, TypeOK
  <2> QED BY <2>2, <2>3
<1>7. ASSUME NEW s \in Sessions, SetRef(s) PROVE Witnessed(d)'
  <2>1. /\ Committed(s) \in Histories
        /\ Tree(Committed(s)) =
             [Tree(parent[s]) EXCEPT ![request[s].path] = request[s].content]
        /\ Tree(parent[s]) \in Trees /\ request[s].path \in Paths
    BY <1>t, <1>7, CommittedType, TreeOfHistory
       DEF SetRef, TypeInv, RequestFits, Pushing, Pushes, TypeOK
  <2>2. HeadSteps
    BY <1>7, <2>1 DEF SetRef, HeadSteps
  <2>3. CASE d = s
    <3>1. Tree(Committed(s))[request[s].path] = request[s].content
      BY <2>1 DEF Trees
    <3>2. Tree(Committed(s)) \in during'[s]
      BY <1>t, <1>7 DEF SetRef, MoveHead, TypeOK
    <3>3. \A p, v : Seen(s, p, v) => \E t \in during'[s] : v = t[p]
      BY <1>t, <2>2, SeenGrows DEF Seen
    <3>4. Tip' \in during'[s]
      BY <1>7, <3>2 DEF SetRef, MoveHead, Tip
    <3>5. /\ pc'[s] = "told" /\ request'[s] = request[s]
          /\ answer'[s] = answer[s] /\ outcome'[s] = "none"
      BY <1>t, <1>7, <2>3 DEF SetRef, Goto, Witnessed, TypeOK
    <3>6. \E t \in during'[s] : request[s].base = t[request[s].path]
      BY <1>t, <1>7, <2>3, <3>3 DEF SetRef, Witnessed
    <3>7. \E t \in during'[s] : request[s].content = t[request[s].path]
      BY <3>1, <3>2
    <3>8. ASSUME NEW p \in Paths, answer[s][p] # Unasked
          PROVE  \E t \in during'[s] : answer[s][p] = t[p]
      BY <1>t, <2>3, <3>3, <3>8 DEF Witnessed
    <3> QED
      BY <2>3, <3>4, <3>5, <3>6, <3>7, <3>8 DEF Witnessed, Seen
  <2>4. CASE d # s
    BY <1>t, <1>7, <2>2, <2>4, OthersWitnessed DEF SetRef, Goto, Own, TypeOK
  <2> QED BY <2>3, <2>4
<1>8. ASSUME NEW s \in Sessions, Told(s) PROVE Witnessed(d)'
  <2>1. HeadSteps
    BY <1>8 DEF Told, HeadSteps
  <2>2. CASE d = s
    BY <1>t, <1>tip, <1>8, <2>2 DEF Told, Reply, Goto, Witnessed, Seen, TypeOK
  <2>3. CASE d # s
    BY <1>t, <1>8, <2>1, <2>3, OthersWitnessed DEF Told, Reply, Goto, Own, TypeOK
  <2> QED BY <2>2, <2>3
<1>9. CASE MountForces
  <2>1. MoveHead(push.history) /\ push.history \in Histories /\ UNCHANGED session
    BY <1>9 DEF MountForces, Copying, MountPushes, TypeInv, TypeOK
  <2>2. HeadSteps
    BY <2>1 DEF HeadSteps
  <2> QED BY <1>t, <2>1, <2>2, OthersWitnessed DEF session, Own
<1>10. CASE MountReads \/ Mirror \/ MountFails
  BY <1>t, <1>10, OthersWitnessed
     DEF MountReads, Mirror, MountFails, session, HeadSteps, Own
<1> QED
  BY <1>1, <1>2, <1>3, <1>4, <1>5, <1>6, <1>7, <1>8, <1>9, <1>10 DEF Next

LEMMA AlwaysSeenInv == Spec => []SeenInv
BY InitTypeInv, StepTypeInv, InitSeenInv, StepSeenInv, PTL DEF Spec

\* Whatever a reply says of a file was so while the request was served, although
\* `handle` reads HEAD anew for every file.
THEOREM RepliesAreRecent == Spec => []AnswersAreRecent
<1>1. SeenInv => AnswersAreRecent
  BY DEF SeenInv, Witnessed, Seen, AnswersAreRecent
<1> QED BY <1>1, AlwaysSeenInv, PTL

\* A push that was reported as committed took effect while it was served, and
\* its base was HEAD's version at some time in it.
THEOREM CommittedPushesTookEffect == Spec => []CommittedTookEffect
<1>1. SeenInv => CommittedTookEffect
  BY DEF SeenInv, Witnessed, Seen, CommittedTookEffect
<1> QED BY <1>1, AlwaysSeenInv, PTL
-----------------------------------------------------------------------------
(* The working copy follows HEAD.  A push writes its file before it sets HEAD, *)
(* and sets HEAD only if no other commit came since it read it; that such a    *)
(* commit is never the one it read rests on the numbers of the commits.       *)

At(s, p) == pc[s] \in {"write", "ref"} /\ request[s].path = p

\* No session will make the commit that a history ends with once more.
Fresh(h) ==
  h # <<>> =>
    /\ Last(h).id[2] <= changes
    /\ \A s \in Sessions :
         pc[s] \in {"check", "read", "write", "ref"} /\ Last(h).id[1] = s =>
           Last(h).id[2] < changes

\* The commit a mount's push is about to force the branch onto is none of these.
Coming ==
  Copying("objects") =>
    /\ push.history # <<>> /\ Last(push.history).id[1] = "mount"
    /\ Last(push.history).id[2] <= changes
    /\ \A h \in {head} \cup {parent[s] : s \in Sessions} :
         h # <<>> => Last(h).id # Last(push.history).id

Numbered == Fresh(head) /\ (\A s \in Sessions : Fresh(parent[s])) /\ Coming

\* A push that will succeed has written its file, or a push that will not has
\* written it since.
Written ==
  \A s \in Sessions :
    pc[s] = "ref" /\ head = parent[s] /\ request[s].path \notin spoiled =>
      /\ ~(Copying("files") /\ request[s].path \in Mirrored)
      /\ \/ folder[request[s].path] = request[s].content
         \/ \E t \in Sessions \ {s} : pc[t] = "ref" /\ At(t, request[s].path)

\* What the mirror will copy is HEAD's, and the rest agrees with HEAD already.
Mirrors ==
  Copying("files") =>
    \A p \in Paths \ spoiled :
      /\ p \in Mirrored => Tip[p] = Tree(push.history)[p]
      /\ p \notin Mirrored /\ (\A s \in Sessions : ~At(s, p)) => folder[p] = Tip[p]

\* FolderFollowsHead, at one path.
Follows(p) ==
  (\A s \in Sessions : ~At(s, p)) /\ p \notin spoiled => folder[p] = Tip[p]

Settled == ~Copying("files") => \A p \in Paths : Follows(p)

FollowInv == Numbered /\ Written /\ Mirrors /\ Settled

LEMMA LastId ==
  ASSUME NEW h \in Histories, h # <<>>
  PROVE  /\ Last(h).id \in (Sessions \cup {"mount"}) \X Nat
         /\ Last(h).id[2] \in Nat
<1>1. Len(h) \in 1..Len(h)
  BY EmptySeq, LenProperties DEF Histories
<1>2. h[Len(h)] \in [tree : Trees, id : (Sessions \cup {"mount"}) \X Nat]
  BY <1>1, ElementOfSeq DEF Histories
<1> QED BY <1>2 DEF Last

\* HEAD moves to a commit that no push was built on.
LEMMA NewCommit ==
  ASSUME TypeInv, Numbered, MountForces \/ \E s \in Sessions : SetRef(s)
  PROVE  /\ Numbered' /\ parent' = parent
         /\ \A t \in Sessions : head' # parent[t]
<1>1. /\ changes \in Nat /\ UNCHANGED <<parent, changes>>
      /\ \A t \in Sessions : parent[t] \in Histories
  BY DEF SetRef, MountForces, session, TypeInv, TypeOK
<1>2. PICK by \in Sessions \cup {"mount"}, k \in Nat :
        /\ head' # <<>> /\ Last(head').id = <<by, k>> /\ k <= changes
        /\ \A t \in Sessions : parent[t] # <<>> => Last(parent[t]).id # <<by, k>>
        /\ \A t \in Sessions :
             pc'[t] \in {"check", "read", "write", "ref"} =>
               pc[t] \in {"check", "read", "write", "ref"} /\ by # t
        /\ Coming'
  <2>1. ASSUME NEW s \in Sessions, SetRef(s)
        PROVE  /\ head' # <<>> /\ Last(head').id = <<s, changes>>
               /\ \A t \in Sessions :
                    parent[t] # <<>> => Last(parent[t]).id # <<s, changes>>
               /\ \A t \in Sessions :
                    pc'[t] \in {"check", "read", "write", "ref"} =>
                      pc[t] \in {"check", "read", "write", "ref"} /\ s # t
               /\ Coming'
    <3>1. /\ request[s] \in Pushes /\ pc[s] = "ref" /\ parent[s] \in Histories
          /\ pc' = [pc EXCEPT ![s] = "told"] /\ UNCHANGED push
      BY <2>1 DEF SetRef, Goto, TypeInv, TypeOK, RequestFits, Pushing
    <3> DEFINE tree == [Tree(parent[s]) EXCEPT ![request[s].path] = request[s].content]
    <3>2. tree \in Trees
      BY <3>1, TreeOfHistory DEF Trees, Pushes
    <3>3. head' = Append(parent[s], Commit(tree, s, changes))
      BY <2>1 DEF SetRef, MoveHead, Committed
    <3> HIDE DEF tree
    <3>4. head' # <<>> /\ Last(head').id = <<s, changes>>
      BY <1>1, <3>1, <3>2, <3>3, LastOfAppend DEF Commit
    <3>5. ASSUME NEW t \in Sessions, parent[t] # <<>>
          PROVE  Last(parent[t]).id # <<s, changes>>
      BY <1>1, <3>1, <3>5, LastId DEF Numbered, Fresh
    <3>6. Coming'
      BY <1>1, <3>1, <3>4, InterviewAssumption
         DEF InterviewAssumption, Numbered, Coming, Copying
    <3>7. ASSUME NEW t \in Sessions, pc'[t] \in {"check", "read", "write", "ref"}
          PROVE  pc[t] \in {"check", "read", "write", "ref"} /\ s # t
      BY <3>1, <3>7 DEF TypeInv, TypeOK
    <3> QED BY <3>4, <3>5, <3>6, <3>7
  <2>2. CASE MountForces
    <3>1. /\ Copying("objects") /\ push \in MountPushes /\ pc' = pc
          /\ push' = [push EXCEPT !.stage = "files"] /\ head' = push.history
      BY <2>2 DEF MountForces, MoveHead, Copying, session, TypeInv, TypeOK
    <3>2. push.history \in Histories /\ push.history # <<>> /\ ~Copying("objects")'
      BY <3>1 DEF MountPushes, Numbered, Coming, Copying
    <3>3. Last(push.history).id \in (Sessions \cup {"mount"}) \X Nat
      BY <3>2, LastId
    <3> DEFINE k == Last(push.history).id[2]
    <3>4. Last(push.history).id = <<"mount", k>> /\ k \in Nat /\ k <= changes
      BY <3>1, <3>3 DEF Numbered, Coming
    <3>5. \A t \in Sessions : parent[t] # <<>> => Last(parent[t]).id # <<"mount", k>>
      BY <3>1, <3>4 DEF Numbered, Coming
    <3> HIDE DEF k
    <3>6. Coming'
      BY <3>2 DEF Coming
    <3> QED
      BY <3>1, <3>2, <3>4, <3>5, <3>6, InterviewAssumption DEF InterviewAssumption
  <2>3. ASSUME NEW s \in Sessions, SetRef(s)
        PROVE  \E by \in Sessions \cup {"mount"}, k \in Nat :
                 /\ head' # <<>> /\ Last(head').id = <<by, k>> /\ k <= changes
                 /\ \A t \in Sessions :
                      parent[t] # <<>> => Last(parent[t]).id # <<by, k>>
                 /\ \A t \in Sessions :
                      pc'[t] \in {"check", "read", "write", "ref"} =>
                        pc[t] \in {"check", "read", "write", "ref"} /\ by # t
                 /\ Coming'
    <3>1. changes \in Nat /\ changes <= changes /\ s \in Sessions \cup {"mount"}
      BY <1>1
    <3> QED BY <2>1, <2>3, <3>1
  <2> QED BY <2>2, <2>3
<1>3. ASSUME NEW t \in Sessions
      PROVE  head' # parent[t] /\ Fresh(parent[t])'
  BY <1>1, <1>2 DEF Numbered, Fresh
<1>4. Fresh(head)'
  BY <1>1, <1>2 DEF Fresh
<1> QED BY <1>1, <1>2, <1>3, <1>4 DEF Numbered

LEMMA StepNumbered == TypeInv /\ Numbered /\ [Next]_vars => Numbered'
<1> SUFFICES ASSUME TypeInv, Numbered, [Next]_vars PROVE Numbered'
  OBVIOUS
<1>1. ASSUME UNCHANGED head, push' \in {push, None},
             \A t \in Sessions : parent'[t] \in {parent[t], head},
             changes' = changes,
             \A t \in Sessions :
               pc'[t] \in {"check", "read", "write", "ref"} =>
                 pc[t] \in {"check", "read", "write", "ref"}
      PROVE  Numbered'
  <2>1. Coming'
    BY <1>1 DEF Numbered, Coming, Copying
  <2> QED BY <1>1, <2>1 DEF Numbered, Fresh
<1>2. CASE UNCHANGED vars
  BY <1>1, <1>2 DEF vars, session
<1>3. ASSUME UNCHANGED <<head, parent>>, changes' = changes + 1,
             NEW h \in Histories, Fresh(h)
      PROVE  Fresh(h)'
  BY <1>3, LastId DEF Fresh, TypeInv, TypeOK
<1>4. head \in Histories /\ changes \in Nat /\ \A t \in Sessions : parent[t] \in Histories
  BY DEF TypeInv, TypeOK
<1>5. ASSUME NEW s \in Sessions, AskPush(s) PROVE Numbered'
  <2>1. UNCHANGED <<head, parent, push>> /\ changes' = changes + 1
    BY <1>5 DEF AskPush, Ask
  <2>2. Coming'
    <3>1. ASSUME Copying("objects")
          PROVE  push.history \in Histories
      BY <3>1 DEF Copying, MountPushes, TypeInv, TypeOK
    <3>2. Copying("objects") =>
            push.history # <<>> /\ Last(push.history).id[2] <= changes'
      BY <1>4, <2>1, <3>1, LastId DEF Numbered, Coming
    <3> QED BY <2>1, <3>2 DEF Numbered, Coming, Copying
  <2> QED BY <1>3, <1>4, <2>1, <2>2 DEF Numbered
<1>6. CASE MountReads
  <2>1. UNCHANGED <<head, parent>> /\ changes' = changes + 1
    BY <1>6 DEF MountReads, session
  <2>2. \A g \in {head} \cup {parent[t] : t \in Sessions} :
          g # <<>> => Last(g).id[2] \in Nat /\ Last(g).id[2] <= changes
    BY <1>4, LastId DEF Numbered, Fresh
  <2>3. Coming'
    BY <1>4, <1>6, <2>1, <2>2, MountReadsPush DEF Coming, TypeInv
  <2> QED BY <1>3, <1>4, <2>1, <2>3 DEF Numbered
<1>7. ASSUME NEW s \in Sessions,
             \/ AskRead(s) \/ \E p \in Paths : Verdict(s, p)
             \/ Missing(s) \/ CheckBase(s) \/ ReadHead(s) \/ WriteFile(s)
             \/ WriteFails(s) \/ SetRefFails(s) \/ Told(s)
      PROVE  Numbered'
  <2>1. /\ UNCHANGED <<head, changes, push>>
        /\ \A t \in Sessions : parent'[t] \in {parent[t], head}
    BY <1>7 DEF AskRead, Ask, Verdict, Missing, CheckBase, ReadHead, WriteFile,
                WriteFails, SetRefFails, Told, TypeInv, TypeOK
  <2>2. \A t \in Sessions :
          pc'[t] \in {"check", "read", "write", "ref"} =>
            pc[t] \in {"check", "read", "write", "ref"}
    BY <1>7 DEF AskRead, Ask, Verdict, Missing, CheckBase, ReadHead, WriteFile,
                WriteFails, SetRefFails, Told, Goto, Reply, TypeInv, TypeOK
  <2> QED BY <1>1, <2>1, <2>2
<1>8. CASE Mirror \/ MountFails
  BY <1>1, <1>8 DEF Mirror, MountFails, session
<1>9. CASE MountForces \/ \E s \in Sessions : SetRef(s)
  BY <1>9, NewCommit
<1> QED BY <1>2, <1>5, <1>6, <1>7, <1>8, <1>9 DEF Next

\* A step of a request that touches neither the repository nor a push's writing.
LEMMA QuietStep ==
  ASSUME FollowInv, UNCHANGED <<head, folder, push, spoiled>>,
         \A s \in Sessions, p \in Paths : At(s, p) => At(s, p)',
         \A s \in Sessions :
           pc'[s] = "ref" <=> pc[s] = "ref",
         \A s \in Sessions :
           pc[s] = "ref" =>
             request'[s] = request[s] /\ parent'[s] = parent[s]
  PROVE  Written' /\ Mirrors' /\ Settled'
<1>1. Written'
  BY DEF FollowInv, Written, At, Copying, Mirrored
<1>2. Mirrors'
  BY DEF FollowInv, Mirrors, Copying, Mirrored, Tip
<1>3. Settled'
  BY DEF FollowInv, Settled, Follows, Copying, Tip
<1> QED BY <1>1, <1>2, <1>3

LEMMA StepFollowInv == TypeInv /\ FollowInv /\ [Next]_vars => FollowInv'
<1> SUFFICES ASSUME TypeInv, FollowInv, [Next]_vars
             PROVE  Written' /\ Mirrors' /\ Settled'
  BY StepNumbered DEF FollowInv
<1>1. CASE UNCHANGED vars
  BY <1>1, QuietStep DEF vars, session, At
<1>2. ASSUME NEW s \in Sessions,
             \/ AskRead(s) \/ AskPush(s) \/ \E p \in Paths : Verdict(s, p)
             \/ Missing(s) \/ CheckBase(s) \/ ReadHead(s) \/ Told(s)
      PROVE  Written' /\ Mirrors' /\ Settled'
  <2>1. /\ UNCHANGED <<head, folder, push, spoiled>>
        /\ \A t \in Sessions \ {s} :
             UNCHANGED <<pc[t], request[t], parent[t]>>
    BY <1>2 DEF AskRead, AskPush, Ask, Verdict, Missing, CheckBase, ReadHead, Told,
                Goto, Reply, TypeInv, TypeOK
  <2>2. pc[s] \notin {"write", "ref"} /\ pc'[s] # "ref"
    BY <1>2 DEF AskRead, AskPush, Ask, Verdict, Missing, CheckBase, ReadHead, Told,
                Goto, Reply, TypeInv, TypeOK
  <2> QED BY <2>1, <2>2, QuietStep DEF At
<1>3. ASSUME NEW s \in Sessions, WriteFile(s)
      PROVE  Written' /\ Mirrors' /\ Settled'
  <2> DEFINE q == request[s].path
  <2>1. /\ UNCHANGED <<head, push, request, parent>>
        /\ pc[s] = "write" /\ pc'[s] = "ref" /\ q \in Paths
        /\ \A t \in Sessions \ {s} : pc'[t] = pc[t]
        /\ folder'[q] = request[s].content
        /\ \A p \in Paths \ {q} : folder'[p] = folder[p]
        /\ spoiled \subseteq spoiled' /\ (Copying("files") => q \in spoiled' \/ q \notin Mirrored)
    BY <1>3 DEF WriteFile, Goto, TypeInv, TypeOK, RequestFits, Pushing, Pushes, Trees
  <2>2. \A t \in Sessions, p \in Paths : At(t, p)' <=> At(t, p)
    BY <2>1 DEF At
  <2>3. Written'
    <3> SUFFICES ASSUME NEW t \in Sessions, pc'[t] = "ref", head = parent[t],
                        request[t].path \notin spoiled'
                 PROVE  /\ ~(Copying("files") /\ request[t].path \in Mirrored)
                        /\ \/ folder'[request[t].path] = request[t].content
                           \/ \E u \in Sessions \ {t} :
                                pc'[u] = "ref" /\ At(u, request[t].path)'
      BY <2>1 DEF Written, Copying, Mirrored
    <3>1. CASE t = s
      BY <2>1, <3>1
    <3>2. CASE t # s
      <4>1. request[t].path \in Paths
        BY <2>1, <3>2 DEF TypeInv, RequestFits, Pushing, Pushes
      <4>2. CASE request[t].path = q
        BY <2>1, <3>2, <4>2 DEF FollowInv, Written, At
      <4>3. CASE request[t].path # q
        BY <2>1, <2>2, <3>2, <4>1, <4>3 DEF FollowInv, Written
      <4> QED BY <4>2, <4>3
    <3> QED BY <3>1, <3>2
  <2>4. Mirrors'
    BY <2>1, <2>2 DEF FollowInv, Mirrors, Copying, Mirrored, Tip, At
  <2>5. Settled'
    BY <2>1, <2>2 DEF FollowInv, Settled, Follows, Copying, Tip, At
  <2> QED BY <2>3, <2>4, <2>5
<1>4. ASSUME NEW s \in Sessions, WriteFails(s) \/ SetRefFails(s)
      PROVE  Written' /\ Mirrors' /\ Settled'
  <2> DEFINE q == request[s].path
  <2>1. /\ UNCHANGED <<head, folder, push, request, parent>>
        /\ pc'[s] = "idle" /\ \A t \in Sessions \ {s} : pc'[t] = pc[t]
        /\ spoiled' = spoiled \cup {q}
    BY <1>4 DEF WriteFails, SetRefFails, Reply, Goto, TypeInv, TypeOK
  <2>2. \A t \in Sessions : \A p : p # q => (At(t, p)' <=> At(t, p))
    BY <2>1 DEF At
  <2>3. Written'
    BY <2>1, <2>2 DEF FollowInv, Written, At, Copying, Mirrored
  <2>4. Mirrors'
    BY <2>1, <2>2 DEF FollowInv, Mirrors, Copying, Mirrored, Tip
  <2>5. Settled'
    BY <2>1, <2>2 DEF FollowInv, Settled, Follows, Copying, Tip
  <2> QED BY <2>3, <2>4, <2>5
<1>5. ASSUME NEW s \in Sessions, SetRef(s)
      PROVE  Written' /\ Mirrors' /\ Settled'
  <2> DEFINE q == request[s].path
  <2>1. /\ UNCHANGED <<folder, push, request, spoiled>>
        /\ pc[s] = "ref" /\ head = parent[s] /\ head' = Committed(s)
        /\ pc'[s] = "told" /\ \A t \in Sessions \ {s} : pc'[t] = pc[t]
        /\ request[s] \in Pushes /\ q \in Paths
    BY <1>5 DEF SetRef, MoveHead, Goto, TypeInv, TypeOK, RequestFits, Pushing, Pushes
  <2>2. Tip' = [Tip EXCEPT ![q] = request[s].content] /\ Tip \in Trees
    BY <2>1, CommittedType, TipType DEF Tip, TypeInv
  <2>3. \A p \in Paths \ {q} :
          Tip'[p] = Tip[p] /\ \A t \in Sessions : At(t, p)' <=> At(t, p)
    BY <2>1, <2>2 DEF At, Trees
  <2>4. Tip'[q] = request[s].content
    BY <2>1, <2>2 DEF Trees
  <2>5. Written'
    <3>1. parent' = parent /\ \A t \in Sessions : head' # parent[t]
      BY <1>5, NewCommit DEF FollowInv
    <3> QED BY <3>1 DEF Written
  <2>6. q \in spoiled \/
          /\ ~(Copying("files") /\ q \in Mirrored)
          /\ \/ folder[q] = request[s].content
             \/ \E t \in Sessions \ {s} : pc[t] = "ref" /\ At(t, q)
    BY <2>1 DEF FollowInv, Written
  <2>7. Mirrors'
    BY <2>1, <2>3, <2>4, <2>6 DEF FollowInv, Mirrors, Copying, Mirrored, At
  <2>8. Settled'
    BY <2>1, <2>3, <2>4, <2>6 DEF FollowInv, Settled, Follows, Copying, At
  <2> QED BY <2>5, <2>7, <2>8
<1>6. CASE MountReads
  <2>1. /\ UNCHANGED <<head, folder, pc, request, parent, spoiled>> /\ push = None
        /\ push'.stage = "objects"
    BY <1>6, MountReadsPush DEF MountReads, session, TypeInv
  <2> QED
    BY <2>1 DEF FollowInv, Written, Mirrors, Settled, Follows, Copying, At, Tip
<1>7. CASE MountForces
  <2>1. /\ Copying("objects") /\ UNCHANGED <<folder, pc, request>>
        /\ push' = [push EXCEPT !.stage = "files"] /\ head' = push.history
        /\ spoiled' = spoiled \cup {p \in Paths \ Mirrored : Tip[p] # Absent}
        /\ push \in MountPushes
    BY <1>7 DEF MountForces, MoveHead, Copying, session, TypeInv, TypeOK
  <2>2. /\ push'.history = push.history /\ push'.old = push.old
        /\ Copying("files")' /\ Tip' = Tree(push.history)
    BY <2>1, InterviewAssumption
       DEF MountPushes, Copying, Tip, InterviewAssumption
  <2>3. Mirrored' = Mirrored
    BY <2>2 DEF Mirrored
  <2>4. Written'
    <3>1. parent' = parent /\ \A t \in Sessions : head' # parent[t]
      BY <1>7, NewCommit DEF FollowInv
    <3> QED BY <3>1 DEF Written
  <2>5. ~Copying("files")
    BY <2>1 DEF Copying
  <2>6. ASSUME NEW p \in Paths \ spoiled', p \notin Mirrored, \A t \in Sessions : ~At(t, p)
        PROVE  folder[p] = Tree(push.history)[p]
    <3>1. folder[p] = Tip[p]
      BY <2>1, <2>5, <2>6 DEF FollowInv, Settled, Follows
    <3> QED BY <2>1, <2>6, <3>1 DEF Mirrored
  <2>7. Mirrors'
    BY <2>1, <2>2, <2>3, <2>6 DEF Mirrors, At
  <2> QED BY <2>2, <2>4, <2>7 DEF Settled
<1>8. CASE Mirror \/ MountFails
  <2>1. /\ push # None /\ push' = None /\ UNCHANGED <<head, pc, request, parent>>
        /\ spoiled \subseteq spoiled'
    BY <1>8 DEF Mirror, MountFails, Copying, session
  <2>2. CASE Copying("files")
    <3>1. PICK done \in SUBSET Mirrored :
            /\ folder' = [p \in Paths |-> IF p \in done THEN Tree(push.history)[p]
                                          ELSE folder[p]]
            /\ Mirrored \ done \subseteq spoiled'
      <4>1. CASE Mirror
        <5>1. folder' = [p \in Paths |-> IF p \in Mirrored THEN Tree(push.history)[p]
                                        ELSE folder[p]]
          BY <4>1 DEF Mirror
        <5> QED BY <5>1
      <4>2. CASE MountFails
        BY <2>2, <4>2 DEF MountFails
      <4> QED BY <1>8, <4>1, <4>2
    <3>2. Written'
      BY <2>1, <2>2, <3>1 DEF FollowInv, Written, Copying, At, TypeInv, RequestFits, Pushing, Pushes
    <3>3. \A p \in Paths : Follows(p)'
      BY <2>1, <2>2, <3>1 DEF FollowInv, Mirrors, Follows, At, Tip
    <3> QED BY <2>1, <3>2, <3>3 DEF Mirrors, Settled, Copying
  <2>3. CASE ~Copying("files")
    <3>1. MountFails
      BY <1>8, <2>3 DEF Mirror
    <3>2. \A p \in Paths : folder'[p] = folder[p]
      BY <2>3, <3>1 DEF MountFails
    <3>3. Written'
      BY <2>1, <2>3, <3>2 DEF FollowInv, Written, Copying, At, TypeInv, RequestFits, Pushing, Pushes
    <3>4. \A p \in Paths : Follows(p)'
      BY <2>1, <2>3, <3>2 DEF FollowInv, Settled, Follows, At, Tip
    <3> QED BY <2>1, <3>3, <3>4 DEF Mirrors, Settled, Copying
  <2> QED BY <2>2, <2>3
<1> QED BY <1>1, <1>2, <1>3, <1>4, <1>5, <1>6, <1>7, <1>8 DEF Next

LEMMA InitFollowInv == Init => FollowInv
<1> SUFFICES ASSUME Init PROVE FollowInv
  OBVIOUS
<1>1. changes = 0 /\ \A s \in Sessions : pc[s] = "idle" /\ parent[s] = <<>>
  BY DEF Init
<1>2. Fresh(head)
  <2>1. CASE head = <<>>
    BY <2>1 DEF Fresh
  <2>2. CASE head = <<Commit(FirstTree, "mount", 0)>>
    BY <1>1, <2>2 DEF Fresh, Last, Commit
  <2> QED BY <2>1, <2>2 DEF Init
<1>3. Numbered
  BY <1>1, <1>2 DEF Init, Numbered, Fresh, Coming, Copying
<1> QED BY <1>1, <1>3 DEF Init, FollowInv, Written, Mirrors, Settled, Follows, Copying

\* The working copy follows HEAD while no mount's tree is copied into it, but for
\* the files of pushes that failed or were written meanwhile, and for those that
\* were new when a mount's push, which had not seen them, took the branch away.
THEOREM WorkingCopyFollowsHead == Spec => []FolderFollowsHead
<1>1. FollowInv => FolderFollowsHead
  BY DEF FollowInv, Settled, Follows, At, FolderFollowsHead
<1> QED
  BY <1>1, InitTypeInv, StepTypeInv, InitFollowInv, StepFollowInv, PTL DEF Spec

-----------------------------------------------------------------------------
(* When a push replaces the version it was based on. *)

BaseIsTip == \A s \in Sessions : InPush(s) => Tip[request[s].path] = request[s].base

LEMMA BaseIsTipStep ==
  TypeInv /\ Apart /\ BaseIsTip /\ [Next]_vars /\ [~MountForces]_vars => BaseIsTip'
<1> SUFFICES ASSUME TypeInv, Apart, BaseIsTip, [Next]_vars, [~MountForces]_vars
             PROVE  BaseIsTip'
  OBVIOUS
<1> USE DEF InPush, BaseIsTip, TypeInv, TypeOK
<1>1. CASE UNCHANGED vars
  BY <1>1 DEF vars, session, Tip
<1>2. ASSUME NEW s \in Sessions, AskRead(s) \/ AskPush(s) PROVE BaseIsTip'
  BY <1>2 DEF AskRead, AskPush, Ask, Goto, Tip
<1>3. ASSUME NEW s \in Sessions,
             \/ \E p \in Paths : Verdict(s, p)
             \/ Missing(s) \/ Told(s) \/ SetRefFails(s) \/ WriteFails(s)
      PROVE  BaseIsTip'
  BY <1>3 DEF Verdict, Missing, Told, SetRefFails, WriteFails, Reply, Goto, Tip
<1>4. ASSUME NEW s \in Sessions, CheckBase(s) PROVE BaseIsTip'
  BY <1>4 DEF CheckBase, Conflict, Reply, Goto, Tip
<1>5. ASSUME NEW s \in Sessions, ReadHead(s) \/ WriteFile(s) PROVE BaseIsTip'
  BY <1>5 DEF ReadHead, WriteFile, Goto, Tip
<1>6. ASSUME NEW s \in Sessions, SetRef(s) PROVE BaseIsTip'
  <2>1. /\ pc[s] = "ref" /\ pc' = [pc EXCEPT ![s] = "told"] /\ request' = request
        /\ head = parent[s] /\ head' = Committed(s) /\ request[s] \in Pushes
    BY <1>6 DEF SetRef, MoveHead, Goto, RequestFits, Pushing
  <2>2. Tip' = [Tip EXCEPT ![request[s].path] = request[s].content]
    BY <2>1, CommittedType DEF Tip
  <2> SUFFICES ASSUME NEW d \in Sessions, InPush(d)'
               PROVE  Tip'[request[d].path] = request[d].base
    BY <2>1
  <2>3. d # s /\ InPush(d)
    BY <2>1
  <2>4. request[d].path # request[s].path
    BY <2>1, <2>3 DEF Apart
  <2>5. request[d].path \in Paths /\ DOMAIN Tip = Paths
    BY <2>3, TipType DEF RequestFits, Pushing, Pushes, Trees
  <2> QED BY <2>2, <2>3, <2>4, <2>5
<1>7. CASE MountReads \/ Mirror \/ MountFails
  BY <1>7 DEF MountReads, Mirror, MountFails, session, Tip
<1> QED BY <1>1, <1>2, <1>3, <1>4, <1>5, <1>6, <1>7 DEF Next

\* "The server rejects the push as a conflict if its current version has moved
\* on" (lib.rs:57) is so as long as no mount pushes and no two sessions are
\* between the check and the commit of the same file.
THEOREM ApartPushesReplaceTheirBase ==
  Spec /\ []Apart /\ NoMountPushes => PushReplacesItsBase
<1>1. Init => BaseIsTip
  BY DEF Init, BaseIsTip, InPush
<1>2. TypeInv /\ BaseIsTip =>
        [ \A s \in Sessions : SetRef(s) => Tip[request[s].path] = request[s].base ]_vars
  BY DEF BaseIsTip, InPush, SetRef
<1> QED
  BY <1>1, <1>2, BaseIsTipStep, AlwaysTypeInv, PTL
  DEF Spec, NoMountPushes, PushReplacesItsBase
=============================================================================
