---------------------------- MODULE SyncInterview ----------------------------
(***************************************************************************)
(* bosync-sync/src/lib.rs: sessions that serve one repository, each a       *)
(* process or a thread of an SSH server, one request after another.  Every  *)
(* call into the git backend reads HEAD anew, so what one request does is   *)
(* not atomic: a read asks for each file on its own, and a push checks its  *)
(* base, reads HEAD's commit, writes the working copy and sets HEAD.        *)
(*                                                                          *)
(* A blob id is the content it names.  HEAD is the history that leads to    *)
(* it, a sequence of commits, empty for an unborn branch; no two commits    *)
(* have the same id.  A manifest is a status that lists no file; a patch is *)
(* a status that wants no new files, with the diff, text made from two      *)
(* immutable blobs, left out.                                               *)
(***************************************************************************)
EXTENDS Integers, FiniteSets, Sequences, SequencesExt

CONSTANTS Sessions, Paths, Contents, Absent,
          Readers,      \* bound: the sessions that also read
          None,         \* no mount's push is under way
          Unasked,      \* a file the reply says nothing of
          FirstTree,    \* what the repository holds, unless HEAD is unborn
          MaxChanges    \* bound of the pushes, of sessions and of mounts

Trees == [Paths -> Contents \cup {Absent}]

Histories == Seq([tree : Trees, id : (Sessions \cup {"mount"}) \X Nat])

\* A mount's push copies its commit's objects, then the commit's files; `old'
\* are the paths of the branch as it was before.
MountPushes ==
  [stage : {"objects", "files"}, old : SUBSET Paths, history : Histories]

ASSUME InterviewAssumption ==
  /\ Absent \notin Contents /\ Unasked \notin Contents \cup {Absent}
  /\ Readers \subseteq Sessions /\ FirstTree \in Trees
  /\ MaxChanges \in Nat
  /\ "mount" \notin Sessions /\ None \notin MountPushes

VARIABLES
  head,     \* HEAD's history
  folder,   \* the files of the repository's working copy
  push,     \* the push of a mount that is under way
  pc,       \* where each session is in its request
  request,
  parent,   \* the commit a push builds on
  answer,   \* what the reply says of each file
  outcome,  \* how the last request ended
  during,   \* history: what HEAD has been since the request arrived
  spoiled,  \* history: files a push has left behind, or written too early, or
            \* committed unseen by a mount's push that was under way
  changes

session == <<pc, request, parent, answer, outcome>>
vars == <<head, folder, push, session, during, spoiled, changes>>

EmptyTree == [p \in Paths |-> Absent]

Commit(tree, by, n) == [tree |-> tree, id |-> <<by, n>>]

Tree(history) == IF history = <<>> THEN EmptyTree ELSE Last(history).tree

Tip == Tree(head)

Pushes == [op : {"push"}, path : Paths, base : Contents \cup {Absent},
           content : Contents]

Reads == [op : {"read"}, files : SUBSET Paths, new_files : BOOLEAN]

Unanswered == [p \in Paths |-> Unasked]

Init ==
  /\ head \in {<<>>, <<Commit(FirstTree, "mount", 0)>>}
  /\ folder = Tip /\ push = None
  /\ pc = [s \in Sessions |-> "idle"]
  /\ request = [s \in Sessions |->
                  [op |-> "read", files |-> {}, new_files |-> FALSE]]
  /\ parent = [s \in Sessions |-> <<>>]
  /\ answer = [s \in Sessions |-> Unanswered]
  /\ outcome = [s \in Sessions |-> "none"]
  /\ during = [s \in Sessions |-> {}]
  /\ spoiled = {} /\ changes = 0

Goto(s, where) == pc' = [pc EXCEPT ![s] = where]

Reply(s, how) == Goto(s, "idle") /\ outcome' = [outcome EXCEPT ![s] = how]

\* What a mount's push copies, and the paths whose files it writes or removes.
Copying(what) == push # None /\ push.stage = what

Mirrored ==
  {p \in Paths : p \in push.old \/ Tree(push.history)[p] # Absent}

\* HEAD becomes `history', under every request that is being served.
MoveHead(history) ==
  /\ head' = history
  /\ during' = [s \in Sessions |->
                  IF pc[s] = "idle" THEN during[s]
                  ELSE during[s] \cup {Tree(history)}]

-----------------------------------------------------------------------------
Ask(s, r, where) ==
  /\ pc[s] = "idle" /\ Goto(s, where)
  /\ request' = [request EXCEPT ![s] = r]
  /\ answer' = [answer EXCEPT ![s] = Unanswered]
  /\ outcome' = [outcome EXCEPT ![s] = "none"]
  /\ during' = [during EXCEPT ![s] = {Tip}]
  /\ UNCHANGED <<head, folder, push, parent, spoiled>>

AskRead(s) ==
  /\ s \in Readers
  /\ \E r \in Reads : Ask(s, r, "look")
  /\ UNCHANGED changes

AskPush(s) ==
  /\ changes < MaxChanges /\ changes' = changes + 1
  /\ \E r \in Pushes : Ask(s, r, "check")

-----------------------------------------------------------------------------
(* Manifest, status and patch. *)

\* The files the client listed that have no verdict yet.
ToJudge(s) == {p \in request[s].files : answer[s][p] = Unasked}

\* Variant: the session answers from the tree it saw first.
VerdictFromFirst(s, p) ==
  /\ pc[s] = "look" /\ p \in ToJudge(s)
  /\ answer' = [answer EXCEPT ![s][p] = FirstTree[p]]
  /\ UNCHANGED <<head, folder, push, pc, request, parent, outcome, during,
                 spoiled, changes>>

\* One listed file: its blob id at HEAD, or that it is not there.
Verdict(s, p) ==
  /\ pc[s] = "look" /\ p \in ToJudge(s)
  /\ answer' = [answer EXCEPT ![s][p] = Tip[p]]
  /\ UNCHANGED <<head, folder, push, pc, request, parent, outcome, during,
                 spoiled, changes>>

\* The walk of HEAD, for the files the client did not list.
Missing(s) ==
  /\ pc[s] = "look" /\ ToJudge(s) = {}
  /\ answer' = [answer EXCEPT ![s] =
                  [p \in Paths |->
                     IF p \notin request[s].files /\ request[s].new_files
                     THEN Tip[p] ELSE @[p]]]
  /\ Reply(s, "answered")
  /\ UNCHANGED <<head, folder, push, request, parent, during, spoiled,
                 changes>>

-----------------------------------------------------------------------------
(* Push. *)

Conflict(s) == request[s].base # Tip[request[s].path]

\* The file's id at HEAD is compared with the base, then with the content.
CheckBase(s) ==
  /\ pc[s] = "check"
  /\ LET current == Tip[request[s].path]
     IN  /\ IF Conflict(s) THEN Reply(s, "conflict")
            ELSE IF current = request[s].content THEN Reply(s, "unchanged")
            ELSE Goto(s, "read") /\ UNCHANGED outcome
         /\ answer' = [answer EXCEPT ![s][request[s].path] = current]
  /\ UNCHANGED <<head, folder, push, request, parent, during, spoiled,
                 changes>>

\* Variant: the first commit is given a parent too, one that does not exist.
ReadHeadAlways(s) ==
  /\ pc[s] = "read" /\ Goto(s, "write")
  /\ parent' = [parent EXCEPT ![s] = IF head = <<>> THEN <<None>> ELSE head]
  /\ UNCHANGED <<head, folder, push, request, answer, outcome, during,
                 spoiled, changes>>

\* commit(): HEAD's commit and its tree.
ReadHead(s) ==
  /\ pc[s] = "read" /\ Goto(s, "write")
  /\ parent' = [parent EXCEPT ![s] = head]
  /\ UNCHANGED <<head, folder, push, request, answer, outcome, during,
                 spoiled, changes>>

\* ... the file, before the commit exists ...
WriteFile(s) ==
  /\ pc[s] = "write" /\ Goto(s, "ref")
  /\ folder' = [folder EXCEPT ![request[s].path] = request[s].content]
  /\ spoiled' = IF Copying("files")
                THEN spoiled \cup ({request[s].path} \cap Mirrored) ELSE spoiled
  /\ UNCHANGED <<head, push, request, parent, answer, outcome, during,
                 changes>>

WriteFails(s) ==
  /\ pc[s] = "write" /\ Reply(s, "error")
  /\ spoiled' = spoiled \cup {request[s].path}
  /\ UNCHANGED <<head, folder, push, request, parent, answer, during,
                 changes>>

Committed(s) ==
  Append(parent[s],
         Commit([Tree(parent[s]) EXCEPT ![request[s].path] =
                   request[s].content], s, changes))

\* Variant: HEAD is set whatever it points at.
SetRefAny(s) ==
  /\ pc[s] = "ref" /\ Goto(s, "told")
  /\ MoveHead(Committed(s))
  /\ UNCHANGED <<folder, push, request, parent, answer, outcome, spoiled,
                 changes>>

\* ... and HEAD, if it is still the commit that was read.
SetRef(s) ==
  /\ pc[s] = "ref" /\ Goto(s, "told")
  /\ head = parent[s]
  /\ MoveHead(Committed(s))
  /\ UNCHANGED <<folder, push, request, parent, answer, outcome, spoiled,
                 changes>>

\* Variant: the reference edit's error is dropped.
SetRefFailsSilently(s) ==
  /\ pc[s] = "ref" /\ Goto(s, "told")
  /\ head # parent[s]
  /\ UNCHANGED <<head, folder, push, request, parent, answer, outcome,
                 during, spoiled, changes>>

SetRefFails(s) ==
  /\ pc[s] = "ref" /\ Reply(s, "error")
  /\ head # parent[s]
  /\ spoiled' = spoiled \cup {request[s].path}
  /\ UNCHANGED <<head, folder, push, request, parent, answer, during,
                 changes>>

\* The id in the reply is read from HEAD once more.
Told(s) ==
  /\ pc[s] = "told" /\ Reply(s, "committed")
  /\ answer' = [answer EXCEPT ![s][request[s].path] = Tip[request[s].path]]
  /\ UNCHANGED <<head, folder, push, request, parent, during, spoiled,
                 changes>>

-----------------------------------------------------------------------------
(* A mount pushes to this repository. *)

\* The branch is read; the mount's commit may leave some of it behind.
MountReads ==
  /\ push = None
  /\ changes < MaxChanges /\ changes' = changes + 1
  /\ \E n \in 0..Len(head), p \in Paths, content \in Contents \cup {Absent} :
       LET base == SubSeq(head, 1, n)
           tree == [Tree(base) EXCEPT ![p] = content]
       IN  push' = [stage |-> "objects", old |-> {q \in Paths : Tip[q] # Absent},
                    history |-> Append(base, Commit(tree, "mount", changes'))]
  /\ UNCHANGED <<head, folder, session, during, spoiled>>

\* The branch is forced onto the commit, once its objects are there.  A file a
\* session has committed meanwhile is in neither tree the push knows of.
MountForces ==
  /\ Copying("objects") /\ push' = [push EXCEPT !.stage = "files"]
  /\ MoveHead(push.history)
  /\ spoiled' = spoiled \cup {p \in Paths \ Mirrored : Tip[p] # Absent}
  /\ UNCHANGED <<folder, session, changes>>

\* Variant: what the tree no longer holds stays on disk.
MirrorWritesOnly ==
  /\ Copying("files") /\ push' = None
  /\ folder' = [p \in Paths |-> IF Tree(push.history)[p] = Absent THEN folder[p]
                                ELSE Tree(push.history)[p]]
  /\ UNCHANGED <<head, session, during, spoiled, changes>>

\* The working copy is made to match that commit, not HEAD.
Mirror ==
  /\ Copying("files") /\ push' = None
  /\ folder' = [p \in Paths |-> IF p \in Mirrored THEN Tree(push.history)[p]
                                ELSE folder[p]]
  /\ UNCHANGED <<head, session, during, spoiled, changes>>

\* The objects cannot be copied, or after some of the files one cannot.
MountFails ==
  /\ push # None /\ push' = None
  /\ \E done \in SUBSET {p \in Mirrored : Copying("files")} :
       /\ folder' = [p \in Paths |-> IF p \in done THEN Tree(push.history)[p]
                                     ELSE folder[p]]
       /\ spoiled' = IF Copying("files") THEN spoiled \cup (Mirrored \ done)
                     ELSE spoiled
  /\ UNCHANGED <<head, session, during, changes>>

Next ==
  \/ \E s \in Sessions :
       \/ AskRead(s) \/ AskPush(s)
       \/ \E p \in Paths : Verdict(s, p)
       \/ Missing(s)
       \/ CheckBase(s) \/ ReadHead(s) \/ WriteFile(s) \/ WriteFails(s)
       \/ SetRef(s) \/ SetRefFails(s) \/ Told(s)
  \/ MountReads \/ MountForces \/ Mirror \/ MountFails

Spec == Init /\ [][Next]_vars

-----------------------------------------------------------------------------
TypeOK ==
  /\ head \in Histories /\ parent \in [Sessions -> Histories]
  /\ folder \in Trees /\ push \in MountPushes \cup {None}
  /\ pc \in [Sessions -> {"idle", "look", "check", "read", "write", "ref",
                          "told"}]
  /\ request \in [Sessions -> Pushes \cup Reads]
  /\ answer \in [Sessions -> [Paths -> Contents \cup {Absent, Unasked}]]
  /\ outcome \in [Sessions -> {"none", "answered", "committed", "unchanged",
                               "conflict", "error"}]
  /\ during \in [Sessions -> SUBSET Trees]
  /\ spoiled \subseteq Paths /\ changes \in Nat

\* However the sessions interleave, and with a base that was checked long ago,
\* a push adds one commit to HEAD as it is at that moment and changes one file
\* in it: no other session's commit is lost, no other file set back.
PushesAppend ==
  [][ \A s \in Sessions :
        pc[s] = "ref" /\ head' # head /\ pc'[s] # pc[s] =>
          /\ Front(head') = head
          /\ Last(head').tree = [Tip EXCEPT ![request[s].path] =
                                   request[s].content] ]_vars

\* Whatever a reply says of a file was so at some time while the request was
\* served, although each file is looked up under a HEAD of its own.
AnswersAreRecent ==
  \A s \in Sessions, p \in Paths :
    answer[s][p] # Unasked => \E t \in during[s] : answer[s][p] = t[p]

\* A push that was told it succeeded took effect while it was served, and what
\* it was based on was HEAD's version at some time in it as well.
CommittedTookEffect ==
  \A s \in Sessions :
    outcome[s] = "committed" =>
      LET r == request[s]
      IN  /\ \E t \in during[s] : t[r.path] = r.content
          /\ \E t \in during[s] : t[r.path] = r.base

\* The working copy follows HEAD while no mount's tree is copied into it (git
\* lib.rs:456, "`git status` stays clean"), although a session writes the file
\* before its commit exists, and a mount reads the branch long before it forces
\* it and copies its tree after.  `spoiled' tells the files this is not so of:
\* a session's push of the file failed or wrote it while a mount's tree was
\* copied, a mount's push failed before it, or a session committed it new
\* while a mount's push was copying objects, which then took the branch away.
FolderFollowsHead ==
  ~Copying("files") =>
    \A p \in Paths :
      (\A s \in Sessions :
         pc[s] \in {"write", "ref"} => request[s].path # p) /\ p \notin spoiled
        => folder[p] = Tip[p]

\* lib.rs:57, "the server rejects the push as a conflict if its current version
\* has moved on since then": what a push replaces is what it was based on.
PushReplacesItsBase ==
  [][ \A s \in Sessions :
        SetRef(s) => Tip[request[s].path] = request[s].base ]_vars

\* It is, while no mount pushes and no two sessions are between the check and
\* the commit of one file: the check holds until the reference edit.
InPush(s) == pc[s] \in {"read", "write", "ref"}

Apart ==
  \A s, d \in Sessions :
    s # d /\ InPush(s) /\ InPush(d) => request[s].path # request[d].path

NoMountPushes == [][~MountForces]_vars
=============================================================================
