-------------------------- MODULE WriteBackProofs --------------------------
(* Threads that commit to one HEAD, a fetch, users and the platform: no       *)
(* difference is forgotten, and placeholders can be filled, for any number of *)
(* files, filter threads, edits, renames, fetches and failures.              *)
EXTENDS WriteBack, SequenceTheorems, TLAPS

LEMMA Apart ==
  /\ "loop" \in Threads /\ "loop" \notin Filters
  /\ \A f \in Filters : f \in Threads /\ f # "loop"
BY WriteBackAssumption DEF Threads, WriteBackAssumption

LEMMA TypeInit == Init => TypeOK
<1> SUFFICES ASSUME Init PROVE TypeOK
  OBVIOUS
<1>1. /\ FirstTree \in Trees /\ head \in Trees
      /\ disk \in [Paths -> Seq(Nat) \cup {Absent, Ghost}]
  BY WriteBackAssumption DEF Init, WriteBackAssumption, Trees
<1>2. IsEdit(Nothing) /\ Unwalked \in Trees
  BY DEF IsEdit, Nothing, Unwalked, Trees
<1>3. DOMAIN change = Threads /\ \A t \in Threads : IsEdit(change[t])
  BY <1>2 DEF Init
<1>4. DOMAIN entries = {}
  BY DEF Init, Nothing
<1> QED BY <1>1, <1>2, <1>3, <1>4 DEF Init, TypeOK, Stages
-----------------------------------------------------------------------------
(* Where the threads are, and what they then have in hand. *)

Shape ==
  /\ \A f \in Filters : renaming[f] = None <=> step[f] = "idle"
  /\ step["loop"] \in {"idle", "fetch", "walk", "files"} =>
       DOMAIN change["loop"] = {}
  /\ \A f \in Filters :
       step[f] \in {"idle", "collect", "read"} => DOMAIN change[f] = {}
  /\ \A f \in Filters : DOMAIN change[f] \subseteq Renamed(f)
  /\ \A p, q \in DOMAIN change["loop"] : p = q
  /\ todo # {} => step["loop"] = "files"
  /\ \A t \in Threads : base[t] \in {None, Moved, head}
  /\ \A t \in Threads : step[t] \in {"write", "set"} => base[t] # None

\* Bytes put into the folder.
LEMMA PutTypes ==
  ASSUME TypeOK, NEW files, files \subseteq Paths, NEW bytes,
         \A p \in files : bytes[p] \in Seq(Nat) \cup {Absent},
         NEW lost \in SUBSET Paths, Put(files, bytes, lost)
  PROVE  /\ disk' \in [Paths -> Seq(Nat) \cup {Absent, Ghost}]
         /\ size' \in [Paths -> Nat] /\ dirty' \subseteq Paths
         /\ missed' \subseteq Paths
<1>1. disk' \in [Paths -> Seq(Nat) \cup {Absent, Ghost}]
  BY DEF Put, TypeOK
<1> QED BY <1>1 DEF Put, TypeOK

LEMMA FinishTypes ==
  ASSUME TypeOK, NEW t \in Threads, Finish(t)
  PROVE  /\ step'[t] = "idle" /\ step' \in [Threads -> Stages]
         /\ \A u \in Threads \ {t} : step'[u] = step[u]
         /\ DOMAIN change' = Threads /\ \A u \in Threads : IsEdit(change'[u])
         /\ DOMAIN change'[t] = {} /\ \A u \in Threads \ {t} : change'[u] = change[u]
         /\ renaming' \in [Filters -> (Paths \X Paths) \cup {None}]
         /\ \A f \in Filters : renaming'[f] = IF f = t THEN None ELSE renaming[f]
<1>1. DOMAIN Nothing = {} /\ IsEdit(Nothing)
  BY DEF Nothing, IsEdit
<1>2. /\ change' = [change EXCEPT ![t] = Nothing] /\ DOMAIN change = Threads
      /\ \A u \in Threads : IsEdit(change[u])
  BY DEF Finish, TypeOK
<1> HIDE DEF Nothing, IsEdit
<1>3. change'[t] = Nothing /\ \A u \in Threads \ {t} : change'[u] = change[u]
  BY <1>2
<1>4. /\ step'[t] = "idle" /\ step' \in [Threads -> Stages]
      /\ \A u \in Threads \ {t} : step'[u] = step[u]
  BY DEF Finish, Goto, TypeOK, Stages
<1>5. /\ renaming' \in [Filters -> (Paths \X Paths) \cup {None}]
      /\ \A f \in Filters : renaming'[f] = IF f = t THEN None ELSE renaming[f]
  BY DEF Finish, TypeOK
<1> QED BY <1>1, <1>2, <1>3, <1>4, <1>5

LEMMA DoneTypes ==
  ASSUME TypeOK, NEW t \in Threads, Done(t)
  PROVE  /\ Finish(t)
         /\ base' \in [Threads -> Trees \cup {None, Moved}] /\ base'[t] = None
         /\ \A u \in Threads \ {t} : base'[u] = base[u]
BY DEF Done, TypeOK

LEMMA MoveTypes ==
  ASSUME TypeOK, NEW t \in Threads, NEW tree \in Trees, Move(tree, t)
  PROVE  /\ head' \in Trees /\ base' \in [Threads -> Trees \cup {None, Moved}]
         /\ base'[t] = None
         /\ \A u \in Threads \ {t} :
              base'[u] = IF base[u] = None THEN None ELSE Moved
BY DEF Move, TypeOK

\* A commit of a tree with some paths edited.
LEMMA AppliedType ==
  ASSUME NEW tree \in Trees, NEW edit, IsEdit(edit)
  PROVE  Applied(tree, edit) \in Trees
BY DEF Applied, IsEdit, Trees

\* The tree a thread commits to is HEAD's.
LEMMA BaseIsHead ==
  ASSUME TypeOK, Shape, NEW t \in Threads, step[t] = "set", base[t] # Moved
  PROVE  base[t] = head /\ Applied(base[t], change[t]) \in Trees
<1>1. base[t] = head /\ head \in Trees /\ IsEdit(change[t])
  BY DEF Shape, TypeOK
<1> QED BY <1>1, AppliedType

USE WriteBackAssumption

LEMMA TypeOfUser == TypeOK /\ User => TypeOK'
<1> SUFFICES ASSUME TypeOK, NEW p \in Paths,
                    \/ \E content \in Contents : UserSave(p, content)
                    \/ UserDelete(p)
                    \/ \E q \in Paths : UserRename(p, q)
             PROVE  TypeOK'
  BY DEF User
<1>1. ASSUME NEW bytes \in Seq(Nat) \cup {Absent}, UserOp,
             Put({p}, [q \in {p} |-> bytes], {}),
             UNCHANGED <<git, commit, fetch, projection, late, fetches, faults>>
      PROVE  TypeOK'
  <2> DEFINE file == [q \in {p} |-> bytes]
  <2>1. /\ Put({p}, file, {}) /\ {} \in SUBSET Paths
        /\ \A q \in {p} : file[q] \in Seq(Nat) \cup {Absent}
    BY <1>1
  <2> HIDE DEF file
  <2>2. /\ disk' \in [Paths -> Seq(Nat) \cup {Absent, Ghost}]
        /\ size' \in [Paths -> Nat] /\ dirty' \subseteq Paths
        /\ missed' \subseteq Paths
    BY <2>1, PutTypes
  <2> QED BY <1>1, <2>2 DEF UserOp, TypeOK, git, commit, fetch, projection
<1>2. CASE \E content \in Contents : UserSave(p, content)
  BY <1>1, <1>2, WriteBackAssumption DEF UserSave, WriteBackAssumption
<1>3. CASE UserDelete(p)
  BY <1>1, <1>3 DEF UserDelete
<1>4. ASSUME NEW q \in Paths, UserRename(p, q)
      PROVE  TypeOK'
  <2>1. /\ disk' \in [Paths -> Seq(Nat) \cup {Absent, Ghost}]
        /\ size' \in [Paths -> Nat] /\ dirty' \subseteq Paths
        /\ missed' \subseteq Paths
    BY <1>4 DEF UserRename, TypeOK
  <2>2. PICK f \in Filters : /\ step[f] = "idle" /\ Goto(f, "collect")
                             /\ renaming' = [renaming EXCEPT ![f] = <<p, q>>]
    BY <1>4 DEF UserRename
  <2>3. /\ step' \in [Threads -> Stages]
        /\ renaming' \in [Filters -> (Paths \X Paths) \cup {None}]
    BY <2>2, Apart DEF Goto, TypeOK, Stages
  <2>4. ops' \in Nat
    BY <1>4 DEF UserRename, UserOp, TypeOK
  <2> QED
    BY <1>4, <2>1, <2>3, <2>4 DEF UserRename, TypeOK, git, fetch, projection
<1> QED BY <1>2, <1>3, <1>4

\* The commit's steps, by any thread.
LEMMA TypeOfCommit ==
  ASSUME TypeOK, Shape, NEW t \in Threads,
         ReadHead(t) \/ WriteFiles(t) \/ WriteFails(t) \/ SetRef(t) \/ SetRefFails(t)
  PROVE  TypeOK'
<1>1. CASE ReadHead(t)
  <2>1. /\ step' \in [Threads -> Stages]
        /\ base' \in [Threads -> Trees \cup {None, Moved}]
    BY <1>1 DEF ReadHead, Goto, TypeOK, Stages
  <2> QED
    BY <1>1, <2>1 DEF ReadHead, TypeOK, git, folder, fetch, projection, history,
                      bounds
<1>2. /\ Touched(change[t]) \subseteq Paths /\ DOMAIN change[t] \subseteq Paths
      /\ \A p \in Touched(change[t]) : change[t][p] \in Seq(Nat) \cup {Absent}
  BY DEF TypeOK, IsEdit, Touched
<1>3. ASSUME NEW files \in SUBSET Touched(change[t]), NEW lost \in SUBSET Paths,
             Put(files, change[t], lost)
      PROVE  /\ disk' \in [Paths -> Seq(Nat) \cup {Absent, Ghost}]
             /\ size' \in [Paths -> Nat] /\ dirty' \subseteq Paths
             /\ missed' \subseteq Paths
  BY <1>2, <1>3, PutTypes
<1>4. CASE WriteFiles(t)
  <2>1. /\ disk' \in [Paths -> Seq(Nat) \cup {Absent, Ghost}]
        /\ size' \in [Paths -> Nat] /\ dirty' \subseteq Paths
        /\ missed' \subseteq Paths
    <3>1. Put(Touched(change[t]), change[t], {})
      BY <1>4 DEF WriteFiles
    <3>2. {} \in SUBSET Paths
      OBVIOUS
    <3> QED BY <1>3, <3>1, <3>2
  <2>2. step' \in [Threads -> Stages]
    BY <1>4 DEF WriteFiles, Goto, TypeOK, Stages
  <2> QED
    BY <1>4, <2>1, <2>2 DEF WriteFiles, TypeOK, git, fetch, projection, bounds
<1>5. CASE WriteFails(t)
  <2>1. /\ disk' \in [Paths -> Seq(Nat) \cup {Absent, Ghost}]
        /\ size' \in [Paths -> Nat] /\ dirty' \subseteq Paths
        /\ missed' \subseteq Paths
    <3> DEFINE files == Touched(change[t]) \cap Removed(change[t])
               lost == DOMAIN change[t] \ Removed(change[t])
    <3>1. files \in SUBSET Touched(change[t]) /\ lost \in SUBSET Paths
      BY <1>2
    <3>2. Put(files, change[t], lost)
      BY <1>5 DEF WriteFails
    <3> HIDE DEF files, lost
    <3> QED BY <1>3, <3>1, <3>2
  <2>2. Done(t) /\ UNCHANGED <<git, fetch, projection, late, ops, fetches>>
    BY <1>5 DEF WriteFails
  <2>3. faults' \in Nat
    BY <1>5 DEF WriteFails, Fault, TypeOK
  <2> QED
    BY <2>1, <2>2, <2>3, DoneTypes, FinishTypes DEF TypeOK, git, fetch, projection
<1>6. CASE SetRef(t)
  <2>1. head' \in Trees /\ base' \in [Threads -> Trees \cup {None, Moved}]
    BY <1>6, BaseIsHead, MoveTypes DEF SetRef
  <2>2. owed' \in BOOLEAN
    BY <1>6 DEF SetRef, TypeOK
  <2>3. Finish(t) /\ UNCHANGED <<folder, fetch, projection, history, bounds>>
    BY <1>6 DEF SetRef
  <2> QED
    BY <2>1, <2>2, <2>3, FinishTypes
       DEF TypeOK, folder, fetch, projection, history, bounds
<1>7. CASE SetRefFails(t)
  <2>1. missed' \subseteq Paths
    BY <1>2, <1>7 DEF SetRefFails, TypeOK, Removed
  <2>2. Done(t) /\ UNCHANGED <<git, folder, fetch, projection, late, bounds>>
    BY <1>7 DEF SetRefFails
  <2> QED
    BY <2>1, <2>2, DoneTypes, FinishTypes
       DEF TypeOK, git, folder, fetch, projection, bounds
<1> QED BY <1>1, <1>4, <1>5, <1>6, <1>7

\* A file is read to be committed, or it cannot be.
LEMMA TypeOfReads ==
  ASSUME TypeOK, NEW t \in Threads, NEW p \in Paths, NEW next \in {"compare", "base"},
         ReadFile(t, p, next) \/ ReadFails(t, p),
         UNCHANGED <<git, folder, fetch, projection, ops, fetches>>
  PROVE  TypeOK'
<1>1. CASE ReadFile(t, p, next)
  <2>1. disk[p] \in Seq(Nat)
    BY <1>1 DEF ReadFile, TypeOK
  <2>2. IsEdit([q \in {p} |-> disk[p]])
    BY <2>1 DEF IsEdit
  <2>3. DOMAIN change' = Threads /\ \A u \in Threads : IsEdit(change'[u])
    BY <1>1, <2>2 DEF ReadFile, TypeOK
  <2>4. step' \in [Threads -> Stages]
    BY <1>1 DEF ReadFile, Goto, TypeOK, Stages
  <2> QED
    BY <1>1, <2>3, <2>4
       DEF ReadFile, TypeOK, git, folder, fetch, projection, history
<1>2. CASE ReadFails(t, p)
  <2>1. late' \subseteq Paths /\ missed' \subseteq Paths /\ faults' \in Nat
    BY <1>2 DEF ReadFails, Fault, TypeOK, IsEdit
  <2>2. Done(t)
    BY <1>2 DEF ReadFails
  <2> QED
    BY <2>1, <2>2, DoneTypes, FinishTypes DEF TypeOK, git, folder, fetch, projection
<1> QED BY <1>1, <1>2

LEMMA TypeOfReconcile ==
  TypeOK /\ ((\E p \in Paths : Drain(p)) \/ ReconcileReads \/ Compare) => TypeOK'
<1> SUFFICES ASSUME TypeOK,
                    (\E p \in Paths : Drain(p)) \/ ReconcileReads \/ Compare
             PROVE  TypeOK'
  OBVIOUS
<1>1. ASSUME NEW p \in Paths, Drain(p)
      PROVE  TypeOK'
  <2> DEFINE e == [q \in {p} |-> Absent]
  <2>1. IsEdit(e)
    BY DEF IsEdit
  <2> HIDE DEF e
  <2>2. change' = change \/ change' = [change EXCEPT !["loop"] = e]
    BY <1>1 DEF Drain, e
  <2>3. DOMAIN change' = Threads /\ \A u \in Threads : IsEdit(change'[u])
    BY <2>1, <2>2 DEF TypeOK
  <2>4. step' \in [Threads -> Stages]
    BY <1>1 DEF Drain, Goto, TypeOK, Stages
  <2>5. dirty' \subseteq Paths
    BY <1>1 DEF Drain, TypeOK
  <2>6. UNCHANGED <<git, disk, size, base, renaming, fetch, projection, history,
                    bounds>>
    BY <1>1 DEF Drain
  <2> QED
    BY <2>3, <2>4, <2>5, <2>6 DEF TypeOK, git, fetch, projection, history, bounds
<1>2. CASE ReconcileReads
  <2>1. PICK p \in DOMAIN change["loop"] :
          ReadFile("loop", p, "compare") \/ ReadFails("loop", p)
    BY <1>2 DEF ReconcileReads
  <2>2. p \in Paths /\ "loop" \in Threads
    BY Apart DEF TypeOK, IsEdit
  <2>3. UNCHANGED <<git, folder, fetch, projection, ops, fetches>>
    BY <1>2 DEF ReconcileReads
  <2> QED BY <2>1, <2>2, <2>3, TypeOfReads
<1>3. CASE Compare
  <2>1. CASE Done("loop") /\ missed' = missed \cup (DOMAIN change["loop"] \cap Renaming)
    <3>1. missed' \subseteq Paths
      BY <2>1, Apart DEF TypeOK, IsEdit
    <3> QED
      BY <1>3, <2>1, <3>1, Apart, DoneTypes, FinishTypes
         DEF Compare, TypeOK, git, folder, fetch, projection, bounds
  <2>2. CASE Goto("loop", "base") /\ UNCHANGED <<change, base, renaming, missed>>
    <3>1. step' \in [Threads -> Stages]
      BY <2>2 DEF Goto, TypeOK, Stages
    <3> QED
      BY <1>3, <2>2, <3>1 DEF Compare, TypeOK, git, folder, fetch, projection, bounds
  <2> QED BY <1>3, <2>1, <2>2 DEF Compare
<1> QED BY <1>1, <1>2, <1>3

LEMMA TypeOfRenames ==
  ASSUME TypeOK, Shape, NEW f \in Filters, Collect(f) \/ RenamedReads(f)
  PROVE  TypeOK'
<1>1. f \in Threads
  BY Apart
<1>2. step[f] # "idle" => renaming[f] \in Paths \X Paths
  BY DEF Shape, TypeOK
<1>3. CASE Collect(f)
  <2> DEFINE old == renaming[f][1]
             new == renaming[f][2]
             e == [p \in {old, new} |-> IF p = new THEN head[old] ELSE Absent]
  <2>1. old \in Paths /\ new \in Paths
    BY <1>2, <1>3 DEF Collect
  <2>2. head[old] \in Seq(Nat) \cup {Absent}
    BY <2>1 DEF TypeOK, Trees
  <2>3. IsEdit(e)
    BY <2>1, <2>2 DEF IsEdit
  <2>4. change' = change \/ change' = [change EXCEPT ![f] = e]
    BY <1>3 DEF Collect
  <2> HIDE DEF e
  <2>5. DOMAIN change' = Threads /\ \A u \in Threads : IsEdit(change'[u])
    BY <2>3, <2>4 DEF TypeOK
  <2>6. step' \in [Threads -> Stages]
    BY <1>1, <1>3 DEF Collect, Goto, TypeOK, Stages
  <2>7. UNCHANGED <<git, folder, base, renaming, fetch, projection, history, bounds>>
    BY <1>3 DEF Collect
  <2> QED
    BY <2>5, <2>6, <2>7
       DEF TypeOK, git, folder, fetch, projection, history, bounds
<1>4. CASE RenamedReads(f)
  <2>1. renaming[f][2] \in Paths
    BY <1>2, <1>4 DEF RenamedReads
  <2> QED BY <1>1, <1>4, <2>1, TypeOfReads DEF RenamedReads
<1> QED BY <1>3, <1>4

LEMMA TypeOfFetch ==
  TypeOK /\ (\/ Push \/ FetchStart \/ FetchNothing \/ Walk \/ FetchEnds
             \/ \E tree \in RemoteTrees : FetchMoves(tree)
             \/ \E p \in Paths : FetchFile(p) \/ FetchFileFails(p)) => TypeOK'
<1> SUFFICES ASSUME TypeOK,
                    \/ Push \/ FetchStart \/ FetchNothing \/ Walk \/ FetchEnds
                    \/ \E tree \in RemoteTrees : FetchMoves(tree)
                    \/ \E p \in Paths : FetchFile(p) \/ FetchFileFails(p)
             PROVE  TypeOK'
  OBVIOUS
<1> USE DEF git, folder, commit, fetch, projection, history, bounds
<1>1. CASE Push
  BY <1>1 DEF Push, TypeOK
<1>2. CASE FetchStart \/ FetchNothing \/ FetchEnds
  <2>1. step' \in [Threads -> Stages]
    BY <1>2 DEF FetchStart, FetchNothing, FetchEnds, Goto, TypeOK, Stages
  <2>2. before' \in Trees
    BY <1>2 DEF FetchStart, FetchNothing, FetchEnds, TypeOK, Unwalked, Trees
  <2> QED BY <1>2, <2>1, <2>2 DEF FetchStart, FetchNothing, FetchEnds, TypeOK
<1>3. CASE Walk
  <2>1. step' \in [Threads -> Stages]
    BY <1>3 DEF Walk, Goto, TypeOK, Stages
  <2>2. todo' \subseteq Paths
    BY <1>3 DEF Walk, Present
  <2> QED BY <1>3, <2>1, <2>2 DEF Walk, TypeOK
<1>4. ASSUME NEW tree \in RemoteTrees, FetchMoves(tree)
      PROVE  TypeOK'
  <2>1. step' \in [Threads -> Stages]
    BY <1>4 DEF FetchMoves, Goto, TypeOK, Stages
  <2>2. /\ head' \in Trees /\ base' \in [Threads -> Trees \cup {None, Moved}]
        /\ fetches' \in Nat
    BY <1>4, Apart, MoveTypes, WriteBackAssumption
       DEF FetchMoves, TypeOK, WriteBackAssumption
  <2>3. missed' \subseteq Paths /\ late' \subseteq Paths
    BY <1>4 DEF FetchMoves, Present, TypeOK
  <2> QED BY <1>4, <2>1, <2>2, <2>3 DEF FetchMoves, TypeOK
<1>5. ASSUME NEW p \in Paths, FetchFile(p)
      PROVE  TypeOK'
  <2>1. CASE head[p] = Absent
    BY <1>5, <2>1 DEF FetchFile, TypeOK
  <2>2. CASE head[p] # Absent
    <3> DEFINE files == {p}
               tree == head
    <3>1. /\ Put(files, tree, {}) /\ files \subseteq Paths
          /\ \A q \in files : tree[q] \in Seq(Nat) \cup {Absent}
      BY <1>5, <2>2 DEF FetchFile, TypeOK, Trees
    <3> HIDE DEF files, tree
    <3>2. /\ disk' \in [Paths -> Seq(Nat) \cup {Absent, Ghost}]
          /\ size' \in [Paths -> Nat] /\ dirty' \subseteq Paths
          /\ missed' \subseteq Paths
      BY <3>1, PutTypes
    <3> QED BY <1>5, <3>2 DEF FetchFile, TypeOK
  <2> QED BY <2>1, <2>2
<1>6. ASSUME NEW p \in Paths, FetchFileFails(p)
      PROVE  TypeOK'
  BY <1>6 DEF FetchFileFails, Fault, TypeOK
<1> QED BY <1>1, <1>2, <1>3, <1>4, <1>5, <1>6

LEMMA TypeOfPlaceholders ==
  TypeOK /\ (ListEntries \/ Project \/ \E p \in Paths : Hydrate(p)) => TypeOK'
<1> SUFFICES ASSUME TypeOK, ListEntries \/ Project \/ \E p \in Paths : Hydrate(p)
             PROVE  TypeOK'
  OBVIOUS
<1> USE DEF git, folder, commit, fetch, projection, history, bounds
<1>1. CASE ListEntries
  <2>1. \A p \in Present(head) : p \in Paths /\ head[p] \in Seq(Nat)
    BY DEF Present, TypeOK, Trees
  <2>2. /\ DOMAIN entries' \subseteq Paths
        /\ \A p \in DOMAIN entries' : entries'[p] \in Nat
    BY <1>1, <2>1, LenProperties DEF ListEntries
  <2> QED BY <1>1, <2>2 DEF ListEntries, TypeOK
<1>2. CASE Project
  <2>1. PICK kept \in SUBSET {p \in DOMAIN entries : disk[p] # Absent} :
          LET made == DOMAIN entries \ kept
          IN  /\ disk' = [p \in Paths |-> IF p \in made THEN Ghost ELSE disk[p]]
              /\ size' = [p \in Paths |-> IF p \in made THEN entries[p] ELSE size[p]]
              /\ dirty' = dirty \cup made
              /\ late' = late \cup
                   {p \in made : ~Fits(p, entries[p]) \/ p \in Committing}
    BY <1>2 DEF Project
  <2> DEFINE made == DOMAIN entries \ kept
  <2>2. made \subseteq Paths /\ \A p \in made : entries[p] \in Nat
    BY DEF TypeOK
  <2>3. /\ disk' = [p \in Paths |-> IF p \in made THEN Ghost ELSE disk[p]]
        /\ size' = [p \in Paths |-> IF p \in made THEN entries[p] ELSE size[p]]
        /\ dirty' = dirty \cup made /\ late' \subseteq late \cup made
    BY <2>1
  <2> HIDE DEF made
  <2>4. disk' \in [Paths -> Seq(Nat) \cup {Absent, Ghost}]
    BY <2>3 DEF TypeOK
  <2>5. size' \in [Paths -> Nat] /\ dirty' \subseteq Paths /\ late' \subseteq Paths
    BY <2>2, <2>3 DEF TypeOK
  <2>6. /\ DOMAIN entries' \subseteq Paths
        /\ \A p \in DOMAIN entries' : entries'[p] \in Nat
    BY <1>2 DEF Project, Nothing
  <2> QED BY <1>2, <2>4, <2>5, <2>6 DEF Project, TypeOK
<1>3. ASSUME NEW p \in Paths, Hydrate(p)
      PROVE  TypeOK'
  <2> DEFINE b == SubSeq(head[p], 1, size[p])
  <2>1. head[p] \in Seq(Nat) /\ size[p] \in Nat
    BY <1>3 DEF Hydrate, Unfillable, TypeOK, Trees
  <2>2. size[p] <= Len(head[p]) /\ Len(head[p]) \in Nat
    BY <1>3, <2>1, LenProperties DEF Hydrate, Unfillable
  <2>3. b \in Seq(Nat)
    <3>1. \A i \in 1 .. size[p] : head[p][i] \in Nat
      BY <2>1, <2>2, ElementOfSeq
    <3> QED BY <2>1, <2>2, <3>1, SubSeqProperties
  <2> HIDE DEF b
  <2>4. /\ disk' = [disk EXCEPT ![p] = b]
        /\ disk' \in [Paths -> Seq(Nat) \cup {Absent, Ghost}]
    BY <1>3, <2>3 DEF Hydrate, TypeOK, b
  <2>5. size' \in [Paths -> Nat] /\ dirty' \subseteq Paths
    BY <1>3 DEF Hydrate, TypeOK
  <2> QED BY <1>3, <2>4, <2>5 DEF Hydrate, TypeOK
<1> QED BY <1>1, <1>2, <1>3

LEMMA TypeStep == TypeOK /\ Shape /\ [Next]_vars => TypeOK'
<1> SUFFICES ASSUME TypeOK, Shape, [Next]_vars PROVE TypeOK'
  OBVIOUS
<1>1. CASE UNCHANGED vars
  BY <1>1 DEF TypeOK, vars, git, folder, commit, fetch, projection, history, bounds
<1> QED
  BY <1>1, Apart, TypeOfUser, TypeOfCommit, TypeOfReconcile, TypeOfRenames, TypeOfFetch,
     TypeOfPlaceholders DEF Next, Loop, Filter
-----------------------------------------------------------------------------
(* Nothing is forgotten.  A path is settled at some bytes when it has them,   *)
(* or is a placeholder, or has an event coming, or is among the differences   *)
(* that are known to raise none.                                             *)

Settled(p, bytes) == disk[p] \in {Ghost, bytes} \/ p \in dirty \cup missed

\* What the loop has read of the path it is at.
Reconciling ==
  /\ step["loop"] = "read" =>
       \A p \in DOMAIN change["loop"] : disk[p] # Absent \/ p \in dirty
  /\ step["loop"] = "compare" =>
       \A p \in DOMAIN change["loop"] : Settled(p, change["loop"][p])
  /\ step["loop"] = "set" =>
       \A p \in DOMAIN change["loop"] :
         /\ Settled(p, change["loop"][p])
         /\ change["loop"][p] # Absent => p \in dirty

\* What a thread of the filter is about to make HEAD, if nobody has moved it.
Landing ==
  \A f \in Filters :
    step[f] = "set" /\ base[f] # Moved =>
      \A p \in DOMAIN change[f] :
        Settled(p, change[f][p]) \/ p \in DOMAIN change["loop"]

\* What the fetch compares with.
Fetched ==
  /\ step["loop"] \in {"fetch", "walk"} => \A p \in Paths : Settled(p, before[p])
  /\ step["loop"] = "walk" =>
       \A p \in Paths : head[p] = Absent => Settled(p, Absent)
  /\ step["loop"] = "files" =>
       \A p \in todo : head[p] = Absent => Settled(p, Absent)

IInv == Shape /\ Reconciling /\ Landing /\ Fetched /\ NothingForgotten

\* A step that only touches the folder, each file with an event.
Reported ==
  /\ dirty \subseteq dirty' /\ missed \subseteq missed' \cup dirty'
  /\ \A p \in Paths : disk'[p] = disk[p] \/ p \in dirty'

LEMMA PutReports ==
  ASSUME TypeOK, NEW files, NEW bytes, NEW lost, Put(files, bytes, lost)
  PROVE  /\ Reported /\ files \subseteq dirty' /\ lost \subseteq missed'
         /\ \A p \in Paths \cap files : disk'[p] = bytes[p]
BY DEF Put, Reported, TypeOK

LEMMA UserReports ==
  ASSUME TypeOK, User
  PROVE  /\ Reported
         /\ UNCHANGED <<git, change, base, fetch, projection, late>>
         /\ step'["loop"] = step["loop"]
         /\ \A f \in Filters : step'[f] \in {step[f], "collect"}
<1> USE DEF commit
<1>1. PICK p \in Paths :
        \/ \E content \in Contents : UserSave(p, content)
        \/ UserDelete(p)
        \/ \E q \in Paths : UserRename(p, q)
  BY DEF User
<1>2. CASE \E content \in Contents : UserSave(p, content)
  BY <1>2, PutReports DEF UserSave
<1>3. CASE UserDelete(p)
  BY <1>3, PutReports DEF UserDelete
<1>4. ASSUME NEW q \in Paths, UserRename(p, q)
      PROVE  /\ Reported
             /\ UNCHANGED <<git, change, base, fetch, projection, late>>
             /\ step'["loop"] = step["loop"]
             /\ \A f \in Filters : step'[f] \in {step[f], "collect"}
  <2>1. Reported
    BY <1>4 DEF UserRename, Reported, TypeOK
  <2>2. /\ step'["loop"] = step["loop"]
        /\ \A f \in Filters : step'[f] \in {step[f], "collect"}
    BY <1>4, Apart DEF UserRename, Goto, TypeOK
  <2> QED BY <1>4, <2>1, <2>2 DEF UserRename
<1> QED BY <1>1, <1>2, <1>3, <1>4

LEMMA PlaceholdersReport ==
  ASSUME TypeOK, ListEntries \/ Project \/ \E p \in Paths : Hydrate(p)
  PROVE  Reported /\ UNCHANGED <<git, commit, fetch, bounds>>
<1>1. CASE ListEntries
  BY <1>1 DEF ListEntries, Reported, folder
<1>2. CASE Project
  <2>1. PICK made \in SUBSET DOMAIN entries :
          /\ disk' = [p \in Paths |-> IF p \in made THEN Ghost ELSE disk[p]]
          /\ dirty' = dirty \cup made
    BY <1>2 DEF Project
  <2> QED BY <1>2, <2>1 DEF Project, Reported, TypeOK
<1>3. ASSUME NEW p \in Paths, Hydrate(p)
      PROVE  Reported /\ UNCHANGED <<git, commit, fetch, bounds>>
  BY <1>3 DEF Hydrate, Reported, TypeOK, history
<1> QED BY <1>1, <1>2, <1>3

\* What a thread's commit leaves the others: only what they read of HEAD grows
\* old.
LEMMA Elsewhere ==
  ASSUME TypeOK, Shape, NEW t \in Threads,
         ReadHead(t) \/ WriteFiles(t) \/ WriteFails(t) \/ SetRef(t) \/ SetRefFails(t)
  PROVE  /\ \A u \in Threads \ {t} :
              /\ step'[u] = step[u] /\ change'[u] = change[u]
              /\ base'[u] = base[u] \/ (base'[u] = Moved /\ base[u] # None)
         /\ \A f \in Filters \ {t} : renaming'[f] = renaming[f]
         /\ UNCHANGED <<before, todo>>
<1>1. CASE ReadHead(t) \/ WriteFiles(t)
  BY <1>1, Apart DEF ReadHead, WriteFiles, Goto, TypeOK, fetch
<1>2. CASE WriteFails(t) \/ SetRefFails(t)
  <2>1. Done(t) /\ UNCHANGED <<before, todo>>
    BY <1>2 DEF WriteFails, SetRefFails, fetch
  <2> QED BY <2>1, DoneTypes, FinishTypes
<1>3. CASE SetRef(t)
  <2>1. Finish(t) /\ UNCHANGED <<before, todo>>
    BY <1>3 DEF SetRef, fetch
  <2>2. \A u \in Threads \ {t} :
          base'[u] = IF base[u] = None THEN None ELSE Moved
    BY <1>3, BaseIsHead, MoveTypes DEF SetRef
  <2> QED BY <2>1, <2>2, FinishTypes
<1> QED BY <1>1, <1>2, <1>3

LEMMA ShapeInit == Init => Shape
BY Apart DEF Init, Shape, Nothing, Renamed

LEMMA ShapeOfUser == TypeOK /\ Shape /\ User => Shape'
<1> SUFFICES ASSUME TypeOK, Shape, User PROVE Shape'
  OBVIOUS
<1>1. /\ UNCHANGED <<head, change, base, todo>>
      /\ step'["loop"] = step["loop"]
  BY UserReports DEF git, fetch
<1>2. PICK p \in Paths :
        \/ \E content \in Contents : UserSave(p, content)
        \/ UserDelete(p)
        \/ \E q \in Paths : UserRename(p, q)
  BY DEF User
<1>3. CASE (\E content \in Contents : UserSave(p, content)) \/ UserDelete(p)
  <2>1. UNCHANGED <<renaming, step>>
    BY <1>3 DEF UserSave, UserDelete, commit
  <2> QED BY <1>1, <2>1 DEF Shape, Renamed
<1>4. ASSUME NEW q \in Paths, UserRename(p, q)
      PROVE  Shape'
  <2>1. PICK f \in Filters : /\ step[f] = "idle" /\ Goto(f, "collect")
                             /\ renaming' = [renaming EXCEPT ![f] = <<p, q>>]
    BY <1>4 DEF UserRename
  <2>2. /\ step'[f] = "collect" /\ renaming'[f] = <<p, q>>
        /\ <<p, q>> \in Paths \X Paths
        /\ \A g \in Threads \ {f} : step'[g] = step[g]
        /\ \A g \in Filters \ {f} : renaming'[g] = renaming[g]
    BY <2>1, Apart DEF Goto, TypeOK
  <2>3. renaming'[f] # None /\ DOMAIN change[f] = {}
    BY <2>1, <2>2, WriteBackAssumption DEF WriteBackAssumption, Shape
  <2> QED BY <1>1, <2>1, <2>2, <2>3, Apart DEF Shape, Renamed
<1> QED BY <1>2, <1>3, <1>4

LEMMA ShapeOfCommit ==
  ASSUME TypeOK, Shape, NEW t \in Threads,
         ReadHead(t) \/ WriteFiles(t) \/ WriteFails(t) \/ SetRef(t) \/ SetRefFails(t)
  PROVE  Shape'
<1>1. /\ \A u \in Threads \ {t} :
           /\ step'[u] = step[u] /\ change'[u] = change[u]
           /\ base'[u] = base[u] \/ (base'[u] = Moved /\ base[u] # None)
      /\ \A f \in Filters \ {t} : renaming'[f] = renaming[f]
      /\ UNCHANGED todo
  BY Elsewhere
<1>2. CASE ReadHead(t) \/ WriteFiles(t)
  <2>1. /\ UNCHANGED <<head, change, renaming>>
        /\ step[t] \in {"base", "write"} /\ step'[t] \in {"write", "set"}
        /\ \A u \in Threads \ {t} : base'[u] = base[u]
    BY <1>2 DEF ReadHead, WriteFiles, Goto, TypeOK, git
  <2>2. head # None
    BY WriteBackAssumption DEF WriteBackAssumption, TypeOK
  <2>3. base'[t] \in {None, Moved, head} /\ base'[t] # None
    <3>1. CASE ReadHead(t)
      BY <2>2, <3>1 DEF ReadHead, TypeOK
    <3>2. CASE WriteFiles(t)
      BY <3>2 DEF WriteFiles, Shape
    <3> QED BY <1>2, <3>1, <3>2
  <2> QED BY <1>1, <2>1, <2>3, Apart DEF Shape, Renamed
<1>3. ASSUME step[t] \in {"write", "set"}, Finish(t), base'[t] = None,
             \A u \in Threads \ {t} : base'[u] \in {None, Moved, head'}
      PROVE  Shape'
  <2>1. /\ step'[t] = "idle" /\ DOMAIN change'[t] = {}
        /\ t \in Filters => renaming'[t] = None
    BY <1>3, FinishTypes
  <2>2. \A u \in Threads : base'[u] \in {None, Moved, head'}
    BY <1>3
  <2>3. \A u \in Threads : step'[u] \in {"write", "set"} => base'[u] # None
    BY <1>1, <2>1, WriteBackAssumption DEF Shape, WriteBackAssumption
  <2>4. \A p, q \in DOMAIN change'["loop"] : p = q
    BY <1>1, <2>1, Apart DEF Shape
  <2>5. todo = {} \/ t # "loop"
    BY <1>3 DEF Shape
  <2>6. \A f \in Filters :
          /\ renaming'[f] = None <=> step'[f] = "idle"
          /\ step'[f] \in {"idle", "collect", "read"} => DOMAIN change'[f] = {}
          /\ DOMAIN change'[f] \subseteq Renamed(f)'
    BY <1>1, <2>1, Apart DEF Shape, Renamed
  <2>7. /\ step'["loop"] \in {"idle", "fetch", "walk", "files"} =>
             DOMAIN change'["loop"] = {}
        /\ todo' # {} => step'["loop"] = "files"
    BY <1>1, <2>1, <2>5, Apart DEF Shape
  <2> QED BY <2>2, <2>3, <2>4, <2>6, <2>7 DEF Shape
<1>4. CASE WriteFails(t) \/ SetRefFails(t)
  <2>1. Done(t) /\ step[t] \in {"write", "set"} /\ UNCHANGED head
    BY <1>4 DEF WriteFails, SetRefFails, git
  <2> QED BY <1>3, <2>1, DoneTypes DEF Shape
<1>5. CASE SetRef(t)
  <2>1. /\ Finish(t) /\ step[t] = "set"
    BY <1>5 DEF SetRef
  <2>2. /\ base'[t] = None
        /\ \A u \in Threads \ {t} : base'[u] = IF base[u] = None THEN None ELSE Moved
    BY <1>5, BaseIsHead, MoveTypes DEF SetRef
  <2> QED BY <1>3, <2>1, <2>2
<1> QED BY <1>2, <1>4, <1>5

LEMMA ShapeOfReconcile ==
  TypeOK /\ Shape /\ ((\E p \in Paths : Drain(p)) \/ ReconcileReads \/ Compare)
    => Shape'
<1> SUFFICES ASSUME TypeOK, Shape,
                    (\E p \in Paths : Drain(p)) \/ ReconcileReads \/ Compare
             PROVE  Shape'
  OBVIOUS
<1> USE Apart
<1>1. ASSUME NEW p \in Paths, Drain(p)
      PROVE  Shape'
  <2>1. /\ UNCHANGED <<head, base, renaming, todo>> /\ step["loop"] = "idle"
        /\ \A f \in Filters : step'[f] = step[f] /\ change'[f] = change[f]
    BY <1>1 DEF Drain, Goto, TypeOK, git, fetch
  <2>2. \/ UNCHANGED <<step, change>>
        \/ /\ step'["loop"] \in {"compare", "read"}
           /\ change'["loop"] = [q \in {p} |-> Absent]
    BY <1>1 DEF Drain, Goto, TypeOK
  <2>3. \A r, q \in DOMAIN change'["loop"] : r = q
    BY <2>2 DEF Shape
  <2> QED BY <2>1, <2>2, <2>3 DEF Shape, Renamed, Threads
<1>2. ASSUME NEW p \in Paths, step["loop"] = "read",
             ReadFile("loop", p, "compare"), UNCHANGED <<git, fetch>>
      PROVE  Shape'
  <2>1. /\ UNCHANGED <<head, base, renaming, todo>>
        /\ \A f \in Filters : step'[f] = step[f] /\ change'[f] = change[f]
        /\ step'["loop"] = "compare"
        /\ change'["loop"] = [q \in {p} |-> disk[p]]
    BY <1>2 DEF ReadFile, Goto, TypeOK, git, fetch
  <2>2. \A r, q \in DOMAIN change'["loop"] : r = q
    BY <2>1
  <2> QED BY <1>2, <2>1, <2>2 DEF Shape, Renamed, Threads
<1>3. ASSUME Done("loop"), step["loop"] \in {"read", "compare"},
             UNCHANGED <<git, fetch>>
      PROVE  Shape'
  <2>1. /\ step'["loop"] = "idle" /\ DOMAIN change'["loop"] = {}
        /\ base'["loop"] = None
        /\ \A f \in Filters : /\ step'[f] = step[f] /\ change'[f] = change[f]
                              /\ base'[f] = base[f] /\ renaming'[f] = renaming[f]
    BY <1>3, DoneTypes, FinishTypes
  <2>2. UNCHANGED <<head, todo>>
    BY <1>3 DEF git, fetch
  <2> QED BY <1>3, <2>1, <2>2 DEF Shape, Renamed, Threads
<1>4. CASE ReconcileReads
  <2>1. PICK p \in DOMAIN change["loop"] :
          ReadFile("loop", p, "compare") \/ ReadFails("loop", p)
    BY <1>4 DEF ReconcileReads
  <2>2. p \in Paths
    BY DEF TypeOK, IsEdit
  <2> QED BY <1>2, <1>3, <1>4, <2>1, <2>2 DEF ReconcileReads, ReadFails
<1>5. CASE Compare
  <2>1. CASE Goto("loop", "base") /\ UNCHANGED <<change, base, renaming, missed>>
    <3>1. /\ UNCHANGED <<head, change, base, renaming, todo>> /\ step["loop"] = "compare"
          /\ step'["loop"] = "base" /\ \A f \in Filters : step'[f] = step[f]
      BY <1>5, <2>1 DEF Compare, Goto, TypeOK, git, fetch
    <3> QED BY <3>1 DEF Shape, Renamed, Threads
  <2> QED BY <1>3, <1>5, <2>1 DEF Compare
<1> QED BY <1>1, <1>4, <1>5

\* What a filter thread's rename leaves alone until it commits.
LEMMA RenamesLeave ==
  ASSUME TypeOK, NEW f \in Filters, Collect(f) \/ RenamedReads(f)
  PROVE  /\ UNCHANGED <<git, folder, fetch, projection, ops, fetches>>
         /\ \A u \in Threads \ {f} :
              step'[u] = step[u] /\ change'[u] = change[u] /\ base'[u] = base[u]
         /\ \A g \in Filters \ {f} : renaming'[g] = renaming[g]
         /\ step'[f] \in {"read", "base", "idle"}
<1>1. f \in Threads
  BY Apart
<1>2. CASE Collect(f)
  BY <1>1, <1>2 DEF Collect, Goto, TypeOK, bounds
<1>3. CASE RenamedReads(f)
  <2>1. PICK p : ReadFile(f, p, "base") \/ ReadFails(f, p)
    BY <1>3 DEF RenamedReads
  <2>2. CASE ReadFile(f, p, "base")
    BY <1>1, <1>3, <2>2 DEF RenamedReads, ReadFile, Goto, TypeOK
  <2>3. CASE ReadFails(f, p)
    BY <1>1, <1>3, <2>3, DoneTypes, FinishTypes DEF RenamedReads, ReadFails
  <2> QED BY <2>1, <2>2, <2>3
<1> QED BY <1>2, <1>3

LEMMA ShapeOfRenames ==
  ASSUME TypeOK, Shape, NEW f \in Filters, Collect(f) \/ RenamedReads(f)
  PROVE  Shape' /\ missed' = missed
<1>1. /\ UNCHANGED <<head, todo>>
      /\ \A u \in Threads \ {f} :
           step'[u] = step[u] /\ change'[u] = change[u] /\ base'[u] = base[u]
      /\ \A g \in Filters \ {f} : renaming'[g] = renaming[g]
  BY RenamesLeave DEF git, fetch
<1>2. ASSUME /\ base'[f] \in {None, Moved, head}
             /\ renaming'[f] = None <=> step'[f] = "idle"
             /\ step'[f] \in {"idle", "collect", "read"} => DOMAIN change'[f] = {}
             /\ step'[f] \notin {"write", "set"}
             /\ DOMAIN change'[f] \subseteq Renamed(f)'
      PROVE  Shape'
  <2>1. /\ \A t \in Threads : base'[t] \in {None, Moved, head'}
        /\ \A t \in Threads : step'[t] \in {"write", "set"} => base'[t] # None
    BY <1>1, <1>2 DEF Shape
  <2>2. \A g \in Filters :
          /\ renaming'[g] = None <=> step'[g] = "idle"
          /\ step'[g] \in {"idle", "collect", "read"} => DOMAIN change'[g] = {}
          /\ DOMAIN change'[g] \subseteq Renamed(g)'
    BY <1>1, <1>2, Apart DEF Shape, Renamed
  <2>3. /\ step'["loop"] \in {"idle", "fetch", "walk", "files"} =>
             DOMAIN change'["loop"] = {}
        /\ \A p, q \in DOMAIN change'["loop"] : p = q
        /\ todo' # {} => step'["loop"] = "files"
    BY <1>1, Apart DEF Shape
  <2> QED BY <2>1, <2>2, <2>3 DEF Shape
<1>3. CASE Collect(f)
  <2> DEFINE old == renaming[f][1]
             new == renaming[f][2]
             e == [p \in {old, new} |-> IF p = new THEN head[old] ELSE Absent]
  <2>1. /\ step[f] = "collect" /\ DOMAIN change[f] = {} /\ f \in Threads
        /\ renaming[f] # None
    BY <1>3, Apart DEF Collect, Shape
  <2>2. DOMAIN e = Renamed(f)
    BY <2>1 DEF Renamed
  <2>3. \/ step'[f] = "read" /\ change' = change
        \/ step'[f] = "base" /\ change'[f] = e
    BY <1>3, <2>1 DEF Collect, Goto, TypeOK
  <2> HIDE DEF e
  <2>4. UNCHANGED <<base, renaming, missed>>
    BY <1>3 DEF Collect, history
  <2>5. DOMAIN change'[f] \subseteq Renamed(f)'
    BY <2>1, <2>2, <2>3, <2>4 DEF Renamed
  <2> QED BY <1>2, <2>1, <2>3, <2>4, <2>5 DEF Shape
<1>4. CASE RenamedReads(f)
  <2> DEFINE new == renaming[f][2]
  <2>1. /\ step[f] = "read" /\ new \in Renamed(f) /\ f \in Threads
        /\ DOMAIN change[f] = {} /\ renaming[f] # None
        /\ ReadFile(f, new, "base") \/ ReadFails(f, new)
    BY <1>4, Apart DEF RenamedReads, Renamed, Shape
  <2>2. CASE ReadFile(f, new, "base")
    <3>1. /\ step'[f] = "base" /\ UNCHANGED <<base, renaming, missed>>
          /\ DOMAIN change'[f] = {new}
      BY <2>1, <2>2 DEF ReadFile, Goto, TypeOK, history
    <3> QED BY <1>2, <2>1, <3>1 DEF Shape, Renamed
  <2>3. CASE ReadFails(f, new)
    <3>1. /\ step'[f] = "idle" /\ DOMAIN change'[f] = {}
          /\ base'[f] = None /\ renaming'[f] = None
      BY <2>1, <2>3, DoneTypes, FinishTypes DEF ReadFails
    <3>2. missed' = missed
      BY <2>1, <2>3 DEF ReadFails
    <3> QED BY <1>2, <3>1, <3>2
  <2> QED BY <2>1, <2>2, <2>3
<1> QED BY <1>3, <1>4

LEMMA ShapeOfFetch ==
  TypeOK /\ Shape /\ (\/ Push \/ FetchStart \/ FetchNothing \/ Walk \/ FetchEnds
                      \/ \E tree \in RemoteTrees : FetchMoves(tree)
                      \/ \E p \in Paths : FetchFile(p) \/ FetchFileFails(p))
    => Shape'
<1> SUFFICES ASSUME TypeOK, Shape,
                    \/ Push \/ FetchStart \/ FetchNothing \/ Walk \/ FetchEnds
                    \/ \E tree \in RemoteTrees : FetchMoves(tree)
                    \/ \E p \in Paths : FetchFile(p) \/ FetchFileFails(p)
             PROVE  Shape'
  OBVIOUS
<1> USE DEF git, folder, commit, fetch, projection
<1>1. CASE Push
  BY <1>1 DEF Push, Shape, Renamed
<1>2. /\ UNCHANGED <<change, renaming>>
      /\ \A f \in Filters : step'[f] = step[f]
  BY Apart
     DEF Push, FetchStart, FetchNothing, Walk, FetchEnds, FetchMoves, FetchFile,
         FetchFileFails, Goto, TypeOK
<1>3. ASSUME /\ step["loop"] \in {"idle", "fetch", "walk", "files"}
             /\ step'["loop"] \in {"idle", "fetch", "walk", "files"}
             /\ todo' # {} => step'["loop"] = "files"
             /\ \A t \in Threads : base'[t] \in {None, Moved, head'}
             /\ \A f \in Filters : base[f] # None => base'[f] # None
      PROVE  Shape'
  BY <1>2, <1>3, Apart DEF Shape, Renamed, Threads
<1>4. CASE FetchStart \/ FetchNothing \/ Walk \/ FetchEnds
  <2>1. /\ step["loop"] \in {"idle", "fetch", "walk", "files"}
        /\ step'["loop"] \in {"idle", "fetch", "walk", "files"}
        /\ todo' # {} => step'["loop"] = "files"
    BY <1>4, Apart DEF FetchStart, FetchNothing, Walk, FetchEnds, Goto, TypeOK, Shape
  <2>2. UNCHANGED <<head, base>>
    BY <1>4 DEF FetchStart, FetchNothing, Walk, FetchEnds
  <2> QED BY <1>3, <2>1, <2>2, Apart DEF Shape
<1>5. ASSUME NEW tree \in RemoteTrees, FetchMoves(tree)
      PROVE  Shape'
  <2>1. /\ step["loop"] = "fetch" /\ step'["loop"] = "walk" /\ todo' = {}
    BY <1>5, Apart DEF FetchMoves, Goto, TypeOK, Shape
  <2>2. \A t \in Threads :
          base'[t] = IF t = "loop" \/ base[t] = None THEN None ELSE Moved
    BY <1>5 DEF FetchMoves, Move
  <2> QED BY <1>3, <2>1, <2>2, Apart, WriteBackAssumption DEF WriteBackAssumption
<1>6. ASSUME NEW p \in Paths, FetchFile(p) \/ FetchFileFails(p)
      PROVE  Shape'
  <2>1. UNCHANGED <<head, step, base>> /\ step["loop"] = "files"
    BY <1>6 DEF FetchFile, FetchFileFails
  <2> QED BY <1>3, <2>1, Apart DEF Shape
<1> QED BY <1>1, <1>4, <1>5, <1>6

LEMMA ShapeStep == TypeOK /\ Shape /\ [Next]_vars => Shape'
<1> SUFFICES ASSUME TypeOK, Shape, [Next]_vars PROVE Shape'
  OBVIOUS
<1>1. CASE UNCHANGED vars
  BY <1>1 DEF vars, git, commit, fetch, Shape, Renamed
<1>2. CASE ListEntries \/ Project \/ \E p \in Paths : Hydrate(p)
  BY <1>2, PlaceholdersReport DEF git, commit, fetch, Shape, Renamed
<1> QED
  BY <1>1, <1>2, Apart, ShapeOfUser, ShapeOfCommit, ShapeOfReconcile, ShapeOfRenames,
     ShapeOfFetch DEF Next, Loop, Filter

\* While files are only touched, and each has its event, nothing is forgotten.
LEMMA ReportKeeps ==
  ASSUME TypeOK, Reconciling, Fetched, NothingForgotten, Reported,
         UNCHANGED <<head, before, todo>>,
         step'["loop"] = step["loop"], change'["loop"] = change["loop"]
  PROVE  Reconciling' /\ Fetched' /\ NothingForgotten'
<1>1. DOMAIN change["loop"] \subseteq Paths /\ todo \subseteq Paths
  BY Apart DEF TypeOK, IsEdit
<1>2. Reconciling'
  BY <1>1 DEF Reconciling, Settled, Reported
<1>3. Fetched'
  BY <1>1 DEF Fetched, Settled, Reported
<1>4. NothingForgotten'
  BY DEF NothingForgotten, Reported
<1> QED BY <1>2, <1>3, <1>4

\* A filter thread that is as far as it was, or whose reference has moved, sets
\* nothing that is not settled.
LEMMA LandingKeeps ==
  ASSUME TypeOK, Landing, Reported,
         \A f \in Filters :
           \/ step'[f] # "set" \/ base'[f] = Moved
           \/ /\ step[f] = "set" /\ base[f] # Moved /\ change'[f] = change[f]
              /\ \A p \in DOMAIN change[f] \cap DOMAIN change["loop"] :
                   p \in DOMAIN change'["loop"] \/ disk[p] = Ghost
                     \/ p \in dirty' \cup missed'
  PROVE  Landing'
<1>1. ASSUME NEW f \in Filters, step'[f] = "set", base'[f] # Moved
      PROVE  (\A p \in DOMAIN change[f] :
                Settled(p, change[f][p]) \/ p \in DOMAIN change["loop"])'
  <2>1. DOMAIN change[f] \subseteq Paths
    BY Apart DEF TypeOK, IsEdit
  <2>2. /\ step[f] = "set" /\ base[f] # Moved /\ change'[f] = change[f]
        /\ \A p \in DOMAIN change[f] \cap DOMAIN change["loop"] :
             p \in DOMAIN change'["loop"] \/ disk[p] = Ghost
               \/ p \in dirty' \cup missed'
    BY <1>1
  <2>3. ASSUME NEW p \in DOMAIN change[f]
        PROVE  \/ disk'[p] \in {Ghost, change[f][p]} \/ p \in dirty' \cup missed'
               \/ p \in DOMAIN change'["loop"]
    <3>1. Settled(p, change[f][p]) \/ p \in DOMAIN change["loop"]
      BY <2>2 DEF Landing
    <3> QED BY <2>1, <2>2, <3>1 DEF Settled, Reported
  <2> QED BY <2>2, <2>3 DEF Settled
<1> QED BY <1>1 DEF Landing

LEMMA UserKeeps == TypeOK /\ IInv /\ User => IInv'
<1> SUFFICES ASSUME TypeOK, IInv, User PROVE IInv'
  OBVIOUS
<1> USE DEF IInv
<1>1. /\ Reported /\ UNCHANGED <<head, change, base, before, todo>>
      /\ step'["loop"] = step["loop"]
      /\ \A f \in Filters : step'[f] \in {step[f], "collect"}
  BY UserReports DEF git, fetch
<1>2. Reconciling' /\ Fetched' /\ NothingForgotten'
  BY <1>1, ReportKeeps
<1>3. Landing'
  BY <1>1, LandingKeeps
<1> QED BY <1>2, <1>3, ShapeOfUser

LEMMA PlaceholdersKeep ==
  TypeOK /\ IInv /\ (ListEntries \/ Project \/ \E p \in Paths : Hydrate(p)) => IInv'
<1> SUFFICES ASSUME TypeOK, IInv, ListEntries \/ Project \/ \E p \in Paths : Hydrate(p)
             PROVE  IInv'
  OBVIOUS
<1> USE DEF IInv
<1>1. Reported /\ UNCHANGED <<head, step, change, base, renaming, before, todo>>
  BY PlaceholdersReport DEF git, commit, fetch
<1>2. Reconciling' /\ Fetched' /\ NothingForgotten'
  BY <1>1, ReportKeeps
<1>3. Landing'
  BY <1>1, LandingKeeps
<1>4. Shape'
  BY <1>1 DEF Shape, Renamed
<1> QED BY <1>2, <1>3, <1>4

LEMMA FilterKeeps == TypeOK /\ IInv /\ Filter => IInv'
<1> SUFFICES ASSUME TypeOK, IInv, NEW f \in Filters,
                    \/ Collect(f) \/ RenamedReads(f)
                    \/ ReadHead(f) \/ WriteFiles(f) \/ WriteFails(f)
                    \/ SetRef(f) \/ SetRefFails(f)
             PROVE  IInv'
  BY DEF Filter
<1> USE DEF IInv
<1>1. f \in Threads /\ f # "loop" /\ "loop" \in Threads
  BY Apart
<1>2. CASE Collect(f) \/ RenamedReads(f)
  <2>1. /\ UNCHANGED <<head, disk, dirty, before, todo>>
        /\ step'["loop"] = step["loop"] /\ change'["loop"] = change["loop"]
        /\ step'[f] # "set"
        /\ \A g \in Filters \ {f} :
             step'[g] = step[g] /\ change'[g] = change[g] /\ base'[g] = base[g]
    BY <1>1, <1>2, RenamesLeave, Apart DEF git, folder, fetch
  <2>2. Shape' /\ missed' = missed
    BY <1>2, ShapeOfRenames
  <2>3. Reported
    BY <2>1, <2>2 DEF Reported
  <2>4. Reconciling' /\ Fetched' /\ NothingForgotten'
    BY <2>1, <2>3, ReportKeeps
  <2>5. Landing'
    BY <2>1, <2>3, LandingKeeps
  <2> QED BY <2>2, <2>4, <2>5
<1>3. ASSUME ReadHead(f) \/ WriteFiles(f) \/ WriteFails(f) \/ SetRef(f)
               \/ SetRefFails(f)
      PROVE  /\ Shape' /\ step'["loop"] = step["loop"]
             /\ change'["loop"] = change["loop"] /\ UNCHANGED <<before, todo>>
             /\ \A g \in Filters \ {f} :
                  /\ step'[g] = step[g] /\ change'[g] = change[g]
                  /\ base'[g] = base[g] \/ base'[g] = Moved
  BY <1>1, <1>3, ShapeOfCommit, Elsewhere, Apart
\* The steps that leave HEAD: others' landings stay as they are.
<1>4. ASSUME ReadHead(f) \/ WriteFiles(f) \/ WriteFails(f) \/ SetRefFails(f),
             head' = head, Reported, step'[f] # "set"
      PROVE  IInv'
  <2>1. Reconciling' /\ Fetched' /\ NothingForgotten'
    BY <1>3, <1>4, ReportKeeps
  <2>2. Landing'
    BY <1>3, <1>4, LandingKeeps
  <2> QED BY <1>3, <1>4, <2>1, <2>2
<1>5. CASE ReadHead(f)
  <2>1. /\ UNCHANGED <<head, disk, dirty, missed>> /\ step'[f] = "write"
    BY <1>1, <1>5 DEF ReadHead, Goto, TypeOK, git, folder, history
  <2> QED BY <1>4, <1>5, <2>1 DEF Reported
<1>6. CASE WriteFiles(f)
  <2> DEFINE edit == change[f]
  <2>1. Put(Touched(edit), edit, {}) /\ UNCHANGED <<head, change, base>>
    BY <1>6 DEF WriteFiles, git
  <2>2. /\ Reported /\ \A p \in Paths \cap Touched(edit) : disk'[p] = edit[p]
    BY <2>1, PutReports
  <2>3. Reconciling' /\ Fetched' /\ NothingForgotten'
    BY <1>3, <1>6, <2>1, <2>2, ReportKeeps
  <2>4. ASSUME NEW p \in DOMAIN edit
        PROVE  disk'[p] = edit[p] \/ p \in dirty'
    BY <1>1, <2>1, <2>2, <2>4 DEF Reported, TypeOK, IsEdit, Touched
  <2>5. Landing'
    <3>1. ASSUME NEW g \in Filters, step'[g] = "set", base'[g] # Moved
          PROVE  (\A p \in DOMAIN change[g] :
                    Settled(p, change[g][p]) \/ p \in DOMAIN change["loop"])'
      <4>1. CASE g = f
        BY <2>1, <2>4, <4>1 DEF Settled
      <4>2. CASE g # f
        <5>1. DOMAIN change[g] \subseteq Paths
          BY Apart DEF TypeOK, IsEdit
        <5>2. step[g] = "set" /\ base[g] # Moved
          BY <1>3, <1>6, <2>1, <3>1, <4>2
        <5> QED BY <2>1, <2>2, <5>1, <5>2 DEF Landing, Settled, Reported
      <4> QED BY <4>1, <4>2
    <3> QED BY <3>1 DEF Landing
  <2> QED BY <1>3, <1>6, <2>3, <2>5
<1>7. CASE WriteFails(f) \/ SetRefFails(f)
  <2>1. Done(f) /\ head' = head
    BY <1>7 DEF WriteFails, SetRefFails, git
  <2>2. Reported
    <3>1. CASE WriteFails(f)
      BY <3>1, PutReports DEF WriteFails
    <3>2. CASE SetRefFails(f)
      BY <3>2, <1>1 DEF SetRefFails, Reported, folder
    <3> QED BY <1>7, <3>1, <3>2
  <2>3. step'[f] = "idle"
    BY <1>1, <2>1, DoneTypes, FinishTypes
  <2> QED BY <1>4, <1>7, <2>1, <2>2, <2>3
<1>8. CASE SetRef(f)
  <2> DEFINE edit == change[f]
  <2>1. /\ UNCHANGED <<disk, dirty, missed>> /\ step[f] = "set" /\ base[f] # Moved
        /\ Move(Applied(base[f], edit), f) /\ Finish(f)
    BY <1>8 DEF SetRef, folder, history
  <2>2. base[f] = head /\ step'[f] = "idle"
    BY <1>1, <2>1, BaseIsHead, FinishTypes
  <2>3. \A p \in Paths : head'[p] = IF p \in DOMAIN edit THEN edit[p] ELSE head[p]
    BY <2>1, <2>2 DEF Move, Applied
  <2>4. \A g \in Filters \ {f} : base'[g] \in {None, Moved}
    BY <2>1, Apart DEF Move
  <2>5. \A p \in DOMAIN edit : Settled(p, edit[p]) \/ p \in DOMAIN change["loop"]
    BY <2>1 DEF Landing
  <2>6. DOMAIN change["loop"] \subseteq Paths /\ todo \subseteq Paths
    BY <1>1 DEF TypeOK, IsEdit
  <2>7. Reconciling'
    BY <1>3, <1>8, <2>1 DEF Reconciling, Settled
  <2>8. Fetched'
    <3>1. step["loop"] \in {"walk", "files"} => DOMAIN change["loop"] = {}
      BY DEF Shape
    <3>2. ASSUME step["loop"] = "walk", NEW p \in Paths, head'[p] = Absent
          PROVE  Settled(p, Absent)
      BY <2>3, <2>5, <3>1, <3>2 DEF Fetched
    <3>3. ASSUME step["loop"] = "files", NEW p \in todo, head'[p] = Absent
          PROVE  Settled(p, Absent)
      BY <2>3, <2>5, <2>6, <3>1, <3>3 DEF Fetched
    <3> QED BY <1>3, <1>8, <2>1, <3>2, <3>3 DEF Fetched, Settled
  <2>9. NothingForgotten'
    BY <1>3, <1>8, <2>1, <2>3, <2>5 DEF NothingForgotten, Settled
  <2>10. Landing'
    <3>1. \A g \in Filters : step'[g] # "set" \/ base'[g] = Moved
      BY <1>3, <1>8, <2>2, <2>4, Apart DEF Shape
    <3> QED BY <3>1 DEF Landing
  <2> QED BY <1>3, <1>8, <2>7, <2>8, <2>9, <2>10
<1> QED BY <1>2, <1>5, <1>6, <1>7, <1>8

\* A drained path is in the loop's hands.
LEMMA DrainKeeps == TypeOK /\ IInv /\ (\E p \in Paths : Drain(p)) => IInv'
<1> SUFFICES ASSUME TypeOK, IInv, NEW p \in Paths, Drain(p) PROVE IInv'
  OBVIOUS
<1> USE DEF IInv
<1>1. /\ UNCHANGED <<head, disk, base, before, todo, missed>> /\ dirty' = dirty \ {p}
      /\ step["loop"] = "idle" /\ DOMAIN change["loop"] = {} /\ todo = {}
      /\ \A f \in Filters : step'[f] = step[f] /\ change'[f] = change[f]
  BY Apart DEF Drain, Goto, TypeOK, git, fetch, history, Shape
<1>2. Shape'
  BY ShapeOfReconcile
<1>3. CASE disk[p] = Ghost /\ UNCHANGED <<step, change>>
  <2>1. Reconciling' /\ Fetched'
    BY <1>1, <1>3 DEF Reconciling, Fetched
  <2>2. NothingForgotten'
    BY <1>1, <1>3 DEF NothingForgotten
  <2>3. Landing'
    BY <1>1, <1>3 DEF Landing, Settled
  <2> QED BY <1>2, <2>1, <2>2, <2>3
<1>4. ASSUME disk[p] # Ghost, change'["loop"] = [q \in {p} |-> Absent],
             \/ disk[p] = Absent /\ step'["loop"] = "compare"
             \/ disk[p] # Absent /\ step'["loop"] = "read"
      PROVE  IInv'
  <2>1. DOMAIN change'["loop"] = {p} /\ change'["loop"][p] = Absent
    BY <1>4
  <2>2. Reconciling'
    BY <1>1, <1>4, <2>1 DEF Reconciling, Settled
  <2>3. Fetched'
    BY <1>1, <1>4 DEF Fetched
  <2>4. NothingForgotten'
    BY <1>1, <2>1 DEF NothingForgotten
  <2>5. Landing'
    BY <1>1, <2>1 DEF Landing, Settled
  <2> QED BY <1>2, <2>2, <2>3, <2>4, <2>5
<1>5. \/ disk[p] = Ghost /\ UNCHANGED <<step, change>>
      \/ /\ disk[p] # Ghost /\ change'["loop"] = [q \in {p} |-> Absent]
         /\ \/ disk[p] = Absent /\ step'["loop"] = "compare"
            \/ disk[p] # Absent /\ step'["loop"] = "read"
  BY Apart, WriteBackAssumption DEF Drain, Goto, TypeOK, WriteBackAssumption
<1> QED BY <1>3, <1>4, <1>5

\* The loop lets its path go only when it is settled.
LEMMA LettingGo ==
  ASSUME TypeOK, IInv, Shape', Done("loop"), UNCHANGED <<disk, before, todo>>,
         step["loop"] \in {"read", "compare", "set"},
         dirty' = dirty, missed \subseteq missed',
         head' = head,
         \A p \in DOMAIN change["loop"] :
           \/ disk[p] \in {Ghost, head[p]} /\ p \notin Renaming
           \/ disk[p] = Ghost \/ p \in dirty' \cup missed'
  PROVE  IInv'
<1> USE DEF IInv
<1>1. /\ step'["loop"] = "idle" /\ DOMAIN change'["loop"] = {}
      /\ \A f \in Filters :
           step'[f] = step[f] /\ change'[f] = change[f] /\ base'[f] = base[f]
  BY Apart, DoneTypes, FinishTypes
<1>2. (\A f \in Filters : DOMAIN change[f] \subseteq Renaming) /\ todo = {}
  BY DEF Shape, Renaming
<1>3. Reconciling' /\ Fetched'
  BY <1>1 DEF Reconciling, Fetched
<1>4. NothingForgotten'
  BY <1>1, <1>2 DEF NothingForgotten
<1>5. Landing'
  <2>1. Reported
    BY DEF Reported
  <2> QED BY <1>1, <1>2, <2>1, LandingKeeps
<1> QED BY <1>3, <1>4, <1>5

LEMMA ReadsKeep == TypeOK /\ IInv /\ ReconcileReads => IInv'
<1> SUFFICES ASSUME TypeOK, IInv, ReconcileReads PROVE IInv'
  OBVIOUS
<1> USE DEF IInv
<1>1. PICK p \in DOMAIN change["loop"] :
        ReadFile("loop", p, "compare") \/ ReadFails("loop", p)
  BY DEF ReconcileReads
<1>2. /\ UNCHANGED <<head, disk, dirty, before, todo>>
      /\ step["loop"] = "read" /\ Shape'
      /\ p \in Paths /\ DOMAIN change["loop"] = {p}
  BY <1>1, ShapeOfReconcile, Apart
     DEF ReconcileReads, git, folder, fetch, Shape, TypeOK, IsEdit
<1>3. CASE ReadFile("loop", p, "compare")
  <2>1. /\ step'["loop"] = "compare" /\ change'["loop"] = [q \in {p} |-> disk[p]]
        /\ \A f \in Filters : step'[f] = step[f] /\ change'[f] = change[f]
        /\ UNCHANGED <<base, missed>>
    BY <1>3, Apart DEF ReadFile, Goto, TypeOK, history
  <2>2. DOMAIN change'["loop"] = {p} /\ change'["loop"][p] = disk[p]
    BY <2>1
  <2>3. Reconciling' /\ Fetched'
    BY <1>2, <2>1, <2>2 DEF Reconciling, Fetched, Settled
  <2>4. NothingForgotten'
    BY <1>2, <2>1, <2>2 DEF NothingForgotten
  <2>5. Landing'
    <3>1. Reported
      BY <1>2, <2>1 DEF Reported
    <3> QED BY <1>2, <2>1, <2>2, <3>1, LandingKeeps
  <2> QED BY <1>2, <2>3, <2>4, <2>5
<1>4. CASE ReadFails("loop", p)
  <2>1. /\ Done("loop") /\ missed \subseteq missed'
        /\ disk[p] \in {Absent, Ghost} \/ p \in missed'
    BY <1>2, <1>4 DEF ReadFails, Unfillable
  <2>2. disk[p] # Absent \/ p \in dirty
    BY <1>2 DEF Reconciling
  <2> QED BY <1>2, <2>1, <2>2, LettingGo
<1> QED BY <1>1, <1>3, <1>4

LEMMA CompareKeeps == TypeOK /\ IInv /\ Compare => IInv'
<1> SUFFICES ASSUME TypeOK, IInv, Compare PROVE IInv'
  OBVIOUS
<1> USE DEF IInv
<1>1. /\ UNCHANGED <<head, disk, dirty, before, todo>> /\ step["loop"] = "compare"
      /\ Shape' /\ DOMAIN change["loop"] \subseteq Paths
  BY ShapeOfReconcile, Apart DEF Compare, git, folder, fetch, TypeOK, IsEdit
<1>2. ASSUME Applied(head, change["loop"]) = head, Done("loop"),
             missed' = missed \cup (DOMAIN change["loop"] \cap Renaming)
      PROVE  IInv'
  <2>1. \A p \in DOMAIN change["loop"] : head[p] = change["loop"][p]
    BY <1>1, <1>2 DEF Applied
  <2>2. \A p \in DOMAIN change["loop"] : Settled(p, head[p])
    BY <1>1, <2>1 DEF Reconciling
  <2> QED BY <1>1, <1>2, <2>2, LettingGo DEF Settled
<1>3. ASSUME Goto("loop", "base"), UNCHANGED <<change, base, renaming, missed>>
      PROVE  IInv'
  <2>1. step'["loop"] = "base" /\ \A f \in Filters : step'[f] = step[f]
    BY <1>3, Apart DEF Goto, TypeOK
  <2>2. Reconciling' /\ Fetched' /\ NothingForgotten' /\ Landing'
    BY <1>1, <1>3, <2>1 DEF Reconciling, Fetched, NothingForgotten, Landing, Settled
  <2> QED BY <1>1, <2>2
<1> QED BY <1>2, <1>3 DEF Compare

LEMMA LoopCommitKeeps ==
  TypeOK /\ IInv /\ (\/ ReadHead("loop") \/ WriteFiles("loop") \/ WriteFails("loop")
                     \/ SetRef("loop") \/ SetRefFails("loop")) => IInv'
<1> SUFFICES ASSUME TypeOK, IInv,
                    \/ ReadHead("loop") \/ WriteFiles("loop") \/ WriteFails("loop")
                    \/ SetRef("loop") \/ SetRefFails("loop")
             PROVE  IInv'
  OBVIOUS
<1> USE DEF IInv
<1> DEFINE edit == change["loop"]
<1>1. "loop" \in Threads /\ \A f \in Filters : f \in Threads \ {"loop"}
  BY Apart
<1>2. /\ Shape' /\ UNCHANGED <<before, todo>> /\ DOMAIN edit \subseteq Paths
      /\ todo = {}
      /\ \A f \in Filters :
           /\ step'[f] = step[f] /\ change'[f] = change[f]
           /\ base'[f] = base[f] \/ (base'[f] = Moved /\ base[f] # None)
  <2>1. Shape'
    BY <1>1, ShapeOfCommit
  <2>2. DOMAIN edit \subseteq Paths
    BY <1>1 DEF TypeOK, IsEdit
  <2>3. /\ UNCHANGED <<before, todo>>
        /\ \A f \in Filters :
             /\ step'[f] = step[f] /\ change'[f] = change[f]
             /\ base'[f] = base[f] \/ (base'[f] = Moved /\ base[f] # None)
    BY <1>1, Elsewhere
  <2>4. step["loop"] # "files"
    BY DEF ReadHead, WriteFiles, WriteFails, SetRef, SetRefFails
  <2> QED BY <2>1, <2>2, <2>3, <2>4 DEF Shape
<1>3. CASE ReadHead("loop")
  <2>1. /\ UNCHANGED <<head, disk, dirty, missed, change>>
        /\ step["loop"] = "base" /\ step'["loop"] = "write"
    BY <1>1, <1>3 DEF ReadHead, Goto, TypeOK, git, folder, history
  <2>2. Reconciling' /\ Fetched'
    BY <2>1 DEF Reconciling, Fetched
  <2>3. NothingForgotten'
    BY <1>2, <2>1 DEF NothingForgotten
  <2>4. Landing'
    BY <1>2, <2>1, LandingKeeps DEF Reported
  <2> QED BY <1>2, <2>2, <2>3, <2>4
<1>4. CASE WriteFiles("loop")
  <2>1. /\ Put(Touched(edit), edit, {}) /\ UNCHANGED <<head, change, base>>
        /\ step'["loop"] = "set" /\ step["loop"] = "write"
    BY <1>1, <1>4 DEF WriteFiles, Goto, TypeOK, git
  <2>2. /\ Reported /\ Touched(edit) \subseteq dirty'
        /\ \A p \in Paths \cap Touched(edit) : disk'[p] = edit[p]
    BY <2>1, PutReports
  <2>3. ASSUME NEW p \in DOMAIN edit
        PROVE  /\ disk'[p] = edit[p] \/ p \in dirty'
               /\ edit[p] # Absent => p \in dirty'
    BY <1>2, <2>1, <2>2, <2>3 DEF Reported, Touched
  <2>4. Reconciling' /\ Fetched'
    BY <2>1, <2>3 DEF Reconciling, Fetched, Settled
  <2>5. NothingForgotten'
    BY <1>2, <2>1, <2>2 DEF NothingForgotten, Reported
  <2>6. Landing'
    BY <1>2, <2>1, <2>2, LandingKeeps
  <2> QED BY <1>2, <2>4, <2>5, <2>6
<1>5. CASE WriteFails("loop")
  <2> DEFINE gone == Touched(edit) \cap Removed(edit)
             lost == DOMAIN edit \ Removed(edit)
  <2>1. /\ Done("loop") /\ head' = head /\ Put(gone, edit, lost)
        /\ Removed(edit) # DOMAIN edit
    BY <1>5 DEF WriteFails, git
  <2>2. Removed(edit) = {} /\ gone = {} /\ lost = DOMAIN edit
    BY <2>1 DEF Shape, Removed
  <2> HIDE DEF gone, lost
  <2>3. /\ UNCHANGED <<dirty>> /\ missed' = missed \cup DOMAIN edit
        /\ Reported /\ \A p \in Paths : disk'[p] = disk[p]
    BY <2>1, <2>2, PutReports DEF Put, TypeOK
  <2>4. step'["loop"] = "idle" /\ DOMAIN change'["loop"] = {}
    BY <1>1, <2>1, DoneTypes, FinishTypes
  <2>5. Reconciling' /\ Fetched'
    BY <2>4 DEF Reconciling, Fetched
  <2>6. NothingForgotten'
    BY <1>2, <2>1, <2>3, <2>4, <1>5 DEF NothingForgotten, WriteFails
  <2>7. Landing'
    BY <1>2, <2>3, LandingKeeps
  <2> QED BY <1>2, <2>5, <2>6, <2>7
<1>6. CASE SetRef("loop")
  <2>1. /\ UNCHANGED <<disk, dirty, missed>> /\ Finish("loop")
        /\ step["loop"] = "set" /\ base["loop"] # Moved
        /\ Move(Applied(base["loop"], edit), "loop")
    BY <1>6 DEF SetRef, folder, history
  <2>2. \A p \in Paths : head'[p] = IF p \in DOMAIN edit THEN edit[p] ELSE head[p]
    BY <1>1, <2>1, BaseIsHead DEF Move, Applied
  <2>3. \A f \in Filters : base'[f] \in {None, Moved}
    BY <1>1, <2>1 DEF Move
  <2>4. \A p \in DOMAIN edit : Settled(p, edit[p])
    BY <2>1 DEF Reconciling
  <2>5. step'["loop"] = "idle" /\ DOMAIN change'["loop"] = {}
    BY <1>1, <2>1, FinishTypes
  <2>6. NothingForgotten'
    BY <1>2, <2>1, <2>2, <2>4, <2>5 DEF NothingForgotten, Settled
  <2>7. Landing'
    <3>1. \A f \in Filters : step'[f] # "set" \/ base'[f] = Moved
      BY <1>1, <1>2, <2>3 DEF Shape
    <3> QED BY <3>1 DEF Landing
  <2>8. Reconciling' /\ Fetched'
    BY <2>5 DEF Reconciling, Fetched
  <2> QED BY <1>2, <2>6, <2>7, <2>8
<1>7. CASE SetRefFails("loop")
  <2>1. /\ UNCHANGED <<head, disk, dirty>> /\ Done("loop") /\ step["loop"] = "set"
        /\ missed' = missed \cup Removed(edit)
    BY <1>7 DEF SetRefFails, git, folder
  <2>2. \A p \in DOMAIN edit : p \in dirty' \cup missed'
    BY <2>1 DEF Reconciling, Removed
  <2> QED BY <1>2, <2>1, <2>2, LettingGo
<1> QED BY <1>3, <1>4, <1>5, <1>6, <1>7

LEMMA FetchKeeps ==
  TypeOK /\ IInv /\ (\/ Push \/ FetchStart \/ FetchNothing \/ Walk \/ FetchEnds
                     \/ \E tree \in RemoteTrees : FetchMoves(tree)
                     \/ \E p \in Paths : FetchFile(p) \/ FetchFileFails(p))
    => IInv'
<1> SUFFICES ASSUME TypeOK, IInv,
                    \/ Push \/ FetchStart \/ FetchNothing \/ Walk \/ FetchEnds
                    \/ \E tree \in RemoteTrees : FetchMoves(tree)
                    \/ \E p \in Paths : FetchFile(p) \/ FetchFileFails(p)
             PROVE  IInv'
  OBVIOUS
<1> USE Apart DEF IInv
<1>1. /\ Shape' /\ change' = change
      /\ \A f \in Filters : step'[f] = step[f]
  BY ShapeOfFetch, Apart
     DEF Push, FetchStart, FetchNothing, Walk, FetchEnds, FetchMoves, FetchFile,
         FetchFileFails, Goto, TypeOK, commit
<1>2. CASE Push
  <2>1. UNCHANGED <<head, disk, dirty, missed, before, todo, step, base>>
    BY <1>2 DEF Push, folder, commit, fetch, history
  <2> QED
    BY <1>1, <2>1, ReportKeeps, LandingKeeps DEF Reported
<1>3. ASSUME UNCHANGED <<disk, dirty, missed, base>>
      PROVE  Landing'
  BY <1>1, <1>3, LandingKeeps DEF Reported
<1>4. CASE FetchStart
  <2>1. /\ UNCHANGED <<head, disk, dirty, missed, todo, base>> /\ before' = head
        /\ step["loop"] = "idle" /\ step'["loop"] = "fetch"
        /\ DOMAIN change["loop"] = {} /\ todo = {}
    BY <1>4 DEF FetchStart, Goto, TypeOK, git, folder, history, Shape
  <2>2. Reconciling' /\ NothingForgotten'
    BY <1>1, <2>1 DEF Reconciling, NothingForgotten
  <2>3. Fetched'
    BY <2>1 DEF Fetched, NothingForgotten, Settled
  <2> QED BY <1>1, <1>3, <2>1, <2>2, <2>3
<1>5. CASE FetchNothing \/ FetchEnds
  <2>1. /\ UNCHANGED <<head, disk, dirty, missed, todo, base>>
        /\ step["loop"] \in {"fetch", "files"} /\ step'["loop"] = "idle"
    BY <1>5 DEF FetchNothing, FetchEnds, Goto, TypeOK, git, folder, history
  <2>2. Reconciling' /\ Fetched' /\ NothingForgotten'
    BY <1>1, <2>1 DEF Reconciling, Fetched, NothingForgotten
  <2> QED BY <1>1, <1>3, <2>1, <2>2
<1>6. ASSUME NEW tree \in RemoteTrees, FetchMoves(tree)
      PROVE  IInv'
  <2>1. /\ UNCHANGED <<disk, dirty, before, todo>>
        /\ step["loop"] = "fetch" /\ step'["loop"] = "walk"
        /\ Move(tree, "loop")
        /\ missed' = missed \cup (Present(before) \ Present(tree))
    BY <1>6 DEF FetchMoves, Goto, TypeOK, folder, fetch
  <2>2. Reconciling' /\ NothingForgotten'
    BY <2>1 DEF Reconciling, NothingForgotten
  <2>3. Fetched'
    <3>1. ASSUME NEW p \in Paths
          PROVE  Settled(p, before[p]) /\ (tree[p] = Absent => Settled(p, Absent)')
      BY <2>1 DEF Fetched, Settled, Present
    <3> QED BY <2>1, <3>1 DEF Fetched, Settled, Move
  <2>4. Landing'
    <3>1. \A f \in Filters : base'[f] \in {None, Moved}
      BY <2>1, Apart DEF Move
    <3>2. \A f \in Filters : step'[f] # "set" \/ base'[f] = Moved
      BY <1>1, <3>1, Apart DEF Shape
    <3> QED BY <3>2 DEF Landing
  <2> QED BY <1>1, <2>2, <2>3, <2>4
<1>7. CASE Walk
  <2>1. /\ UNCHANGED <<head, disk, dirty, missed, before, base>>
        /\ step["loop"] = "walk" /\ step'["loop"] = "files"
        /\ todo' = {p \in Present(head) : head[p] # before[p]}
    BY <1>7 DEF Walk, Goto, TypeOK, git, folder, history
  <2>2. Reconciling' /\ Fetched'
    BY <2>1 DEF Reconciling, Fetched, Present
  <2>3. ASSUME NEW p \in Paths, disk[p] \notin {Ghost, head[p]}
        PROVE  p \in dirty \cup missed \cup todo'
    BY <2>1, <2>3 DEF Fetched, Settled, Present
  <2>4. NothingForgotten'
    BY <2>1, <2>3 DEF NothingForgotten
  <2> QED BY <1>1, <1>3, <2>1, <2>2, <2>4
<1>8. ASSUME NEW p \in Paths, FetchFile(p)
      PROVE  IInv'
  <2>1. /\ UNCHANGED <<head, step, before, base>> /\ step["loop"] = "files"
        /\ todo' = todo \ {p} /\ p \in todo /\ todo \subseteq Paths
    BY <1>8 DEF FetchFile, git, commit, TypeOK
  <2>2. CASE head[p] = Absent
    <3>1. UNCHANGED <<disk, dirty, missed>>
      BY <1>8, <2>2 DEF FetchFile, folder
    <3>2. Reconciling' /\ Fetched'
      BY <2>1, <3>1 DEF Reconciling, Fetched, Settled
    <3>3. NothingForgotten'
      BY <1>1, <2>1, <2>2, <3>1 DEF NothingForgotten, Fetched, Settled
    <3> QED BY <1>1, <1>3, <2>1, <3>1, <3>2, <3>3
  <2>3. CASE head[p] # Absent
    <3>1. Put({p}, head, {})
      BY <1>8, <2>3 DEF FetchFile
    <3>2. Reported /\ p \in dirty'
      BY <3>1, PutReports
    <3>3. Reconciling'
      BY <2>1 DEF Reconciling
    <3>4. Fetched'
      BY <2>1, <3>2 DEF Fetched, Settled, Reported
    <3>5. NothingForgotten'
      BY <1>1, <2>1, <3>2 DEF NothingForgotten, Reported
    <3>6. Landing'
      BY <1>1, <2>1, <3>2, LandingKeeps
    <3> QED BY <1>1, <3>3, <3>4, <3>5, <3>6
  <2> QED BY <2>2, <2>3
<1>9. ASSUME NEW p \in Paths, FetchFileFails(p)
      PROVE  IInv'
  <2>1. /\ UNCHANGED <<head, step, before, disk, dirty, base>> /\ step["loop"] = "files"
        /\ todo' = todo \ {p} /\ missed' = missed \cup {p}
    BY <1>9 DEF FetchFileFails, git, commit, folder
  <2>2. Reconciling' /\ Fetched'
    BY <2>1 DEF Reconciling, Fetched, Settled
  <2>3. NothingForgotten'
    BY <1>1, <2>1 DEF NothingForgotten
  <2>4. Landing'
    BY <1>1, <2>1, LandingKeeps DEF Reported
  <2> QED BY <1>1, <2>2, <2>3, <2>4
<1> QED BY <1>2, <1>4, <1>5, <1>6, <1>7, <1>8, <1>9

LEMMA IInvInit == Init => IInv
<1> SUFFICES ASSUME Init PROVE IInv
  OBVIOUS
<1>1. step["loop"] = "idle" /\ disk = head /\ \A f \in Filters : step[f] = "idle"
  BY Apart DEF Init
<1>2. Reconciling /\ Landing /\ Fetched /\ NothingForgotten
  BY <1>1 DEF Reconciling, Landing, Fetched, NothingForgotten
<1> QED BY <1>2, ShapeInit DEF IInv

LEMMA IInvStep == TypeOK /\ IInv /\ [Next]_vars => IInv'
<1> SUFFICES ASSUME TypeOK, IInv, [Next]_vars PROVE IInv'
  OBVIOUS
<1>1. CASE UNCHANGED vars
  BY <1>1 DEF vars, git, folder, commit, fetch, history, IInv, Shape,
              Renamed, Reconciling, Landing, Fetched, NothingForgotten, Settled
<1> QED
  BY <1>1, UserKeeps, FilterKeeps, PlaceholdersKeep, DrainKeeps, ReadsKeep,
     CompareKeeps, LoopCommitKeeps, FetchKeeps DEF Next, Loop

LEMMA Invariance == Spec => [](TypeOK /\ IInv)
<1>1. TypeOK /\ IInv /\ [Next]_vars => TypeOK' /\ IInv'
  BY TypeStep, IInvStep DEF IInv
<1> QED BY <1>1, TypeInit, IInvInit, PTL DEF Spec
-----------------------------------------------------------------------------
(* Placeholders can be filled.  A placeholder is loose while nothing excuses  *)
(* it; one that is being renamed waits for the commit of a filter's thread.   *)

Loose(p) == disk[p] = Ghost /\ p \notin late \cup missed

AwaitedBy(f, p) ==
  /\ p \in Renamed(f)
  /\ \/ p = renaming[f][2] /\ step[f] \in {"collect", "read"}
     \/ p \in DOMAIN change[f] /\ step[f] \in {"base", "write"}

Awaited(p) == \E f \in Filters : AwaitedBy(f, p)

\* HEAD's blob fits, or the fetch that changed it is on its way to the file.
Fillable(p) ==
  /\ \/ Fits(p, size[p])
     \/ step["loop"] = "files" /\ p \in todo
     \/ step["loop"] = "walk" /\ head[p] \notin {Absent, before[p]}
  /\ p \in todo => head[p] # Absent

Ghosts ==
  /\ \A p \in DOMAIN change["loop"] : Loose(p) => p \in Renaming
  /\ \A p \in Renaming : Loose(p) => Awaited(p)
  /\ \A p \in Paths : Loose(p) /\ p \notin Renaming => Fillable(p)

\* A step that leaves a loose placeholder as it was.
Undisturbed(p) ==
  /\ Loose(p) /\ p \notin Renaming
  /\ head'[p] = head[p] /\ size'[p] = size[p]
  /\ p \in DOMAIN change'["loop"] => p \in DOMAIN change["loop"]
  /\ \/ /\ step'["loop"] = step["loop"] /\ before'[p] = before[p]
        /\ p \in todo' <=> p \in todo
     \/ p \notin todo \cup todo' /\ step["loop"] # "walk"

Accounted(p) ==
  \/ Awaited(p)'
  \/ p \notin Renaming' /\ Undisturbed(p)

LEMMA AwaitedIsRenaming == \A p : Awaited(p) => p \in Renaming
BY DEF Awaited, AwaitedBy, Renaming

\* A filter thread that is where it was awaits what it did.
LEMMA AwaitedStays ==
  ASSUME NEW f \in Filters, NEW p, AwaitedBy(f, p),
         step'[f] = step[f], change'[f] = change[f], renaming'[f] = renaming[f]
  PROVE  Awaited(p)'
BY DEF Awaited, AwaitedBy, Renamed

LEMMA LooseStays ==
  ASSUME TypeOK, TypeOK', Shape, Shape', Ghosts,
         \A p \in Paths : Loose(p)' => Accounted(p)
  PROVE  Ghosts'
<1>1. DOMAIN change'["loop"] \subseteq Paths /\ Renaming' \subseteq Paths
  BY Apart DEF TypeOK, IsEdit, Renaming, Renamed
<1>2. \A p \in Paths : Awaited(p)' => p \in Renaming'
  BY DEF Awaited, AwaitedBy, Renaming
<1>3. ASSUME NEW p \in Paths, Loose(p)', p \notin Renaming'
      PROVE  Fillable(p)'
  <2>1. Undisturbed(p) /\ Fillable(p)
    BY <1>2, <1>3 DEF Ghosts, Accounted, Undisturbed
  <2>2. Fits(p, size[p]) => Fits(p, size[p])'
    BY <2>1 DEF Undisturbed, Fits
  <2>3. CASE p \notin todo \cup todo' /\ step["loop"] # "walk"
    BY <2>1, <2>2, <2>3 DEF Fillable
  <2>4. CASE /\ step'["loop"] = step["loop"] /\ before'[p] = before[p]
             /\ p \in todo' <=> p \in todo
    BY <2>1, <2>2, <2>4 DEF Fillable, Undisturbed
  <2> QED BY <2>1, <2>3, <2>4 DEF Undisturbed
<1>4. \A p \in DOMAIN change'["loop"] : Loose(p)' => p \in Renaming'
  BY <1>1, <1>2 DEF Ghosts, Accounted, Undisturbed
<1>5. \A p \in Renaming' : Loose(p)' => Awaited(p)'
  BY <1>1 DEF Accounted
<1> QED BY <1>3, <1>4, <1>5 DEF Ghosts

\* What is put into a file is no placeholder.
LEMMA PutFills ==
  ASSUME TypeOK, NEW files, files \subseteq Paths, NEW bytes,
         \A p \in files : bytes[p] \in Seq(Nat) \cup {Absent},
         NEW lost, Put(files, bytes, lost), UNCHANGED late
  PROVE  \A p \in Paths : Loose(p)' =>
           Loose(p) /\ p \notin files \cup lost /\ size'[p] = size[p]
BY WriteBackAssumption DEF WriteBackAssumption, Put, Loose, TypeOK

\* Steps that leave the threads where they are.
LEMMA FolderStays ==
  ASSUME TypeOK, TypeOK', Shape, Shape', Ghosts,
         UNCHANGED <<head, step, change, renaming, before, todo>>,
         \A p \in Paths : Loose(p)' => Loose(p) /\ size'[p] = size[p]
  PROVE  Ghosts'
<1>1. Renaming' = Renaming /\ \A p \in Paths : Awaited(p) => Awaited(p)'
  BY AwaitedStays DEF Renaming, Renamed, Awaited
<1>2. \A p \in Paths : Loose(p)' => Accounted(p)
  BY <1>1 DEF Accounted, Ghosts, Undisturbed
<1> QED BY <1>2, LooseStays

LEMMA GhostsOfUser ==
  TypeOK /\ TypeOK' /\ Shape /\ Shape' /\ Ghosts /\ User => Ghosts'
<1> SUFFICES ASSUME TypeOK, TypeOK', Shape, Shape', Ghosts, User PROVE Ghosts'
  OBVIOUS
<1>1. PICK p \in Paths :
        \/ \E content \in Contents : UserSave(p, content)
        \/ UserDelete(p)
        \/ \E q \in Paths : UserRename(p, q)
  BY DEF User
<1>2. ASSUME NEW bytes \in Seq(Nat) \cup {Absent},
             Put({p}, [q \in {p} |-> bytes], {}),
             UNCHANGED <<git, commit, fetch, late>>
      PROVE  Ghosts'
  <2> DEFINE file == [q \in {p} |-> bytes]
  <2>1. \A r \in {p} : file[r] \in Seq(Nat) \cup {Absent}
    BY <1>2
  <2>2. Put({p}, file, {}) /\ UNCHANGED <<git, commit, fetch, late>>
    BY <1>2
  <2> HIDE DEF file
  <2>3. \A r \in Paths : Loose(r)' => Loose(r) /\ size'[r] = size[r]
    BY <2>1, <2>2, PutFills
  <2> QED BY <2>2, <2>3, FolderStays DEF git, commit, fetch
<1>3. CASE \E content \in Contents : UserSave(p, content)
  BY <1>2, <1>3, WriteBackAssumption DEF UserSave, WriteBackAssumption
<1>4. CASE UserDelete(p)
  BY <1>2, <1>4 DEF UserDelete
<1>5. ASSUME NEW q \in Paths, UserRename(p, q)
      PROVE  Ghosts'
  <2>1. PICK f \in Filters : /\ step[f] = "idle" /\ Goto(f, "collect")
                             /\ renaming' = [renaming EXCEPT ![f] = <<p, q>>]
    BY <1>5 DEF UserRename
  <2>2. /\ step'[f] = "collect" /\ renaming'[f] = <<p, q>>
        /\ step'["loop"] = step["loop"]
        /\ \A g \in Filters \ {f} : step'[g] = step[g] /\ renaming'[g] = renaming[g]
        /\ UNCHANGED <<head, change, before, todo, late>>
    BY <1>5, <2>1, Apart DEF UserRename, Goto, TypeOK, git, fetch
  <2>3. renaming'[f] # None /\ Renamed(f) = {}
    <3>1. renaming'[f] \in Paths \X Paths
      BY <1>5, <2>2
    <3>2. renaming[f] = None
      BY <2>1, Apart DEF Shape
    <3> QED BY <3>1, <3>2, WriteBackAssumption DEF WriteBackAssumption, Renamed
  <2>4. Renamed(f)' = {p, q} /\ \A g \in Filters \ {f} : Renamed(g)' = Renamed(g)
    <3>1. Renamed(f)' = {renaming'[f][1], renaming'[f][2]}
      BY <2>3 DEF Renamed
    <3>2. <<p, q>>[1] = p /\ <<p, q>>[2] = q
      OBVIOUS
    <3>3. \A g \in Filters \ {f} : Renamed(g)' = Renamed(g)
      BY <2>2 DEF Renamed
    <3> QED BY <2>2, <3>1, <3>2, <3>3
  <2>5. Renaming' = Renaming \cup {p, q}
    BY <2>3, <2>4 DEF Renaming
  <2>6. AwaitedBy(f, q)'
    BY <2>2, <2>4 DEF AwaitedBy
  <2>7. disk'[p] = Absent /\ Ghost # Absent
    BY <1>5, WriteBackAssumption DEF UserRename, TypeOK, WriteBackAssumption
  <2>8. \A r \in Paths \ {p, q} :
          /\ disk'[r] = disk[r] /\ size'[r] = size[r]
          /\ r \in missed' <=> r \in missed
    BY <1>5 DEF UserRename, TypeOK
  <2>9. ASSUME NEW r \in Paths, Loose(r)'
        PROVE  Accounted(r)
    <3>1. r # p
      BY <2>7, <2>9 DEF Loose
    <3>2. CASE r = q
      BY <2>6, <3>2 DEF Accounted, Awaited
    <3>3. CASE r # q /\ r \in Renaming
      <4>1. Loose(r)
        BY <2>2, <2>8, <2>9, <3>1, <3>3 DEF Loose
      <4>2. PICK g \in Filters : AwaitedBy(g, r)
        BY <3>3, <4>1 DEF Ghosts, Awaited
      <4>3. g # f
        BY <2>3, <4>2 DEF AwaitedBy
      <4> QED BY <2>2, <4>2, <4>3, AwaitedStays DEF Accounted
    <3>4. CASE r # q /\ r \notin Renaming
      BY <2>2, <2>5, <2>8, <2>9, <3>1, <3>4 DEF Accounted, Loose, Undisturbed
    <3> QED BY <3>2, <3>3, <3>4
  <2> QED BY <2>9, LooseStays
<1> QED BY <1>1, <1>3, <1>4, <1>5

\* A step of one filter thread, which awaits a placeholder no more when it is
\* loose no more.
LEMMA FilterStays ==
  ASSUME TypeOK, TypeOK', Shape, Shape', Ghosts, NEW f \in Filters,
         UNCHANGED <<before, todo>>,
         step'["loop"] = step["loop"], change'["loop"] = change["loop"],
         \A g \in Filters \ {f} :
           step'[g] = step[g] /\ change'[g] = change[g] /\ renaming'[g] = renaming[g],
         renaming'[f] = renaming[f] \/ renaming'[f] = None,
         \A p \in Paths \ Renaming : head'[p] = head[p],
         \A p \in Paths : Loose(p)' => Loose(p) /\ size'[p] = size[p],
         \A p \in Paths : Loose(p)' /\ AwaitedBy(f, p) => Awaited(p)'
  PROVE  Ghosts'
<1>1. Renaming' \subseteq Renaming
  BY DEF Renaming, Renamed
<1>2. ASSUME NEW p \in Paths, Loose(p)'
      PROVE  Accounted(p)
  <2>1. CASE p \in Renaming
    <3>1. PICK g \in Filters : AwaitedBy(g, p)
      BY <1>2, <2>1 DEF Ghosts, Awaited
    <3>2. CASE g = f
      BY <1>2, <3>1, <3>2 DEF Accounted
    <3>3. CASE g # f
      BY <3>1, <3>3, AwaitedStays DEF Accounted
    <3> QED BY <3>2, <3>3
  <2>2. CASE p \notin Renaming
    BY <1>1, <1>2, <2>2 DEF Accounted, Undisturbed
  <2> QED BY <2>1, <2>2
<1> QED BY <1>2, LooseStays

\* A commit's step, by a thread of the filter or by the loop.
LEMMA GhostsOfFilterCommit ==
  ASSUME TypeOK, TypeOK', Shape, Shape', Ghosts, NEW f \in Filters,
         ReadHead(f) \/ WriteFiles(f) \/ WriteFails(f) \/ SetRef(f) \/ SetRefFails(f)
  PROVE  Ghosts'
<1>1. /\ f \in Threads /\ f # "loop" /\ UNCHANGED <<before, todo>>
      /\ step'["loop"] = step["loop"] /\ change'["loop"] = change["loop"]
      /\ \A g \in Filters \ {f} :
           step'[g] = step[g] /\ change'[g] = change[g] /\ renaming'[g] = renaming[g]
  BY Elsewhere, Apart
<1>2. /\ Touched(change[f]) \subseteq Paths /\ DOMAIN change[f] \subseteq Paths
      /\ \A p \in Touched(change[f]) : change[f][p] \in Seq(Nat) \cup {Absent}
  BY <1>1 DEF TypeOK, IsEdit, Touched
<1>3. CASE ReadHead(f)
  <2>1. /\ UNCHANGED <<head, disk, size, missed, late, change, renaming>>
        /\ step[f] = "base" /\ step'[f] = "write"
    BY <1>1, <1>3 DEF ReadHead, Goto, TypeOK, git, folder, history
  <2>2. \A p \in Paths : AwaitedBy(f, p) => AwaitedBy(f, p)'
    BY <2>1 DEF AwaitedBy, Renamed
  <2>3. \A p \in Paths : Loose(p)' => Loose(p) /\ size'[p] = size[p]
    BY <2>1 DEF Loose
  <2> QED BY <1>1, <2>1, <2>2, <2>3, FilterStays DEF Awaited
<1>4. CASE WriteFiles(f)
  <2>1. /\ UNCHANGED <<head, change, renaming, late>> /\ step[f] = "write"
        /\ Put(Touched(change[f]), change[f], {})
    BY <1>4 DEF WriteFiles, git
  <2>2. \A p \in Paths : Loose(p)' =>
          Loose(p) /\ p \notin Touched(change[f]) /\ size'[p] = size[p]
    BY <1>2, <2>1, PutFills
  <2>3. \A p \in Paths : Loose(p) /\ p \in DOMAIN change[f] => p \in Touched(change[f])
    BY WriteBackAssumption DEF WriteBackAssumption, Loose, Touched
  <2>4. \A p \in Paths : AwaitedBy(f, p) => p \in DOMAIN change[f]
    BY <2>1 DEF AwaitedBy
  <2> QED BY <1>1, <2>1, <2>2, <2>3, <2>4, FilterStays
<1>5. CASE WriteFails(f)
  <2> DEFINE gone == Touched(change[f]) \cap Removed(change[f])
             lost == DOMAIN change[f] \ Removed(change[f])
  <2>1. /\ Done(f) /\ UNCHANGED <<head, late>> /\ step[f] = "write"
        /\ Put(gone, change[f], lost)
    BY <1>5 DEF WriteFails, git
  <2>2. gone \subseteq Paths /\ \A p \in gone : change[f][p] \in Seq(Nat) \cup {Absent}
    BY <1>2
  <2>3. \A p \in Paths : Loose(p) /\ p \in DOMAIN change[f] => p \in gone \cup lost
    BY WriteBackAssumption DEF WriteBackAssumption, Loose, Touched
  <2> HIDE DEF gone, lost
  <2>4. \A p \in Paths : Loose(p)' =>
          Loose(p) /\ p \notin gone \cup lost /\ size'[p] = size[p]
    BY <2>1, <2>2, PutFills
  <2>5. \A p \in Paths : AwaitedBy(f, p) => p \in DOMAIN change[f]
    BY <2>1 DEF AwaitedBy
  <2>6. renaming'[f] = None
    BY <1>1, <2>1, DoneTypes, FinishTypes
  <2> QED BY <1>1, <2>1, <2>3, <2>4, <2>5, <2>6, FilterStays
<1>6. CASE SetRef(f) \/ SetRefFails(f)
  <2>1. /\ UNCHANGED <<disk, size, late>> /\ missed \subseteq missed'
        /\ step[f] = "set" /\ Finish(f)
    BY <1>6 DEF SetRef, SetRefFails, Done, folder, history
  <2>2. renaming'[f] = None
    BY <1>1, <2>1, FinishTypes
  <2>3. \A p \in Paths \ Renaming : head'[p] = head[p]
    <3>1. CASE SetRef(f)
      <4>1. head' = Applied(base[f], change[f]) /\ base[f] = head
        BY <1>1, <3>1, BaseIsHead DEF SetRef, Move
      <4>2. DOMAIN change[f] \subseteq Renaming
        BY DEF Shape, Renaming
      <4> QED BY <4>1, <4>2 DEF Applied
    <3>2. CASE SetRefFails(f)
      BY <3>2 DEF SetRefFails, git
    <3> QED BY <1>6, <3>1, <3>2
  <2>4. \A p \in Paths : Loose(p)' => Loose(p) /\ size'[p] = size[p]
    BY <2>1 DEF Loose
  <2>5. \A p \in Paths : ~AwaitedBy(f, p)
    BY <2>1 DEF AwaitedBy
  <2> QED BY <1>1, <2>2, <2>3, <2>4, <2>5, FilterStays
<1> QED BY <1>3, <1>4, <1>5, <1>6

LEMMA GhostsOfLoopCommit ==
  ASSUME TypeOK, TypeOK', Shape, Shape', Ghosts,
         \/ ReadHead("loop") \/ WriteFiles("loop") \/ WriteFails("loop")
         \/ SetRef("loop") \/ SetRefFails("loop")
  PROVE  Ghosts'
<1> DEFINE edit == change["loop"]
<1>1. /\ "loop" \in Threads /\ UNCHANGED <<before, todo>>
      /\ \A f \in Filters :
           step'[f] = step[f] /\ change'[f] = change[f] /\ renaming'[f] = renaming[f]
  BY Elsewhere, Apart
<1>2. step["loop"] \in {"base", "write", "set"} /\ todo = {}
  BY DEF ReadHead, WriteFiles, WriteFails, SetRef, SetRefFails, Shape
<1>3. DOMAIN change'["loop"] \subseteq DOMAIN edit
  <2>1. CASE ReadHead("loop") \/ WriteFiles("loop")
    BY <2>1 DEF ReadHead, WriteFiles
  <2>2. CASE WriteFails("loop") \/ SetRef("loop") \/ SetRefFails("loop")
    BY <1>1, <2>2, FinishTypes DEF WriteFails, SetRef, SetRefFails, Done
  <2> QED BY <2>1, <2>2
<1>4. /\ Touched(edit) \subseteq Paths /\ DOMAIN edit \subseteq Paths
      /\ \A p \in Touched(edit) : edit[p] \in Seq(Nat) \cup {Absent}
  BY <1>1 DEF TypeOK, IsEdit, Touched
<1>5. \A p \in Paths : Loose(p)' => Loose(p) /\ size'[p] = size[p]
  <2>1. CASE ReadHead("loop") \/ SetRef("loop") \/ SetRefFails("loop")
    BY <2>1 DEF ReadHead, SetRef, SetRefFails, Loose, folder, history
  <2>2. CASE WriteFiles("loop")
    BY <1>4, <2>2, PutFills DEF WriteFiles
  <2>3. CASE WriteFails("loop")
    <3> DEFINE gone == Touched(edit) \cap Removed(edit)
               lost == DOMAIN edit \ Removed(edit)
    <3>1. Put(gone, edit, lost) /\ UNCHANGED late
      BY <2>3 DEF WriteFails
    <3>2. gone \subseteq Paths /\ \A p \in gone : edit[p] \in Seq(Nat) \cup {Absent}
      BY <1>4
    <3> HIDE DEF gone, lost
    <3> QED BY <3>1, <3>2, PutFills
  <2> QED BY <2>1, <2>2, <2>3
<1>6. \A p \in Paths \ DOMAIN edit : head'[p] = head[p]
  <2>1. CASE SetRef("loop")
    BY <1>1, <2>1, BaseIsHead DEF SetRef, Move, Applied
  <2>2. CASE ReadHead("loop") \/ WriteFiles("loop") \/ WriteFails("loop")
               \/ SetRefFails("loop")
    BY <2>2 DEF ReadHead, WriteFiles, WriteFails, SetRefFails, git
  <2> QED BY <2>1, <2>2
<1>7. Renaming' = Renaming /\ \A p \in Paths : Awaited(p) => Awaited(p)'
  BY <1>1, AwaitedStays DEF Renaming, Renamed, Awaited
<1>8. \A p \in Paths : Loose(p)' => Accounted(p)
  BY <1>1, <1>2, <1>3, <1>5, <1>6, <1>7 DEF Ghosts, Accounted, Undisturbed
<1> QED BY <1>8, LooseStays

LEMMA GhostsOfReconcile ==
  TypeOK /\ TypeOK' /\ Shape /\ Shape' /\ Ghosts
    /\ ((\E p \in Paths : Drain(p)) \/ ReconcileReads \/ Compare) => Ghosts'
<1> SUFFICES ASSUME TypeOK, TypeOK', Shape, Shape', Ghosts,
                    (\E p \in Paths : Drain(p)) \/ ReconcileReads \/ Compare
             PROVE  Ghosts'
  OBVIOUS
<1>1. /\ UNCHANGED <<head, disk, size, before, todo>>
      /\ step["loop"] \in {"idle", "read", "compare"}
      /\ late \subseteq late' /\ missed \subseteq missed'
  BY DEF Drain, ReconcileReads, ReadFile, ReadFails, Compare, git, folder, fetch,
         history
<1>2. todo = {}
  BY <1>1 DEF Shape
<1>3. \A f \in Filters :
        step'[f] = step[f] /\ change'[f] = change[f] /\ renaming'[f] = renaming[f]
  <2>1. CASE Done("loop")
    BY <2>1, Apart, DoneTypes, FinishTypes
  <2>2. CASE ~Done("loop")
    BY <2>2, Apart DEF Drain, ReconcileReads, ReadFile, ReadFails, Compare, Goto, TypeOK
  <2> QED BY <2>1, <2>2
<1>4. ASSUME NEW p \in Paths, Loose(p)', p \in DOMAIN change'["loop"]
      PROVE  p \in DOMAIN change["loop"]
  <2>1. CASE \E q \in Paths : Drain(q)
    <3>1. PICK q \in Paths : Drain(q)
      BY <2>1
    <3>2. \/ change' = change
          \/ disk[q] # Ghost /\ DOMAIN change'["loop"] = {q}
      BY <3>1, Apart, WriteBackAssumption DEF Drain, TypeOK, WriteBackAssumption
    <3> QED BY <1>1, <1>4, <3>2 DEF Loose
  <2>2. CASE ReconcileReads
    <3>1. PICK q \in DOMAIN change["loop"] :
            ReadFile("loop", q, "compare") \/ ReadFails("loop", q)
      BY <2>2 DEF ReconcileReads
    <3>2. DOMAIN change'["loop"] \subseteq {q}
      <4>1. CASE ReadFile("loop", q, "compare")
        BY <4>1, Apart DEF ReadFile, TypeOK
      <4>2. CASE ReadFails("loop", q)
        BY <4>2, Apart, DoneTypes, FinishTypes DEF ReadFails
      <4> QED BY <3>1, <4>1, <4>2
    <3> QED BY <1>4, <3>1, <3>2
  <2>3. CASE Compare
    <3>1. CASE Done("loop")
      BY <1>4, <3>1, Apart, DoneTypes, FinishTypes
    <3> QED BY <1>4, <2>3, <3>1 DEF Compare
  <2> QED BY <2>1, <2>2, <2>3
<1>5. Renaming' = Renaming /\ \A p \in Paths : Awaited(p) => Awaited(p)'
  BY <1>3, AwaitedStays DEF Renaming, Renamed, Awaited
<1>6. \A p \in Paths : Loose(p)' => Loose(p)
  BY <1>1 DEF Loose
<1>7. \A p \in Paths : Loose(p)' => Accounted(p)
  BY <1>1, <1>2, <1>4, <1>5, <1>6 DEF Ghosts, Accounted, Undisturbed
<1> QED BY <1>7, LooseStays

LEMMA GhostsOfRenames ==
  ASSUME TypeOK, TypeOK', Shape, Shape', Ghosts, NEW f \in Filters,
         Collect(f) \/ RenamedReads(f)
  PROVE  Ghosts'
<1>1. /\ UNCHANGED <<head, disk, size, before, todo>> /\ f \in Threads
      /\ step'["loop"] = step["loop"] /\ change'["loop"] = change["loop"]
      /\ \A g \in Filters \ {f} :
           step'[g] = step[g] /\ change'[g] = change[g] /\ renaming'[g] = renaming[g]
  BY RenamesLeave, Apart DEF git, folder, fetch
<1>2. missed' = missed
  BY ShapeOfRenames
<1>3. ASSUME late \subseteq late', renaming'[f] \in {renaming[f], None},
             \A p \in Paths : Loose(p)' /\ AwaitedBy(f, p) => AwaitedBy(f, p)'
      PROVE  Ghosts'
  <2>1. \A p \in Paths : Loose(p)' => Loose(p) /\ size'[p] = size[p]
    BY <1>1, <1>2, <1>3 DEF Loose
  <2> QED BY <1>1, <1>3, <2>1, FilterStays DEF Awaited
<1>4. CASE Collect(f)
  <2>1. /\ UNCHANGED <<renaming, late>> /\ step[f] = "collect"
        /\ \/ step'[f] = "read"
           \/ /\ step'[f] = "base"
              /\ DOMAIN change'[f] = {renaming[f][1], renaming[f][2]}
    BY <1>1, <1>4 DEF Collect, Goto, TypeOK, history
  <2>2. \A p \in Paths : AwaitedBy(f, p) => AwaitedBy(f, p)'
    BY <2>1 DEF AwaitedBy, Renamed
  <2> QED BY <1>3, <2>1, <2>2
<1>5. CASE RenamedReads(f)
  <2> DEFINE new == renaming[f][2]
  <2>1. /\ step[f] = "read"
        /\ ReadFile(f, new, "base") \/ ReadFails(f, new)
    BY <1>5 DEF RenamedReads
  <2>2. CASE ReadFile(f, new, "base")
    <3>1. /\ UNCHANGED <<renaming, late>> /\ step'[f] = "base"
          /\ DOMAIN change'[f] = {new}
      BY <1>1, <2>2 DEF ReadFile, Goto, TypeOK, history
    <3>2. \A p \in Paths : AwaitedBy(f, p) => AwaitedBy(f, p)'
      BY <2>1, <3>1, <1>5 DEF AwaitedBy, Renamed, RenamedReads
    <3> QED BY <1>3, <3>1, <3>2
  <2>3. CASE ReadFails(f, new)
    <3>1. /\ renaming'[f] = None /\ late \subseteq late'
          /\ disk[new] = Ghost => new \in late'
      BY <1>1, <2>3, DoneTypes, FinishTypes, WriteBackAssumption
         DEF ReadFails, WriteBackAssumption
    <3>2. \A p \in Paths : Loose(p)' => ~AwaitedBy(f, p)
      BY <1>1, <1>5, <3>1 DEF Loose, AwaitedBy, RenamedReads
    <3> QED BY <1>3, <3>1, <3>2
  <2> QED BY <2>1, <2>2, <2>3
<1> QED BY <1>4, <1>5

LEMMA GhostsOfPlaceholders ==
  TypeOK /\ TypeOK' /\ Shape /\ Shape' /\ Ghosts
    /\ (ListEntries \/ Project \/ \E p \in Paths : Hydrate(p)) => Ghosts'
<1> SUFFICES ASSUME TypeOK, TypeOK', Shape, Shape', Ghosts,
                    ListEntries \/ Project \/ \E p \in Paths : Hydrate(p)
             PROVE  Ghosts'
  OBVIOUS
<1>1. /\ UNCHANGED <<head, step, change, renaming, before, todo, missed>>
  BY PlaceholdersReport
     DEF ListEntries, Project, Hydrate, git, commit, fetch, history
<1>2. CASE ListEntries \/ \E p \in Paths : Hydrate(p)
  <2>1. ASSUME NEW p \in Paths, Loose(p)'
        PROVE  Loose(p) /\ size'[p] = size[p]
    <3>1. CASE ListEntries
      BY <2>1, <3>1 DEF ListEntries, Loose, folder
    <3>2. ASSUME NEW q \in Paths, Hydrate(q)
          PROVE  Loose(p) /\ size'[p] = size[p]
      <4>1. disk'[q] # Ghost
        <5> DEFINE bytes == SubSeq(head[q], 1, size[q])
        <5>1. /\ head[q] \in Seq(Nat) /\ size[q] \in Nat
              /\ size[q] <= Len(head[q]) /\ Len(head[q]) \in Nat
          BY <3>2, LenProperties DEF Hydrate, Unfillable, TypeOK, Trees
        <5>2. \A i \in 1 .. size[q] : head[q][i] \in Nat
          BY <5>1, ElementOfSeq
        <5>3. bytes \in Seq(Nat)
          BY <5>1, <5>2, SubSeqProperties
        <5>4. disk'[q] = bytes
          BY <3>2 DEF Hydrate, TypeOK
        <5> HIDE DEF bytes
        <5> QED BY <5>3, <5>4, WriteBackAssumption DEF WriteBackAssumption
      <4> QED BY <2>1, <3>2, <4>1 DEF Hydrate, Loose, TypeOK, history
    <3> QED BY <1>2, <3>1, <3>2
  <2> QED BY <1>1, <2>1, FolderStays
<1>3. CASE Project
  <2>1. PICK made \in SUBSET DOMAIN entries :
          /\ disk' = [p \in Paths |-> IF p \in made THEN Ghost ELSE disk[p]]
          /\ size' = [p \in Paths |-> IF p \in made THEN entries[p] ELSE size[p]]
          /\ late' = late \cup
               {p \in made : ~Fits(p, entries[p]) \/ p \in Committing}
    BY <1>3 DEF Project
  <2>2. Renaming' = Renaming /\ \A p \in Paths : Awaited(p) => Awaited(p)'
    BY <1>1, AwaitedStays DEF Renaming, Renamed, Awaited
  <2>3. ASSUME NEW p \in Paths, Loose(p)', p \in made
        PROVE  p \notin Committing /\ Fillable(p)'
    BY <1>1, <2>1, <2>3 DEF Loose, Fillable, Fits
  <2>4. ASSUME NEW p \in Paths, Loose(p)', p \notin made
        PROVE  Loose(p) /\ size'[p] = size[p]
    BY <1>1, <2>1, <2>4 DEF Loose
  <2>5. \A p \in DOMAIN change'["loop"] \cup Renaming' : p \in Paths
    BY Apart DEF TypeOK, IsEdit, Renaming, Renamed
  <2>6. \A p \in DOMAIN change'["loop"] : Loose(p)' => p \in Renaming'
    BY <1>1, <2>2, <2>3, <2>4, <2>5 DEF Ghosts, Committing
  <2>7. \A p \in Renaming' : Loose(p)' => Awaited(p)'
    BY <1>1, <2>2, <2>3, <2>4, <2>5 DEF Ghosts, Committing
  <2>8. ASSUME NEW p \in Paths, Loose(p)', p \notin Renaming'
        PROVE  Fillable(p)'
    BY <1>1, <2>2, <2>3, <2>4, <2>8 DEF Ghosts, Fillable, Fits
  <2> QED BY <2>6, <2>7, <2>8 DEF Ghosts
<1> QED BY <1>2, <1>3

\* The fetch: what it changes in HEAD, it goes on to write.
LEMMA GhostsOfFetch ==
  TypeOK /\ TypeOK' /\ Shape /\ Shape' /\ Ghosts
    /\ (\/ Push \/ FetchStart \/ FetchNothing \/ Walk \/ FetchEnds
        \/ \E tree \in RemoteTrees : FetchMoves(tree)
        \/ \E p \in Paths : FetchFile(p) \/ FetchFileFails(p)) => Ghosts'
<1> SUFFICES ASSUME TypeOK, TypeOK', Shape, Shape', Ghosts,
                    \/ Push \/ FetchStart \/ FetchNothing \/ Walk \/ FetchEnds
                    \/ \E tree \in RemoteTrees : FetchMoves(tree)
                    \/ \E p \in Paths : FetchFile(p) \/ FetchFileFails(p)
             PROVE  Ghosts'
  OBVIOUS
<1> USE Apart
<1>1. /\ UNCHANGED <<change, renaming>>
      /\ \A f \in Filters : step'[f] = step[f]
  BY DEF Push, FetchStart, FetchNothing, Walk, FetchEnds, FetchMoves, FetchFile,
         FetchFileFails, Goto, TypeOK, commit
<1>2. Renaming' = Renaming /\ \A p \in Paths : Awaited(p) => Awaited(p)'
  BY <1>1, AwaitedStays DEF Renaming, Renamed, Awaited
<1>3. CASE Push \/ FetchStart \/ FetchNothing \/ FetchEnds
  <2>1. /\ UNCHANGED <<head, disk, size, missed, late, todo>>
        /\ todo = {}
        /\ UNCHANGED <<step, before>> \/ step["loop"] # "walk"
    BY <1>3
       DEF Push, FetchStart, FetchNothing, FetchEnds, Shape, git, folder, fetch,
           commit, history
  <2>2. \A p \in Paths : Loose(p)' => Accounted(p)
    BY <1>1, <1>2, <2>1 DEF Ghosts, Accounted, Undisturbed, Loose
  <2> QED BY <2>2, LooseStays
<1>4. ASSUME UNCHANGED <<disk, size>>, late \subseteq late', missed \subseteq missed',
             \A p \in Paths : Loose(p)' /\ p \notin Renaming' => Fillable(p)'
      PROVE  Ghosts'
  <2>1. DOMAIN change["loop"] \subseteq Paths /\ Renaming \subseteq Paths
    BY DEF TypeOK, IsEdit, Renaming, Renamed
  <2> QED BY <1>1, <1>2, <1>4, <2>1 DEF Ghosts, Loose
<1>5. ASSUME NEW tree \in RemoteTrees, FetchMoves(tree)
      PROVE  Ghosts'
  <2>1. /\ UNCHANGED <<disk, size, before, todo>> /\ todo = {}
        /\ step["loop"] = "fetch" /\ step'["loop"] = "walk"
        /\ head' = tree
        /\ missed' = missed \cup (Present(before) \ Present(tree))
        /\ late' = late \cup
                     {p \in Paths : disk[p] = Ghost /\ before[p] # head[p]}
    BY <1>5 DEF FetchMoves, Move, Goto, TypeOK, Shape, folder, fetch
  <2>2. ASSUME NEW p \in Paths, Loose(p)', p \notin Renaming'
        PROVE  Fillable(p)'
    <3>1. Loose(p) /\ before[p] = head[p]
      BY <2>1, <2>2 DEF Loose
    <3>2. Fits(p, size[p])
      BY <1>2, <2>1, <2>2, <3>1 DEF Ghosts, Fillable
    <3>3. tree[p] # Absent
      BY <2>1, <2>2, <3>1, <3>2 DEF Present, Fits, Loose
    <3>4. CASE tree[p] = before[p]
      BY <2>1, <3>1, <3>2, <3>4 DEF Fits, Fillable
    <3>5. CASE tree[p] # before[p]
      BY <2>1, <3>3, <3>5 DEF Fillable
    <3> QED BY <3>4, <3>5
  <2> QED BY <1>4, <2>1, <2>2
<1>6. CASE Walk
  <2>1. /\ UNCHANGED <<head, disk, size, before, missed, late>>
        /\ step["loop"] = "walk" /\ step'["loop"] = "files"
        /\ todo' = {p \in Present(head) : head[p] # before[p]}
    BY <1>6 DEF Walk, Goto, TypeOK, git, folder, history
  <2>2. ASSUME NEW p \in Paths, Loose(p)', p \notin Renaming'
        PROVE  Fillable(p)'
    <3>1. Fillable(p)
      BY <1>2, <2>1, <2>2 DEF Ghosts, Loose
    <3> QED BY <2>1, <3>1 DEF Fillable, Fits, Present
  <2> QED BY <1>4, <2>1, <2>2
<1>7. ASSUME NEW p \in Paths, FetchFile(p)
      PROVE  Ghosts'
  <2>1. /\ UNCHANGED <<head, step, before, late>> /\ step["loop"] = "files"
        /\ todo' = todo \ {p} /\ p \in todo
    BY <1>7 DEF FetchFile, git, commit
  <2>2. ASSUME NEW q \in Paths, Loose(q)'
        PROVE  /\ Loose(q) /\ size'[q] = size[q]
               /\ q = p => head[p] = Absent
    <3>1. CASE head[p] = Absent
      BY <1>7, <2>1, <2>2, <3>1 DEF FetchFile, Loose, folder
    <3>2. CASE head[p] # Absent
      <4>1. Put({p}, head, {}) /\ head[p] \in Seq(Nat) \cup {Absent}
        BY <1>7, <3>2 DEF FetchFile, TypeOK, Trees
      <4>2. \A r \in {p} : head[r] \in Seq(Nat) \cup {Absent}
        BY <4>1
      <4> QED BY <1>7, <2>1, <2>2, <4>1, <4>2, PutFills
    <3> QED BY <3>1, <3>2
  <2>3. ASSUME NEW q \in Paths, Loose(q)'
        PROVE  Accounted(q)
    <3>1. q = p => q \in Renaming
      BY <2>1, <2>2, <2>3 DEF Ghosts, Fillable
    <3> QED
      BY <1>1, <1>2, <2>1, <2>2, <2>3, <3>1 DEF Ghosts, Accounted, Undisturbed
  <2> QED BY <2>3, LooseStays
<1>8. ASSUME NEW p \in Paths, FetchFileFails(p)
      PROVE  Ghosts'
  <2>1. /\ UNCHANGED <<head, step, before, disk, size, late>>
        /\ todo' = todo \ {p} /\ missed' = missed \cup {p}
    BY <1>8 DEF FetchFileFails, git, commit, folder
  <2>2. \A q \in Paths : Loose(q)' => Accounted(q)
    BY <1>1, <1>2, <2>1 DEF Ghosts, Accounted, Undisturbed, Loose
  <2> QED BY <2>2, LooseStays
<1> QED BY <1>3, <1>5, <1>6, <1>7, <1>8

LEMMA GhostsInit == Init => Ghosts
<1> SUFFICES ASSUME Init PROVE Ghosts
  OBVIOUS
<1>1. Renaming = {} /\ DOMAIN change["loop"] = {}
  BY Apart DEF Init, Nothing, Renaming, Renamed
<1>2. \A p \in Paths : ~Loose(p)
  BY WriteBackAssumption DEF Init, Loose, Trees, WriteBackAssumption
<1> QED BY <1>1, <1>2 DEF Ghosts

LEMMA GhostsStep ==
  TypeOK /\ TypeOK' /\ Shape /\ Shape' /\ Ghosts /\ [Next]_vars => Ghosts'
<1> SUFFICES ASSUME TypeOK, TypeOK', Shape, Shape', Ghosts, [Next]_vars
             PROVE  Ghosts'
  OBVIOUS
<1>1. CASE UNCHANGED vars
  BY <1>1, FolderStays DEF vars, git, folder, commit, fetch, history, Loose
<1> QED
  BY <1>1, GhostsOfUser, GhostsOfFilterCommit, GhostsOfLoopCommit, GhostsOfReconcile,
     GhostsOfRenames, GhostsOfPlaceholders, GhostsOfFetch DEF Next, Loop, Filter

\* The mount's folder, its threads and its HEAD keep their types.
THEOREM TypeCorrect == Spec => []TypeOK
BY Invariance, PTL

\* No difference between the folder and HEAD is forgotten but those `missed'
\* names, however the touches of users, loop, filter and platform fall.
THEOREM NoDifferenceIsForgotten == Spec => []NothingForgotten
BY Invariance, PTL DEF IInv

\* A placeholder at rest can be filled, and whole, but those `late' and `missed'
\* name: HEAD's blob has the size the folder was listed with, or the fetch that
\* changed it is on its way to the file.
THEOREM PlaceholdersCanBeFilled == Spec => []PlaceholdersFit
<1>1. TypeOK /\ IInv /\ Ghosts => PlaceholdersFit
  <2> SUFFICES ASSUME Ghosts, NEW p \in Paths, disk[p] = Ghost,
                      p \notin late \cup missed \cup Renaming \cup todo,
                      step["loop"] # "walk"
               PROVE  Fits(p, size[p])
    BY DEF PlaceholdersFit
  <2> QED BY DEF Ghosts, Loose, Fillable
<1>2. TypeOK /\ IInv /\ (TypeOK /\ IInv)' /\ Ghosts /\ [Next]_vars => Ghosts'
  BY GhostsStep DEF IInv
<1> QED BY <1>1, <1>2, Invariance, GhostsInit, PTL DEF Spec
=============================================================================
