----------------------------- MODULE WriteBack -----------------------------
(***************************************************************************)
(* One Windows mount, each touch of the folder or of HEAD a step of its own: *)
(* the loop reconciles drained paths and writes what it fetches, the filter's *)
(* threads commit renames, project placeholders and fill them, and users     *)
(* write in between.  The remote is the trees it may be found to hold.       *)
(***************************************************************************)
EXTENDS Integers, Sequences, SequencesExt

CONSTANTS
  Paths, Contents,    \* what users write: sequences of bytes
  Filters,            \* the threads the platform calls the filter on
  Absent, Ghost,      \* no file; a dehydrated placeholder
  FirstTree,
  RemoteTrees,        \* what a fetch may find
  MaxOps, MaxFetches, MaxFaults,
  MaxEvents,          \* all of these together
  None, Moved         \* HEAD not read yet; no longer what was read

Trees == [Paths -> Seq(Nat) \cup {Absent}]
Threads == {"loop"} \cup Filters

ASSUME WriteBackAssumption ==
  /\ Contents \subseteq Seq(Nat) /\ "loop" \notin Filters /\ Ghost # Absent
  /\ Absent \notin Seq(Nat) /\ Ghost \notin Seq(Nat)
  /\ None \notin (Paths \X Paths) \cup Trees
  /\ Moved \notin Trees \cup {None}
  /\ FirstTree \in Trees /\ RemoteTrees \subseteq Trees
  /\ MaxOps \in Nat /\ MaxFetches \in Nat /\ MaxFaults \in Nat
  /\ MaxEvents \in Nat

VARIABLES
  head,               \* HEAD's tree
  owed,               \* the loop has committed since its last push
  disk, size,         \* the folder, and the sizes of its placeholders
  dirty,              \* paths with an event in the channel or the buffer
  step,               \* per thread: where it is in its commit or fetch
  change, base,       \* ... the paths it commits, and HEAD as it read it
  renaming,           \* per filter thread: the rename it was told of
  before, todo,       \* the fetch: HEAD's files before it, and those to write
  entries, populated, \* the projection: placeholders to create; done once
  late,               \* history: placeholders made of an entry HEAD had left
  missed,             \* history: differences nothing will raise an event for
  ops, fetches, faults

git == <<head, owed>>
folder == <<disk, size, dirty>>
commit == <<step, change, base, renaming>>
fetch == <<before, todo>>
projection == <<entries, populated>>
bounds == <<ops, fetches, faults>>
history == <<missed, late>>
vars == <<git, folder, commit, fetch, projection, history, bounds>>

Present(tree) == {p \in Paths : tree[p] # Absent}
Unwalked == [p \in Paths |-> Absent]
Nothing == [p \in {} |-> Absent]

Init ==
  /\ head = FirstTree /\ owed = FALSE
  /\ disk = FirstTree /\ size = [p \in Paths |-> 0] /\ dirty = {}
  /\ step = [t \in Threads |-> "idle"]
  /\ change = [t \in Threads |-> Nothing] /\ base = [t \in Threads |-> None]
  /\ renaming = [f \in Filters |-> None]
  /\ before = Unwalked /\ todo = {}
  /\ entries = Nothing /\ populated = FALSE
  /\ missed = {} /\ late = {}
  /\ ops = 0 /\ fetches = 0 /\ faults = 0

Room == ops + fetches + faults < MaxEvents

Goto(t, where) == step' = [step EXCEPT ![t] = where]

Finish(t) ==
  /\ Goto(t, "idle") /\ change' = [change EXCEPT ![t] = Nothing]
  /\ renaming' = [f \in Filters |-> IF f = t THEN None ELSE renaming[f]]

Done(t) == Finish(t) /\ base' = [base EXCEPT ![t] = None]

\* A file is in use.
Fault == Room /\ faults < MaxFaults /\ faults' = faults + 1

-----------------------------------------------------------------------------
(* The users, who write, delete and rename. *)

UserOp == Room /\ ops < MaxOps /\ ops' = ops + 1

\* Files of the folder are given new bytes, and the watcher reports them; of
\* those in `lost' nothing will.
Put(files, bytes, lost) ==
  /\ disk' = [p \in Paths |-> IF p \in files THEN bytes[p] ELSE disk[p]]
  /\ size' = [p \in Paths |-> IF p \in files THEN 0 ELSE size[p]]
  /\ dirty' = dirty \cup files
  /\ missed' = (missed \ files) \cup lost

UserSave(p, content) ==
  /\ UserOp /\ disk[p] # content
  /\ Put({p}, [q \in {p} |-> content], {})
  /\ UNCHANGED <<git, commit, fetch, projection, late, fetches, faults>>

UserDelete(p) ==
  /\ UserOp /\ disk[p] # Absent
  /\ Put({p}, [q \in {p} |-> Absent], {})
  /\ UNCHANGED <<git, commit, fetch, projection, late, fetches, faults>>

UserRename(p, q) ==
  /\ UserOp /\ disk[p] # Absent /\ p # q
  /\ \E f \in Filters :
       /\ step[f] = "idle" /\ Goto(f, "collect")
       /\ renaming' = [renaming EXCEPT ![f] = <<p, q>>]
  /\ disk' = [disk EXCEPT ![p] = Absent, ![q] = disk[p]]
  /\ size' = [size EXCEPT ![p] = 0, ![q] = size[p]]
  /\ dirty' = dirty \cup {p, q} /\ missed' = missed \ {p, q}
  /\ UNCHANGED <<git, change, base, fetch, projection, late, fetches, faults>>

-----------------------------------------------------------------------------
(* GitBackend::commit, by any thread: HEAD is read, the files are written, *)
(* and the reference is set if HEAD has not moved.                           *)

Applied(tree, edit) ==
  [p \in Paths |-> IF p \in DOMAIN edit THEN edit[p] ELSE tree[p]]

ReadHead(t) ==
  /\ step[t] = "base" /\ Goto(t, "write")
  /\ base' = [base EXCEPT ![t] = head]
  /\ UNCHANGED <<git, folder, change, renaming, fetch, projection, history,
                 bounds>>

Removed(edit) == {p \in DOMAIN edit : edit[p] = Absent}

\* A removal of a file that is gone raises no event.
Touched(edit) == {p \in DOMAIN edit : edit[p] # Absent \/ disk[p] # Absent}

WriteFiles(t) ==
  /\ step[t] = "write" /\ Goto(t, "set")
  /\ Put(Touched(change[t]), change[t], {})
  /\ UNCHANGED <<git, change, base, renaming, fetch, projection, late, bounds>>

\* A file to write is in use.  What a rename removes, it has removed before.
WriteFails(t) ==
  /\ step[t] = "write" /\ Removed(change[t]) # DOMAIN change[t] /\ Fault
  /\ Put(Touched(change[t]) \cap Removed(change[t]), change[t],
         DOMAIN change[t] \ Removed(change[t]))
  /\ Done(t)
  /\ UNCHANGED <<git, fetch, projection, late, ops, fetches>>

\* A thread makes HEAD another commit: what the others have read of it is old.
Move(tree, t) ==
  /\ head' = tree
  /\ base' = [u \in Threads |-> IF u = t \/ base[u] = None THEN None ELSE Moved]

\* Variant: the paths leave the buffer when they are committed, not before they
\* are read.
SetRefDrains(t) ==
  /\ step[t] = "set" /\ base[t] # Moved
  /\ Move(Applied(base[t], change[t]), t)
  /\ owed' = (owed \/ t = "loop") /\ dirty' = dirty \ DOMAIN change[t]
  /\ Finish(t)
  /\ UNCHANGED <<disk, size, fetch, projection, history, bounds>>

SetRef(t) ==
  /\ step[t] = "set" /\ base[t] # Moved
  /\ Move(Applied(base[t], change[t]), t)
  /\ owed' = (owed \/ t = "loop")
  /\ Finish(t)
  /\ UNCHANGED <<folder, fetch, projection, history, bounds>>

\* Another thread, or the fetch, has moved HEAD: a warning, and no commit.
SetRefFails(t) ==
  /\ step[t] = "set" /\ base[t] = Moved
  /\ Done(t)
  /\ missed' = IF t = "loop" THEN missed \cup Removed(change[t]) ELSE missed
  /\ UNCHANGED <<git, folder, fetch, projection, late, bounds>>

-----------------------------------------------------------------------------
(* The loop reconciles a path. *)

\* metadata and is_dehydrated: a placeholder is left alone.
Drain(p) ==
  /\ step["loop"] = "idle" /\ p \in dirty
  /\ dirty' = dirty \ {p}
  /\ \/ /\ disk[p] = Ghost /\ UNCHANGED <<step, change>>
     \/ /\ disk[p] = Absent /\ Goto("loop", "compare")
        /\ change' = [change EXCEPT !["loop"] = [q \in {p} |-> Absent]]
     \/ /\ disk[p] \notin {Ghost, Absent} /\ Goto("loop", "read")
        /\ change' = [change EXCEPT !["loop"] = [q \in {p} |-> Absent]]
  /\ UNCHANGED <<git, disk, size, base, renaming, fetch, projection, history,
                 bounds>>

Renamed(f) == IF renaming[f] = None THEN {} ELSE {renaming[f][1], renaming[f][2]}

Renaming == UNION {Renamed(f) : f \in Filters}

\* The paths of the commits under way.
Committing == DOMAIN change["loop"] \cup Renaming

\* HEAD's blob is of that size.
Fits(p, n) == head[p] # Absent /\ Len(head[p]) = n

Unfillable(p) ==
  /\ disk[p] = Ghost
  /\ \/ head[p] = Absent
     \/ head[p] # Absent /\ Len(head[p]) < size[p]

\* What is read is what the file holds now; a placeholder is filled first.
ReadFile(t, p, next) ==
  /\ disk[p] \notin {Ghost, Absent} /\ Goto(t, next)
  /\ change' = [change EXCEPT ![t] = [q \in {p} |-> disk[p]]]
  /\ UNCHANGED <<base, renaming, history, faults>>

\* It is gone, it cannot be filled, or it is in use: then nothing is committed,
\* and the loop has let go of the path.
ReadFails(t, p) ==
  /\ \/ /\ disk[p] = Absent \/ Unfillable(p)
        /\ UNCHANGED <<missed, faults>>
     \/ /\ disk[p] # Absent /\ Fault
        /\ missed' = missed \cup DOMAIN change[t]
  /\ late' = late \cup {q \in {p} : disk[q] # Absent}
  /\ Done(t)

ReconcileReads ==
  /\ step["loop"] = "read"
  /\ \E p \in DOMAIN change["loop"] :
       ReadFile("loop", p, "compare") \/ ReadFails("loop", p)
  /\ UNCHANGED <<git, folder, fetch, projection, ops, fetches>>

\* What equals HEAD now is let go, although a rename on its way may change HEAD.
Compare ==
  /\ step["loop"] = "compare"
  /\ IF Applied(head, change["loop"]) = head
     THEN /\ Done("loop")
          /\ missed' = missed \cup (DOMAIN change["loop"] \cap Renaming)
     ELSE Goto("loop", "base") /\ UNCHANGED <<change, base, renaming, missed>>
  /\ UNCHANGED <<git, folder, fetch, projection, late, bounds>>

-----------------------------------------------------------------------------
(* A thread of the filter records a rename. *)

\* collect_blobs_under: the bytes are git's, whatever the file holds by now.
Collect(f) ==
  /\ step[f] = "collect"
  /\ LET old == renaming[f][1]  new == renaming[f][2]
     IN  IF head[old] = Absent
         THEN Goto(f, "read") /\ UNCHANGED change
         ELSE /\ Goto(f, "base")
              /\ change' = [change EXCEPT ![f] =
                             [p \in {old, new} |->
                                IF p = new THEN head[old] ELSE Absent]]
  /\ UNCHANGED <<git, folder, base, renaming, fetch, projection, history,
                 bounds>>

\* The old path was not committed yet: the new one is, from disk.
RenamedReads(f) ==
  /\ step[f] = "read"
  /\ LET new == renaming[f][2] IN ReadFile(f, new, "base") \/ ReadFails(f, new)
  /\ UNCHANGED <<git, folder, fetch, projection, ops, fetches>>

-----------------------------------------------------------------------------
(* Pushes and fetches, by the loop between two reconciles. *)

Push ==
  /\ step["loop"] = "idle" /\ owed /\ owed' = FALSE
  /\ UNCHANGED <<head, folder, commit, fetch, projection, history, bounds>>

\* Variant: what is kept is the folder, and not HEAD's files.
FetchStartFolder ==
  /\ step["loop"] = "idle" /\ ~owed /\ fetches < MaxFetches
  /\ Goto("loop", "fetch") /\ before' = disk
  /\ UNCHANGED <<git, folder, change, base, renaming, todo, projection, history,
                 bounds>>

\* No batch is open: what is not pushed, the filter has just committed.
FetchStart ==
  /\ step["loop"] = "idle" /\ ~owed /\ fetches < MaxFetches
  /\ Goto("loop", "fetch") /\ before' = head
  /\ UNCHANGED <<git, folder, change, base, renaming, todo, projection, history,
                 bounds>>

\* HEAD is forced onto what someone else has pushed since.
FetchMoves(tree) ==
  /\ step["loop"] = "fetch" /\ Goto("loop", "walk")
  /\ Room /\ fetches' = fetches + 1
  /\ Move(tree, "loop")
  /\ missed' = missed \cup (Present(before) \ Present(tree))
  /\ late' = late \cup
               {p \in Paths : disk[p] = Ghost /\ before[p] # head[p]}
  /\ UNCHANGED <<owed, folder, change, renaming, fetch, projection, ops, faults>>

\* The remote has not moved, or does not answer.
FetchNothing ==
  /\ step["loop"] = "fetch" /\ Goto("loop", "idle") /\ before' = Unwalked
  /\ UNCHANGED <<git, folder, change, base, renaming, todo, projection, history,
                 bounds>>

\* Variant: a file whose bytes changed is not among those to write.
WalkNew ==
  /\ step["loop"] = "walk" /\ Goto("loop", "files")
  /\ todo' = {p \in Present(head) : before[p] = Absent}
  /\ UNCHANGED <<git, folder, change, base, renaming, before, projection, history,
                 bounds>>

\* The walk of the new HEAD, against that before the fetch.
Walk ==
  /\ step["loop"] = "walk" /\ Goto("loop", "files")
  /\ todo' = {p \in Present(head) : head[p] # before[p]}
  /\ UNCHANGED <<git, folder, change, base, renaming, before, projection, history,
                 bounds>>

\* read_blob looks the path up in HEAD anew.
FetchFile(p) ==
  /\ step["loop"] = "files" /\ p \in todo /\ todo' = todo \ {p}
  /\ IF head[p] = Absent THEN UNCHANGED <<folder, missed>>
     ELSE Put({p}, head, {})
  /\ UNCHANGED <<git, commit, before, projection, late, bounds>>

\* The file is in use: the write's error is dropped.
FetchFileFails(p) ==
  /\ step["loop"] = "files" /\ p \in todo /\ todo' = todo \ {p}
  /\ Fault /\ missed' = missed \cup {p}
  /\ UNCHANGED <<git, folder, commit, before, projection, late, ops, fetches>>

FetchEnds ==
  /\ step["loop"] = "files" /\ todo = {} /\ Goto("loop", "idle")
  /\ before' = Unwalked
  /\ UNCHANGED <<git, folder, change, base, renaming, todo, projection, history,
                 bounds>>

-----------------------------------------------------------------------------
(* Placeholders: a folder is populated once, from HEAD, and each is filled    *)
(* when it is first read.                                                    *)

\* fetch_placeholders, up to its check of what is on disk.
ListEntries ==
  /\ ~populated /\ entries = Nothing
  /\ entries' = [p \in {q \in Present(head) : disk[q] = Absent} |->
                   Len(head[p])]
  /\ populated' = TRUE
  /\ UNCHANGED <<git, folder, commit, fetch, late, missed, bounds>>

\* The platform creates them, over a file that has come in between or not.
Project ==
  /\ entries # Nothing
  /\ \E kept \in SUBSET {p \in DOMAIN entries : disk[p] # Absent} :
       LET made == DOMAIN entries \ kept
       IN  /\ disk' = [p \in Paths |-> IF p \in made THEN Ghost ELSE disk[p]]
           /\ size' = [p \in Paths |-> IF p \in made THEN entries[p] ELSE size[p]]
           /\ dirty' = dirty \cup made
           /\ late' = late \cup
                {p \in made : ~Fits(p, entries[p]) \/ p \in Committing}
  /\ entries' = Nothing
  /\ UNCHANGED <<git, commit, fetch, populated, missed, bounds>>

\* fetch_data: the bytes of HEAD's blob, for the range the placeholder's size
\* asks for; a shorter blob leaves it unfilled.
Hydrate(p) ==
  /\ disk[p] = Ghost /\ ~Unfillable(p)
  /\ disk' = [disk EXCEPT ![p] = SubSeq(head[p], 1, size[p])]
  /\ size' = [size EXCEPT ![p] = 0]
  /\ dirty' = dirty \cup {p}
  /\ UNCHANGED <<git, commit, fetch, projection, history, bounds>>

-----------------------------------------------------------------------------
Loop ==
  \/ ReconcileReads \/ Compare
  \/ ReadHead("loop") \/ WriteFiles("loop") \/ WriteFails("loop")
  \/ SetRef("loop") \/ SetRefFails("loop")
  \/ Walk \/ (\E p \in Paths : FetchFile(p)) \/ FetchEnds

Filter ==
  \E f \in Filters :
    \/ Collect(f) \/ RenamedReads(f)
    \/ ReadHead(f) \/ WriteFiles(f) \/ WriteFails(f)
    \/ SetRef(f) \/ SetRefFails(f)

User ==
  \E p \in Paths :
    \/ \E content \in Contents : UserSave(p, content)
    \/ UserDelete(p)
    \/ \E q \in Paths : UserRename(p, q)

Next ==
  \/ User \/ Filter \/ Loop
  \/ \E p \in Paths : Drain(p) \/ FetchFileFails(p) \/ Hydrate(p)
  \/ Push \/ FetchStart \/ FetchNothing
  \/ \E tree \in RemoteTrees : FetchMoves(tree)
  \/ ListEntries \/ Project

Spec == Init /\ [][Next]_vars

-----------------------------------------------------------------------------
IsEdit(edit) ==
  /\ DOMAIN edit \subseteq Paths
  /\ \A p \in DOMAIN edit : edit[p] \in Seq(Nat) \cup {Absent}

Stages == {"idle", "collect", "read", "compare", "base", "write", "set", "fetch",
           "walk", "files"}

TypeOK ==
  /\ head \in Trees /\ owed \in BOOLEAN
  /\ disk \in [Paths -> Seq(Nat) \cup {Absent, Ghost}]
  /\ size \in [Paths -> Nat] /\ dirty \subseteq Paths
  /\ step \in [Threads -> Stages]
  /\ DOMAIN change = Threads /\ \A t \in Threads : IsEdit(change[t])
  /\ base \in [Threads -> Trees \cup {None, Moved}]
  /\ renaming \in [Filters -> (Paths \X Paths) \cup {None}]
  /\ before \in Trees /\ todo \subseteq Paths
  /\ DOMAIN entries \subseteq Paths
  /\ \A p \in DOMAIN entries : entries[p] \in Nat
  /\ populated \in BOOLEAN /\ ops \in Nat /\ fetches \in Nat /\ faults \in Nat
  /\ missed \subseteq Paths /\ late \subseteq Paths

\* No difference between the folder and HEAD is forgotten, however the touches
\* of the loop, the filter's threads, the fetch and the users fall: it has an
\* event, or the loop is at it, or `missed' tells why not: the remote removed the
\* file, a file the loop was to read or write was in use, the loop's removal lost
\* its reference to another commit, or the loop let the path go while a rename of
\* it was on its way.
NothingForgotten ==
  \A p \in Paths :
    disk[p] \notin {Ghost, head[p]} =>
      p \in dirty \cup missed \cup DOMAIN change["loop"] \cup todo
        \/ step["loop"] = "walk"

\* A placeholder at rest can be filled, and is filled whole: HEAD's blob has the
\* size it was projected with, although HEAD is read when a folder is listed,
\* when it is fetched into and when a file is opened (windows.rs:293).  `late'
\* and `missed' tell the exceptions.
PlaceholdersFit ==
  \A p \in Paths :
    disk[p] = Ghost /\ p \notin late \cup missed \cup Renaming \cup todo
                    /\ step["loop"] # "walk"
      => Fits(p, size[p])
=============================================================================
