----------------------------- MODULE ProxySave -----------------------------
(***************************************************************************)
(* Proxy of bosync-core: a save is committed, its overlay set to Local, and *)
(* HEAD pushed before the overlay may say Synced; a refresh wipes the proxy *)
(* and clones it anew; idle maintenance marks files it frees.  The push is  *)
(* that of LocalPush, step by step, while users go on editing.              *)
(***************************************************************************)
EXTENDS LocalPush

CONSTANTS
  Maintained,         \* the proxies that are refreshed and dehydrated when idle
  MaxEdits            \* bound of user edits, per proxy

ASSUME SaveAssumption ==
  /\ Maintained \subseteq Pushers
  /\ MaxEdits \in [Pushers -> Nat]
  /\ None \notin Paths

VARIABLES
  disk,         \* the files of the proxy folder
  synced,       \* files that show the in-sync overlay
  saving,       \* the path on_save is busy with
  kind,         \* what became of it: "update", "removal" or "pushed"
  gone,         \* refresh has wiped the folder and not cloned it again
  unsent,       \* history: a push has failed since HEAD last went out
  idled,        \* history: overlays that idle maintenance set
  overtaken,    \* history: files edited while their own save was under way
  edits

save == <<disk, synced, saving, kind, gone, unsent, idled, overtaken, edits>>
allvars == <<vars, save>>

Present(c) == {p \in Paths : disk[c][p] # Absent}

SaveInit ==
  /\ Init
  /\ disk = [c \in Pushers |-> FirstTree]
  /\ synced = [c \in Pushers |-> {}] /\ idled = synced /\ overtaken = synced
  /\ saving = [c \in Pushers |-> None]
  /\ kind = [c \in Pushers |-> "pushed"]
  /\ gone = [c \in Pushers |-> FALSE] /\ unsent = gone
  /\ edits = [c \in Pushers |-> 0]

-----------------------------------------------------------------------------
UserEdit(c, p, content) ==
  /\ ~gone[c] /\ edits[c] < MaxEdits[c] /\ disk[c][p] # content
  /\ edits' = [edits EXCEPT ![c] = @ + 1]
  /\ disk' = [disk EXCEPT ![c][p] = content]
  /\ synced' = [synced EXCEPT ![c] = @ \ {p}]
  /\ idled' = [idled EXCEPT ![c] = @ \ {p}]
  /\ overtaken' = [overtaken EXCEPT ![c] =
                     IF saving[c] = p THEN @ \cup {p} ELSE @]
  /\ UNCHANGED <<vars, saving, kind, gone, unsent>>

\* Variant: a removal is committed and not pushed.
SaveSkipsRemovals(c, p) ==
  /\ saving[c] = None /\ ~gone[c]
  /\ disk[c][p] # Tree(head[c])[p]
  /\ Commit(c, [Tree(head[c]) EXCEPT ![p] = disk[c][p]])
  /\ saving' = [saving EXCEPT ![c] = IF disk[c][p] = Absent THEN @ ELSE p]
  /\ kind' = [kind EXCEPT ![c] = "update"]
  /\ synced' = [synced EXCEPT ![c] = @ \ {p}]
  /\ idled' = [idled EXCEPT ![c] = @ \ {p}]
  /\ overtaken' = [overtaken EXCEPT ![c] = @ \ {p}]
  /\ UNCHANGED <<disk, gone, unsent, edits>>

\* Variant: what became of the file is kept as its bytes.
SaveKeepsContent(c, p) ==
  /\ saving[c] = None /\ ~gone[c]
  /\ disk[c][p] # Tree(head[c])[p]
  /\ Commit(c, [Tree(head[c]) EXCEPT ![p] = disk[c][p]])
  /\ saving' = [saving EXCEPT ![c] = p]
  /\ kind' = [kind EXCEPT ![c] = disk[c][p]]
  /\ UNCHANGED <<disk, synced, gone, unsent, idled, overtaken, edits>>

\* on_save, its first half: reconcile_path commits, and the file turns Local.
Save(c, p) ==
  /\ saving[c] = None /\ ~gone[c]
  /\ disk[c][p] # Tree(head[c])[p]
  /\ Commit(c, [Tree(head[c]) EXCEPT ![p] = disk[c][p]])
  /\ saving' = [saving EXCEPT ![c] = p]
  /\ kind' = [kind EXCEPT ![c] = IF disk[c][p] = Absent THEN "removal"
                                 ELSE "update"]
  /\ synced' = [synced EXCEPT ![c] = @ \ {p}]
  /\ idled' = [idled EXCEPT ![c] = @ \ {p}]
  /\ overtaken' = [overtaken EXCEPT ![c] = @ \ {p}]
  /\ UNCHANGED <<disk, gone, unsent, edits>>

\* Variant: the overlay is promoted whatever the push returned.
MarkSyncedAnyway(c, p) ==
  IF kind[c] = "update"
  THEN synced' = [synced EXCEPT ![c] = @ \cup ({p} \cap Present(c))]
  ELSE UNCHANGED synced

\* ... its second half, once the push has returned.
MarkSynced(c, p) ==
  IF outcome'[c] = "ok" /\ kind[c] = "update"
  THEN synced' = [synced EXCEPT ![c] = @ \cup ({p} \cap Present(c))]
  ELSE UNCHANGED synced

Returned(c) ==
  /\ step'[c] = "idle"
  /\ MarkSynced(c, saving[c])
  /\ saving' = [saving EXCEPT ![c] = None]
  /\ kind' = [kind EXCEPT ![c] = "pushed"]
  /\ unsent' = [unsent EXCEPT ![c] = outcome'[c] # "ok"]

SavePushes(c) ==
  /\ saving[c] # None
  /\ Push(c) \/ CutCopy(c) \/ CutMirror(c)
  /\ \/ Returned(c)
     \/ step'[c] # "idle" /\ UNCHANGED <<synced, saving, kind, unsent>>
  /\ UNCHANGED <<disk, gone, idled, overtaken, edits>>

\* The process ends after the commit, before the push.
Crash(c) ==
  /\ saving[c] # None /\ step[c] = "idle"
  /\ saving' = [saving EXCEPT ![c] = None]
  /\ kind' = [kind EXCEPT ![c] = "pushed"]
  /\ unsent' = [unsent EXCEPT ![c] = TRUE]
  /\ UNCHANGED <<vars, disk, synced, gone, idled, overtaken, edits>>

\* refresh_shallow: the folder is removed, and only then cloned again.
Wipe(c) ==
  /\ c \in Maintained
  /\ saving[c] = None /\ ~gone[c]
  /\ gone' = [gone EXCEPT ![c] = TRUE]
  /\ disk' = [disk EXCEPT ![c] = EmptyTree]
  /\ synced' = [synced EXCEPT ![c] = {}] /\ idled' = [idled EXCEPT ![c] = {}]
  /\ UNCHANGED <<vars, saving, kind, unsent, overtaken, edits>>

\* A target that is not whole cannot be cloned: the proxy stays wiped.
Clone(c) ==
  /\ gone[c] /\ Readable(branch)
  /\ Fetch(c) \/ (head[c] = branch /\ UNCHANGED vars)
  /\ gone' = [gone EXCEPT ![c] = FALSE]
  /\ disk' = [disk EXCEPT ![c] = Tree(branch)]
  /\ unsent' = [unsent EXCEPT ![c] = FALSE]
  /\ overtaken' = [overtaken EXCEPT ![c] = {}]
  /\ UNCHANGED <<synced, saving, kind, idled, edits>>

\* dehydrate_stale: on Windows a freed file is a file marked in sync, whatever
\* it was before.
DehydrateStale(c) ==
  /\ c \in Maintained
  /\ \E stale \in (SUBSET Present(c)) \ {{}} :
       /\ synced' = [synced EXCEPT ![c] = @ \cup stale]
       /\ idled' = [idled EXCEPT ![c] = @ \cup (stale \ synced[c])]
  /\ UNCHANGED <<vars, disk, saving, kind, gone, unsent, overtaken,
                 edits>>

-----------------------------------------------------------------------------
SaveNext ==
  \E c \in Pushers :
    \/ \E p \in Paths, content \in Contents \cup {Absent} :
         UserEdit(c, p, content)
    \/ \E p \in Paths : Save(c, p)
    \/ SavePushes(c)
    \/ Crash(c)
    \/ Wipe(c) \/ Clone(c)
    \/ DehydrateStale(c)

\* on_save runs to its end; users, crashes and refreshes owe nothing.
SaveSpec ==
  /\ SaveInit /\ [][SaveNext]_allvars
  /\ \A c \in Pushers : WF_allvars(SavePushes(c))

-----------------------------------------------------------------------------
SaveTypeOK ==
  /\ TypeOK
  /\ disk \in [Pushers -> Trees]
  /\ synced \in [Pushers -> SUBSET Paths]
  /\ idled \in [Pushers -> SUBSET Paths]
  /\ overtaken \in [Pushers -> SUBSET Paths]
  /\ saving \in [Pushers -> Paths \cup {None}]
  /\ kind \in [Pushers -> {"update", "removal", "pushed"}]
  /\ gone \in [Pushers -> BOOLEAN] /\ unsent \in [Pushers -> BOOLEAN]
  /\ edits \in [Pushers -> Nat]

\* "The overlay never claims in sync for work that's still only on this
\* machine" (README.md:131): what a file that shows it holds, the target was
\* given, but for files marked by idle maintenance, which asks for no push, and
\* files edited between their commit and the end of their push.
SyncedIsOnRemote ==
  \A c \in Pushers : \A p \in synced[c] \ (idled[c] \cup overtaken[c]) :
    \E r \in published : Tree(r)[p] = disk[c][p]

\* Of the only proxy of a target: between two saves, unless the push of the last
\* one failed, HEAD is the target's branch, and what a file that shows the overlay
\* holds is what the branch has there now, not only what it once had.
RestsOnBranch ==
  \A c \in Pushers : saving[c] = None /\ ~unsent[c] =>
    /\ head[c] = branch
    /\ \A p \in synced[c] \ (idled[c] \cup overtaken[c]) :
         Tree(branch)[p] = disk[c][p]

\* "Local commits are pushed on save before any refresh" (git lib.rs:307): a
\* refresh drops commits the target was never given only if their push had
\* failed, or was cut.
RefreshDropsOnlyUnsent ==
  [][ \A c \in Pushers :
        ~IsPrefix(head[c], head'[c]) =>
          unsent[c] \/ \E r \in published : IsPrefix(head[c], r) ]_allvars

\* Whatever the other proxies do, a save's push comes to an end: the walk over
\* the objects stops although it skips and revisits.
SavesReturn == \A c \in Pushers : saving[c] # None ~> saving[c] = None
=============================================================================
