# A formal model of bosync

bosync mounts a git repository as a folder: edits in the folder become commits
in a shallow clone, the commits are pushed to the remote in batches, and the
remote's news are fetched into the folder. This directory holds TLA+ models of
the program, TLC configurations that check them on small instances, and proofs
that the TLA+ proof system checks for every instance. Paths below are relative
to `crates/` unless they name a file of this directory.

## 1. The system

| Part | State | Operations | What makes it correct |
|---|---|---|---|
| **Sync scheduler** `bosync-core/src/schedule.rs` | the open batch (start, deadline, number of changes), the fetch interval and when the next fetch is due | `note_change`, `poll`, `note_pushed`, `note_push_failed`, `note_fetched` | a push comes by a fixed ceiling however steady the edits; a fetch never overtakes an open batch; only a push that succeeded closes a batch; the remote is asked neither too often nor too seldom |
| **Mount loop** `bosync-cli/src/main.rs` | the event channel and debounce buffer, `last_head`, `pushed_head`, the running flag | one turn: drain, notice HEAD, push or fetch or wait; shutdown flush | no edit and no commit is forgotten; what is counted as pushed was pushed |
| **Proxy** `bosync-core/src/proxy.rs` | the clone and its folder | open or clone, `refresh_branch`, `on_save`, `refresh`, `dehydrate_stale` | the folder follows the remote and loses nothing local |
| **Write-back** `bosync-core/src/reconcile.rs` | none of its own | `reconcile_path`, `flush_to_remote` | a file that differs from HEAD is committed as it is on disk |
| **Overlay seam** `bosync-core/src/mount.rs` | the in-sync mark of each file | `mark_state`, `is_dehydrated`, `dehydrate` | a file shown in sync is on the remote (kept by saves, with exceptions; not by a mount, see 4) |
| **Git backend** `bosync-git/src/lib.rs` | HEAD, the tracking ref, objects, the working copy | `commit`, `rename_in_git`, `fetch_shallow`, `push`, reads | a commit loses nothing that was committed before it; a push leaves the target whole and its branch ahead |
| **Cloud Filter provider** `bosync-windows/src/windows.rs` | placeholders, overlays | hydration, rename callbacks, marks | a callback leaves git and the folder in agreement |
| **FUSE provider** `bosync-linux/src/linux.rs` | an inode table | lookup, getattr, read, readdir | an inode names one path for ever |
| **Sync interview** `bosync-sync/src/lib.rs` | none between requests | manifest, status, patch, push over a pipe | no push overwrites what its client has not seen |

**Interaction.** The mount loop owns the scheduler and the proxy and calls
write-back, which calls the git backend, in its own thread. A watcher thread
sends file events through a channel. The Cloud Filter calls back on several
threads of its own, and its rename callback commits to the same HEAD the loop
reads, pushes and force-moves. Several mounts share one remote, whose branch every
push sets unconditionally. The sync interview runs in processes (or threads of
an SSH server) of its own, one session each, on the repository that mounts push
to as well.

**What is hard.** The filter's threads and the loop on one HEAD; users writing
the folder at any moment; a fetch that walks HEAD, connects, and then acts on
the old walk; several mounts forcing one branch; failures half-way through a
push or a fetch; crashes between two steps, since only git and the folder
survive; deadlines, ceilings, retries and back-off in the scheduler; sessions
that check, commit and answer in steps, each of which reads HEAD anew. Every
such hazard is listed with its line in `PROJECT.json`.

## 2. The modules

| Module | Models |
|---|---|
| `PushPacing` | the scheduler's contract without a clock: a change opens a debt, only a push closes it, a fetch waits for it |
| `SyncScheduler` | `schedule.rs`, driven as one turn of the mount loop drives it |
| `SyncSchedulerProofs` | its theorems, among them that it implements `PushPacing` |
| `MountLoop` | the commits of any number of mounts of one remote: loop, filter, push, fetch, unmount, crash, cut at each touch of a reference |
| `MountPromises` | what documents and comments promise of a mount and the code does not keep, and what does hold |
| `SharedBranch` | what any clients do to the branch of a remote: commit, force the branch to a HEAD, take it over |
| `SharedBranchProofs` | its theorems, which `MountLoop`, `LocalPush` and `ProxySave` inherit |
| `MountLoopProofs` | the theorems about `MountLoop`, among them that it implements `SharedBranch` |
| `SyncInterview` | any number of sessions of the JSON server, and mounts that push to its repository |
| `SyncInterviewProofs` | the theorems about `SyncInterview` |
| `LocalPush` | `push` to a target on the same machine, object by object, by any number of proxies |
| `ProxySave` | `on_save`, `refresh` and `dehydrate_stale` of the proxy, over `LocalPush` |
| `LocalPushProofs`, `ProxySaveProofs` | their theorems, among them that both implement `SharedBranch` |
| `WriteBack` | one mount with each touch of the folder and of HEAD a step of its own, placeholders included |
| `WriteBackProofs` | the theorems about `WriteBack` |
| `FuseFs` | the FUSE projection and the kernel's handles, over a HEAD that moves |
| `FuseFsProofs` | the theorems about `FuseFs` |
| `MCSyncScheduler`, `MCMountLoop`, `MCSyncInterview`, `MCLocalPush`, `MCProxySave`, `MCWriteBack`, `MCFuseFs` | the instances TLC checks |

`MountLoop` looks at the commits of many mounts, `WriteBack` at the folder of
one; `LocalPush` is the object copy that `MountLoop` takes for one step.
`ProxySave` extends `LocalPush` and moves its variables by its actions.
`SharedBranch` is what all of them come to for someone who sees only the branch:
`MountLoop` implements it with the copy of a push in one step, `LocalPush` with
one step for each object.

### SharedBranch

`branch` is the remote's branch, `head` each client's HEAD, `offer` the HEAD a
push under way has read (`head_id` in `push`), `seen` what a fetch has read of
the branch and not yet made its HEAD, `published` every commit the branch has
pointed at. `Commit` is any commit on HEAD, `SetOut` and `Publish` the two ends
of a push, `Look` and `Adopt` those of a clone or a fetch: between them the
client may commit, and the branch move. In `MountLoop`, `offer` is `sent` while
a push is on its way and HEAD otherwise, and `seen` the tracking ref between its
move and HEAD's; in `LocalPush` `offer` is `want`, and a fetch is one step.

### SyncScheduler

The five fields of the struct are the variables of the same names. `now` is the
`Instant` that one turn of the loop reads once and passes to every call;
`phase` is where the turn is: a turn notes at most one change (`NoteChange` or
`NoChange`, main.rs:294), polls and carries out the verdict (`NotePushed`,
`NotePushFailed`, `NoteFetched`, `Idle`, main.rs:300) and sleeps. `Poll` and
the actions translate the methods line by line. Durations are ticks. The
factors in `f64` are kept by what they compute: `Extension[n]` for
`push_base * push_decay^n`, `Ceiling` for `converged_max`, `GrowNum/GrowDen`
for `fetch_growth`; a jittered interval is any value in its range. Nothing is
assumed of the extensions. `MaxGap` is the longest time between two polls.
The time a push or a fetch takes is part of the sleep after it, as `now` is
not read again in the turn.

### MountLoop

A commit is the history that leads to it: a sequence of (author, tree)
records, so "ancestor of" is `IsPrefix` and equal commits are equal histories.
(Two commits with the same history but different timestamps would be one here;
the author field keeps those of different mounts apart, and the runs have two
trees.) What is in a tree is left to `WriteBack`: here it only tells commits
apart.

| Variable | Code |
|---|---|
| `remote` | the branch of the remote repository |
| `head`, `track` | HEAD and `refs/remotes/origin/<branch>` of a mount's clone |
| `phase` | where the loop is in its turn, its push, its fetch or its flush |
| `sent` | `head_id`, the HEAD the push under way has read |
| `last_head`, `pushed_head` | the loop's variables |
| `owed` | `PushPacing`'s debt: the scheduler holds a batch |
| `published`, `boot` | history, for the properties: what the branch has pointed at, HEAD when the session began |

| Action | Code |
|---|---|
| `FilterCommits` | `renamed` (windows.rs:419), on any of the filter's threads, between any two steps while the mount is connected (main.rs:207), before the loop starts and during the flush too |
| `LoopCommits` | `reconcile_path`, in the drain and in the flush |
| `Clone`, `Remount`, `StartLoop` | `open_or_clone_in`; `last_head` and `pushed_head` from whatever HEAD is by then |
| `NoticeHead` | main.rs:294 |
| `Wait`, `PushNothing` | no verdict is due; a batch with nothing unpushed |
| `PushStart`, `PushLands`, `PushCounts` | `push` reads HEAD; objects and reference; its return (also early, when the tip is there), `pushed_head` and the closed batch |
| `PushFails`, `HalfPush` | an error before the reference; after it, from the working copy |
| `FetchStart`, `FetchNothing`, `FetchTracks`, `FetchMoves`, `HalfFetch` | `fetch_shallow`: the connection, no news or no answer, the tracking ref, HEAD, an error between the two |
| `Shutdown`, `FlushStart`, `FlushLands`, `FlushFails`, `FlushNothing`, `Close` | Ctrl-C and `flush_to_remote` |
| `Crash` | at any phase: the references stay, the loop's variables are lost |

A commit is one step because its reference edit requires HEAD to be the parent
it read: what it does to HEAD happens at that edit, on top of HEAD as it is
then. What it does to the folder before, and what becomes of one whose edit
fails, is `WriteBack`'s. For the same reason the writes of a fetch are not here,
nor the overlays, which `mark_tree_in_sync` sets for the whole folder whatever
is in it (see 4). Time is abstract: with an open batch the turn may push or
wait, without one it may fetch or wait, which is what `SyncScheduler` is proved
to implement.

### SyncInterview

A session is a line-by-line loop (`serve`), so it has one request at a time;
sessions share nothing but the repository. A blob id is the content it names,
HEAD the sequence of commits that leads to it. Each call into the git backend
is a step of its own, as each reads HEAD anew:

| Action | Code |
|---|---|
| `AskRead`, `AskPush` | a request is read and parsed |
| `Verdict` | one listed file, looked up at HEAD (`path_oid`, in `status` and in `patch_one`) |
| `Missing` | the walk for files the client did not list, and the reply |
| `CheckBase` | `path_oid`, the comparison with the base and with the content |
| `ReadHead`, `WriteFile`, `WriteFails`, `SetRef`, `SetRefFails` | `commit`, cut where it reads HEAD, writes the working copy and edits the reference |
| `Told` | the id in the reply, read once more |
| `MountReads`, `MountForces`, `Mirror`, `MountFails` | a mount's `push`: it reads the branch and lists its files (git lib.rs:428-442), copies objects and forces the branch (450), writes its tree over the working copy (457), or ends with an error in either part |

A manifest is a status that lists no file; a patch is a status without new
files, its diff being text made from two immutable blobs. `during` (what HEAD
has been since the request arrived) and `spoiled` (files a push failed on,
wrote while a mount's tree was being copied, or committed new while a mount that
had listed the branch was still copying objects) are history, for the properties.
Requests for a pinned revision are left out: they do not depend on HEAD. A
commit's reference edit requires HEAD to be the parent it was given; that is
`gix`'s doing and the guard of `SetRef`. Two mounts do not push at once here.

### LocalPush and ProxySave

An object is a pair of its kind and what it holds, so equal contents are one
object, as in git; a commit holds its history. `store` is the target's object
store, `branch` its branch, `worktree` its working copy, `published` (history)
what the branch has pointed at. `base` is the shallow
boundary of a proxy's clone: below it the proxy has no objects.

| Action | Code (`bosync-git/src/lib.rs`) |
|---|---|
| `UpToDate`, `TipUnreadable`, `StartPush` | `push` up to the copy: HEAD, the target's tip, the tip's file list |
| `SkipObject`, `CopyObject` | one turn of `copy_missing_objects`: the object popped is there, or it is written after its children were pushed on the stack |
| `SetRef` | the branch, set with `PreviousValue::Any` |
| `Mirror`, `MirrorUnreadable` | the target's working copy |
| `CutCopy`, `CutMirror` | a crash or an error in between |
| `Commit`, `Fetch` | what the proxy does otherwise: commits (the filter's even while the loop pushes), and taking the target's branch over |

Tree entries come in an order of their names, which nothing depends on: any
order is allowed. Trees are flat; a subtree would be one more object between.

`ProxySave` adds the proxy's folder and overlays. `Save` is `on_save` up to its
push (`reconcile_path` and the `Local` mark), `SavePushes` the push, whose last
step also sets the overlay if it succeeded and the file was not removed.
`Wipe` and `Clone` are the halves of `refresh_shallow`. `DehydrateStale` is
`dehydrate_stale` as Windows answers it: "dehydrate" marks the file in sync.

### WriteBack

| Variable | Code |
|---|---|
| `head`, `owed` | HEAD's tree; a batch is open |
| `disk`, `size`, `dirty` | the folder (`Ghost` for a placeholder), the sizes placeholders were made with, paths with an event |
| `step`, `change`, `base` | per thread: where its commit (or the loop's fetch) is, what it commits, HEAD as it read it |
| `renaming` | per thread of the filter: the rename it is at |
| `before`, `todo` | the walk before the fetch, and the files still to write |
| `entries`, `populated` | placeholders listed and not yet made; a folder is populated once |
| `missed`, `late` | history: the exceptions of the two properties |

The loop's reconcile is `Drain`, `ReconcileReads`, `Compare`; the filter's
callback, on each of its threads (`Filters`), is `Collect` or `RenamedReads`;
any of them commits by `ReadHead`, `WriteFiles` (or `WriteFails`) and `SetRef`
or `SetRefFails`. `FetchStart`, `FetchMoves`, `Walk`, `FetchFile` and
`FetchEnds` are `refresh_branch`. `ListEntries` and `Project` are
`fetch_placeholders`, `Hydrate` is `fetch_data`. Three kinds of step fail when a
file is in use: the read of a reconcile or a rename, the write of a commit (after
a rename's removal, which goes first), and the write of a fetched file. A removal
that fails, whose error `commit` drops, is left out. `base` is the tree a thread
has read, or `Moved` once another commit has taken HEAD's place, which is all
that the reference edit asks; HEAD never comes back to a commit it has left while
one commit is under way, so commits need no names.

The platform's part is taken from how the code uses it: it may create a listed
placeholder over a file that came in between or leave the file (the code asks for
`overwrite`), it fills a placeholder before a read returns, and its writes raise
events. Contents are sequences of bytes because a hydration is cut to a size. The
remote is the trees a fetch may find.

### FuseFs

A path is the sequence of its names. fuser serves one callback at a time, so a
callback is one action; the directory and file handles of the kernel
(`Opendir`, `dir`, `at`, `file`, `got`) are modelled only as far as they decide
which callback comes next and with which offset. `Versions` are the trees HEAD
may have. `Entries` is `list_dir` with the error it makes of an entry whose
object is elsewhere (a submodule), which `readdir` takes for an empty folder;
`Data` is `read_blob`, which returns a tree object's bytes for a path that has
become a directory. Git's trees sort a directory as though its name ended in a slash, so
a name has two places in the order, one as a file (the number it is) and one as a
directory (`AsDir`): an entry that turns from one into the other may change places
with its neighbours (`Key`).

Operators whose comment begins with *Variant* are plausible defects. The
specification does not use them; each property is shown to fail when one of
them takes its original's place.

## 3. What the runs check

| Run | Instance | Shows |
|---|---|---|
| `scheduler` | a policy in the default's proportions, clock to 40 | `TypeOK`, `PushOnTime`, `NeverSilent`, `FetchesArePaced`, `ImplementsPacing` (1,731,132 states) |
| `mounts` | two writers, one renames; two commits and one, two trees, a fault | `TypeOK`, `PushedIsPublished`, `FetchKeepsNoticedWork`, `SessionKeepsCommits`, `ImplementsBranch` (1,215,939 states) |
| `mount_settles` | a writer with two commits and a read-only mount with one, both of which rename, a fault; fair | `CountedIsRemote`, `NoticedIsPushed`, `RemoteFastForwards`, `MountsFollow` (105,405 states) |
| `interview` | two sessions, one of which reads too, two files, two pushes, by sessions or mounts | the properties of the interview below (1,308,905 states) |
| `proxy_save` | two proxies, one of them refreshed and freed when idle, two commits each, three edits, one cut | the properties of pushes and saves below, and `ImplementsBranch` (105,613 states) |
| `write_back` | two paths, two threads of the filter, contents of two lengths; two user operations, one fetch and one file in use | the properties of the write-back below (7,193,199 states) |
| `fuse` | three names, one of which sorts behind the next as a directory, six trees, two moves of HEAD | the properties of the projection below (555,010 states) |

The properties of the mounts:

- `PushedIsPublished`: what a loop counts as pushed, the remote was given, even
  though it sends HEAD and records `last_head`, and another thread moves HEAD.
- `CountedIsRemote`: with one writer, a HEAD that counts as pushed is the branch,
  also after a push that was half-done and tried again.
- `FetchKeepsNoticedWork`: a fetch, or its crash, never drops a commit the loop
  had noticed in its session.
- `SessionKeepsCommits`: a mount whose user renames nothing, in a session that
  began at a commit the remote had, never moves HEAD off one the remote was not
  given: a fetch forces HEAD, but waits for the open batch.
- `RemoteFastForwards`: with one writer the forced branch only moves forward, and
  what a read-only mount renames stays out of it.
- `ImplementsBranch`: the refinement of `SharedBranch`.
- `NoticedIsPushed` (liveness): a commit the loop noticed is pushed in the end,
  unless the mount goes down first.
- `MountsFollow` (liveness): if nothing fails, then once the users stop each mount
  comes to the remote's commit, but for a reader left with a rename of its own on a
  branch that has not moved since, and a writer that began at a commit the remote
  was not given.

The properties of the interview:

- `AnswersAreRecent`: what a reply says of a file was so at some time while the
  request was served, although each file is looked up under a HEAD of its own.
- `PushesAppend`: a push adds one commit to HEAD as it is then and changes one
  file in it, however old the base check is: no other commit is lost.
- `CommittedTookEffect`: a push that was told it succeeded was HEAD's version
  while it was served, and so was its base.
- `FolderFollowsHead`: while no mount's tree is copied, the working copy agrees
  with HEAD on each file no push is working on, but for `spoiled`: files a push
  failed on, or wrote while a mount's tree was being copied, and files committed
  new between a mount's look at the branch and its forcing it.

The properties of pushes and saves:

- `MissingIsPending`: whatever an object of the target refers to is there, or on
  the stack of a push, or was on the stack of one when it was cut. Pushes skip
  what others have half copied; no interleaving of them leaves a hole.
- `WholeWhenQuiet`: so once the pushes have ended, and none was cut while it
  copied, the target is whole.
- `WalkStaysInClone`: the walk asks the proxy for no object below its shallow
  boundary, although it follows parents and others set the branch back.
- `WorkingCopyFollows`: pushes that neither overlap nor are cut leave the
  target's working copy at its branch.
- `SyncedIsOnRemote`: a file that shows the in-sync overlay holds what the
  target was given, but for files idle maintenance marked (`idled`) and files
  edited between their commit and the end of their push (`overtaken`).
- `RefreshDropsOnlyUnsent`: a refresh drops unpushed commits only if a push had
  failed or was cut.
- `SavesReturn` (liveness): every save comes to an end.
- `ImplementsBranch`: with all that cuts and crashes do, the branch sees commits,
  HEADs that were pushed, and itself taken over.

The properties of the write-back:

- `NothingForgotten`: a file that differs from HEAD has an event, or the loop
  is at it, or `missed` tells why not.
- `PlaceholdersFit`: a placeholder at rest has the size of HEAD's blob, so that
  it can be filled; `late` and `missed` tell the exceptions.

The properties of the projection:

- `InodesKeepTheirPath`: an inode the kernel was given stands for its path for
  ever, and the path for it.
- `ListingIsFaithful`: a listing in pages, each from the tree of its moment,
  leaves out an entry only if entries before it went away, and repeats one only
  if entries before it came.
- `ReadIsFaithful`: a read in ranges gives bytes the path held meanwhile, and
  the blob itself if it did not change.

**Bounds.** `Horizon` = 40 covers several batches in a row, each with
extensions, failures and retries, and back-off up to its limit. Three
commits of two writers and a fault give each pair of races between two mounts, a
second commit while the first is pushed, and a session that crashes and goes on.
Paths: two, because a rename needs two. Counters (`commits`, `ops`, `faults` and
their like) exist only to bound the runs. `Readers` keeps one of the two sessions
from reading: reads change nothing, so two readers add states and no behaviour. `MaxChanges` = 2 lets two pushes, or a
push and a mount's, race on two files with two contents.
In `proxy_save` two commits let a push build on one that was cut and a proxy
fall behind the other; one content and two paths make two saves share a blob.
In `write_back` two operations are a save and a rename, two renames, or a rename
and a save behind it, against one fetch, one projection and one file in use, of
which a run takes any three (`MaxEvents`); the filter's threads are symmetric; a
longer content that begins with the shorter one makes a torn hydration visible.
In `fuse` two moves of
HEAD make an entry go and come again; six trees suffice for each kind of change.
The theorems of section 5 hold without any of these bounds; only the liveness
properties depend on them.

**Fairness** (`Fairness` in `MountLoop`). Weak fairness of cloning, of a mount's
turn and of its unmount: the loop never blocks for ever. Strong fairness of
`FetchStart`, `PushNothing` and `PushStart`: deadlines pass, and `SyncScheduler`
bounds them. Strong fairness of `PushLands` or `PushCounts` and of `FetchTracks`:
a push or a fetch that is tried for ever succeeds at some time, which holds for
the local remotes the code can push to, and not for network remotes (see 6).
Commits, faults, crashes and remounts owe nothing. `SaveSpec` assumes weak fairness of the push of a save alone: `on_save`
is a function that runs to its end; edits, crashes, refreshes and idle
maintenance owe nothing.

**Deadlock.** Checked everywhere but in three runs that may stop because a bound
is reached and not the program: `scheduler` (`Horizon`), `proxy_save` and
`write_back` (once the users' edits, the commits and the fetches are used up
nothing is left to do).

## 4. Where the code does not do what is said of it

Each of these runs ends in a counterexample. `PROJECT.json` quotes the words.

- `retry_hammers` (`RetriesBackOff`). A push fails and is put off by `push_retry`
  (30 s by default); the next change caps the deadline at the batch's ceiling
  (20 s after its first change), so the push is tried again at the ceiling, and if
  that has passed at once, and so after each further change. Said: it "retries
  after a backoff rather than hammering". It holds while no change is reported
  between a failed push and its retry (theorem `RetriesBackOffLeftAlone`).
- `lost_on_remount` (`CommitsSurvive`). Edit, commit, crash before the push (or
  a flush that fails), remount: `pushed_head` starts at HEAD, so nothing is
  owed, and the first fetch that finds the remote moved forces HEAD off the
  commit. Said: such commits "go out on the next mount", "never lost". It holds
  if nothing is renamed and no mount is started again on commits that had not
  gone out (theorem `CommitsSurviveQuietly`).
- `idle_rolls_back` (`IdleMountOwesNothing`). A fetch moves HEAD and not
  `last_head`; the next turn takes that for a local change and, some seconds
  later, pushes it over what another mount has pushed since. It does not happen
  to the only writer of a remote (theorem `IdleSoleWriterOwesNothing`).
- `lost_update` (`PushReplacesItsBase`). Two pushes based on one version: the
  first commits after the second has passed its check and before the second
  reads HEAD's commit. Both are told "committed", and the second replaces the
  first's version of the file. Said: "the server rejects the push as a conflict
  if its current version has moved on since then". (The first one's commit is
  still in the history: `PushesAppend`.) It holds while no mount pushes and no two
  sessions are between the check and the commit of one file (theorem
  `ApartPushesReplaceTheirBase`).
- `broken_push` (`BranchIsReadable`). `copy_missing_objects` writes an object
  before its children and stops at an object the target has. A push that is cut
  after the commit object and tried again skips the commit and sets the branch
  to it, without its tree. Every push of a later commit then fails while it
  lists the old tip's files (`TipUnreadable`), and a push of the same commit
  returns early as up to date. Said: "Copy every object reachable from `start`
  that `dst` is missing". It holds while no copy was cut and no push was past
  the reference while another was on its way (theorem `UndisturbedIsReadable`).

What the models carry as an exception of a property, or the code shows, and no
run of its own refutes:

*Mounts.*
- A rename the filter's thread commits while the loop fetches is dropped, with a
  single mount and no crash: the tracking ref lags behind the mount's own push,
  so the next fetch finds it moved and forces HEAD (git lib.rs:380, "there is
  nothing to lose by force-moving it"). `CommitsSurvive` fails on it as well.
- A fetch that fails between its two references leaves the mount where it is until
  the branch moves again, as every later fetch finds the tracking ref unmoved
  (hence `MountsFollow` speaks of runs without faults).
- A commit the filter makes between its connection (main.rs:207) and the loop's
  start counts as pushed (`boot` in the properties).
- A push sets the branch with `PreviousValue::Any`, so a second writer's push
  replaces commits it never fetched (the theorem on `RemoteFastForwards` needs
  its one writer). A writer whose commits were replaced, and whose branch then
  came back to the commit it last tracked, sees no move at all. Two mounts that
  nobody touches can take each other's commits for changes and push them in turn.
- The filter commits renames in read-only mounts, where the next fetch that finds
  the branch moved drops them.
- The overlays of a mount are not modelled, as no property of them holds: the mark
  of the whole tree after a push (main.rs:307) reaches files that are saved but
  not committed, and files the filter renamed since the push read HEAD; a mount
  marks every file when it starts (main.rs:210), pushed or not (README.md:130, a
  file "becomes synced only once it has been committed and pushed").
- `changed_paths` leaves removals out, so files the remote lost stay in the
  folder (README.md:105, an "always-current mirror").

*Write-back.* The cases of `missed`:
- a file saved and then renamed before the debounce gets git's older bytes back
  on disk (`rename_in_git` reads git, `commit` writes what it read); a fetch and
  `commit` likewise overwrite a save that came after their read;
- a removal whose reference edit fails, because another thread has moved HEAD, is
  warned of and not tried again: its path has left the buffer and
  raises no event (an upsert raises one, by its own write);
- the loop lets go a path that equals HEAD while a rename of it is on its way;
  when that rename is committed the difference has no event left (the delete of
  a file that has just been renamed);
- a file in use when it is to be read or written: the path has left the buffer, or
  the commit ends with the rename's removal done and the file not written;
- two threads that rename (or the loop and one) overwrite each other's files before
  one of them loses the reference, and a rename writes git's older bytes over what
  the loop has just committed; the files raise events, so the loop commits what is
  on disk in the end;
- a removed file reappears as a placeholder if its folder is first populated
  before the removal is committed; files the remote removed, and fetched files
  that could not be written, differ from HEAD for good.

*Placeholders.* The cases of `late`: one listed before HEAD moved, made while
its path is being committed, or renamed without a commit has a size HEAD's blob
has not. If the blob is longer, the file is filled with its beginning, and the
event that raises lets the loop commit the torn file; if it is shorter or gone,
the read fails.

*Proxy.* A refresh wipes what a failed push left (git lib.rs:307, "local commits
are pushed on save *before* any refresh"), and a refresh whose clone fails
leaves no folder. `dehydrate_stale` marks files in sync that are only `Local`.
An edit between a file's commit and the end of its push ends up under the
in-sync overlay, if the platform keeps the mark. The mount loop calls none of
the three.

*Push.* A cut between the branch and the working copy leaves the copy behind,
and no retry repairs it, for the branch is there already.

*FUSE.* One submodule in a directory makes the whole directory look empty
(`list_dir` fails and `unwrap_or_default` hides it). A file that became a
directory is read as the raw tree object. The generation is always 0 and `..`
always the root; a name that is no UTF-8 is changed on its way in. The unknown
inode of the code's `ENOENT` cannot come from the kernel, as no inode is taken
back (`InodesKeepTheirPath`).

*Interview.* A reply's files may come from different commits, and its revision
id, which is read last, from yet another; a push that fails at the reference leaves its file in the working
copy, a mount's push copies its tree over files that sessions have committed since it
moved the branch, and a file a session commits after the push has listed the
branch (git lib.rs:440) and before it forces it stays in the working copy,
although neither tree has it (git lib.rs:456, "`git status` stays clean").

## 5. What is proved

All theorems hold for every value of the constants that satisfies the named
assumptions (`DurationAssumption`, `DecayAssumption`, `PacingAssumption`;
`MountAssumption`; `InterviewAssumption`; `PushAssumption`, `SaveAssumption`;
`WriteBackAssumption`; `FuseAssumption`), which TLC evaluates in every run.

| Module | Theorem | States |
|---|---|---|
| `SyncSchedulerProofs` | `TypeCorrect`, `PushedOnTime`, `SilenceBounded`, `FetchesPaced` | the four invariants of the run `scheduler` |
| | `Refinement` | `Spec => Pacing!Spec`: the scheduler implements `PushPacing` |
| | `RetriesBackOffLeftAlone` | when the promise of section 4 holds |
| `SharedBranchProofs` | `NobodyHoldsUnpublished` | `[]HeadsAreOwnWork`: below a client's own commits lies one the branch has pointed at |
| | `SoleWriterKeepsAll`, `SoleWriterMovesForward` | for a sole writer, `[]NothingIsTakenBack` and `FastForwards` |
| `MountLoopProofs` | `TypeCorrect` | `[]TypeOK` |
| | `NoticedIsAccounted`, `PushedWasPublished` | `[]Accounted` (a head noticed and not pushed keeps the batch open), `[]PushedIsPublished` |
| | `FetchesKeepNoticedWork`, `SessionsKeepCommits` | the action properties `FetchKeepsNoticedWork`, `SessionKeepsCommits` |
| | `MountsShareBranch`, `MountsHoldOwnWork` | `Spec => ImplementsBranch`, and what `SharedBranch` then says of any number of mounts |
| | `SoleWriterFastForwards`, `CountedHeadIsRemote` | `RemoteFastForwards` and `[]CountedIsRemote`, for a sole writer and any read-only mounts, whoever renames |
| | `CommitsSurviveQuietly`, `IdleSoleWriterOwesNothing` | when two of the promises of section 4 hold |
| `SyncInterviewProofs` | `TypeCorrect`, `RepliesAreRecent`, `CommittedPushesTookEffect` | `[]TypeOK`, `[]AnswersAreRecent`, `[]CommittedTookEffect` |
| | `WorkingCopyFollowsHead` | `[]FolderFollowsHead` |
| | `PushesOnlyAppend` | the action property `PushesAppend` |
| | `ApartPushesReplaceTheirBase` | when the promise of section 4 holds |
| `LocalPushProofs` | `TypeCorrect`, `MissingObjectsArePending`, `TargetIsWholeWhenQuiet`, `WalksStayInClone`, `WorkingCopyIsBranch` | `[]` of `TypeOK`, `MissingIsPending`, `WholeWhenQuiet`, `WalkStaysInClone`, `WorkingCopyFollows` |
| | `UndisturbedIsReadable` | when the promise of section 4 holds |
| | `PushesShareBranch`, `PushersHoldOwnWork`, `SolePusherKeepsAll` | `PushSpec => ImplementsBranch`, and what `SharedBranch` then says of pushes |
| `ProxySaveProofs` | `SavesShareBranch` | `SaveSpec => ImplementsBranch` |
| | `SaveTypeCorrect`, `OverlayIsEarned` | `[]SaveTypeOK`, `[]SyncedIsOnRemote` |
| | `RefreshIsSafe` | the action property `RefreshDropsOnlyUnsent` |
| | `LoneProxyRestsOnBranch` | for a sole proxy, `[]RestsOnBranch`: between saves whose pushes went through, HEAD is the branch, and in-sync files are the branch's |
| | `UndisturbedSavesAreReadable` | the result of `LocalPush`, of saves |
| `WriteBackProofs` | `TypeCorrect`, `NoDifferenceIsForgotten` | `[]TypeOK`, `[]NothingForgotten` |
| | `PlaceholdersCanBeFilled` | `[]PlaceholdersFit` |
| `FuseFsProofs` | `TypeCorrect`, `InodesAreStable`, `ListingsAreFaithful`, `ReadsAreFaithful` | the four invariants of the run `fuse` |

*Scheduler.* `IInv` relates the deadline of an open batch to its start, its
last failure and the clock, and the next fetch to the last exchange; the
bounds are not inductive without these, for they speak of the clock alone.

*Mounts.* `PushInv` adds to `Accounted` that no batch is open during a fetch,
that a read-only mount never has one nor reconciles, that while the loop acts HEAD
extends `last_head` (the filter's threads may only add to it), that what a push
has read extends `last_head` too, and that HEAD extends what a push has read and
the tracking ref of a fetch under way is published. Hence a push publishes
`last_head`, and a fetch starts with nothing noticed outstanding. `HeadMoves` sums
up all steps by what they do to HEAD. `QuietInv` speaks of a mount whose user
renames nothing: from the end of the drain to the end of a fetch its HEAD is
`last_head`, for only the filter's threads could move it, and a reader's HEAD is
published; with `PushInv`, what a fetch leaves was pushed. `IdleInv` says that
while nothing is committed in the only writer its HEAD, its tracking ref and what
it counts as pushed are the remote's.

*Branch.* `SharedBranch` forgets turns, folders and objects. That a push sets
the branch to the HEAD its client read, and to nothing else, is the refinement
of `MountLoop` and of `LocalPush`; that the branch loses no commit when one
client pushes is then proved once: its HEAD and its offer are never behind the
branch (`NothingIsTakenBack`), and any HEAD is a published commit with commits
of its own client on top (`HeadsAreOwnWork`). For the only writer this gives
more than `PushedIsPublished`: its HEAD is never behind the branch and what it
counts as pushed is never ahead of it, so a HEAD that counts as pushed is the
branch (`CountedIsRemote`).

*Interview.* `SeenInv` says of each session what it has seen of HEAD since its
request: every answer, from the check on the base, from the reference edit on
the content, and always HEAD as it is now. Without the last no step could answer
from HEAD. Steps of other sessions and mounts only add to what was seen
(`OthersWitnessed`). `PushesAppend` needs types alone: the reference edit makes
HEAD the parent the commit was built on. `FollowInv` carries the working copy: a
push whose reference edit will succeed finds its file as it wrote it, or another
push is on that file still (`Written`); what a mount's push is copying is
HEAD's, but for files sessions wrote meanwhile (`Mirrored`); and no session
makes again the commit a history ends with (`Numbered`), without which a
reference edit could succeed on a HEAD that has moved and come back. `BaseIsTip`
says that a session between check and commit finds its file as it checked it:
inductive only under `Apart` and `NoMountPushes`, as `lost_update` shows. That what
a mount's push forces away is in one of the two trees it knows, or `spoiled`, is
what its copy needs; before that it has listed the branch, and all a session has
done since was unseen.

*Pushes.* `Stored` adds to `MissingIsPending` that only a push that is copying
has a stack, that the branch's commit is in the store, and that the commit a
push is to publish is in the store or on its stack. `Walked` relates the walk
to the clone: HEAD extends the boundary and the boundary's commit is in the
store, which never shrinks, so the walk descends only through commits above it.
`Mirroring` keeps the working copy at the tip a lone push has read until it is
rewritten.

*Saves.* Each step of `ProxySave` is by its definition a step of `LocalPush` on the
variables they share, or none; so what is proved of pushes carries over, the
refinement of `SharedBranch` included. `SaveInv` adds that a proxy is at one save or
none, that what a save has committed is HEAD's version of the file until its
push returns, and that an unpushed HEAD is marked `unsent` or is being saved.
`SyncedIsHead` adds that a file in sync is HEAD's; for the only proxy, HEAD is the
branch.

*Write-back.* `Shape` says what each step knows of its own change: that a
reconcile works on one path and a rename on its two, and what is in `base`.
`IInv` joins to `NothingForgotten` that a file on its way into a commit either
holds what that commit will make of HEAD or has an event of its own (or is in
`missed`), whatever the other threads write, and that during a fetch the same holds
of the walk taken before it. TLC checked both on the instance of `write_back` too.
For `PlaceholdersFit`, `Ghosts` says of every loose placeholder that HEAD can fill
it, or that the fetch is on its way to its path, or that it awaits the commit of
one of the filter's threads.

*Projection.* `Table`: the two maps are each other's inverse on all that was
given, and no inode reaches the counter. `Listing` counts: an entry's place
against the next offset decides whether it was told, and each move of HEAD that
changes the place is in `risen` or `fallen`; the lemmas on `Place` are about the
cardinality of what comes before. `Reading`: what was read is a prefix of some
blob, byte by byte.

Not proved, but model-checked: liveness (`NoticedIsPushed`, `MountsFollow`,
`SavesReturn`), which is out of the prover's reach. Every invariant, action
property and refinement of a passing run is proved. Proved and in no run are the
statements about one client or with a condition of their own (`RestsOnBranch`,
`NothingIsTakenBack`, `HeadsAreOwnWork`) and `Accounted`, which `PushInv` holds
and `FetchKeepsNoticedWork` rests on.

## 6. What is not modelled

- Pushes to network remotes, which the code refuses; there every push is a
  `PushFails`, and by `ImplementsPacing` no fetch follows an unpushed commit.
- Directories as such: they are implied by their files in `WriteBack` and
  `LocalPush` (a folder rename moves its files one by one in
  `rename_in_git`, in one commit); `FuseFs` has them.
- The overlays of a mounted folder (see 4); the ones of saves are in `ProxySave`.
- The writes and flushes within one file; the chunks and the progress of a
  hydration; a `commit` whose removal of a file fails, which it does not notice.
- The folder and the commits of one model together: `MountLoop` has commits without
  folders, `WriteBack` one mount's folder without remote commits of its own. So no
  property says end to end that an edit reaches the remote: `NothingForgotten` says
  that it keeps an event or is at a commit, but for `missed`, and `NoticedIsPushed`
  that the commit gets out.
- A remote without commits, a detached HEAD, a `--branch` that is not the
  clone's branch.
- Commit identity and time, tags, depths other than one in `LocalPush`,
  garbage collection (`prune` keeps no state).
- The target's index, permissions and symbolic links; the sample repository.
- The sync root's registration, the command line, `scan_drive`, path and URL
  parsing, JSON, the text of diffs, logging, wording.
- Two pushes of mounts at once to the repository a session works on: `LocalPush`
  has overlapping pushes, `SyncInterview` the sessions.

## 7. What is left

1. `WriteBack` and `MountLoop` in one: that the commits of the fine steps are
   `MountLoop`'s, with the folder's part projected away, so that the two halves of
   the way of an edit can be joined.
2. `SyncInterview`: pinned revisions, the revision id of a reply, and an atomic
   versioned store as its abstract specification for the requests whose steps
   nobody came between.
3. Directories in `WriteBack`: a folder renamed while files in it are committed.
