----------------------------- MODULE PushPacing -----------------------------
(***************************************************************************)
(* What SyncScheduler promises the mount loop, without any clock: a change *)
(* opens a debt to the remote, only a push closes it, a failed push keeps  *)
(* it open, and the remote is asked for news only when nothing is owed.    *)
(* SyncScheduler implements this; MountLoop relies on nothing more.        *)
(***************************************************************************)
VARIABLES owed,   \* a committed change awaits a push
          last    \* the last exchange with the remote

vars == <<owed, last>>

Exchange == {"none", "pushed", "failed", "fetched"}

Init == owed = FALSE /\ last = "none"

NoteChange == owed' = TRUE /\ UNCHANGED last

Pushed == owed /\ owed' = FALSE /\ last' = "pushed"

PushFailed == owed /\ last' = "failed" /\ UNCHANGED owed

Fetched == ~owed /\ last' = "fetched" /\ UNCHANGED owed

Next == NoteChange \/ Pushed \/ PushFailed \/ Fetched

Spec == Init /\ [][Next]_vars
=============================================================================
