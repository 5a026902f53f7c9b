---------------------------- MODULE SyncScheduler ----------------------------
(***************************************************************************)
(* bosync-core/src/schedule.rs: the scheduler that batches a mount's pushes *)
(* and paces its fetches, driven as the mount loop of bosync-cli drives it. *)
(* One turn of the loop reads the clock once, reports at most one change,   *)
(* polls, carries out the verdict and sleeps.                               *)
(*                                                                          *)
(* Durations are ticks.  The f64 arithmetic of the policy is kept by what   *)
(* it computes: Extension[n] is push_base * push_decay^n, Ceiling is        *)
(* push_base / (1 - push_decay), GrowNum / GrowDen is fetch_growth and      *)
(* 1 / JitterDiv is fetch_jitter.                                           *)
(***************************************************************************)
EXTENDS Integers

CONSTANTS PushBase, Extension, Ceiling, PushRetry,
          FetchBase, FetchMax, GrowNum, GrowDen, JitterDiv,
          MaxChanges,  \* where the change counter saturates (u32::MAX)
          MaxGap,      \* longest time between two polls
          Horizon,     \* bound of the clock
          None

ASSUME DurationAssumption ==
  /\ PushBase \in Nat /\ Ceiling \in Nat /\ PushRetry \in Nat
  /\ FetchBase \in Nat /\ FetchMax \in Nat /\ Horizon \in Nat
  /\ MaxGap \in Nat \ {0}
  /\ None \notin Nat

\* push_base <= push_base / (1 - push_decay), for a decay between 0 and 1.
ASSUME DecayAssumption ==
  /\ MaxChanges \in Nat \ {0}
  /\ Extension \in [1..MaxChanges -> Nat]
  /\ PushBase <= Ceiling

ASSUME PacingAssumption ==
  /\ FetchBase <= FetchMax
  /\ GrowNum \in Nat /\ GrowDen \in Nat \ {0} /\ JitterDiv \in Nat \ {0}
  /\ GrowDen <= GrowNum

VARIABLES
  batch_start, push_deadline, changes, fetch_interval, next_fetch,
  now,         \* the Instant the loop passes to every call of this turn
  phase,       \* where the loop is in its turn
  last,        \* history: the last exchange with the remote ...
  contact_at,  \* history: ... and when it took place
  failed_at    \* history: the last failed push of the open batch

sched == <<batch_start, push_deadline, changes, fetch_interval, next_fetch>>
history == <<last, contact_at, failed_at>>
vars == <<sched, now, phase, history>>

Lesser(a, b) == IF a <= b THEN a ELSE b

\* jittered: anything within the jitter fraction of base.
Jittered(base) == (base - base \div JitterDiv)..(base + base \div JitterDiv)

\* Variant: the back-off has no ceiling.
BackoffUncapped(interval) == (interval * GrowNum) \div GrowDen

Backoff(interval) == Lesser(FetchMax, (interval * GrowNum) \div GrowDen)

Init ==
  /\ batch_start = None /\ push_deadline = None /\ changes = 0
  /\ fetch_interval = FetchBase
  /\ next_fetch \in Jittered(FetchBase)
  /\ now = 0 /\ phase = "note"
  /\ last = "none" /\ contact_at = 0 /\ failed_at = None

-----------------------------------------------------------------------------
\* The first change of a batch arms the timer; a later one extends it, but
\* never beyond the ceiling counted from the first.
Arm ==
  /\ batch_start = None
  /\ batch_start' = now /\ changes' = 0
  /\ push_deadline' = now + PushBase

\* Variant: a plain debounce, where the cap moves with every change.
ExtendDebounce ==
  /\ batch_start # None
  /\ changes' = Lesser(changes + 1, MaxChanges)
  /\ push_deadline' = Lesser(now + PushBase, now + Ceiling)
  /\ UNCHANGED batch_start

Extend ==
  /\ batch_start # None
  /\ changes' = Lesser(changes + 1, MaxChanges)
  /\ LET pending == IF push_deadline = None THEN now ELSE push_deadline
     IN  push_deadline' = Lesser(pending + Extension[changes'],
                                 batch_start + Ceiling)
  /\ UNCHANGED batch_start

NoteChange ==
  /\ phase = "note" /\ phase' = "poll"
  /\ Arm \/ Extend
  /\ fetch_interval' = FetchBase
  /\ UNCHANGED <<next_fetch, now, history>>

NoChange ==
  /\ phase = "note" /\ phase' = "poll"
  /\ UNCHANGED <<sched, now, history>>

\* Variant: a due fetch goes before the open batch.
PollFetchFirst ==
  IF now >= next_fetch THEN "Fetch"
  ELSE IF push_deadline # None /\ now >= push_deadline THEN "Push" ELSE "Idle"

Poll ==
  IF push_deadline # None
  THEN IF now >= push_deadline THEN "Push" ELSE "Idle"
  ELSE IF now >= next_fetch THEN "Fetch" ELSE "Idle"

\* The verdict is carried out and its outcome reported in the same turn.
Act(tick) == phase = "poll" /\ phase' = "sleep" /\ Poll = tick /\ now' = now

\* Variant: a push leaves the fetch where it was due.
NotePushedKeepsFetch ==
  /\ Act("Push")
  /\ batch_start' = None /\ push_deadline' = None /\ changes' = 0
  /\ fetch_interval' = FetchBase
  /\ last' = "pushed" /\ contact_at' = now /\ failed_at' = None
  /\ UNCHANGED next_fetch

NotePushed ==
  /\ Act("Push")
  /\ batch_start' = None /\ push_deadline' = None /\ changes' = 0
  /\ fetch_interval' = FetchBase
  /\ next_fetch' \in {now + d : d \in Jittered(FetchBase)}
  /\ last' = "pushed" /\ contact_at' = now /\ failed_at' = None

NotePushFailed ==
  /\ Act("Push")
  /\ push_deadline' = now + PushRetry
  /\ last' = "failed" /\ contact_at' = now /\ failed_at' = now
  /\ UNCHANGED <<batch_start, changes, fetch_interval, next_fetch>>

NoteFetched(brought_changes) ==
  /\ Act("Fetch")
  /\ fetch_interval' =
       IF brought_changes THEN FetchBase ELSE Backoff(fetch_interval)
  /\ next_fetch' \in {now + d : d \in Jittered(fetch_interval')}
  /\ last' = "fetched" /\ contact_at' = now
  /\ UNCHANGED <<batch_start, push_deadline, changes, failed_at>>

Idle == Act("Idle") /\ UNCHANGED <<sched, history>>

\* recv_timeout(POLL_INTERVAL), which an event cuts short, plus the time the
\* reconciles and the last exchange took.
Sleep ==
  /\ phase = "sleep" /\ phase' = "note"
  /\ \E d \in 0..MaxGap : now + d <= Horizon /\ now' = now + d
  /\ UNCHANGED <<sched, history>>

Next ==
  \/ NoteChange \/ NoChange
  \/ NotePushed \/ NotePushFailed
  \/ \E b \in BOOLEAN : NoteFetched(b)
  \/ Idle \/ Sleep

Spec == Init /\ [][Next]_vars

-----------------------------------------------------------------------------
TypeOK ==
  /\ batch_start \in Nat \cup {None}
  /\ push_deadline \in Nat \cup {None}
  /\ changes \in 0..MaxChanges
  /\ fetch_interval \in 0..FetchMax
  /\ next_fetch \in Int
  /\ now \in Nat
  /\ phase \in {"note", "poll", "sleep"}
  /\ last \in {"none", "pushed", "failed", "fetched"}
  /\ contact_at \in Nat
  /\ failed_at \in Nat \cup {None}

Pending == batch_start # None

\* A batch that has not failed is pushed at the first poll after the ceiling
\* counted from its first change, however long the stream of edits that keeps
\* extending it (schedule.rs "always eventually forced to push"): the clock
\* never runs past that point with the batch still open.
PushOnTime ==
  Pending /\ failed_at = None => now < batch_start + Ceiling + MaxGap

\* The remote is never left alone for longer than MaxSilence: backoff, jitter,
\* extensions, a batch armed just as a fetch was due, retries after failures
\* and their interleavings all stay within one bound.
LongestFetch == FetchMax + FetchMax \div JitterDiv
LongestRetry == IF Ceiling <= PushRetry THEN PushRetry ELSE Ceiling

MaxSilence ==
  LET idle == LongestFetch + MaxGap + Ceiling
  IN  (IF LongestRetry <= idle THEN idle ELSE LongestRetry) + MaxGap

NeverSilent == now <= contact_at + MaxSilence

\* Fetches are never closer to the exchange before them than the base interval
\* less its jitter: not right after a push that was late, not after a batch
\* that was open when the fetch fell due, not when the back-off resets.
FetchesArePaced ==
  phase = "poll" /\ Poll = "Fetch"
    => now >= contact_at + FetchBase - FetchBase \div JitterDiv

\* SyncScheduler implements the untimed pacing contract: the fetch yields to
\* an open batch and only a push that succeeded closes one.
Pacing == INSTANCE PushPacing WITH owed <- Pending

ImplementsPacing == Pacing!Spec

\* "A failed push ... retries after a backoff rather than hammering"
\* (README.md:159): no retry comes sooner than push_retry after the failure,
\* whatever happens in between.
RetriesBackOff ==
  phase = "poll" /\ Poll = "Push" /\ failed_at # None
    => now >= failed_at + PushRetry

\* No change is reported between a failed push and its retry.
LeftAlone == [][NoteChange => failed_at = None]_vars
=============================================================================
