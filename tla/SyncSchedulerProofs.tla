------------------------- MODULE SyncSchedulerProofs -------------------------
(* The scheduler's invariants for every policy, and its refinement of the   *)
(* pacing contract.                                                         *)
EXTENDS SyncScheduler, TLAPS

USE DurationAssumption, DecayAssumption, PacingAssumption

Floor(interval) == interval - interval \div JitterDiv

\* A share of a whole is non-negative, at most the whole, and what it leaves
\* grows with the whole.
LEMMA JitterBounds ==
  ASSUME NEW i \in Nat PROVE Floor(i) \in Nat /\ i \div JitterDiv \in Nat
<1> DEFINE q == i \div JitterDiv
<1>1. q \in Int /\ JitterDiv * q <= i /\ i < JitterDiv * q + JitterDiv
  BY SMT
<1>2. q >= 0
  BY <1>1, SMT
<1>3. q <= i
  BY <1>1, <1>2, SMT
<1> QED BY <1>1, <1>2, <1>3 DEF Floor

LEMMA FloorMonotone ==
  ASSUME NEW i \in Nat, NEW j \in Nat, i <= j PROVE Floor(i) <= Floor(j)
<1> DEFINE q == i \div JitterDiv
           r == j \div JitterDiv
<1>1. q \in Int /\ JitterDiv * q <= i /\ i < JitterDiv * q + JitterDiv
  BY SMT
<1>2. r \in Int /\ JitterDiv * r <= j /\ j < JitterDiv * r + JitterDiv
  BY SMT
<1>3. i - q <= j - r
  BY <1>1, <1>2, SMT
<1> QED BY <1>3 DEF Floor

LEMMA ShareMonotone ==
  ASSUME NEW i \in Nat, NEW j \in Nat, i <= j
  PROVE  i \div JitterDiv <= j \div JitterDiv
<1> DEFINE q == i \div JitterDiv
           r == j \div JitterDiv
<1>1. q \in Int /\ JitterDiv * q <= i
  BY SMT
<1>2. r \in Int /\ j < JitterDiv * r + JitterDiv
  BY SMT
<1> QED BY <1>1, <1>2, SMT

LEMMA GrowthGrows ==
  ASSUME NEW i \in Nat
  PROVE  (i * GrowNum) \div GrowDen \in Nat /\ i <= (i * GrowNum) \div GrowDen
<1> DEFINE q == (i * GrowNum) \div GrowDen
<1>1. i * GrowNum \in Nat /\ i * GrowDen <= i * GrowNum
  BY SMT
<1>2. q \in Int /\ i * GrowNum < GrowDen * q + GrowDen
  BY <1>1, SMT
<1>3. i <= q
  BY <1>1, <1>2, SMT
<1> QED BY <1>2, <1>3

\* The back-off neither leaves the interval's range nor falls below its base.
LEMMA BackoffBounds ==
  ASSUME NEW i \in 0..FetchMax, FetchBase <= i
  PROVE  Backoff(i) \in 0..FetchMax /\ FetchBase <= Backoff(i)
<1> DEFINE q == (i * GrowNum) \div GrowDen
<1>1. q \in Nat /\ i <= q
  BY GrowthGrows
<1>2. Backoff(i) = IF FetchMax <= q THEN FetchMax ELSE q
  BY DEF Backoff, Lesser
<1> HIDE DEF q
<1> QED BY <1>1, <1>2

-----------------------------------------------------------------------------
(* The deadline of an open batch, and where the clock may be before it. *)
BatchInv ==
  /\ Pending <=> push_deadline # None
  /\ failed_at # None => Pending
  /\ Pending /\ failed_at = None =>
       /\ push_deadline <= batch_start + Ceiling
       /\ now < push_deadline + MaxGap
       /\ phase = "sleep" => now < push_deadline

(* The fetch that is due once nothing is owed. *)
FetchInv ==
  /\ FetchBase <= fetch_interval
  /\ ~Pending => /\ contact_at + Floor(FetchBase) <= next_fetch
                 /\ next_fetch <= contact_at + LongestFetch

(* How far the clock is from the last contact: in the wait for a fetch, in a
   batch that a fetch due by then has yielded to, and in the wait for a retry,
   which a change may move back to the ceiling. *)
SilenceInv ==
  /\ Pending => batch_start <= now
  /\ ~Pending => /\ now <= next_fetch + MaxGap
                 /\ phase = "sleep" => now <= next_fetch
  /\ Pending /\ failed_at = None =>
       batch_start <= contact_at + LongestFetch + MaxGap
  /\ Pending /\ failed_at # None =>
       /\ batch_start <= contact_at
       /\ push_deadline <= contact_at + LongestRetry
       /\ now <= contact_at + LongestRetry + MaxGap
       /\ phase = "sleep" => now <= contact_at + LongestRetry

IInv == TypeOK /\ BatchInv /\ FetchInv /\ SilenceInv

LEMMA WithinGap == \A s, t \in Nat : s <= t => s <= t + MaxGap
OBVIOUS

\* Where the next fetch is put, whatever the jitter.
LEMMA NextFetch ==
  ASSUME NEW i \in 0..FetchMax, FetchBase <= i, NEW t \in Nat,
         NEW d \in Jittered(i)
  PROVE  /\ t + d \in Nat /\ t <= t + d
         /\ t + Floor(FetchBase) <= t + d /\ t + d <= t + LongestFetch
<1>1. i \in Nat /\ i <= FetchMax /\ i \div JitterDiv \in Nat
  <2>1. i \in Nat /\ i <= FetchMax
    OBVIOUS
  <2> QED BY <2>1, JitterBounds
<1>2. d \in Int /\ Floor(i) <= d /\ d <= i + i \div JitterDiv
  <2> DEFINE share == i \div JitterDiv
  <2>1. d \in (i - share)..(i + share) /\ Floor(i) = i - share
    BY DEF Jittered, Floor
  <2>2. i \in Nat /\ share \in Nat
    BY <1>1
  <2> HIDE DEF share
  <2>3. d \in Int /\ i - share <= d /\ d <= i + share
    BY <2>1, <2>2
  <2> QED BY <2>1, <2>3 DEF share
<1>3. Floor(FetchBase) \in Nat /\ Floor(i) \in Nat
  BY <1>1, JitterBounds
<1>4. i \div JitterDiv <= FetchMax \div JitterDiv
  BY <1>1, ShareMonotone
<1>5. FetchMax \div JitterDiv \in Nat
  BY JitterBounds
<1>6. i + i \div JitterDiv <= LongestFetch /\ LongestFetch \in Nat
  BY <1>1, <1>4, <1>5 DEF LongestFetch
<1>7. Floor(FetchBase) <= Floor(i)
  BY <1>1, FloorMonotone
<1> QED BY <1>1, <1>2, <1>3, <1>6, <1>7

LEMMA BoundsType ==
  /\ Floor(FetchBase) \in Nat
  /\ LongestFetch \in Nat
  /\ LongestRetry \in Nat /\ PushRetry <= LongestRetry
  /\ Ceiling <= LongestRetry
<1>1. Floor(FetchBase) \in Nat /\ FetchMax \div JitterDiv \in Nat
  BY JitterBounds
<1> QED BY <1>1 DEF LongestFetch, LongestRetry

LEMMA InitIInv == Init => IInv
<1> SUFFICES ASSUME Init PROVE IInv
  OBVIOUS
<1>1. PICK d \in Jittered(FetchBase) : next_fetch = d
  BY DEF Init
<1>2. /\ 0 + d \in Nat /\ 0 + Floor(FetchBase) <= 0 + d
      /\ 0 + d <= 0 + LongestFetch
  <2>1. FetchBase \in 0..FetchMax /\ 0 \in Nat
    OBVIOUS
  <2> QED BY <2>1, NextFetch
<1>3. d \in Int
  <2>1. FetchBase \div JitterDiv \in Nat
    BY JitterBounds
  <2> QED BY <2>1 DEF Jittered
<1> QED
  BY <1>1, <1>2, <1>3, BoundsType
  DEF Init, IInv, TypeOK, BatchInv, FetchInv,
     SilenceInv, Pending

LEMMA StepIInv == IInv /\ [Next]_vars => IInv'
<1> SUFFICES ASSUME IInv, [Next]_vars PROVE IInv'
  OBVIOUS
<1> USE BoundsType DEF IInv
<1>1. CASE NoteChange
  <2> USE <1>1 DEF NoteChange, history
  <2>1. CASE Arm
    BY <2>1 DEF Arm, TypeOK, BatchInv, FetchInv, SilenceInv, Pending
  <2>2. CASE Extend
    <3> DEFINE pending == IF push_deadline = None THEN now ELSE push_deadline
    <3>1. changes' \in 1..MaxChanges /\ Extension[changes'] \in Nat
      BY <2>2 DEF Extend, TypeOK, Lesser
    <3>2. /\ batch_start \in Nat /\ pending \in Nat
          /\ push_deadline' = Lesser(pending + Extension[changes'],
                                     batch_start + Ceiling)
      BY <2>2 DEF Extend, TypeOK
    <3>3. /\ push_deadline' \in Nat
          /\ push_deadline' <= batch_start + Ceiling
          /\ pending <= batch_start + Ceiling => pending <= push_deadline'
      BY <3>1, <3>2 DEF Lesser
    <3>4. BatchInv'
      BY <2>2, <3>2, <3>3 DEF Extend, TypeOK, BatchInv, Pending
    <3>5. SilenceInv'
      BY <2>2, <3>2, <3>3 DEF Extend, TypeOK, BatchInv, SilenceInv, Pending
    <3> QED
      BY <2>2, <3>1, <3>3, <3>4, <3>5 DEF Extend, TypeOK, FetchInv, Pending
  <2> QED BY <2>1, <2>2
<1>2. CASE NoChange
  BY <1>2 DEF NoChange, sched, history, TypeOK, BatchInv, FetchInv,
     SilenceInv, Pending
<1>3. CASE NotePushed
  <2>1. PICK d \in Jittered(FetchBase) : next_fetch' = now + d
    BY <1>3 DEF NotePushed
  <2>2. /\ next_fetch' \in Nat /\ now <= next_fetch'
        /\ now + Floor(FetchBase) <= next_fetch'
        /\ next_fetch' <= now + LongestFetch
    <3>1. FetchBase \in 0..FetchMax /\ now \in Nat
      BY DEF TypeOK
    <3> QED BY <2>1, <3>1, NextFetch
  <2>3. /\ batch_start' = None /\ push_deadline' = None /\ changes' = 0
        /\ fetch_interval' = FetchBase /\ now' = now /\ phase' = "sleep"
        /\ last' = "pushed" /\ contact_at' = now /\ failed_at' = None
    BY <1>3 DEF NotePushed, Act
  <2>4. TypeOK'
    BY <2>2, <2>3 DEF TypeOK
  <2>5. BatchInv'
    BY <2>3 DEF BatchInv, Pending
  <2>6. FetchInv'
    BY <2>2, <2>3 DEF FetchInv
  <2>7. SilenceInv'
    <3>1. now' <= next_fetch' /\ now' <= next_fetch' + MaxGap
      <4>1. now' \in Nat /\ next_fetch' \in Nat /\ now' <= next_fetch'
        BY <2>2, <2>3 DEF TypeOK
      <4> QED BY <4>1, WithinGap
    <3>2. ~Pending'
      BY <2>3 DEF Pending
    <3> QED BY <3>1, <3>2 DEF SilenceInv
  <2> QED BY <2>4, <2>5, <2>6, <2>7
<1>4. CASE NotePushFailed
  BY <1>4 DEF NotePushFailed, Act, Poll, TypeOK, BatchInv, FetchInv,
     SilenceInv, Pending
<1>5. ASSUME NEW b \in BOOLEAN, NoteFetched(b) PROVE IInv'
  <2>1. /\ fetch_interval' \in 0..FetchMax /\ FetchBase <= fetch_interval'
    <3>1. fetch_interval \in 0..FetchMax /\ FetchBase <= fetch_interval
      BY DEF TypeOK, FetchInv
    <3>2. /\ Backoff(fetch_interval) \in 0..FetchMax
          /\ FetchBase <= Backoff(fetch_interval)
      BY <3>1, BackoffBounds
    <3> QED BY <1>5, <3>2 DEF NoteFetched
  <2>2. PICK d \in Jittered(fetch_interval') : next_fetch' = now + d
    BY <1>5 DEF NoteFetched
  <2>3. /\ next_fetch' \in Nat /\ now <= next_fetch'
        /\ now + Floor(FetchBase) <= next_fetch'
        /\ next_fetch' <= now + LongestFetch
    <3>1. now \in Nat
      BY DEF TypeOK
    <3> QED BY <2>1, <2>2, <3>1, NextFetch
  <2>4. push_deadline = None
    BY <1>5 DEF NoteFetched, Act, Poll
  <2>5. /\ last' = "fetched" /\ contact_at' = now
        /\ now' = now /\ phase' = "sleep"
        /\ UNCHANGED <<batch_start, push_deadline, changes, failed_at>>
    BY <1>5 DEF NoteFetched, Act
  <2>6. ~Pending /\ batch_start = None
    BY <2>4 DEF BatchInv, Pending
  <2>7. TypeOK'
    BY <2>1, <2>3, <2>5 DEF TypeOK
  <2>8. BatchInv'
    BY <2>5, <2>6 DEF BatchInv, Pending
  <2>9. FetchInv'
    BY <2>1, <2>3, <2>5 DEF FetchInv
  <2>10. SilenceInv'
    <3>1. now' <= next_fetch' /\ now' <= next_fetch' + MaxGap
      <4>1. now' \in Nat /\ next_fetch' \in Nat /\ now' <= next_fetch'
        BY <2>3, <2>5 DEF TypeOK
      <4> QED BY <4>1, WithinGap
    <3>2. ~Pending'
      BY <2>5, <2>6 DEF Pending
    <3> QED BY <3>1, <3>2 DEF SilenceInv
  <2> QED BY <2>7, <2>8, <2>9, <2>10
<1>6. CASE Idle
  BY <1>6 DEF Idle, Act, Poll, sched, history, TypeOK, BatchInv, FetchInv,
     SilenceInv, Pending
<1>7. CASE Sleep
  BY <1>7 DEF Sleep, sched, history, TypeOK, BatchInv, FetchInv,
     SilenceInv, Pending
<1>8. CASE UNCHANGED vars
  BY <1>8 DEF vars, sched, history, TypeOK, BatchInv, FetchInv,
     SilenceInv, Pending
<1> QED
  BY <1>1, <1>2, <1>3, <1>4, <1>5, <1>6, <1>7, <1>8 DEF Next

\* Deadlines, clock and last exchange stay related as the bounds below need.
THEOREM SpecIInv == Spec => []IInv
BY InitIInv, StepIInv, PTL DEF Spec

-----------------------------------------------------------------------------
\* Every variable of the scheduler keeps its type, for every policy.
THEOREM TypeCorrect == Spec => []TypeOK
BY SpecIInv, PTL DEF IInv

\* A batch that has not failed is pushed within the ceiling and one poll.
THEOREM PushedOnTime == Spec => []PushOnTime
<1>1. IInv => PushOnTime
  BY DEF IInv, TypeOK, BatchInv, PushOnTime, Pending
<1> QED BY <1>1, SpecIInv, PTL

\* The remote is never left alone for longer than MaxSilence.
THEOREM SilenceBounded == Spec => []NeverSilent
<1>1. IInv => NeverSilent
  BY BoundsType DEF IInv, TypeOK, BatchInv, FetchInv, SilenceInv, NeverSilent,
     MaxSilence, Pending
<1> QED BY <1>1, SpecIInv, PTL

\* Fetches keep their distance from the exchange before them.
THEOREM FetchesPaced == Spec => []FetchesArePaced
<1>1. IInv => FetchesArePaced
  <2> SUFFICES ASSUME IInv, phase = "poll", Poll = "Fetch"
               PROVE  now >= contact_at + Floor(FetchBase)
    BY DEF FetchesArePaced, Floor, IInv, TypeOK
  <2>1. ~Pending /\ now >= next_fetch
    BY DEF Poll, IInv, BatchInv
  <2>2. Floor(FetchBase) \in Nat
    BY JitterBounds
  <2> QED BY <2>1, <2>2 DEF IInv, TypeOK, FetchInv
<1> QED BY <1>1, SpecIInv, PTL

\* A failed push backs off, for every policy and through late polls, failure
\* after failure, as long as no change is reported before its retry: a change
\* is the only thing that pulls a retry forward (schedule.rs:125).
THEOREM RetriesBackOffLeftAlone == Spec /\ LeftAlone => []RetriesBackOff
<1> DEFINE Waits == failed_at # None => push_deadline >= failed_at + PushRetry
<1>1. Init => Waits
  BY DEF Init
<1>2. IInv /\ Waits /\ [Next]_vars /\ [NoteChange => failed_at = None]_vars
        => Waits'
  <2> SUFFICES ASSUME IInv, Waits, [Next]_vars,
                      [NoteChange => failed_at = None]_vars
               PROVE  Waits'
    OBVIOUS
  <2>1. CASE NoteChange
    BY <2>1 DEF NoteChange, history, vars
  <2>2. CASE NotePushed
    BY <2>2 DEF NotePushed
  <2>3. CASE NotePushFailed
    BY <2>3 DEF NotePushFailed, Act, IInv, TypeOK
  <2>4. ASSUME NEW b \in BOOLEAN, NoteFetched(b) PROVE Waits'
    BY <2>4 DEF NoteFetched
  <2>5. CASE NoChange \/ Idle \/ Sleep \/ UNCHANGED vars
    BY <2>5 DEF NoChange, Idle, Sleep, vars, sched, history
  <2> QED BY <2>1, <2>2, <2>3, <2>4, <2>5 DEF Next
<1>3. IInv /\ Waits => RetriesBackOff
  BY DEF IInv, TypeOK, RetriesBackOff, Poll
<1> QED BY <1>1, <1>2, <1>3, SpecIInv, PTL DEF Spec, LeftAlone

-----------------------------------------------------------------------------
\* The scheduler implements the pacing contract: the fetch yields to an open
\* batch, and only a push closes one.
THEOREM Refinement == Spec => ImplementsPacing
<1>1. Init => Pacing!Init
  BY DEF Init, Pacing!Init, Pending
<1>2. IInv /\ [Next]_vars => [Pacing!Next]_(Pacing!vars)
  <2> SUFFICES ASSUME IInv, [Next]_vars PROVE [Pacing!Next]_(Pacing!vars)
    OBVIOUS
  <2> USE DEF Pacing!Next, Pacing!vars
  <2>1. CASE NoteChange
    BY <2>1 DEF NoteChange, Arm, Extend, history, Pacing!NoteChange, Pending,
                IInv, TypeOK
  <2>2. CASE NoChange
    BY <2>2 DEF NoChange, sched, history, Pending
  <2>3. CASE NotePushed
    BY <2>3 DEF NotePushed, Act, Poll, Pacing!Pushed, Pending, IInv, BatchInv
  <2>4. CASE NotePushFailed
    BY <2>4 DEF NotePushFailed, Act, Poll, Pacing!PushFailed, Pending, IInv,
                BatchInv
  <2>5. ASSUME NEW b \in BOOLEAN, NoteFetched(b) PROVE Pacing!Fetched
    BY <2>5 DEF NoteFetched, Act, Poll, Pacing!Fetched, Pending, IInv, BatchInv
  <2>6. CASE Idle
    BY <2>6 DEF Idle, sched, history, Pending
  <2>7. CASE Sleep
    BY <2>7 DEF Sleep, sched, history, Pending
  <2>8. CASE UNCHANGED vars
    BY <2>8 DEF vars, sched, history, Pending
  <2> QED
    BY <2>1, <2>2, <2>3, <2>4, <2>5, <2>6, <2>7, <2>8 DEF Next
<1> QED
  BY <1>1, <1>2, SpecIInv, PTL DEF Spec, ImplementsPacing, Pacing!Spec
=============================================================================
