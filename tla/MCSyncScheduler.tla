--------------------------- MODULE MCSyncScheduler ---------------------------
(* A policy in the proportions of SyncPolicy::default(): decay 1/2, a retry
   longer than the ceiling, growth 3/2 and jitter 1/4. *)
EXTENDS SyncScheduler

MCExtension == [n \in 1..MaxChanges |-> PushBase \div 2^n]
=============================================================================
