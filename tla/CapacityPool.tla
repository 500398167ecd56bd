---------------------------- MODULE CapacityPool ----------------------------
(***************************************************************************)
(* AgentCapacityPool (agent/capacity.py): the process-wide FIFO pool of    *)
(* agent slots.  Every critical section of the pool runs under an          *)
(* asyncio.Lock and contains no await, so it is one step here; the only    *)
(* suspension point is the `await shield(future)` of acquire, between      *)
(* which and the resumption anything may happen: a grant, a close, a       *)
(* cancellation, or a cancellation of a waiter that was already granted.   *)
(*                                                                         *)
(* A caller is one coroutine's request for a slot.  Several callers may    *)
(* name the same owner (owner_kind, owner_id), which the pool refuses.     *)
(* The uuid token of a lease is the caller it was granted to.              *)
(***************************************************************************)
EXTENDS Naturals, Sequences, FiniteSets

CONSTANTS Callers,    \* requests for a slot
          Owners,     \* (owner_kind, owner_id) pairs
          OwnerOf,    \* the owner each caller names
          Limit       \* AgentCapacityPool.limit

ASSUME LimitAssumption  == Limit \in Nat \ {0}
ASSUME OwnerAssumption  == OwnerOf \in [Callers -> Owners]
ASSUME CallerAssumption == IsFiniteSet(Callers)

VARIABLES
    active,     \* _active: the callers whose token holds a slot
    waiters,    \* _waiters: the deque of suspended callers
    future,     \* the state of each caller's future
    pc,         \* where each caller's coroutine is
    closed      \* _closed

vars == <<active, waiters, future, pc, closed>>

FutureStates == {"none", "pending", "granted", "failed"}
PcStates     == {"idle", "waiting", "reserved", "holding"}

TypeOK ==
    /\ active \subseteq Callers
    /\ waiters \in Seq(Callers)
    /\ future \in [Callers -> FutureStates]
    /\ pc \in [Callers -> PcStates]
    /\ closed \in BOOLEAN

Init ==
    /\ active = {}
    /\ waiters = <<>>
    /\ future = [c \in Callers |-> "none"]
    /\ pc = [c \in Callers |-> "idle"]
    /\ closed = FALSE

-----------------------------------------------------------------------------
Queued == {waiters[i] : i \in DOMAIN waiters}

\* deque.remove: the queue without its i-th entry.
Without(i) == [j \in 1..(Len(waiters) - 1) |-> waiters[IF j < i THEN j ELSE j + 1]]

\* Defects.  The operators named Bug... change one definition each, the way a slip
\* in the code would; no behaviour of this module uses them.  They show that the
\* properties below can fail.
BugUniqueAmongActive(c) == \A d \in active : OwnerOf[d] # OwnerOf[c]

\* _ensure_unique: neither an active nor a waiting caller names this owner.
Unique(c) == \A d \in active \cup Queued : OwnerOf[d] # OwnerOf[c]

BugFreeSlotOffByOne == Cardinality(active) <= Limit /\ waiters = <<>>

\* A slot is free and nobody is in front.
FreeSlot == Cardinality(active) < Limit /\ waiters = <<>>

Enter(c) == pc[c] = "idle" /\ ~closed /\ Unique(c)

\* try_acquire by c: a lease at once, or None (which changes nothing).
TryAcquire(c) ==
    /\ Enter(c)
    /\ FreeSlot
    /\ active' = active \cup {c}
    /\ pc' = [pc EXCEPT ![c] = "holding"]
    /\ UNCHANGED <<waiters, future, closed>>

\* try_reserve: try_acquire wrapped in an AgentCapacityReservation.
TryReserve(c) ==
    /\ Enter(c)
    /\ FreeSlot
    /\ active' = active \cup {c}
    /\ pc' = [pc EXCEPT ![c] = "reserved"]
    /\ UNCHANGED <<waiters, future, closed>>

\* AgentCapacityReservation.consume: the lease leaves the reservation, once.
Consume(c) ==
    /\ pc[c] = "reserved"
    /\ pc' = [pc EXCEPT ![c] = "holding"]
    /\ UNCHANGED <<active, waiters, future, closed>>

\* acquire when no slot is free: the caller queues and suspends.
AcquireWait(c) ==
    /\ Enter(c)
    /\ ~FreeSlot
    /\ waiters' = Append(waiters, c)
    /\ future' = [future EXCEPT ![c] = "pending"]
    /\ pc' = [pc EXCEPT ![c] = "waiting"]
    /\ UNCHANGED <<active, closed>>

-----------------------------------------------------------------------------
\* _grant_waiters after `kept` remain active: slots go to the head of the deque.
GrantCount(kept) ==
    LET free == Limit - Cardinality(kept)
    IN  IF Len(waiters) <= free THEN Len(waiters) ELSE free

GrantedNow(kept) == {waiters[i] : i \in 1..GrantCount(kept)}

BugReleaseWithoutGrant(c) ==
    /\ active' = active \ {c}
    /\ future' = [future EXCEPT ![c] = "none"]
    /\ UNCHANGED waiters

BugReleaseGrantsLast(c) ==
    LET n    == Len(waiters)
        gone == c \in active /\ waiters # <<>>
    IN  /\ active' = (active \ {c}) \cup (IF gone THEN {waiters[n]} ELSE {})
        /\ waiters' = IF gone THEN SubSeq(waiters, 1, n - 1) ELSE waiters
        /\ future' = [d \in Callers |-> IF gone /\ d = waiters[n] THEN "granted"
                                       ELSE IF d = c THEN "none" ELSE future[d]]

\* _release by c's token, and the hand-over of the freed slot.
ReleaseSlot(c) ==
    LET kept == active \ {c}
        gone == c \in active /\ ~closed
        now  == IF gone THEN GrantedNow(kept) ELSE {}
    IN  /\ active' = kept \cup now
        /\ waiters' = IF gone
                      THEN SubSeq(waiters, GrantCount(kept) + 1, Len(waiters))
                      ELSE waiters
        /\ future' = [d \in Callers |->
                        IF d \in now THEN "granted"
                        ELSE IF d = c THEN "none" ELSE future[d]]

\* AgentCapacityLease.close, or AgentCapacityReservation.close before consume.
Release(c) ==
    /\ pc[c] \in {"holding", "reserved"}
    /\ ReleaseSlot(c)
    /\ pc' = [pc EXCEPT ![c] = "idle"]
    /\ UNCHANGED closed

\* The event loop resumes acquire: with the lease, or with the closed error.
Resume(c) ==
    /\ pc[c] = "waiting"
    /\ future[c] \in {"granted", "failed"}
    /\ pc' = [pc EXCEPT ![c] = IF future[c] = "granted" THEN "holding" ELSE "idle"]
    /\ future' = [future EXCEPT ![c] = "none"]
    /\ UNCHANGED <<active, waiters, closed>>

BugCancelMarksFuture(c) ==
    /\ pc[c] = "waiting"
    /\ \E i \in DOMAIN waiters : waiters[i] = c /\ waiters' = Without(i)
    /\ future' = [future EXCEPT ![c] = "cancelled"]
    /\ pc' = [pc EXCEPT ![c] = "idle"]
    /\ UNCHANGED <<active, closed>>

\* acquire is cancelled while still queued: it leaves the deque.
CancelQueued(c) ==
    /\ pc[c] = "waiting"
    /\ \E i \in DOMAIN waiters : waiters[i] = c /\ waiters' = Without(i)
    /\ future' = [future EXCEPT ![c] = "none"]
    /\ pc' = [pc EXCEPT ![c] = "idle"]
    /\ UNCHANGED <<active, closed>>

BugCancelForgetsGrant(c) ==
    /\ pc[c] = "waiting"
    /\ c \notin Queued
    /\ future' = [future EXCEPT ![c] = "none"]
    /\ pc' = [pc EXCEPT ![c] = "idle"]
    /\ UNCHANGED <<active, waiters, closed>>

\* acquire is cancelled after its future was resolved: a granted slot goes back.
CancelResolved(c) ==
    /\ pc[c] = "waiting"
    /\ c \notin Queued
    /\ ReleaseSlot(c)
    /\ pc' = [pc EXCEPT ![c] = "idle"]
    /\ UNCHANGED closed

BugCloseDropsWaiters ==
    /\ ~closed
    /\ closed' = TRUE
    /\ waiters' = <<>>
    /\ UNCHANGED <<active, pc, future>>

\* close: every queued caller gets the closed error; active leases live on.
Close ==
    /\ ~closed
    /\ closed' = TRUE
    /\ waiters' = <<>>
    /\ future' = [c \in Callers |-> IF c \in Queued THEN "failed" ELSE future[c]]
    /\ UNCHANGED <<active, pc>>

Next ==
    \/ \E c \in Callers :
         \/ TryAcquire(c)   \/ TryReserve(c)   \/ Consume(c)
         \/ AcquireWait(c)  \/ Release(c)      \/ Resume(c)
         \/ CancelQueued(c) \/ CancelResolved(c)
    \/ Close

Spec == Init /\ [][Next]_vars

\* A run ends and closes its lease (the finally blocks of its owner), a
\* reservation is consumed or closed, the loop resumes a resolved future.
Fairness == \A c \in Callers : WF_vars(Release(c) \/ Resume(c))

FairSpec == Spec /\ Fairness

-----------------------------------------------------------------------------
\* Never more than Limit agents hold a slot at once.
WithinLimit == Cardinality(active) <= Limit

\* Every occupied slot has exactly one caller that can still give it back: one
\* with a lease or reservation in hand, or one whose granted future has not been
\* delivered.  A cancellation that races a grant must not leak the slot.
NoLeakedSlot ==
    active = {c \in Callers : \/ pc[c] \in {"holding", "reserved"}
                              \/ pc[c] = "waiting" /\ future[c] = "granted"}

\* The deque holds exactly the suspended callers that nobody has answered, each
\* once: a waiter outside it with a pending future would sleep for ever.
NoForgottenWaiter ==
    /\ Queued = {c \in Callers : pc[c] = "waiting" /\ future[c] = "pending"}
    /\ \A i, j \in DOMAIN waiters : i # j => waiters[i] # waiters[j]

\* An owner occupies at most one place among the slots and the queue.
OneClaimPerOwner ==
    \A c, d \in active \cup Queued : OwnerOf[c] = OwnerOf[d] => c = d

\* While somebody queues, no slot is idle.
WorkConserving == waiters # <<>> => Cardinality(active) = Limit

\* Slots, queue, futures and callers agree, whatever was granted, cancelled, released or
\* closed, and in whatever order.
SlotsAccounted ==
    WithinLimit /\ NoLeakedSlot /\ NoForgottenWaiter /\ OneClaimPerOwner /\ WorkConserving

\* Slots go out in arrival order: nobody is granted while a caller that queued
\* earlier still waits, and a newcomer never overtakes the queue.
GrantsInOrder ==
    \A c \in Callers :
        (c \notin active /\ c \in active') =>
            IF c \in Queued
            THEN \A i, j \in DOMAIN waiters :
                    (i < j /\ waiters[j] = c) => waiters[i] \in active'
            ELSE waiters = <<>>

FifoGrants == [][GrantsInOrder]_vars

\* Every suspended caller is eventually answered.
EveryWaiterAnswered == \A c \in Callers : []<>(pc[c] # "waiting")
=============================================================================
