-------------------------- MODULE TeamMemberProofs --------------------------
(***************************************************************************)
(* The members of a team: their runs (TeamScheduler), then their mail      *)
(* (TeamMailbox).                                                          *)
(*                                                                         *)
(* Status, run, driver, queue entry and slot of a member always tell the   *)
(* same story, for every set of members, every limit of the pool and any   *)
(* number of runs, attachments and failed commits.  The invariant has a    *)
(* part for each pair of records that must agree.  The pool's part is the  *)
(* one CapacityPoolProofs proves: a step of the scheduler is a step of the *)
(* pool, or a stutter, or a fresh pool.                                    *)
(*                                                                         *)
(* A message is in a mailbox once, in a history once, in its mailbox when  *)
(* the outbox says so, and in a history before it is marked read: for any  *)
(* number of participants and messages, and whatever dies in between.  A   *)
(* file of messages only grows, and one that cannot be read stays so.  A   *)
(* run knows what its session file holds, because no other run writes to   *)
(* it: what it commits is new, and what it marks read it has committed.    *)
(***************************************************************************)
EXTENDS TeamScheduler, TeamMailbox, SequenceTheorems, TLAPS

PoolP == INSTANCE CapacityPoolProofs
           WITH Callers <- Members, Owners <- Members,
                OwnerOf <- [m \in Members |-> m],
                pc <- place, closed <- poolClosed

-----------------------------------------------------------------------------
(* The wake queue, as a sequence without duplicates. *)

\* A sequence as a function, and what it contains.
LEMMA SeqFacts ==
    ASSUME NEW S, NEW s \in Seq(S)
    PROVE  /\ Len(s) \in Nat /\ DOMAIN s = 1..Len(s)
           /\ \A i \in 1..Len(s) : s[i] \in S
           /\ ToSet(s) = {s[i] : i \in 1..Len(s)}
           /\ IsInjective(s) <=> \A i, j \in 1..Len(s) : s[i] = s[j] => i = j
  BY LenProperties DEF ToSet, IsInjective

\* A new entry joins the queue.
LEMMA AppendedQueue ==
    ASSUME NEW m \in Members, queue \in Seq(Members), IsInjective(queue), ~InQueue(m)
    PROVE  /\ Append(queue, m) \in Seq(Members)
           /\ IsInjective(Append(queue, m))
           /\ ToSet(Append(queue, m)) = ToSet(queue) \cup {m}
  <1> DEFINE n == Len(queue)
             q == Append(queue, m)
  <1>1. /\ n \in Nat /\ \A i \in 1..n : queue[i] \in Members /\ queue[i] # m
        /\ \A i, j \in 1..n : queue[i] = queue[j] => i = j
        /\ ToSet(queue) = {queue[i] : i \in 1..n}
    BY SeqFacts DEF InQueue
  <1>2. /\ q \in Seq(Members) /\ Len(q) = n + 1
        /\ \A i \in 1..n : q[i] = queue[i]
        /\ q[n + 1] = m
    BY AppendProperties
  <1>3. IsInjective(q) <=> \A i, j \in 1..(n + 1) : q[i] = q[j] => i = j
    BY <1>2, SeqFacts
  <1>4. ToSet(q) = {q[i] : i \in 1..(n + 1)}
    BY <1>2, SeqFacts
  <1>5. ASSUME NEW i \in 1..(n + 1) PROVE i \in 1..n \/ i = n + 1
    BY <1>1
  <1> HIDE DEF q
  <1>6. IsInjective(q)
    BY <1>1, <1>2, <1>3, <1>5
  <1>7. ToSet(q) = ToSet(queue) \cup {m}
    <2>1. \A i \in 1..n : i \in 1..(n + 1)
      BY <1>1
    <2>2. n + 1 \in 1..(n + 1)
      BY <1>1
    <2> QED BY <1>1, <1>2, <1>4, <1>5, <2>1, <2>2
  <1> QED BY <1>2, <1>6, <1>7 DEF q

\* The entry of a member leaves the queue; no other entry does.
LEMMA DequeuedQueue ==
    ASSUME NEW m \in Members, queue \in Seq(Members), IsInjective(queue)
    PROVE  /\ Dequeued(m) \in Seq(Members)
           /\ IsInjective(Dequeued(m))
           /\ ToSet(Dequeued(m)) = ToSet(queue) \ {m}
  <1> DEFINE n == Len(queue)
  <1>1. /\ n \in Nat /\ DOMAIN queue = 1..n
        /\ \A i \in 1..n : queue[i] \in Members
        /\ \A i, j \in 1..n : queue[i] = queue[j] => i = j
        /\ ToSet(queue) = {queue[i] : i \in 1..n}
    BY SeqFacts
  <1>2. CASE ~InQueue(m)
    BY <1>2 DEF Dequeued, InQueue
  <1>3. CASE InQueue(m)
    <2> DEFINE k == CHOOSE i \in DOMAIN queue : queue[i] = m
               front == SubSeq(queue, 1, k - 1)
               back == SubSeq(queue, k + 1, n)
               q == front \o back
    <2>1. k \in 1..n /\ queue[k] = m
      BY <1>1, <1>3 DEF InQueue
    <2>2. Dequeued(m) = q
      BY <1>3 DEF Dequeued, RemoveAt
    <2> HIDE DEF k
    <2>3. /\ front \in Seq(Members) /\ Len(front) = k - 1
          /\ \A i \in 1..(k - 1) : front[i] = queue[i]
      <3>1. \A i \in 1..(k - 1) : queue[i] \in Members
        BY <1>1, <2>1
      <3>2. /\ 1 \in Int /\ k - 1 \in Int
            /\ (IF 1 <= k - 1 THEN (k - 1) - 1 + 1 ELSE 0) = k - 1
            /\ \A i \in 1..(k - 1) : 1 + i - 1 = i
        BY <1>1, <2>1
      <3> QED BY <2>1, <3>1, <3>2, SubSeqProperties
    <2>4. /\ back \in Seq(Members) /\ Len(back) = n - k
          /\ \A i \in 1..(n - k) : back[i] = queue[k + i]
      <3>1. \A i \in (k + 1)..n : queue[i] \in Members
        BY <1>1, <2>1
      <3>2. k + 1 \in Int /\ n \in Int /\ n - (k + 1) + 1 = n - k
        BY <1>1, <2>1
      <3>3. /\ back \in Seq(Members)
            /\ Len(back) = IF k + 1 <= n THEN n - (k + 1) + 1 ELSE 0
            /\ \A i \in 1..(n - (k + 1) + 1) : back[i] = queue[(k + 1) + i - 1]
        BY <3>1, <3>2, SubSeqProperties
      <3>4. Len(back) = n - k
        <4>1. CASE k + 1 <= n
          BY <3>2, <3>3, <4>1
        <4>2. CASE ~(k + 1 <= n)
          <5>1. k \in Int /\ n \in Int /\ k <= n
            BY <1>1, <2>1
          <5>2. n - k = 0
            BY <4>2, <5>1
          <5> QED BY <3>3, <4>2, <5>2
        <4> QED BY <4>1, <4>2
      <3>5. ASSUME NEW i \in 1..(n - k) PROVE back[i] = queue[k + i]
        <4>1. (k + 1) + i - 1 = k + i
          BY <1>1, <2>1
        <4> QED BY <3>2, <3>3, <4>1
      <3> QED BY <3>3, <3>4, <3>5
    <2> HIDE DEF front, back
    <2>5. q \in Seq(Members) /\ Len(q) = n - 1
      <3>1. q \in Seq(Members) /\ Len(q) = Len(front) + Len(back)
        BY <2>3, <2>4, ConcatProperties
      <3>2. (k - 1) + (n - k) = n - 1
        BY <1>1, <2>1
      <3> QED BY <2>3, <2>4, <3>1, <3>2
    <2>6. \A i \in 1..(n - 1) : q[i] = queue[IF i < k THEN i ELSE i + 1]
      <3>1. ASSUME NEW i \in 1..(n - 1), i < k PROVE q[i] = queue[i]
        <4>1. i \in 1..(k - 1) /\ i <= Len(front) /\ i \in 1..(Len(front) + Len(back))
          BY <1>1, <2>1, <2>3, <2>4, <3>1
        <4> QED BY <2>3, <2>4, <4>1, ConcatProperties
      <3>2. ASSUME NEW i \in 1..(n - 1), ~(i < k) PROVE q[i] = queue[i + 1]
        <4>1. /\ ~(i <= Len(front)) /\ i \in 1..(Len(front) + Len(back))
              /\ i - Len(front) \in 1..(n - k) /\ k + (i - Len(front)) = i + 1
          BY <1>1, <2>1, <2>3, <2>4, <3>2
        <4> QED BY <2>3, <2>4, <4>1, ConcatProperties
      <3> QED BY <3>1, <3>2
    <2> HIDE DEF q
    <2>7. /\ IsInjective(q) <=> \A i, j \in 1..(n - 1) : q[i] = q[j] => i = j
          /\ ToSet(q) = {q[i] : i \in 1..(n - 1)}
      BY <2>5, SeqFacts
    <2>8. IsInjective(q)
      <3>1. ASSUME NEW i \in 1..(n - 1), NEW j \in 1..(n - 1), q[i] = q[j] PROVE i = j
        <4> DEFINE at(l) == IF l < k THEN l ELSE l + 1
        <4>1. at(i) \in 1..n /\ at(j) \in 1..n /\ (at(i) = at(j) => i = j)
          BY <1>1, <2>1
        <4> QED BY <1>1, <2>6, <3>1, <4>1
      <3> QED BY <2>7, <3>1
    <2>9. ToSet(q) = ToSet(queue) \ {m}
      <3>1. ASSUME NEW i \in 1..(n - 1) PROVE q[i] \in ToSet(queue) \ {m}
        <4>1. /\ (IF i < k THEN i ELSE i + 1) \in 1..n
              /\ (IF i < k THEN i ELSE i + 1) # k
          BY <1>1, <2>1
        <4> QED BY <1>1, <2>1, <2>6, <4>1
      <3>2. ASSUME NEW d \in ToSet(queue), d # m PROVE d \in ToSet(q)
        <4>1. PICK i \in 1..n : queue[i] = d
          BY <1>1
        <4>2. CASE i < k
          <5>1. i \in 1..(n - 1)
            BY <1>1, <2>1, <4>2
          <5> QED BY <2>6, <2>7, <4>1, <4>2, <5>1
        <4>3. CASE i > k
          <5>1. i - 1 \in 1..(n - 1) /\ ~(i - 1 < k) /\ (i - 1) + 1 = i
            BY <1>1, <2>1, <4>3
          <5> QED BY <2>6, <2>7, <4>1, <5>1
        <4>4. i # k
          BY <2>1, <3>2, <4>1
        <4> QED BY <1>1, <2>1, <4>2, <4>3, <4>4
      <3> QED BY <2>7, <3>1, <3>2
    <2> QED BY <2>2, <2>5, <2>8, <2>9
  <1> QED BY <1>2, <1>3

-----------------------------------------------------------------------------
(* The capacity pool, as the scheduler uses it. *)

\* The pool is never closed, so no waiter is ever given the closed error.
GoodPool == /\ PoolP!Inv
            /\ poolClosed = FALSE
            /\ \A m \in Members : future[m] # "failed"

\* What the scheduler asks of the pool.
PoolOp(m) == \/ Pool!TryAcquire(m)   \/ Pool!TryReserve(m) \/ Pool!Consume(m)
             \/ Pool!AcquireWait(m)  \/ Pool!Release(m)    \/ Pool!Resume(m)
             \/ Pool!CancelQueued(m) \/ Pool!CancelResolved(m)

\* A pool as it is created.
LEMMA FreshPool == Pool!Init => GoodPool
  <1>1. PoolP!Init => PoolP!Inv
    BY PoolP!InitInv, LimitAssumption, MembersAssumption DEF IsFiniteSet, PoolP!IsFiniteSet
  <1> QED BY <1>1 DEF GoodPool, Pool!Init, PoolP!Init

\* A step of the pool.
LEMMA PoolOpStep ==
    ASSUME GoodPool, NEW m \in Members, PoolOp(m)
    PROVE  GoodPool'
  <1>1. PoolP!Inv /\ [PoolP!Next]_(PoolP!vars) => PoolP!Inv'
    BY PoolP!StepInv, LimitAssumption, MembersAssumption DEF IsFiniteSet, PoolP!IsFiniteSet
  <1>2. PoolP!Next
    BY DEF PoolOp, PoolP!Next,
           Pool!TryAcquire, Pool!TryReserve, Pool!Consume, Pool!AcquireWait, Pool!Release,
           Pool!Resume, Pool!CancelQueued, Pool!CancelResolved, Pool!Enter, Pool!Unique,
           Pool!FreeSlot, Pool!Queued, Pool!Without, Pool!ReleaseSlot, Pool!GrantedNow,
           Pool!GrantCount, Pool!Cardinality, Pool!IsFiniteSet,
           PoolP!TryAcquire, PoolP!TryReserve, PoolP!Consume, PoolP!AcquireWait,
           PoolP!Release, PoolP!Resume, PoolP!CancelQueued, PoolP!CancelResolved,
           PoolP!Enter, PoolP!Unique, PoolP!FreeSlot, PoolP!Queued, PoolP!Without,
           PoolP!ReleaseSlot, PoolP!GrantedNow, PoolP!GrantCount, PoolP!Cardinality,
           PoolP!IsFiniteSet
  <1>3. poolClosed' = FALSE
    BY DEF GoodPool, PoolOp, Pool!TryAcquire, Pool!TryReserve, Pool!Consume,
           Pool!AcquireWait, Pool!Release, Pool!Resume, Pool!CancelQueued,
           Pool!CancelResolved
  <1>4. \A d \in Members : future'[d] # "failed"
    <2>1. future \in [Members -> PoolP!FutureStates]
      BY DEF GoodPool, PoolP!Inv, PoolP!TypeOK
    <2> QED
      BY <2>1
         DEF GoodPool, PoolOp, Pool!TryAcquire, Pool!TryReserve, Pool!Consume,
             Pool!AcquireWait, Pool!Release, Pool!ReleaseSlot, Pool!Resume,
             Pool!CancelQueued, Pool!CancelResolved
  <1> QED BY <1>1, <1>2, <1>3, <1>4 DEF GoodPool

\* A step that leaves the pool alone.
LEMMA PoolAlone == GoodPool /\ UNCHANGED poolVars => GoodPool'
  <1>1. PoolP!Inv /\ [PoolP!Next]_(PoolP!vars) => PoolP!Inv'
    BY PoolP!StepInv, LimitAssumption, MembersAssumption DEF IsFiniteSet, PoolP!IsFiniteSet
  <1> QED BY <1>1 DEF GoodPool, poolVars, PoolP!vars

\* What the pool promises the scheduler.
LEMMA PoolPromises == GoodPool => Pool!TypeOK /\ PoolSafe
  BY DEF GoodPool, PoolP!Inv, PoolSafe,
         PoolP!TypeOK, PoolP!FutureStates, PoolP!PcStates,
         Pool!TypeOK, Pool!FutureStates, Pool!PcStates,
         PoolP!WithinLimit, PoolP!NoLeakedSlot, PoolP!WorkConserving,
         Pool!WithinLimit, Pool!NoLeakedSlot, Pool!WorkConserving,
         PoolP!Cardinality, PoolP!IsFiniteSet, Pool!Cardinality, Pool!IsFiniteSet

-----------------------------------------------------------------------------
(* The invariant. *)

\* The driver states in which the run is the driver's own.
Started == {"creating", "running", "unwinding", "closing"}

\* The active run of a member is its latest one, and it is in its driver's hands.
RunInv ==
    \A m \in Members :
        /\ (activeRun[m] # 0) <=> (status[m] = "running")
        /\ activeRun[m] \in {0, gen[m]}
        /\ pc[m] \in Started => run[m] = gen[m] /\ run[m] # 0
        /\ (HasLease /\ faults = 0 /\ status[m] = "running") =>
               pc[m] \in {"creating", "running", "unwinding"}

\* A Lead process that is not attached drives nothing.
NothingDetached ==
    lead = "detached" => assigning = {} /\ \A m \in Members : pc[m] = "none"

IInv == /\ TypeOK /\ GoodPool /\ RunInv
        /\ QueueMatchesStatus /\ SlotsMatchDrivers /\ NothingDetached

\* Initially.
LEMMA InitIInv == Init => IInv
  <1> SUFFICES ASSUME Init PROVE IInv
    OBVIOUS
  <1>1. GoodPool /\ Pool!TypeOK
    BY FreshPool, PoolPromises DEF Init
  <1>2. queue \in Seq(Members) /\ ToSet(queue) = {} /\ IsInjective(queue)
    BY EmptySeq DEF Init, ToSet, IsInjective
  <1>3. TypeOK
    BY <1>1, <1>2 DEF Init, TypeOK, Statuses, DriverPcs
  <1>4. RunInv /\ NothingDetached
    BY DEF Init, RunInv, NothingDetached, HasLease, Started
  <1>5. QueueMatchesStatus
    BY <1>2 DEF Init, QueueMatchesStatus, InQueue
  <1>6. SlotsMatchDrivers
    BY DEF Init, Pool!Init, SlotsMatchDrivers
  <1> QED BY <1>1, <1>3, <1>4, <1>5, <1>6 DEF IInv

-----------------------------------------------------------------------------
(* The pool's part: every step of the scheduler asks the pool for one thing, leaves *)
(* it alone or starts with a new one. *)

\* The pool stays one that CapacityPoolProofs vouches for.
LEMMA PoolStep == IInv /\ [Next]_vars => GoodPool'
  <1> SUFFICES ASSUME IInv, [Next]_vars PROVE GoodPool'
    OBVIOUS
  <1>f. FreshProcess => GoodPool'
    <2>1. Pool!Init' => GoodPool'
      BY FreshPool, PTL
    <2> QED BY <2>1 DEF FreshProcess, Pool!Init
  <1>0. CASE UNCHANGED vars
    BY <1>0, PoolAlone DEF IInv, vars, poolVars
  <1>1. ASSUME NEW m \in Members, DriverStep(m) PROVE GoodPool'
    <2>1. UNCHANGED poolVars \/ PoolOp(m)
      BY <1>1
         DEF DriverStep, PoolOp, DriveFirst, DriveWaits, DriveRefused, DriveGranted,
             DriveLockBusy, DriveStart, DriveStartRaises, DriveCreated, DriveCreateFails,
             DriveRunEnds, DriveUnwound, DriveCloses, CancelledUnstarted,
             CancelledWaiting, CancelledRunning, FinishRun
    <2> QED BY <2>1, PoolAlone, PoolOpStep DEF IInv
  <1>2. ASSUME NEW m \in Members, MemberStep(m), ~DriverStep(m) PROVE GoodPool'
    <2>1. UNCHANGED poolVars \/ PoolOp(m)
      BY <1>2
         DEF MemberStep, PoolOp, FlushWakes, RosterResume, RosterStop, CoordinatorStop,
             RequestPlan, DecideByTool, DecideBySend, TryReserve, AssignAndFlush,
             AssignFails, CloseReservation, ForeignRelease, DropReservation
    <2> QED BY <2>1, PoolAlone, PoolOpStep DEF IInv
  <1>3. CASE LeadStep
    <2>1. UNCHANGED poolVars \/ FreshProcess
      BY <1>3 DEF LeadStep, BeginShutdown, CloseTimeout, FinishShutdown, LoseLead, Attach, Restore
    <2> QED BY <1>f, <2>1, PoolAlone DEF IInv
  <1> QED BY <1>0, <1>1, <1>2, <1>3 DEF Next

-----------------------------------------------------------------------------
(* Slots and drivers. *)

\* Slots, requests and drivers stay matched.
LEMMA SlotStep == IInv /\ [Next]_vars => SlotsMatchDrivers' /\ NothingDetached'
  <1> SUFFICES ASSUME IInv, [Next]_vars PROVE SlotsMatchDrivers' /\ NothingDetached'
    OBVIOUS
  <1> USE DEF IInv, TypeOK, SlotsMatchDrivers, NothingDetached, DriverPcs,
              Undisturbed, Goto, EndDriver, HasLease, Closing
  <1>p. place \in [Members -> {"idle", "waiting", "reserved", "holding"}]
    BY DEF Pool!TypeOK, Pool!PcStates
  <1>0. CASE UNCHANGED vars
    BY <1>0 DEF vars, driverVars, coordVars, poolVars
  <1>1. ASSUME NEW m \in Members, DriveFirst(m)
        PROVE  SlotsMatchDrivers' /\ NothingDetached'
    BY <1>p, <1>1 DEF DriveFirst, Pool!Consume, Pool!TryAcquire, Pool!Enter
  <1>2. ASSUME NEW m \in Members, DriveWaits(m) \/ DriveRefused(m)
        PROVE  SlotsMatchDrivers' /\ NothingDetached'
    BY <1>p, <1>2 DEF DriveWaits, DriveRefused, Pool!AcquireWait, Pool!Enter, coordVars, poolVars
  <1>3. ASSUME NEW m \in Members, DriveGranted(m)
        PROVE  SlotsMatchDrivers' /\ NothingDetached'
    <2>1. place' = [place EXCEPT ![m] = "holding"]
      BY <1>3 DEF DriveGranted, Pool!Resume, GoodPool
    <2> QED BY <1>p, <1>3, <2>1 DEF DriveGranted, coordVars
  <1>4. ASSUME NEW m \in Members, DriveStart(m) \/ DriveCreated(m)
        PROVE  SlotsMatchDrivers' /\ NothingDetached'
    BY <1>p, <1>4 DEF DriveStart, DriveCreated, coordVars, poolVars
  <1>5. ASSUME NEW m \in Members,
               DriveLockBusy(m) \/ DriveStartRaises(m) \/ DriveCreateFails(m) \/ DriveCloses(m)
        PROVE  SlotsMatchDrivers' /\ NothingDetached'
    BY <1>p, <1>5
       DEF DriveLockBusy, DriveStartRaises, DriveCreateFails, DriveCloses, Pool!Release, coordVars
  <1>6. ASSUME NEW m \in Members, DriveRunEnds(m) \/ DriveUnwound(m)
        PROVE  SlotsMatchDrivers' /\ NothingDetached'
    BY <1>p, <1>6 DEF DriveRunEnds, DriveUnwound, FinishRun, coordVars, poolVars
  <1>7. ASSUME NEW m \in Members, CancelledUnstarted(m) \/ CancelledRunning(m)
        PROVE  SlotsMatchDrivers' /\ NothingDetached'
    BY <1>p, <1>7 DEF CancelledUnstarted, CancelledRunning, coordVars, poolVars
  <1>8. ASSUME NEW m \in Members, CancelledWaiting(m)
        PROVE  SlotsMatchDrivers' /\ NothingDetached'
    BY <1>p, <1>8
       DEF CancelledWaiting, Pool!CancelQueued, Pool!CancelResolved, Pool!Release, coordVars
  <1>9. ASSUME NEW m \in Members, FlushWakes(m) \/ RosterResume(m) \/ AssignAndFlush(m)
        PROVE  SlotsMatchDrivers' /\ NothingDetached'
    BY <1>p, <1>9
       DEF FlushWakes, RosterResume, AssignAndFlush, RequestWake, EnsureDriver, driverVars,
           coordVars, poolVars
  <1>10. ASSUME NEW m \in Members, RosterStop(m) \/ CoordinatorStop(m)
         PROVE  SlotsMatchDrivers' /\ NothingDetached'
    BY <1>p, <1>10
       DEF RosterStop, CoordinatorStop, DropReservation, InterruptDriver, Pool!Release, poolVars
  <1>11. ASSUME NEW m \in Members,
                RequestPlan(m) \/ DecideByTool(m) \/ DecideBySend(m) \/ ForeignRelease(m)
         PROVE  SlotsMatchDrivers' /\ NothingDetached'
    BY <1>11
       DEF RequestPlan, DecideByTool, DecideBySend, ForeignRelease, driverVars, coordVars, poolVars
  <1>12. ASSUME NEW m \in Members, TryReserve(m)
         PROVE  SlotsMatchDrivers' /\ NothingDetached'
    BY <1>p, <1>12 DEF TryReserve, Pool!TryReserve, Pool!Enter, driverVars
  <1>13. ASSUME NEW m \in Members, AssignFails(m) \/ CloseReservation(m)
         PROVE  SlotsMatchDrivers' /\ NothingDetached'
    BY <1>p, <1>13
       DEF AssignFails, CloseReservation, Pool!Release, driverVars, coordVars, poolVars
  <1>14. CASE BeginShutdown \/ CloseTimeout \/ Attach
    BY <1>14 DEF BeginShutdown, CloseTimeout, Attach, driverVars, coordVars, poolVars
  <1>15. CASE Restore
    <2>1. \A m \in Members : pc'[m] = pc[m] \/ (pc[m] = "none" /\ pc'[m] = "spawned")
      BY <1>15 DEF Restore
    <2> QED BY <1>15, <2>1 DEF Restore, coordVars, poolVars
  <1>16. CASE FinishShutdown \/ LoseLead
    BY <1>16 DEF FinishShutdown, LoseLead, FreshProcess
  <1> QED
    BY <1>0, <1>1, <1>2, <1>3, <1>4, <1>5, <1>6, <1>7, <1>8, <1>9, <1>10, <1>11, <1>12,
       <1>13, <1>14, <1>15, <1>16
       DEF Next, MemberStep, DriverStep, LeadStep

-----------------------------------------------------------------------------
(* The wake queue and the statuses. *)

\* The wake queue stays that of the QUEUED members.
LEMMA QueueStep == IInv /\ [Next]_vars => QueueMatchesStatus' /\ queue' \in Seq(Members)
  <1> DEFINE Goal == QueueMatchesStatus' /\ queue' \in Seq(Members)
  <1> SUFFICES ASSUME IInv, [Next]_vars PROVE Goal
    OBVIOUS
  <1> USE DEF IInv, TypeOK, QueueMatchesStatus, InQueue, Statuses
  <1>q. \A m \in Members :
          /\ ~InQueue(m) => /\ Append(queue, m) \in Seq(Members)
                            /\ IsInjective(Append(queue, m))
                            /\ ToSet(Append(queue, m)) = ToSet(queue) \cup {m}
          /\ /\ Dequeued(m) \in Seq(Members)
             /\ IsInjective(Dequeued(m))
             /\ ToSet(Dequeued(m)) = ToSet(queue) \ {m}
    BY AppendedQueue, DequeuedQueue
  <1>0. ASSUME UNCHANGED <<queue, status>> PROVE Goal
    BY <1>0
  <1>1. ASSUME NEW m \in Members, EnqueueMember(m) PROVE Goal
    <2>1. CASE status[m] \in {"running", "stopped"} \/ InQueue(m)
      BY <1>0, <1>1, <2>1 DEF EnqueueMember
    <2>2. CASE ~(status[m] \in {"running", "stopped"} \/ InQueue(m))
      <3>1. queue' = Append(queue, m) /\ status' = [status EXCEPT ![m] = "queued"]
        BY <1>1, <2>2 DEF EnqueueMember
      <3> QED BY <1>q, <2>2, <3>1
    <2> QED BY <2>1, <2>2
  <1>2. ASSUME NEW m \in Members, NEW to \in {"running", "stopped", "failed"},
               queue' = Dequeued(m), status' = [status EXCEPT ![m] = to]
        PROVE  Goal
    BY <1>2, <1>q
  <1>3. ASSUME NEW m \in Members, NEW to, UNCHANGED queue, pc[m] \in Started,
               CommitOutcome(m, to), to # "queued"
        PROVE  Goal
    BY <1>3 DEF CommitOutcome, TransitionMember, RunInv
  <1>4. ASSUME NEW m \in Members, RosterResume(m) PROVE Goal
    <2>1. queue' = Append(queue, m) /\ status' = [status EXCEPT ![m] = "queued"] /\ ~InQueue(m)
      BY <1>4 DEF RosterResume, Wakeable
    <2> QED BY <1>q, <2>1
  <1>5. ASSUME NEW m \in Members, RequestPlan(m) PROVE Goal
    BY <1>5 DEF RequestPlan
  <1>6. CASE Attach
    BY <1>6 DEF Attach
  <1>7. ASSUME NEW m \in Members, DriveStart(m) \/ RosterStop(m) PROVE Goal
    BY <1>2, <1>7 DEF DriveStart, RosterStop, TransitionMember
  <1>8. ASSUME NEW m \in Members, DriveRefused(m) \/ CoordinatorStop(m) PROVE Goal
    BY <1>0, <1>2, <1>8 DEF DriveRefused, CoordinatorStop, TransitionMember
  <1>9. ASSUME NEW m \in Members, DriveCreateFails(m) \/ DriveRunEnds(m) \/ DriveUnwound(m)
        PROVE  Goal
    BY <1>3, <1>9
       DEF DriveCreateFails, DriveRunEnds, DriveUnwound, FinishRun, Outcomes, Undisturbed, Started
  <1>10. ASSUME NEW m \in Members, FlushWakes(m) \/ DecideBySend(m) \/ AssignAndFlush(m)
         PROVE  Goal
    BY <1>0, <1>1, <1>10 DEF FlushWakes, DecideBySend, AssignAndFlush, RequestWake
  <1>11. ASSUME NEW m \in Members,
                \/ DriveFirst(m) \/ DriveWaits(m) \/ DriveGranted(m) \/ DriveLockBusy(m)
                \/ DriveStartRaises(m) \/ DriveCreated(m) \/ DriveCloses(m)
                \/ CancelledUnstarted(m) \/ CancelledWaiting(m) \/ CancelledRunning(m)
                \/ DecideByTool(m) \/ TryReserve(m) \/ AssignFails(m)
                \/ CloseReservation(m) \/ ForeignRelease(m)
         PROVE  Goal
    BY <1>0, <1>11
       DEF DriveFirst, DriveWaits, DriveGranted, DriveLockBusy, DriveStartRaises, DriveCreated,
           DriveCloses, CancelledUnstarted, CancelledWaiting, CancelledRunning, DecideByTool,
           TryReserve, AssignFails, CloseReservation, ForeignRelease, teamState
  <1>12. CASE BeginShutdown \/ CloseTimeout \/ FinishShutdown \/ LoseLead \/ Restore
    BY <1>0, <1>12 DEF BeginShutdown, CloseTimeout, FinishShutdown, LoseLead, Restore, teamState
  <1>13. CASE UNCHANGED vars
    BY <1>0, <1>13 DEF vars, teamState
  <1> QED
    BY <1>4, <1>5, <1>6, <1>7, <1>8, <1>9, <1>10, <1>11, <1>12, <1>13
       DEF Next, MemberStep, DriverStep, LeadStep

-----------------------------------------------------------------------------
(* The active run. *)

\* The run in a driver's hands stays the active one of its member.
LEMMA RunInvStep == IInv /\ [Next]_vars => RunInv'
  <1> SUFFICES ASSUME IInv, [Next]_vars PROVE RunInv'
    OBVIOUS
  <1> USE DEF IInv, TypeOK, RunInv, Statuses, DriverPcs, Started, HasLease,
              Undisturbed, Goto, EndDriver
  <1>1. ASSUME NEW m \in Members, DriveStart(m) PROVE RunInv'
    BY <1>1 DEF DriveStart, envVars
  <1>2. ASSUME NEW m \in Members,
               DriveFirst(m) \/ DriveWaits(m) \/ DriveGranted(m) \/ DriveCreated(m)
        PROVE  RunInv'
    <2>1. /\ pc[m] \notin {"running", "unwinding", "closing"}
          /\ \/ pc[m] = "creating" /\ pc' = [pc EXCEPT ![m] = "running"]
             \/ pc[m] # "creating" /\ \E to \in {"lock", "capacity"} : pc' = [pc EXCEPT ![m] = to]
          /\ UNCHANGED <<status, activeRun, gen, run, lead, faults>>
      BY <1>2 DEF DriveFirst, DriveWaits, DriveGranted, DriveCreated, teamState, envVars
    <2> QED BY <2>1
  <1>3. ASSUME NEW m \in Members, CancelledUnstarted(m) \/ CancelledRunning(m)
        PROVE  RunInv'
    BY <1>3 DEF CancelledUnstarted, CancelledRunning, teamState, envVars
  <1>4. ASSUME NEW m \in Members, DriveLockBusy(m) \/ CancelledWaiting(m)
        PROVE  RunInv'
    <2>1. /\ pc[m] \in {"capacity", "lock"}
          /\ pc' = [pc EXCEPT ![m] = "none"] /\ run' = [run EXCEPT ![m] = 0]
          /\ UNCHANGED <<status, activeRun, gen, lead, faults>>
      BY <1>4 DEF DriveLockBusy, CancelledWaiting, teamState, envVars
    <2> QED BY <2>1
  <1>5. ASSUME NEW m \in Members, DriveRefused(m) PROVE RunInv'
    BY <1>5 DEF DriveRefused, TransitionMember, envVars
  <1>6. ASSUME NEW m \in Members, DriveStartRaises(m) PROVE RunInv'
    BY <1>6 DEF DriveStartRaises, teamState
  <1>7. ASSUME NEW m \in Members, DriveCloses(m) PROVE RunInv'
    BY <1>7 DEF DriveCloses, teamState, envVars
  <1>8. ASSUME NEW m \in Members, DriveCreateFails(m) PROVE RunInv'
    BY <1>8 DEF DriveCreateFails, CommitOutcome, TransitionMember
  <1>9. ASSUME NEW m \in Members, DriveRunEnds(m) \/ DriveUnwound(m) PROVE RunInv'
    <2>1. /\ pc[m] \in {"running", "unwinding"} /\ pc' = [pc EXCEPT ![m] = "closing"]
          /\ UNCHANGED <<gen, run, lead>>
      BY <1>9 DEF DriveRunEnds, DriveUnwound, FinishRun
    <2>2. PICK to \in Statuses \ {"queued", "running"} : CommitOutcome(m, to)
      BY <1>9 DEF DriveRunEnds, DriveUnwound, Outcomes
    <2> QED BY <2>1, <2>2 DEF CommitOutcome, TransitionMember
  <1>10. ASSUME NEW m \in Members, FlushWakes(m) \/ AssignAndFlush(m) PROVE RunInv'
    BY <1>10
       DEF FlushWakes, AssignAndFlush, RequestWake, EnqueueMember, EnsureDriver, driverVars,
           envVars
  <1>11. ASSUME NEW m \in Members, RosterResume(m) PROVE RunInv'
    BY <1>11 DEF RosterResume, Wakeable, EnsureDriver, envVars
  <1>12. ASSUME NEW m \in Members, RosterStop(m) \/ CoordinatorStop(m) PROVE RunInv'
    BY <1>12 DEF RosterStop, CoordinatorStop, TransitionMember, envVars
  <1>13. ASSUME NEW m \in Members, RequestPlan(m) \/ DecideByTool(m) \/ DecideBySend(m)
         PROVE  RunInv'
    BY <1>13
       DEF RequestPlan, DecideByTool, DecideBySend, EnqueueMember, driverVars, envVars
  <1>14. ASSUME NEW m \in Members,
                TryReserve(m) \/ AssignFails(m) \/ CloseReservation(m) \/ ForeignRelease(m)
         PROVE  RunInv'
    BY <1>14
       DEF TryReserve, AssignFails, CloseReservation, ForeignRelease, teamState, driverVars,
           envVars
  <1>15. CASE BeginShutdown \/ CloseTimeout
    BY <1>15 DEF BeginShutdown, CloseTimeout, teamState, envVars
  <1>16. CASE FinishShutdown \/ LoseLead
    BY <1>16 DEF FinishShutdown, LoseLead, FreshProcess, teamState, envVars
  <1>17. CASE Attach
    BY <1>17 DEF Attach, NothingDetached, driverVars
  <1>18. CASE Restore
    <2>1. \A m \in Members : pc'[m] = pc[m] \/ (pc[m] = "none" /\ pc'[m] = "spawned")
      BY <1>18 DEF Restore
    <2> QED BY <1>18, <2>1 DEF Restore, teamState, envVars
  <1>19. CASE UNCHANGED vars
    BY <1>19 DEF vars, teamState, driverVars, envVars
  <1> QED
    BY <1>1, <1>2, <1>3, <1>4, <1>5, <1>6, <1>7, <1>8, <1>9, <1>10, <1>11, <1>12,
       <1>13, <1>14, <1>15, <1>16, <1>17, <1>18, <1>19
       DEF Next, MemberStep, DriverStep, LeadStep

-----------------------------------------------------------------------------
(* Types, and the invariant as a whole. *)

\* Every step keeps the types.
LEMMA TypeStep == IInv /\ [Next]_vars => TypeOK'
  <1> SUFFICES ASSUME IInv, [Next]_vars PROVE TypeOK'
    OBVIOUS
  <1> USE DEF IInv, TypeOK, Statuses, DriverPcs, Undisturbed, Goto, EndDriver, Answer
  <1>q. queue' \in Seq(Members) /\ Pool!TypeOK'
    <2>1. GoodPool' => Pool!TypeOK'
      BY PoolPromises, PTL
    <2> QED BY <2>1, PoolStep, QueueStep
  <1>u. UNCHANGED <<status, activeRun>> => status' \in [Members -> Statuses] /\ activeRun' \in [Members -> Nat]
    OBVIOUS
  <1>t. ASSUME NEW m \in Members, NEW to \in Statuses, TransitionMember(m, to)
        PROVE  status' \in [Members -> Statuses] /\ activeRun' \in [Members -> Nat]
    BY <1>t DEF TransitionMember
  <1>c. ASSUME NEW m \in Members, NEW to \in Statuses, CommitOutcome(m, to)
        PROVE  /\ status' \in [Members -> Statuses] /\ activeRun' \in [Members -> Nat]
               /\ faults' \in Nat
    <2>1. \/ TransitionMember(m, to) /\ UNCHANGED faults
          \/ UNCHANGED <<status, activeRun>> /\ faults' \in {faults, faults + 1}
      BY <1>c DEF CommitOutcome
    <2>2. faults' \in Nat
      BY <2>1
    <2>3. CASE TransitionMember(m, to)
      BY <1>t, <2>2, <2>3
    <2>4. CASE UNCHANGED <<status, activeRun>>
      BY <2>2, <2>4
    <2> QED BY <2>1, <2>3, <2>4
  <1>e. ASSUME NEW m \in Members, EnqueueMember(m) PROVE status' \in [Members -> Statuses]
    BY <1>e DEF EnqueueMember
  <1>d. ASSUME NEW m \in Members, EnsureDriver(m)
        PROVE  pc' \in [Members -> DriverPcs] /\ unanswered' \subseteq Members
    BY <1>d DEF EnsureDriver
  <1>i. ASSUME NEW m \in Members, InterruptDriver(m)
        PROVE  asked' \in [Members -> {"no", "cancel", "stop"}] /\ cancelling' \subseteq Members
    BY <1>i DEF InterruptDriver
  <1>1. ASSUME NEW m \in Members, DriveFirst(m) PROVE TypeOK'
    BY <1>q, <1>1 DEF DriveFirst, teamState, envVars
  <1>2. ASSUME NEW m \in Members, DriveWaits(m) PROVE TypeOK'
    BY <1>q, <1>2 DEF DriveWaits, teamState, coordVars, envVars
  <1>3. ASSUME NEW m \in Members, DriveGranted(m) PROVE TypeOK'
    BY <1>q, <1>3 DEF DriveGranted, teamState, coordVars, envVars
  <1>4. ASSUME NEW m \in Members, DriveLockBusy(m) PROVE TypeOK'
    BY <1>q, <1>4 DEF DriveLockBusy, teamState, coordVars, envVars
  <1>5. ASSUME NEW m \in Members, DriveStart(m) PROVE TypeOK'
    BY <1>q, <1>5 DEF DriveStart, coordVars, envVars
  <1>6. ASSUME NEW m \in Members, DriveStartRaises(m) PROVE TypeOK'
    BY <1>q, <1>6 DEF DriveStartRaises, teamState, coordVars
  <1>7. ASSUME NEW m \in Members, DriveCreated(m) PROVE TypeOK'
    BY <1>q, <1>7 DEF DriveCreated, teamState, coordVars, envVars
  <1>8. ASSUME NEW m \in Members, DriveCloses(m) PROVE TypeOK'
    BY <1>q, <1>8 DEF DriveCloses, teamState, coordVars, envVars
  <1>9. ASSUME NEW m \in Members, CancelledUnstarted(m) PROVE TypeOK'
    BY <1>q, <1>9 DEF CancelledUnstarted, teamState, coordVars, envVars
  <1>10. ASSUME NEW m \in Members, CancelledWaiting(m) PROVE TypeOK'
    BY <1>q, <1>10 DEF CancelledWaiting, teamState, coordVars, envVars
  <1>11. ASSUME NEW m \in Members, CancelledRunning(m) PROVE TypeOK'
    BY <1>q, <1>11 DEF CancelledRunning, teamState, coordVars, envVars
  <1>12. ASSUME NEW m \in Members, RosterResume(m) PROVE TypeOK'
    BY <1>q, <1>d, <1>12 DEF RosterResume, coordVars, envVars
  <1>13. ASSUME NEW m \in Members, RequestPlan(m) PROVE TypeOK'
    BY <1>q, <1>13 DEF RequestPlan, driverVars, coordVars, envVars
  <1>14. ASSUME NEW m \in Members, DecideByTool(m) PROVE TypeOK'
    BY <1>q, <1>14 DEF DecideByTool, driverVars, coordVars, envVars
  <1>15. ASSUME NEW m \in Members, DecideBySend(m) PROVE TypeOK'
    BY <1>q, <1>e, <1>15 DEF DecideBySend, driverVars, coordVars, envVars
  <1>16. ASSUME NEW m \in Members, DriveRefused(m) PROVE TypeOK'
    <2>1. status' \in [Members -> Statuses] /\ activeRun' \in [Members -> Nat]
      BY <1>t, <1>u, <1>16 DEF DriveRefused
    <2> QED BY <1>q, <1>16, <2>1 DEF DriveRefused, coordVars, envVars
  <1>17. ASSUME NEW m \in Members, DriveCreateFails(m) PROVE TypeOK'
    <2>1. PICK to \in Statuses : CommitOutcome(m, to)
      BY <1>17 DEF DriveCreateFails
    <2> QED BY <1>q, <1>c, <1>17, <2>1 DEF DriveCreateFails, coordVars
  <1>18. ASSUME NEW m \in Members, DriveRunEnds(m) \/ DriveUnwound(m) PROVE TypeOK'
    <2>1. PICK to \in Statuses : CommitOutcome(m, to) /\ FinishRun(m) /\ UNCHANGED cancelling
      BY <1>18 DEF DriveRunEnds, DriveUnwound, Outcomes
    <2> QED BY <1>q, <1>c, <2>1 DEF FinishRun, coordVars
  <1>19. ASSUME NEW m \in Members, FlushWakes(m) \/ AssignAndFlush(m) PROVE TypeOK'
    <2>1. /\ status' \in [Members -> Statuses]
          /\ pc' \in [Members -> DriverPcs] /\ unanswered' \subseteq Members
          /\ UNCHANGED <<activeRun, run, asked, cancelling>>
      BY <1>e, <1>d, <1>19 DEF FlushWakes, AssignAndFlush, RequestWake, driverVars
    <2> QED BY <1>q, <1>19, <2>1 DEF FlushWakes, AssignAndFlush, coordVars, envVars
  <1>20. ASSUME NEW m \in Members, RosterStop(m) \/ CoordinatorStop(m) PROVE TypeOK'
    <2>1. status' \in [Members -> Statuses] /\ activeRun' \in [Members -> Nat]
      BY <1>t, <1>u, <1>20 DEF RosterStop, CoordinatorStop
    <2>2. asked' \in [Members -> {"no", "cancel", "stop"}] /\ cancelling' \subseteq Members
      BY <1>i, <1>20 DEF RosterStop, CoordinatorStop
    <2>3. reserved' \subseteq Members
      BY <1>20 DEF RosterStop, CoordinatorStop, DropReservation
    <2> QED BY <1>q, <1>20, <2>1, <2>2, <2>3 DEF RosterStop, CoordinatorStop, envVars
  <1>21. ASSUME NEW m \in Members,
                TryReserve(m) \/ AssignFails(m) \/ CloseReservation(m) \/ ForeignRelease(m)
         PROVE  TypeOK'
    BY <1>q, <1>21
       DEF TryReserve, AssignFails, CloseReservation, ForeignRelease, teamState, driverVars,
           coordVars, envVars
  <1>22. CASE BeginShutdown \/ CloseTimeout
    BY <1>q, <1>22 DEF BeginShutdown, CloseTimeout, teamState, coordVars, envVars
  <1>23. CASE FinishShutdown \/ LoseLead
    <2>1. FreshProcess /\ UNCHANGED teamState /\ lead' = "detached"
      BY <1>23 DEF FinishShutdown, LoseLead
    <2>2. foreign' \subseteq Members /\ UNCHANGED <<attaches, faults>>
      BY <1>23 DEF FinishShutdown, LoseLead, envVars, LockHolders
    <2> QED BY <1>q, <2>1, <2>2 DEF FreshProcess, teamState
  <1>24. CASE Attach
    BY <1>q, <1>24 DEF Attach, driverVars, coordVars
  <1>25. CASE Restore
    <2>1. pc' \in [Members -> DriverPcs] /\ unanswered' \subseteq Members
      BY <1>25 DEF Restore
    <2> QED BY <1>q, <1>25, <2>1 DEF Restore, teamState, coordVars, envVars
  <1>26. CASE UNCHANGED vars
    BY <1>q, <1>26 DEF vars, teamState, driverVars, coordVars, envVars
  <1> QED
    BY <1>1, <1>2, <1>3, <1>4, <1>5, <1>6, <1>7, <1>8, <1>9, <1>10, <1>11, <1>12,
       <1>13, <1>14, <1>15, <1>16, <1>17, <1>18, <1>19, <1>20, <1>21, <1>22, <1>23, <1>24,
       <1>25, <1>26
       DEF Next, MemberStep, DriverStep, LeadStep

\* Every step keeps the invariant.
LEMMA StepIInv == IInv /\ [Next]_vars => IInv'
  BY TypeStep, PoolStep, RunInvStep, QueueStep, SlotStep DEF IInv

\* The invariant of the scheduler: every record of a member agrees with the others.
THEOREM SchedulerInvariant == Spec => []IInv
  <1> QED BY InitIInv, StepIInv, PTL DEF Spec

\* The type invariant of the scheduler.
THEOREM SchedulerTypes == Spec => []TypeOK
  <1>1. IInv => TypeOK
    BY DEF IInv
  <1> QED BY <1>1, SchedulerInvariant, PTL

\* One run per member, in the hands of the driver that holds a slot for it; one queue
\* entry per QUEUED member; a slot for every driver past its acquisition and none leaked.
THEOREM SchedulerAccounted == Spec => []DriversAccounted
  <1>1. IInv => DriversAccounted
    <2> SUFFICES ASSUME IInv PROVE DriversAccounted
      OBVIOUS
    <2>1. PoolSafe
      BY PoolPromises DEF IInv
    <2>2. RunningIsDriven
      <3>1. ASSUME NEW m \in Members, pc[m] \in {"creating", "running", "unwinding"}
            PROVE  m \in active
        BY <2>1, <3>1 DEF IInv, SlotsMatchDrivers, PoolSafe, Pool!NoLeakedSlot
      <3> QED BY <3>1 DEF IInv, RunInv, RunningIsDriven, Started
    <2> QED BY <2>1, <2>2 DEF IInv, DriversAccounted
  <1> QED BY <1>1, SchedulerInvariant, PTL

\* The step that commits an outcome changes nothing of a member whose run it is not.
LEMMA StepRejectsStale ==
    ASSUME IInv, [Next]_vars, NEW m \in Members,
           pc[m] \in {"running", "unwinding"}, pc'[m] = "closing", activeRun[m] # run[m]
    PROVE  UNCHANGED <<status[m], activeRun[m]>>
  <1>1. pc \in [Members -> DriverPcs] /\ activeRun \in [Members -> Nat]
    BY DEF IInv, TypeOK
  <1>2. ASSUME NEW d \in Members, DriveRunEnds(d) \/ DriveUnwound(d)
        PROVE  UNCHANGED <<status[m], activeRun[m]>>
    <2>1. pc' = [pc EXCEPT ![d] = "closing"]
      BY <1>2 DEF DriveRunEnds, DriveUnwound, FinishRun, Goto
    <2>2. d = m
      BY <1>1, <2>1
    <2> QED BY <1>2, <2>2 DEF DriveRunEnds, DriveUnwound, CommitOutcome
  <1>3. ASSUME NEW d \in Members, NEW to \in DriverPcs \ {"closing"}, pc' = [pc EXCEPT ![d] = to]
        PROVE  FALSE
    BY <1>1, <1>3
  <1>4. ASSUME UNCHANGED pc PROVE FALSE
    BY <1>4
  <1>5. ASSUME NEW d \in Members, DriverStep(d), ~(DriveRunEnds(d) \/ DriveUnwound(d))
        PROVE  FALSE
    BY <1>3, <1>5
       DEF DriverStep, DriveFirst, DriveWaits, DriveRefused, DriveGranted, DriveLockBusy, DriveStart,
           DriveStartRaises, DriveCreated, DriveCreateFails, DriveCloses, CancelledUnstarted,
           CancelledWaiting, CancelledRunning, EndDriver, Goto, DriverPcs
  <1>6. ASSUME NEW d \in Members, MemberStep(d), ~DriverStep(d) PROVE FALSE
    <2>1. EnsureDriver(d) => FALSE
      BY <1>3, <1>4 DEF EnsureDriver, DriverPcs
    <2> QED
      BY <1>4, <1>6, <2>1
         DEF MemberStep, FlushWakes, RosterResume, RosterStop, CoordinatorStop, RequestPlan,
             DecideByTool, DecideBySend, TryReserve, AssignAndFlush, AssignFails,
             CloseReservation, ForeignRelease, RequestWake, driverVars
  <1>7. CASE LeadStep
    BY <1>7
       DEF LeadStep, BeginShutdown, CloseTimeout, FinishShutdown, LoseLead, Attach, Restore,
           FreshProcess, driverVars
  <1>8. CASE UNCHANGED vars
    BY <1>4, <1>8 DEF vars, driverVars
  <1> QED BY <1>2, <1>5, <1>6, <1>7, <1>8 DEF Next

\* A late result of a run that was stopped, paused or replaced changes nothing.
THEOREM StaleResultsAreRejected == Spec => StaleResultRejected
  <1>1. IInv /\ [Next]_vars =>
          [\A m \in Members :
             (pc[m] \in {"running", "unwinding"} /\ pc'[m] = "closing" /\ activeRun[m] # run[m])
                => UNCHANGED <<status[m], activeRun[m]>>]_vars
    BY StepRejectsStale
  <1> QED BY <1>1, SchedulerInvariant, PTL DEF Spec, StaleResultRejected

\* A member that is stopped leaves that status by a resume, or because the run that its
\* driver still has asks for the approval of a plan.
LEMMA StepKeepsStopped ==
    ASSUME IInv, [Next]_vars, NEW m \in Members, status[m] = "stopped", status'[m] # "stopped"
    PROVE  RosterResume(m) \/ (pc[m] \in {"running", "unwinding"} /\ status'[m] = "awaiting")
  <1> DEFINE Goal == RosterResume(m) \/ (pc[m] \in {"running", "unwinding"} /\ status'[m] = "awaiting")
  <1>0. status \in [Members -> Statuses]
    BY DEF IInv, TypeOK
  <1>1. ASSUME UNCHANGED status PROVE FALSE
    BY <1>1
  <1>2. ASSUME NEW d \in Members, NEW to, status[d] # "stopped", status' = [status EXCEPT ![d] = to]
        PROVE  FALSE
    BY <1>0, <1>2
  <1>3. ASSUME NEW d \in Members, NEW to \in Statuses \ {"queued"}, TransitionMember(d, to) PROVE FALSE
    <2>1. CASE d = m
      BY <1>0, <1>3, <2>1 DEF TransitionMember, LegalStep, LegalTransitions
    <2> QED BY <1>0, <1>3, <2>1 DEF TransitionMember
  <1>4. ASSUME NEW d \in Members, NEW to \in Statuses \ {"queued"}, CommitOutcome(d, to) PROVE FALSE
    BY <1>1, <1>3, <1>4 DEF CommitOutcome
  <1>5. ASSUME NEW d \in Members, EnqueueMember(d) PROVE FALSE
    BY <1>1, <1>2, <1>5 DEF EnqueueMember
  <1>6. ASSUME NEW d \in Members, DriverStep(d) PROVE FALSE
    <2>1. CASE DriveStart(d)
      BY <1>2, <2>1 DEF DriveStart, Startable
    <2>2. CASE DriveRefused(d)
      BY <1>1, <1>3, <2>2 DEF DriveRefused, Statuses
    <2>3. CASE DriveCreateFails(d)
      BY <1>4, <2>3 DEF DriveCreateFails, Statuses
    <2>4. CASE DriveRunEnds(d) \/ DriveUnwound(d)
      BY <1>4, <2>4 DEF DriveRunEnds, DriveUnwound, Outcomes, Statuses
    <2> QED
      BY <1>1, <1>6, <2>1, <2>2, <2>3, <2>4
         DEF DriverStep, DriveFirst, DriveWaits, DriveGranted, DriveLockBusy, DriveStartRaises,
             DriveCreated, DriveCloses, CancelledUnstarted, CancelledWaiting, CancelledRunning,
             teamState
  <1>7. ASSUME NEW d \in Members, MemberStep(d), ~DriverStep(d) PROVE Goal
    <2>1. CASE RosterResume(d)
      <3>1. CASE d = m
        BY <2>1, <3>1
      <3> QED BY <1>0, <2>1, <3>1 DEF RosterResume
    <2>2. CASE RosterStop(d) \/ CoordinatorStop(d)
      BY <1>1, <1>3, <2>2 DEF RosterStop, CoordinatorStop, Statuses
    <2>3. CASE RequestPlan(d)
      BY <1>0, <2>3 DEF RequestPlan
    <2>4. CASE FlushWakes(d) \/ DecideBySend(d) \/ AssignAndFlush(d)
      BY <1>1, <1>5, <2>4 DEF FlushWakes, DecideBySend, AssignAndFlush, RequestWake
    <2> QED
      BY <1>1, <1>7, <2>1, <2>2, <2>3, <2>4
         DEF MemberStep, DecideByTool, TryReserve, AssignFails, CloseReservation, ForeignRelease,
             teamState
  <1>8. CASE LeadStep
    <2>1. CASE Attach
      BY <1>0, <2>1 DEF Attach
    <2> QED
      BY <1>1, <1>8, <2>1
         DEF LeadStep, BeginShutdown, CloseTimeout, FinishShutdown, LoseLead, Restore, teamState
  <1>9. CASE UNCHANGED vars
    BY <1>1, <1>9 DEF vars, teamState
  <1> QED BY <1>6, <1>7, <1>8, <1>9 DEF Next

\* Nobody but the Lead's resume sets a stopped member going again; only the run that its
\* driver still has can take it to AWAITING_APPROVAL.
THEOREM StoppedStayStopped == Spec => StoppedUntilResumed
  <1>1. IInv /\ [Next]_vars =>
          [\A m \in Members :
             (status[m] = "stopped" /\ status'[m] # "stopped")
                => \/ RosterResume(m)
                   \/ pc[m] \in {"running", "unwinding"} /\ status'[m] = "awaiting"]_vars
    BY StepKeepsStopped
  <1> QED BY <1>1, SchedulerInvariant, PTL DEF Spec, StoppedUntilResumed

-----------------------------------------------------------------------------
(* The mail of the members: what a run has in memory *)

\* The ids a run has in memory are those of its session file, unless an append of its own
\* was lost behind a torn line.
KnownIsCommitted ==
    \A m \in Mates : binding[m].at # "off" =>
        /\ Committed(m) \subseteq binding[m].known
        /\ Readable(history[m]) => binding[m].known = Committed(m)

\* A batch that waits for the lock of the mailbox is new, one that is to be acknowledged is
\* committed, and so is what poll repairs.
BatchAtHand ==
    \A m \in Mates :
        /\ binding[m].at = "repair" => /\ binding[m].batch \cap binding[m].known = {}
                                       /\ binding[m].repair \subseteq binding[m].known
        /\ binding[m].at = "ack" => binding[m].batch \subseteq binding[m].known

MailInv == MailIsWhole /\ KnownIsCommitted /\ BatchAtHand

-----------------------------------------------------------------------------
(* The files *)

\* What an append does to the elements of a sequence.
LEMMA AppendedRange ==
    ASSUME NEW T, NEW s \in Seq(T), NEW x \in T
    PROVE  /\ Append(s, x) \in Seq(T)
           /\ Range(Append(s, x)) = Range(s) \cup {x}
           /\ x \notin Range(s) /\ IsInjective(s) => IsInjective(Append(s, x))
<1>1. /\ Append(s, x) \in Seq(T) /\ Len(s) \in Nat
      /\ DOMAIN s = 1..Len(s) /\ DOMAIN Append(s, x) = 1..(Len(s) + 1)
      /\ \A i \in 1..Len(s) : Append(s, x)[i] = s[i]
      /\ Append(s, x)[Len(s) + 1] = x
  BY AppendProperties
<1> DEFINE a == Append(s, x)
<1>2. \A i \in DOMAIN a : \/ i \in DOMAIN s /\ a[i] = s[i]
                          \/ i = Len(s) + 1 /\ a[i] = x
  BY <1>1
<1>3. Range(a) = Range(s) \cup {x}
  <2>1. \A i \in DOMAIN s : i \in DOMAIN a /\ a[i] = s[i]
    BY <1>1
  <2>2. Len(s) + 1 \in DOMAIN a
    BY <1>1
  <2> QED  BY <1>1, <1>2, <2>1, <2>2 DEF Range
<1>4. ASSUME x \notin Range(s), IsInjective(s)
      PROVE  IsInjective(a)
  <2>1. \A i \in DOMAIN s : s[i] # x
    BY <1>4 DEF Range
  <2> QED  BY <1>2, <1>4, <2>1 DEF IsInjective
<1> QED  BY <1>1, <1>3, <1>4

\* A mailbox after a step: no message is in it twice, none is gone, and a corrupt one
\* stays corrupt.
Grown(old, new) ==
    /\ new \in Mailboxes /\ IsInjective(new.got)
    /\ Range(old.got) \subseteq Range(new.got)
    /\ Readable(new) => Readable(old)

\* append_message stores the message, or finds it, or the file cannot be read again.
LEMMA StoreGrows ==
    ASSUME MailTypeOK, StoredOnce, NEW p \in Participants, NEW m \in Msgs
    PROVE  /\ Grown(box[p], Store(p, m))
           /\ Store(p, m).read = box[p].read
           /\ m \in Range(Store(p, m).got) \/ ~Readable(Store(p, m))
<1>1. box[p] \in Mailboxes /\ IsInjective(box[p].got)
  BY DEF MailTypeOK, StoredOnce
<1>2. CASE m \in Range(box[p].got)
  BY <1>1, <1>2 DEF Store, Grown
<1>3. CASE m \notin Range(box[p].got)
  <2> DEFINE new == [box[p] EXCEPT !.got = Append(@, m)]
  <2>1. /\ box[p].got \in Seq(Msgs)
        /\ Append(box[p].got, m) \in Seq(Msgs)
        /\ Range(Append(box[p].got, m)) = Range(box[p].got) \cup {m}
        /\ IsInjective(Append(box[p].got, m))
    BY <1>1, <1>3, AppendedRange DEF Mailboxes
  <2>2. Store(p, m) = IF box[p].tail = "ok" THEN new ELSE [box[p] EXCEPT !.tail = "junk"]
    BY <1>3 DEF Store, Appended
  <2>3. CASE box[p].tail = "ok"
    <3>1. /\ Store(p, m) \in Mailboxes /\ Store(p, m).got = Append(box[p].got, m)
          /\ Store(p, m).read = box[p].read
      BY <1>1, <2>1, <2>2, <2>3 DEF Mailboxes
    <3> QED  BY <2>1, <2>3, <3>1 DEF Grown, Readable
  <2>4. CASE box[p].tail # "ok"
    <3>1. /\ Store(p, m) \in Mailboxes /\ Store(p, m).got = box[p].got
          /\ Store(p, m).read = box[p].read /\ Store(p, m).tail = "junk"
      BY <1>1, <2>2, <2>4 DEF Mailboxes, Tails
    <3> QED  BY <1>1, <3>1 DEF Grown, Readable
  <2> QED  BY <2>3, <2>4
<1> QED  BY <1>2, <1>3

\* append_read marks only the ids it is given.
LEMMA StoreReadGrows ==
    ASSUME MailTypeOK, StoredOnce, NEW p \in Participants, NEW ids \in SUBSET Msgs
    PROVE  /\ Grown(box[p], StoreRead(p, ids))
           /\ StoreRead(p, ids).read \subseteq box[p].read \cup ids
<1>1. box[p] \in Mailboxes /\ IsInjective(box[p].got)
  BY DEF MailTypeOK, StoredOnce
<1> DEFINE known == ids \cap Range(box[p].got)
           new   == [box[p] EXCEPT !.read = @ \cup known]
<1>2. /\ new \in Mailboxes /\ new.got = box[p].got /\ new.read = box[p].read \cup known
      /\ new.tail = box[p].tail
  BY <1>1 DEF Mailboxes
<1>3. CASE known = {}
  BY <1>1, <1>3 DEF StoreRead, Grown
<1>4. CASE known # {} /\ box[p].tail = "ok"
  BY <1>1, <1>2, <1>4 DEF StoreRead, Appended, Grown, Readable
<1>5. CASE known # {} /\ box[p].tail # "ok"
  <2>1. StoreRead(p, ids) = [box[p] EXCEPT !.tail = "junk"]
    BY <1>5 DEF StoreRead, Appended
  <2>2. /\ StoreRead(p, ids) \in Mailboxes /\ StoreRead(p, ids).got = box[p].got
        /\ StoreRead(p, ids).read = box[p].read /\ StoreRead(p, ids).tail = "junk"
    BY <1>1, <2>1 DEF Mailboxes, Tails
  <2> QED  BY <1>1, <2>2 DEF Grown, Readable
<1> QED  BY <1>3, <1>4, <1>5

\* An append that is cut off takes nothing away.
LEMMA TornGrows ==
    ASSUME MailTypeOK, StoredOnce, NEW p \in Participants
    PROVE  Grown(box[p], Torn(box[p])) /\ Torn(box[p]).read = box[p].read
<1>1. box[p] \in Mailboxes /\ IsInjective(box[p].got)
  BY DEF MailTypeOK, StoredOnce
<1>2. /\ Torn(box[p]) \in Mailboxes /\ Torn(box[p]).got = box[p].got
      /\ Torn(box[p]).read = box[p].read
      /\ Torn(box[p]).tail = IF box[p].tail = "junk" THEN "junk" ELSE "torn"
  BY <1>1 DEF Torn, Mailboxes, Tails
<1> QED  BY <1>1, <1>2 DEF Grown, Readable

\* One mailbox grows: what the properties say of mailboxes alone still holds.
LEMMA BoxStep ==
    ASSUME MailTypeOK, StoredOnce, DeliveredIsStored, NEW p \in Participants, NEW new,
           Grown(box[p], new), box' = [box EXCEPT ![p] = new]
    PROVE  /\ box' \in [Participants -> Mailboxes]
           /\ \A q \in Participants : IsInjective(box'[q].got)
           /\ \A m \in delivered : m \in Range(box'[m.to].got) \/ ~Readable(box'[m.to])
<1>1. /\ box \in [Participants -> Mailboxes] /\ new \in Mailboxes
      /\ \A q \in Participants : IsInjective(box[q].got)
      /\ \A m \in delivered : m \in Msgs /\ m.to \in Participants
  <2>1. \A m \in delivered : m \in Msgs
    BY DEF MailTypeOK, Range
  <2> QED  BY <2>1, MsgsAssumption DEF MailTypeOK, StoredOnce, Grown
<1>2. \A q \in Participants : box'[q] = IF q = p THEN new ELSE box[q]
  BY <1>1
<1>3. ASSUME NEW m \in delivered
      PROVE  m \in Range(box'[m.to].got) \/ ~Readable(box'[m.to])
  BY <1>1, <1>2 DEF DeliveredIsStored, Grown
<1> QED  BY <1>1, <1>2, <1>3 DEF Grown

\* A session file after a step: no id is in two of its records, no record is gone, and a
\* corrupt file stays corrupt.
Lengthened(old, new) ==
    /\ new \in Sessions
    /\ \A i, j \in DOMAIN new.batches :
          i # j => new.batches[i] \cap new.batches[j] = {}
    /\ UNION Range(old.batches) \subseteq UNION Range(new.batches)
    /\ Readable(new) => Readable(old)

\* commit_inbound of a batch that is not in the file adds it, unless the file cannot be
\* read any more.
LEMMA CommitLengthens ==
    ASSUME MailTypeOK, CommittedOnce, NEW m \in Mates, NEW batch \in SUBSET Msgs,
           batch \cap Committed(m) = {}
    PROVE  /\ Lengthened(history[m], Commit(m, batch))
           /\ UNION Range(Commit(m, batch).batches) \subseteq Committed(m) \cup batch
           /\ Readable(Commit(m, batch)) =>
                UNION Range(Commit(m, batch).batches) = Committed(m) \cup batch
<1> DEFINE bs == history[m].batches
           cs == Append(bs, batch)
<1>1. history[m] \in Sessions /\ bs \in Seq(SUBSET Msgs)
  BY DEF MailTypeOK, Sessions
<1>2. \A i, j \in DOMAIN bs : i # j => bs[i] \cap bs[j] = {}
  BY DEF CommittedOnce
<1>3. cs \in Seq(SUBSET Msgs) /\ Range(cs) = Range(bs) \cup {batch}
  BY <1>1, AppendedRange
<1>4. UNION Range(cs) = Committed(m) \cup batch
  BY <1>3 DEF Committed
<1>5. \A i, j \in DOMAIN cs : i # j => cs[i] \cap cs[j] = {}
  <2>1. /\ DOMAIN bs = 1..Len(bs) /\ Len(bs) \in Nat /\ DOMAIN cs = 1..(Len(bs) + 1)
        /\ \A i \in 1..Len(bs) : cs[i] = bs[i]
        /\ cs[Len(bs) + 1] = batch
    BY <1>1, AppendProperties
  <2>2. \A i \in DOMAIN bs : bs[i] \cap batch = {}
    BY DEF Committed, Range
  <2>3. \A i \in DOMAIN cs : \/ i \in DOMAIN bs /\ cs[i] = bs[i]
                             \/ i = Len(bs) + 1 /\ cs[i] = batch
    BY <2>1
  <2> QED  BY <1>2, <2>2, <2>3
<1>6. CASE history[m].tail = "ok"
  <2>1. /\ Commit(m, batch) \in Sessions /\ Commit(m, batch).batches = cs
    BY <1>1, <1>3, <1>6 DEF Commit, Appended, Sessions
  <2> QED  BY <1>4, <1>5, <1>6, <2>1 DEF Lengthened, Readable, Committed
<1>7. CASE history[m].tail # "ok"
  <2>1. /\ Commit(m, batch) \in Sessions /\ Commit(m, batch).batches = bs
        /\ Commit(m, batch).tail = "junk"
    BY <1>1, <1>7 DEF Commit, Appended, Sessions, Tails
  <2> QED  BY <1>2, <2>1 DEF Lengthened, Readable, Committed
<1> QED  BY <1>6, <1>7

\* A commit that is cut off leaves the records before it.
LEMMA TornLengthens ==
    ASSUME MailTypeOK, CommittedOnce, NEW m \in Mates
    PROVE  /\ Lengthened(history[m], Torn(history[m]))
           /\ Torn(history[m]).batches = history[m].batches
<1>1. history[m] \in Sessions
  BY DEF MailTypeOK
<1>2. /\ Torn(history[m]) \in Sessions /\ Torn(history[m]).batches = history[m].batches
      /\ Torn(history[m]).tail = IF history[m].tail = "junk" THEN "junk" ELSE "torn"
  BY <1>1 DEF Torn, Sessions, Tails
<1> QED  BY <1>1, <1>2 DEF Lengthened, Readable, CommittedOnce

\* One session file gets longer: what the properties say of session files alone holds.
LEMMA HistoryStep ==
    ASSUME MailTypeOK, CommittedOnce, NEW m \in Mates, NEW new,
           Lengthened(history[m], new), history' = [history EXCEPT ![m] = new]
    PROVE  /\ history' \in [Mates -> Sessions]
           /\ CommittedOnce'
           /\ \A n \in Mates : history'[n] = IF n = m THEN new ELSE history[n]
<1>1. history \in [Mates -> Sessions] /\ new \in Sessions
  BY DEF MailTypeOK, Lengthened
<1>2. \A n \in Mates : history'[n] = IF n = m THEN new ELSE history[n]
  BY <1>1
<1> QED  BY <1>1, <1>2 DEF CommittedOnce, Lengthened

-----------------------------------------------------------------------------
(* The steps *)

\* The invariant holds where everything begins.
LEMMA InitMailInv == MailInit => MailInv
<1> SUFFICES ASSUME MailInit PROVE MailInv
  OBVIOUS
<1>1. MailTypeOK
  BY MailFaultsAssumption
     DEF MailInit, MailTypeOK, Mailboxes, Sessions, Tails, NoFlush, NoRun, Flushes, Range, Mates
<1>2. StoredOnce /\ CommittedOnce /\ DeliveredIsStored /\ ReadIsCommitted
  BY DEF MailInit, StoredOnce, CommittedOnce, DeliveredIsStored, ReadIsCommitted, IsInjective,
         Mates
<1>3. KnownIsCommitted /\ BatchAtHand
  BY DEF MailInit, KnownIsCommitted, BatchAtHand, NoRun
<1> QED  BY <1>1, <1>2, <1>3 DEF MailInv, MailIsWhole

\* A step that leaves the files and the runs alone leaves all but the types alone.
LEMMA LogStays ==
    ASSUME MailInv, UNCHANGED <<delivered, box, history, binding, marked>>, MailTypeOK'
    PROVE  MailInv'
<1> USE DEF MailInv, MailIsWhole
<1>1. StoredOnce' /\ CommittedOnce' /\ DeliveredIsStored'
  BY DEF StoredOnce, CommittedOnce, DeliveredIsStored, Readable
<1>2. ReadIsCommitted' /\ KnownIsCommitted'
  BY DEF ReadIsCommitted, KnownIsCommitted, Readable, Committed
<1>3. BatchAtHand'
  BY DEF BatchAtHand
<1> QED  BY <1>1, <1>2, <1>3

\* One that leaves the histories and what is marked read alone, and at most ends runs, has
\* only the mailboxes to look after.
LEMMA HistoriesStay ==
    ASSUME MailInv, UNCHANGED <<history, marked>>, MailTypeOK', StoredOnce', DeliveredIsStored',
           \A m \in Mates : box'[m].read = box[m].read,
           \A m \in Mates : binding'[m] = binding[m] \/ binding'[m] = NoRun
    PROVE  MailInv'
<1> USE DEF MailInv, MailIsWhole
<1>1. CommittedOnce' /\ ReadIsCommitted'
  BY DEF CommittedOnce, ReadIsCommitted, Readable, Committed
<1>2. KnownIsCommitted'
  BY DEF KnownIsCommitted, Readable, Committed, NoRun
<1>3. BatchAtHand'
  BY DEF BatchAtHand, NoRun
<1> QED  BY <1>1, <1>2, <1>3

\* The entries of a pass are in the outbox.
LEMMA WorkingIsSent ==
    ASSUME MailTypeOK, NEW f \in Flushes, NEW at, NEW m, Working(f, at, m)
    PROVE  m \in Range(outbox) /\ m \in Msgs /\ m.to \in Participants
<1>1. m \in Range(outbox)
  BY DEF Working, First, Range
<1>2. m \in Msgs
  BY <1>1 DEF MailTypeOK, Range
<1> QED  BY <1>1, <1>2, MsgsAssumption

\* What a flush has at hand, and how it goes on.
FlushStates == [at : {"idle", "append", "wake", "rewake"},
                todo : SUBSET Range(outbox), new : SUBSET Msgs]

\* A flush that finishes an entry, or part of it, is a flush of entries of the outbox.
LEMMA FlushGoesOn ==
    ASSUME MailTypeOK, UNCHANGED outbox, NEW f \in Flushes, NEW m \in Msgs,
           \/ flush' = Drop(f, m)
           \/ flush' = [flush EXCEPT ![f].at = "wake", ![f].new = @ \cup {m}]
           \/ flush' = [flush EXCEPT ![f].todo = @ \ {m}]
    PROVE  flush' \in [Flushes -> FlushStates'] /\ FlushStates' = FlushStates
<1>1. flush \in [Flushes -> FlushStates]
  BY DEF MailTypeOK, FlushStates
<1>2. FlushStates' = FlushStates
  BY DEF FlushStates
<1> DEFINE r == flush[f]
<1>3. r \in FlushStates
  BY <1>1
<1>4. CASE flush' = Drop(f, m)
  <2>1. [r EXCEPT !.at = "append", !.todo = @ \ {m}] \in FlushStates
    BY <1>3 DEF FlushStates
  <2>2. flush' = [flush EXCEPT ![f] = [r EXCEPT !.at = "append", !.todo = @ \ {m}]]
    BY <1>4 DEF Drop
  <2> QED  BY <1>1, <1>2, <2>1, <2>2
<1>5. CASE flush' = [flush EXCEPT ![f].at = "wake", ![f].new = @ \cup {m}]
  <2>1. [r EXCEPT !.at = "wake", !.new = @ \cup {m}] \in FlushStates
    BY <1>3 DEF FlushStates
  <2> QED  BY <1>1, <1>2, <1>5, <2>1
<1>6. CASE flush' = [flush EXCEPT ![f].todo = @ \ {m}]
  <2>1. [r EXCEPT !.todo = @ \ {m}] \in FlushStates
    BY <1>3 DEF FlushStates
  <2> QED  BY <1>1, <1>2, <1>6, <2>1
<1> QED  BY <1>2, <1>4, <1>5, <1>6

\* Steps of the senders, of the flushes and of the Lead that touch no file.
LEMMA QuietSteps ==
    ASSUME MailInv, \/ \E m \in Msgs : Send(m)
                    \/ Heartbeat
                    \/ \E f \in Flushes, m \in Msgs : \/ DeliverRaises(f, m) \/ Wake(f, m)
                                                    \/ Rewake(f, m) \/ RewakeRaises(f, m)
                    \/ \E f \in Flushes : SecondPass(f) \/ FlushEnds(f)
                    \/ \E m \in Mates : StopMember(m) \/ ResumeMember(m)
                    \/ CoordinatorAttaches
    PROVE  MailInv'
<1> USE DEF log
<1>0. MailTypeOK
  BY DEF MailInv, MailIsWhole
<1>1. ASSUME NEW m \in Msgs, Send(m) PROVE MailInv'
  <2>1. outbox' = Append(outbox, m) /\ outbox' \in Seq(Msgs)
        /\ Range(outbox') = Range(outbox) \cup {m}
    BY <1>0, <1>1, AppendedRange DEF Send, Prepare, MailTypeOK
  <2>2. MailTypeOK'
    BY <1>0, <1>1, <2>1 DEF Send, MailTypeOK, Pending, Flushes
  <2> QED  BY <1>1, <2>2, LogStays DEF Send
<1>2. CASE Heartbeat
  <2>1. MailTypeOK'
    BY <1>0, <1>2 DEF Heartbeat, MailTypeOK, Pending, Flushes
  <2> QED  BY <1>2, <2>1, LogStays DEF Heartbeat
<1>3. ASSUME NEW f \in Flushes, NEW m \in Msgs, DeliverRaises(f, m) PROVE MailInv'
  <2>1. MailTypeOK'
    <3>1. flush' \in [Flushes -> FlushStates']
      BY <1>0, <1>3, FlushGoesOn DEF DeliverRaises
    <3> QED  BY <1>0, <1>3, <3>1 DEF DeliverRaises, MailTypeOK, FlushStates
  <2> QED  BY <1>3, <2>1, LogStays DEF DeliverRaises
<1>4. ASSUME NEW f \in Flushes, NEW m \in Msgs, Wake(f, m) PROVE MailInv'
  <2>1. MailTypeOK'
    <3>1. flush' \in [Flushes -> FlushStates']
      BY <1>0, <1>4, FlushGoesOn DEF Wake
    <3>2. member' \in [Mates -> {"asleep", "awake", "barred"}]
      BY <1>0, <1>4 DEF Wake, Woken, MailTypeOK
    <3>3. mailFaults' \in 0..MaxMailFaults
      BY <1>0, <1>4, MailFaultsAssumption DEF Wake, Faults, MailTypeOK
    <3> QED  BY <1>0, <1>4, <3>1, <3>2, <3>3 DEF Wake, MailTypeOK, FlushStates
  <2> QED  BY <1>4, <2>1, LogStays DEF Wake
<1>5. ASSUME NEW f \in Flushes, NEW m \in Msgs, Rewake(f, m) PROVE MailInv'
  <2>1. MailTypeOK'
    <3>1. flush' \in [Flushes -> FlushStates']
      BY <1>0, <1>5, FlushGoesOn DEF Rewake
    <3>2. member' \in [Mates -> {"asleep", "awake", "barred"}]
      BY <1>0, <1>5 DEF Rewake, Woken, MailTypeOK
    <3>3. mailFaults' \in 0..MaxMailFaults
      BY <1>0, <1>5, MailFaultsAssumption DEF Rewake, Faults, MailTypeOK
    <3> QED  BY <1>0, <1>5, <3>1, <3>2, <3>3 DEF Rewake, MailTypeOK, FlushStates
  <2> QED  BY <1>5, <2>1, LogStays DEF Rewake
<1>6. ASSUME NEW f \in Flushes, NEW m \in Msgs, RewakeRaises(f, m) PROVE MailInv'
  <2>1. MailTypeOK'
    BY <1>0, <1>6 DEF RewakeRaises, NoFlush, MailTypeOK, Flushes
  <2> QED  BY <1>6, <2>1, LogStays DEF RewakeRaises
<1>7. ASSUME NEW f \in Flushes, SecondPass(f) PROVE MailInv'
  <2>1. MailTypeOK'
    BY <1>0, <1>7 DEF SecondPass, MailTypeOK, Flushes
  <2> QED  BY <1>7, <2>1, LogStays DEF SecondPass
<1>8. ASSUME NEW f \in Flushes, FlushEnds(f) PROVE MailInv'
  <2>1. MailTypeOK'
    BY <1>0, <1>8 DEF FlushEnds, NoFlush, MailTypeOK, Flushes
  <2> QED  BY <1>8, <2>1, LogStays DEF FlushEnds
<1>9. ASSUME NEW m \in Mates, StopMember(m) PROVE MailInv'
  <2>1. MailTypeOK'
    BY <1>0, <1>9, MailFaultsAssumption DEF StopMember, Faults, MailTypeOK
  <2> QED  BY <1>9, <2>1, LogStays DEF StopMember
<1>10. ASSUME NEW m \in Mates, ResumeMember(m) PROVE MailInv'
  <2>1. MailTypeOK'
    BY <1>0, <1>10 DEF ResumeMember, MailTypeOK
  <2> QED  BY <1>10, <2>1, LogStays DEF ResumeMember
<1>11. CASE CoordinatorAttaches
  <2>1. MailTypeOK'
    BY <1>0, <1>11 DEF CoordinatorAttaches, NoFlush, Pending, MailTypeOK, Flushes
  <2> QED  BY <1>11, <2>1, LogStays DEF CoordinatorAttaches
<1> QED
  BY <1>1, <1>2, <1>3, <1>4, <1>5, <1>6, <1>7, <1>8, <1>9, <1>10, <1>11

\* A message is stored: by a flush that marks it delivered, or by one that does not get so
\* far; or the Lead dies while it writes.
LEMMA StoreSteps ==
    ASSUME MailInv, \/ \E f \in Flushes, m \in Msgs : Deliver(f, m) \/ DeliverFails(f, m)
                    \/ LeadDies
    PROVE  MailInv'
<1>0. MailTypeOK /\ StoredOnce /\ DeliveredIsStored
  BY DEF MailInv, MailIsWhole
<1>1. ASSUME NEW f \in Flushes, NEW m \in Msgs, Deliver(f, m) PROVE MailInv'
  <2> DEFINE new == Store(m.to, m)
  <2>1. m \in Range(outbox) /\ m.to \in Participants
    BY <1>0, <1>1, WorkingIsSent DEF Deliver
  <2>2. /\ Grown(box[m.to], new) /\ new.read = box[m.to].read
        /\ m \in Range(new.got) \/ ~Readable(new)
    BY <1>0, <2>1, StoreGrows
  <2>3. box' = [box EXCEPT ![m.to] = new] /\ box'[m.to] = new
    BY <1>0, <1>1, <2>1 DEF Deliver, MailTypeOK
  <2>4. /\ box' \in [Participants -> Mailboxes]
        /\ \A q \in Participants : IsInjective(box'[q].got)
        /\ \A x \in delivered : x \in Range(box'[x.to].got) \/ ~Readable(box'[x.to])
    BY <1>0, <2>1, <2>2, <2>3, BoxStep
  <2>5. MailTypeOK'
    <3>1. flush' \in [Flushes -> FlushStates']
      BY <1>0, <1>1, FlushGoesOn DEF Deliver
    <3> QED  BY <1>0, <1>1, <2>1, <2>4, <3>1 DEF Deliver, MailTypeOK, FlushStates
  <2>6. StoredOnce'
    BY <2>4 DEF StoredOnce
  <2>7. DeliveredIsStored'
    BY <1>1, <2>2, <2>3, <2>4 DEF Deliver, DeliveredIsStored, Readable
  <2>8. \A n \in Mates : box'[n].read = box[n].read
    BY <1>0, <2>2, <2>3 DEF MailTypeOK, Mates
  <2> QED  BY <1>1, <2>5, <2>6, <2>7, <2>8, HistoriesStay DEF Deliver
<1>2. ASSUME NEW f \in Flushes, NEW m \in Msgs, DeliverFails(f, m) PROVE MailInv'
  <2> DEFINE new == Store(m.to, m)
  <2>1. m.to \in Participants
    BY MsgsAssumption
  <2>2. Grown(box[m.to], new) /\ new.read = box[m.to].read
    BY <1>0, <2>1, StoreGrows
  <2>3. flush' \in [Flushes -> FlushStates'] /\ mailFaults' \in 0..MaxMailFaults
    <3>1. flush' \in [Flushes -> FlushStates']
      BY <1>0, <1>2, FlushGoesOn DEF DeliverFails
    <3> QED  BY <1>0, <1>2, <3>1, MailFaultsAssumption DEF DeliverFails, Faults, MailTypeOK
  <2>4. CASE box' = [box EXCEPT ![m.to] = new]
    <3>1. /\ box' \in [Participants -> Mailboxes]
          /\ \A q \in Participants : IsInjective(box'[q].got)
          /\ \A x \in delivered : x \in Range(box'[x.to].got) \/ ~Readable(box'[x.to])
      BY <1>0, <2>1, <2>2, <2>4, BoxStep
    <3>2. MailTypeOK'
      BY <1>0, <1>2, <2>3, <3>1 DEF DeliverFails, MailTypeOK, FlushStates
    <3>3. StoredOnce' /\ DeliveredIsStored'
      BY <1>2, <3>1 DEF DeliverFails, StoredOnce, DeliveredIsStored, Readable
    <3>4. \A n \in Mates : box'[n].read = box[n].read
      BY <1>0, <2>2, <2>4 DEF MailTypeOK, Mates
    <3> QED  BY <1>2, <3>2, <3>3, <3>4, HistoriesStay DEF DeliverFails
  <2>5. CASE UNCHANGED box
    <3>1. MailTypeOK'
      BY <1>0, <1>2, <2>5, <2>3 DEF DeliverFails, MailTypeOK, FlushStates
    <3> QED  BY <1>2, <2>5, <3>1, LogStays DEF DeliverFails
  <2> QED  BY <1>2, <2>4, <2>5 DEF DeliverFails
<1>3. CASE LeadDies
  <2>1. /\ UNCHANGED <<outbox, delivered, history, member, marked>>
        /\ \A n \in Mates : binding'[n] = binding[n] \/ binding'[n] = NoRun
    BY <1>3 DEF LeadDies
  <2>2. /\ coordinator' \in {"down", "up", "lost"} /\ mailFaults' \in 0..MaxMailFaults
        /\ flush' \in [Flushes -> [at : {"idle", "append", "wake", "rewake"},
                                  todo : SUBSET Range(outbox), new : SUBSET Msgs]]
    BY <1>0, <1>3, MailFaultsAssumption DEF LeadDies, Faults, NoFlush, MailTypeOK
  <2>3. binding' \in [Mates -> [at : {"off", "turn", "repair", "ack"}, known : SUBSET Msgs,
                               batch : SUBSET Msgs, repair : SUBSET Msgs]]
    BY <1>0, <1>3 DEF LeadDies, NoRun, MailTypeOK
  <2>4. /\ box' \in [Participants -> Mailboxes]
        /\ StoredOnce' /\ DeliveredIsStored'
        /\ \A n \in Mates : box'[n].read = box[n].read
    <3>1. CASE UNCHANGED box
      BY <1>0, <2>1, <3>1 DEF StoredOnce, DeliveredIsStored, MailTypeOK, Readable
    <3>2. ASSUME NEW m \in Msgs, box' = [box EXCEPT ![m.to] = Torn(@)]
          PROVE  /\ box' \in [Participants -> Mailboxes]
                 /\ StoredOnce' /\ DeliveredIsStored'
                 /\ \A n \in Mates : box'[n].read = box[n].read
      <4>1. m.to \in Participants
        BY MsgsAssumption
      <4>2. Grown(box[m.to], Torn(box[m.to])) /\ Torn(box[m.to]).read = box[m.to].read
        BY <1>0, <4>1, TornGrows
      <4>3. box' = [box EXCEPT ![m.to] = Torn(box[m.to])]
        BY <3>2
      <4>4. /\ box' \in [Participants -> Mailboxes]
            /\ \A q \in Participants : IsInjective(box'[q].got)
            /\ \A x \in delivered : x \in Range(box'[x.to].got) \/ ~Readable(box'[x.to])
        BY <1>0, <4>1, <4>2, <4>3, BoxStep
      <4>5. \A n \in Mates : box'[n].read = box[n].read
        BY <1>0, <4>2, <4>3 DEF MailTypeOK, Mates
      <4> QED  BY <2>1, <4>4, <4>5 DEF StoredOnce, DeliveredIsStored, Readable
    <3> QED  BY <1>3, <3>1, <3>2 DEF LeadDies
  <2>5. MailTypeOK'
    BY <1>0, <2>1, <2>2, <2>3, <2>4 DEF MailTypeOK
  <2> QED  BY <2>1, <2>4, <2>5, HistoriesStay
<1> QED  BY <1>1, <1>2, <1>3

\* What a run has in memory.
Bindings == [at : {"off", "turn", "repair", "ack"}, known : SUBSET Msgs,
             batch : SUBSET Msgs, repair : SUBSET Msgs]

\* Nothing happens to a file.
LEMMA FilesAsTheyAre ==
    ASSUME MailInv, NEW m \in Mates
    PROVE  /\ m \in Participants
           /\ Grown(box[m], box[m]) /\ Lengthened(history[m], history[m])
           /\ UNCHANGED box => box' = [box EXCEPT ![m] = box[m]]
           /\ UNCHANGED history => history' = [history EXCEPT ![m] = history[m]]
           /\ UNCHANGED binding => binding' = [binding EXCEPT ![m] = binding[m]]
           /\ binding[m] \in Bindings
  BY DEF MailInv, MailIsWhole, MailTypeOK, StoredOnce, CommittedOnce, Grown, Lengthened, Mates,
         Bindings

\* A run moves, with its mailbox and its session file: the invariant holds when it holds of
\* these three.
LEMMA OneRunMoves ==
    ASSUME MailInv, NEW m \in Mates, NEW nb, NEW nh, NEW nr \in Bindings,
           UNCHANGED <<outbox, delivered, coordinator, flush>>,
           member' \in [Mates -> {"asleep", "awake", "barred"}],
           mailFaults' \in 0..MaxMailFaults,
           marked \subseteq marked', marked' \subseteq Msgs,
           Grown(box[m], nb), box' = [box EXCEPT ![m] = nb],
           Lengthened(history[m], nh), history' = [history EXCEPT ![m] = nh],
           binding' = [binding EXCEPT ![m] = nr],
           Readable(nh) => nb.read \subseteq (UNION Range(nh.batches)) \cup marked',
           nr.at # "off" => /\ UNION Range(nh.batches) \subseteq nr.known
                            /\ Readable(nh) => nr.known = UNION Range(nh.batches),
           nr.at = "repair" => nr.batch \cap nr.known = {} /\ nr.repair \subseteq nr.known,
           nr.at = "ack" => nr.batch \subseteq nr.known
    PROVE  MailInv'
<1> USE DEF MailInv, MailIsWhole
<1>1. /\ box' \in [Participants -> Mailboxes]
      /\ \A q \in Participants : IsInjective(box'[q].got)
      /\ \A x \in delivered : x \in Range(box'[x.to].got) \/ ~Readable(box'[x.to])
  BY BoxStep DEF Mates
<1>2. /\ history' \in [Mates -> Sessions] /\ CommittedOnce'
      /\ \A n \in Mates : history'[n] = IF n = m THEN nh ELSE history[n]
  BY HistoryStep
<1>3. /\ binding' \in [Mates -> Bindings]
      /\ \A n \in Mates : binding'[n] = IF n = m THEN nr ELSE binding[n]
  BY DEF MailTypeOK, Bindings
<1>4. \A n \in Mates : box'[n] = IF n = m THEN nb ELSE box[n]
  BY DEF MailTypeOK, Mates
<1>5. MailTypeOK'
  BY <1>1, <1>2, <1>3 DEF MailTypeOK, Bindings
<1>6. StoredOnce' /\ DeliveredIsStored'
  BY <1>1 DEF StoredOnce, DeliveredIsStored, Readable
<1>7. ReadIsCommitted'
  <2>1. ASSUME NEW n \in Mates, Readable(history'[n])
        PROVE  box'[n].read \subseteq (UNION Range(history'[n].batches)) \cup marked'
    <3>1. CASE n = m
      BY <1>2, <1>4, <2>1, <3>1
    <3>2. CASE n # m
      <4>1. box'[n] = box[n] /\ history'[n] = history[n]
        BY <1>2, <1>4, <3>2
      <4>2. box[n].read \subseteq (UNION Range(history[n].batches)) \cup marked
        BY <2>1, <4>1 DEF ReadIsCommitted, Committed
      <4> QED  BY <4>1, <4>2
    <3> QED  BY <3>1, <3>2
  <2> QED  BY <2>1 DEF ReadIsCommitted, Readable, Committed
<1>8. KnownIsCommitted'
  <2>1. ASSUME NEW n \in Mates, binding'[n].at # "off"
        PROVE  /\ UNION Range(history'[n].batches) \subseteq binding'[n].known
               /\ Readable(history'[n]) =>
                    binding'[n].known = UNION Range(history'[n].batches)
    <3>1. CASE n = m
      BY <1>2, <1>3, <2>1, <3>1
    <3>2. CASE n # m
      <4>1. binding'[n] = binding[n] /\ history'[n] = history[n]
        BY <1>2, <1>3, <3>2
      <4> QED  BY <2>1, <4>1 DEF KnownIsCommitted, Committed
    <3> QED  BY <3>1, <3>2
  <2> QED  BY <2>1 DEF KnownIsCommitted, Readable, Committed
<1>9. BatchAtHand'
  BY <1>3 DEF BatchAtHand
<1> QED  BY <1>2, <1>5, <1>6, <1>7, <1>8, <1>9

\* Opening a session reads what it holds.
LEMMA OpenStep == ASSUME MailInv, NEW m \in Mates, Open(m) PROVE MailInv'
<1> USE DEF MailInv, MailIsWhole, log
<1>1. CASE ~Readable(history[m])
  <2>1. MailTypeOK'
    BY <1>1 DEF Open, MailTypeOK
  <2> QED  BY <1>1, <2>1, LogStays DEF Open
<1>2. CASE Readable(history[m])
  <2> DEFINE nr == [NoRun EXCEPT !.at = "turn", !.known = Committed(m)]
  <2>1. Committed(m) \subseteq Msgs
    <3>1. history[m].batches \in Seq(SUBSET Msgs)
      BY DEF MailTypeOK, Sessions
    <3> QED  BY <3>1 DEF Committed, Range
  <2>2. /\ nr \in Bindings /\ nr.at = "turn" /\ nr.known = UNION Range(history[m].batches)
    BY <2>1 DEF Bindings, NoRun, Committed
  <2>3. /\ binding' = [binding EXCEPT ![m] = nr]
        /\ UNCHANGED <<outbox, delivered, box, history, coordinator, flush, member, marked,
                       mailFaults>>
    BY <1>2 DEF Open
  <2>4. Readable(history[m]) =>
          box[m].read \subseteq (UNION Range(history[m].batches)) \cup marked
    BY DEF ReadIsCommitted, Committed
  <2>5. /\ member \in [Mates -> {"asleep", "awake", "barred"}]
        /\ mailFaults \in 0..MaxMailFaults /\ marked \subseteq Msgs
    BY DEF MailTypeOK
  <2> HIDE DEF nr
  <2> QED  BY <2>2, <2>3, <2>4, <2>5, FilesAsTheyAre, OneRunMoves
<1> QED  BY <1>1, <1>2

\* A batch is committed: what is in it was not in the session before.
LEMMA PollStep == ASSUME MailInv, NEW m \in Mates, Poll(m) PROVE MailInv'
<1> USE DEF MailInv, MailIsWhole
<1>1. PICK batch \in Batches(m) :
        /\ history' = [history EXCEPT ![m] = Commit(m, batch)]
        /\ binding' = [binding EXCEPT ![m].at = "ack", ![m].batch = batch,
                                      ![m].known = @ \cup batch]
  BY DEF Poll
<1> DEFINE r  == binding[m]
           nr == [r EXCEPT !.at = "ack", !.batch = batch, !.known = @ \cup batch]
           nh == Commit(m, batch)
<1>2. r \in Bindings /\ r.at = "turn" /\ m \in Participants
  BY FilesAsTheyAre DEF Poll
<1>3. batch \in SUBSET Msgs /\ batch \cap r.known = {}
  <2>1. Fresh(m) \subseteq Msgs /\ Fresh(m) \cap r.known = {}
    <3>1. box[m].got \in Seq(Msgs)
      BY <1>2 DEF MailTypeOK, Mailboxes
    <3> QED  BY <3>1 DEF Fresh, Unread, Range
  <2> QED  BY <2>1 DEF Batches
<1>4. /\ Committed(m) \subseteq r.known
      /\ Readable(history[m]) => r.known = Committed(m)
  BY <1>2 DEF KnownIsCommitted
<1>5. /\ Lengthened(history[m], nh)
      /\ UNION Range(nh.batches) \subseteq Committed(m) \cup batch
      /\ Readable(nh) => UNION Range(nh.batches) = Committed(m) \cup batch
  BY <1>3, <1>4, CommitLengthens
<1>6. /\ nr \in Bindings /\ nr.at = "ack" /\ nr.batch = batch
      /\ nr.known = r.known \cup batch
  BY <1>2, <1>3 DEF Bindings
<1>7. binding' = [binding EXCEPT ![m] = nr]
  BY <1>1
<1>8. Readable(nh) => box[m].read \subseteq (UNION Range(nh.batches)) \cup marked
  BY <1>5 DEF ReadIsCommitted, Lengthened
<1>9. /\ UNION Range(nh.batches) \subseteq nr.known
      /\ Readable(nh) => nr.known = UNION Range(nh.batches)
  BY <1>4, <1>5, <1>6 DEF Lengthened
<1>10. /\ member' \in [Mates -> {"asleep", "awake", "barred"}]
       /\ mailFaults' \in 0..MaxMailFaults /\ marked' = marked /\ marked \subseteq Msgs
       /\ UNCHANGED <<outbox, delivered, box, coordinator, flush>>
  BY DEF MailTypeOK, Poll
<1> HIDE DEF nr, nh
<1> QED  BY <1>1, <1>5, <1>6, <1>7, <1>8, <1>9, <1>10, FilesAsTheyAre, OneRunMoves DEF nh

\* What the invariant says of one run and its files.
LEMMA OfOneRun ==
    ASSUME MailInv, NEW m \in Mates
    PROVE  /\ binding[m].at # "off" =>
                /\ UNION Range(history[m].batches) \subseteq binding[m].known
                /\ Readable(history[m]) =>
                     binding[m].known = UNION Range(history[m].batches)
           /\ Readable(history[m]) =>
                box[m].read \subseteq (UNION Range(history[m].batches)) \cup marked
           /\ member \in [Mates -> {"asleep", "awake", "barred"}]
           /\ mailFaults \in 0..MaxMailFaults /\ marked \subseteq Msgs
           /\ Fresh(m) \subseteq Msgs /\ Unread(m) \subseteq Msgs
           /\ Fresh(m) \cap binding[m].known = {}
<1> USE DEF MailInv, MailIsWhole
<1>1. box[m].got \in Seq(Msgs)
  BY DEF MailTypeOK, Mailboxes, Mates
<1>2. Unread(m) \subseteq Msgs
  BY <1>1 DEF Unread, Range
<1>3. Fresh(m) \subseteq Msgs /\ Fresh(m) \cap binding[m].known = {}
  BY <1>2 DEF Fresh
<1> QED  BY <1>2, <1>3 DEF MailTypeOK, KnownIsCommitted, ReadIsCommitted, Committed

\* A poll that waits for the lock has its batch and what it repairs apart.
LEMMA PollRepairsStep == ASSUME MailInv, NEW m \in Mates, PollRepairs(m) PROVE MailInv'
<1>1. PICK batch \in {{}} \cup Batches(m) :
        binding' = [binding EXCEPT ![m].at = "repair", ![m].batch = batch,
                                   ![m].repair = Unread(m) \cap binding[m].known]
  BY DEF PollRepairs
<1> DEFINE r  == binding[m]
           nr == [r EXCEPT !.at = "repair", !.batch = batch,
                           !.repair = Unread(m) \cap r.known]
<1>2. r \in Bindings /\ r.at = "turn"
  BY FilesAsTheyAre DEF PollRepairs
<1>3. batch \in SUBSET Msgs /\ batch \cap r.known = {}
  BY OfOneRun DEF Batches
<1>4. /\ nr \in Bindings /\ nr.at = "repair" /\ nr.batch = batch /\ nr.known = r.known
      /\ nr.repair = Unread(m) \cap r.known
  BY <1>2, <1>3, OfOneRun DEF Bindings
<1>5. /\ binding' = [binding EXCEPT ![m] = nr]
      /\ UNCHANGED <<outbox, delivered, box, history, coordinator, flush, member, marked,
                     mailFaults>>
  BY <1>1 DEF PollRepairs, log
<1>6. /\ UNION Range(history[m].batches) \subseteq nr.known
      /\ Readable(history[m]) => nr.known = UNION Range(history[m].batches)
      /\ nr.batch \cap nr.known = {} /\ nr.repair \subseteq nr.known
  BY <1>2, <1>3, <1>4, OfOneRun
<1> HIDE DEF nr
<1>7. /\ box' = [box EXCEPT ![m] = box[m]] /\ Grown(box[m], box[m])
      /\ history' = [history EXCEPT ![m] = history[m]]
      /\ Lengthened(history[m], history[m])
  BY <1>5, FilesAsTheyAre
<1> QED  BY <1>4, <1>5, <1>6, <1>7, OfOneRun, OneRunMoves

\* The repair marks what is committed, and the batch that waited is still new.
LEMMA RepairStep == ASSUME MailInv, NEW m \in Mates, Repair(m) PROVE MailInv'
<1> DEFINE r  == binding[m]
           nb == StoreRead(m, r.repair)
           nh == IF r.batch = {} THEN history[m] ELSE Commit(m, r.batch)
           nr == [r EXCEPT !.at = IF r.batch = {} THEN "turn" ELSE "ack",
                           !.known = @ \cup r.batch, !.repair = {}]
<1>1. r \in Bindings /\ r.at = "repair" /\ m \in Participants
  BY FilesAsTheyAre DEF Repair
<1>2. r.batch \cap r.known = {} /\ r.repair \subseteq r.known
  BY <1>1 DEF MailInv, BatchAtHand
<1>3. r.repair \in SUBSET Msgs /\ r.batch \in SUBSET Msgs
  BY <1>1 DEF Bindings
<1>4. Grown(box[m], nb) /\ nb.read \subseteq box[m].read \cup r.repair
  BY <1>1, <1>3, StoreReadGrows DEF MailInv, MailIsWhole
<1>5. /\ Lengthened(history[m], nh)
      /\ UNION Range(nh.batches) \subseteq r.known \cup r.batch
      /\ Readable(nh) => UNION Range(nh.batches) = r.known \cup r.batch
  <2>1. CASE r.batch = {}
    BY <1>1, <2>1, FilesAsTheyAre, OfOneRun
  <2>2. CASE r.batch # {}
    <3>1. Committed(m) \subseteq r.known /\ (Readable(history[m]) => r.known = Committed(m))
      BY <1>1, OfOneRun DEF Committed
    <3>2. /\ Lengthened(history[m], Commit(m, r.batch))
          /\ UNION Range(Commit(m, r.batch).batches) \subseteq Committed(m) \cup r.batch
          /\ Readable(Commit(m, r.batch)) =>
               UNION Range(Commit(m, r.batch).batches) = Committed(m) \cup r.batch
      BY <1>2, <1>3, <3>1, CommitLengthens DEF MailInv, MailIsWhole
    <3> QED  BY <2>2, <3>1, <3>2 DEF Lengthened
  <2> QED  BY <2>1, <2>2
<1>6. /\ nr \in Bindings /\ nr.known = r.known \cup r.batch /\ nr.batch = r.batch
      /\ nr.at \in {"turn", "ack"}
  BY <1>1, <1>3 DEF Bindings
<1>7. Readable(nh) => nb.read \subseteq (UNION Range(nh.batches)) \cup marked
  BY <1>1, <1>2, <1>4, <1>5, OfOneRun DEF Lengthened
<1>8. /\ box' = [box EXCEPT ![m] = nb] /\ binding' = [binding EXCEPT ![m] = nr]
      /\ history' = [history EXCEPT ![m] = nh]
      /\ UNCHANGED <<outbox, delivered, coordinator, flush, member, marked, mailFaults>>
  <2>1. history' = [history EXCEPT ![m] = nh]
    BY FilesAsTheyAre DEF Repair
  <2> QED  BY <2>1 DEF Repair
<1> HIDE DEF nr, nb, nh
<1> QED  BY <1>4, <1>5, <1>6, <1>7, <1>8, OfOneRun, OneRunMoves

\* What is acknowledged is committed.
LEMMA AckStep == ASSUME MailInv, NEW m \in Mates, Ack(m) PROVE MailInv'
<1> DEFINE r  == binding[m]
           nb == StoreRead(m, r.batch)
           nr == [r EXCEPT !.at = "turn", !.batch = {}]
<1>1. r \in Bindings /\ r.at = "ack" /\ m \in Participants
  BY FilesAsTheyAre DEF Ack
<1>2. r.batch \subseteq r.known /\ r.batch \in SUBSET Msgs
  BY <1>1 DEF MailInv, BatchAtHand, Bindings
<1>3. Grown(box[m], nb) /\ nb.read \subseteq box[m].read \cup r.batch
  BY <1>1, <1>2, StoreReadGrows DEF MailInv, MailIsWhole
<1>4. nr \in Bindings /\ nr.known = r.known /\ nr.at = "turn"
  BY <1>1 DEF Bindings
<1>5. Readable(history[m]) =>
        nb.read \subseteq (UNION Range(history[m].batches)) \cup marked
  BY <1>1, <1>2, <1>3, OfOneRun
<1>6. /\ box' = [box EXCEPT ![m] = nb] /\ binding' = [binding EXCEPT ![m] = nr]
      /\ UNCHANGED <<outbox, delivered, history, coordinator, flush, member, marked,
                     mailFaults>>
  BY DEF Ack
<1>7. /\ UNION Range(history[m].batches) \subseteq nr.known
      /\ Readable(history[m]) => nr.known = UNION Range(history[m].batches)
  BY <1>1, <1>4, OfOneRun
<1> HIDE DEF nr, nb
<1>8. /\ history' = [history EXCEPT ![m] = history[m]]
      /\ Lengthened(history[m], history[m])
  BY <1>6, FilesAsTheyAre
<1> QED  BY <1>3, <1>4, <1>5, <1>6, <1>7, <1>8, OfOneRun, OneRunMoves

\* The message tool marks one message, on the member's own account.
LEMMA ToolStep == ASSUME MailInv, NEW m \in Mates, ToolMarksRead(m) PROVE MailInv'
<1>1. PICK x \in Range(box[m].got) :
        box' = [box EXCEPT ![m] = StoreRead(m, {x})] /\ marked' = marked \cup {x}
  BY DEF ToolMarksRead
<1> DEFINE nb == StoreRead(m, {x})
<1>2. m \in Participants /\ binding[m] \in Bindings /\ binding[m].at = "turn"
  BY FilesAsTheyAre DEF ToolMarksRead
<1>3. {x} \in SUBSET Msgs
  <2>1. box[m].got \in Seq(Msgs)
    BY <1>2 DEF MailInv, MailIsWhole, MailTypeOK, Mailboxes
  <2> QED  BY <2>1 DEF Range
<1>4. Grown(box[m], nb) /\ nb.read \subseteq box[m].read \cup {x}
  BY <1>2, <1>3, StoreReadGrows DEF MailInv, MailIsWhole
<1>5. Readable(history[m]) =>
        nb.read \subseteq (UNION Range(history[m].batches)) \cup marked'
  BY <1>1, <1>4, OfOneRun
<1>6. UNCHANGED <<outbox, delivered, history, coordinator, flush, member, binding, mailFaults>>
  BY DEF ToolMarksRead
<1>7. marked \subseteq marked' /\ marked' \subseteq Msgs
  BY <1>1, <1>3, OfOneRun
<1>8. box' = [box EXCEPT ![m] = nb]
  BY <1>1
<1> HIDE DEF nb
<1>9. /\ history' = [history EXCEPT ![m] = history[m]]
      /\ binding' = [binding EXCEPT ![m] = binding[m]]
      /\ Lengthened(history[m], history[m])
  BY <1>6, FilesAsTheyAre
<1>10. /\ UNION Range(history[m].batches) \subseteq binding[m].known
       /\ Readable(history[m]) => binding[m].known = UNION Range(history[m].batches)
       /\ member' \in [Mates -> {"asleep", "awake", "barred"}]
       /\ mailFaults' \in 0..MaxMailFaults
  BY <1>2, <1>6, OfOneRun
<1> QED  BY <1>2, <1>4, <1>5, <1>6, <1>7, <1>8, <1>9, <1>10, OneRunMoves

\* A run that ends forgets what it knew.
LEMMA RunEndsStep == ASSUME MailInv, NEW m \in Mates, RunEnds(m) PROVE MailInv'
<1>1. NoRun \in Bindings /\ NoRun.at = "off"
  BY DEF NoRun, Bindings
<1>2. /\ member' \in [Mates -> {"asleep", "awake", "barred"}]
      /\ binding' = [binding EXCEPT ![m] = NoRun]
      /\ UNCHANGED <<outbox, delivered, box, history, coordinator, flush, marked, mailFaults>>
  BY OfOneRun DEF RunEnds, log
<1> QED  BY <1>1, <1>2, OfOneRun, FilesAsTheyAre, OneRunMoves

\* A process that dies leaves what its files held, and at most one of the two appends of a
\* repair.
LEMMA MemberDiesStep == ASSUME MailInv, NEW m \in Mates, MemberDies(m) PROVE MailInv'
<1>1. NoRun \in Bindings /\ NoRun.at = "off"
  BY DEF NoRun, Bindings
<1>2. /\ member' \in [Mates -> {"asleep", "awake", "barred"}]
      /\ mailFaults' \in 0..MaxMailFaults
      /\ binding' = [binding EXCEPT ![m] = NoRun]
      /\ UNCHANGED <<outbox, delivered, coordinator, flush, marked>>
  BY OfOneRun, MailFaultsAssumption DEF MemberDies, Faults
<1>3. m \in Participants /\ MailTypeOK /\ StoredOnce /\ CommittedOnce
  BY FilesAsTheyAre DEF MailInv, MailIsWhole
<1>4. Grown(box[m], Torn(box[m])) /\ Torn(box[m]).read = box[m].read
  BY <1>3, TornGrows
<1>5. /\ Lengthened(history[m], Torn(history[m]))
      /\ Torn(history[m]).batches = history[m].batches
  BY <1>3, TornLengthens
<1>6. CASE UNCHANGED <<box, history>>
  BY <1>1, <1>2, <1>6, OfOneRun, FilesAsTheyAre, OneRunMoves
<1>7. CASE box' = [box EXCEPT ![m] = Torn(@)] /\ UNCHANGED history
  <2>1. box' = [box EXCEPT ![m] = Torn(box[m])]
    BY <1>7
  <2> QED  BY <1>1, <1>2, <1>4, <1>7, <2>1, OfOneRun, FilesAsTheyAre, OneRunMoves
<1>8. CASE history' = [history EXCEPT ![m] = Torn(@)] /\ UNCHANGED box
  <2>1. history' = [history EXCEPT ![m] = Torn(history[m])]
    BY <1>8
  <2>2. Readable(Torn(history[m])) =>
          box[m].read \subseteq (UNION Range(Torn(history[m]).batches)) \cup marked
    BY <1>5, OfOneRun DEF Lengthened
  <2> QED  BY <1>1, <1>2, <1>5, <1>8, <2>1, <2>2, OfOneRun, FilesAsTheyAre, OneRunMoves
<1>9. CASE /\ binding[m].at = "repair"
           /\ box' = [box EXCEPT ![m] = StoreRead(m, binding[m].repair)]
           /\ \/ UNCHANGED history
              \/ history' = [history EXCEPT ![m] = Torn(@)]
  <2> DEFINE nb == StoreRead(m, binding[m].repair)
  <2>1. binding[m].repair \subseteq binding[m].known /\ binding[m].repair \in SUBSET Msgs
    BY <1>9, FilesAsTheyAre DEF MailInv, BatchAtHand, Bindings
  <2>2. Grown(box[m], nb) /\ nb.read \subseteq box[m].read \cup binding[m].repair
    BY <1>3, <2>1, StoreReadGrows
  <2>3. Readable(history[m]) =>
          nb.read \subseteq (UNION Range(history[m].batches)) \cup marked
    BY <1>9, <2>1, <2>2, OfOneRun
  <2>4. Readable(Torn(history[m])) =>
          nb.read \subseteq (UNION Range(Torn(history[m]).batches)) \cup marked
    BY <1>5, <2>3 DEF Lengthened
  <2>5. box' = [box EXCEPT ![m] = nb]
    BY <1>9
  <2> HIDE DEF nb
  <2>6. CASE UNCHANGED history
    BY <1>1, <1>2, <2>2, <2>3, <2>5, <2>6, OfOneRun, FilesAsTheyAre, OneRunMoves
  <2>7. CASE history' = [history EXCEPT ![m] = Torn(@)]
    <3>1. history' = [history EXCEPT ![m] = Torn(history[m])]
      BY <2>7
    <3> QED  BY <1>1, <1>2, <1>5, <2>2, <2>4, <2>5, <3>1, OfOneRun, OneRunMoves
  <2> QED  BY <1>9, <2>6, <2>7
<1> QED  BY <1>6, <1>7, <1>8, <1>9 DEF MemberDies

-----------------------------------------------------------------------------
(* The theorems *)

\* Every step of the mail keeps the invariant.
LEMMA StepMailInv == ASSUME MailInv, [MailNext]_mvars PROVE MailInv'
<1>1. CASE UNCHANGED mvars
  <2>1. MailTypeOK'
    BY <1>1 DEF mvars, log, MailInv, MailIsWhole, MailTypeOK
  <2> QED  BY <1>1, <2>1, LogStays DEF mvars, log
<1>2. ASSUME NEW m \in Mates, RunStep(m) PROVE MailInv'
  BY <1>2, OpenStep, PollStep, PollRepairsStep, RepairStep, AckStep, RunEndsStep DEF RunStep
<1>3. ASSUME NEW m \in Mates, ToolMarksRead(m) \/ MemberDies(m) PROVE MailInv'
  BY <1>3, ToolStep, MemberDiesStep
<1>4. ASSUME NEW f \in Flushes, FlushStep(f) PROVE MailInv'
  BY <1>4, StoreSteps, QuietSteps DEF FlushStep
<1> QED  BY <1>1, <1>2, <1>3, <1>4, StoreSteps, QuietSteps DEF MailNext

\* The invariant of the mail.
THEOREM MailInvariant == MailSpec => []MailInv
<1>1. MailInit => MailInv
  BY InitMailInv
<1>2. MailInv /\ [MailNext]_mvars => MailInv'
  BY StepMailInv
<1> QED  BY <1>1, <1>2, PTL DEF MailSpec

\* Outbox, mailboxes, session files and runs hold messages and ids of messages only, and
\* nothing is delivered that the outbox does not have.
THEOREM MailTypes == MailSpec => []MailTypeOK
<1>1. MailInv => MailTypeOK
  BY DEF MailInv, MailIsWhole
<1> QED  BY <1>1, MailInvariant, PTL

\* A message is once in its mailbox and once in a history, is in the mailbox when it is
\* marked delivered, and in the history before it is marked read.
THEOREM MailStaysWhole == MailSpec => []MailIsWhole
<1>1. MailInv => MailIsWhole
  BY DEF MailInv
<1> QED  BY <1>1, MailInvariant, PTL

=============================================================================
