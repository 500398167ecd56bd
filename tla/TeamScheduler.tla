--------------------------- MODULE TeamScheduler ---------------------------
(***************************************************************************)
(* TeamMemberScheduler (teams/scheduler.py) with everything that drives    *)
(* it: the member state machine and wake queue of teams/domain.py, the     *)
(* wakes of the mailbox flush, roster stop and resume, plan requests and   *)
(* decisions, the coordinator's reservations, and attach, shutdown and     *)
(* loss of the Lead.  The capacity pool is the module CapacityPool.        *)
(*                                                                         *)
(* The Lead is one asyncio process.  A repository mutation loads,          *)
(* transforms and commits without an await, and so is one step; a driver   *)
(* task can be interrupted only where _drive awaits, and its pc names that *)
(* await:                                                                  *)
(*    spawned   create_task done, the coroutine has not run yet            *)
(*    capacity  in AgentCapacityPool.acquire                               *)
(*    lock      in to_thread(recovery_lock.acquire)                        *)
(*    creating  RUNNING committed, in runtime_factory.create               *)
(*    running   consuming runtime.events()                                 *)
(*    unwinding cancelled while running, in runtime.cancel()               *)
(*    closing   outcome committed, in runtime.close()                      *)
(* The locks of the scheduler and of the pool are held across no await     *)
(* that suspends, so taking them is not a step.  The close of a terminal   *)
(* member's runtime does not suspend either; an in-process one closes its  *)
(* session and Worktree lease in a thread.                                 *)
(*                                                                         *)
(* A run's uuid is represented by the run generation its start committed.  *)
(***************************************************************************)
EXTENDS Naturals, Sequences, FiniteSets, SequencesExt

CONSTANTS Members,             \* member ids
          Gated,               \* members with requires_approval
          Limit,               \* slots of the capacity pool
          CoordinatorEnabled,  \* whether the delivery coordinator runs
          MaxRuns,             \* bound: run generations per member
          MaxAttach,           \* bound: attachments (Lead epochs)
          MaxFaults            \* bound: repository commits that fail

ASSUME MembersAssumption == IsFiniteSet(Members)
ASSUME LimitAssumption == Limit \in Nat \ {0}
ASSUME GatedAssumption == Gated \subseteq Members
ASSUME FlagAssumption  == CoordinatorEnabled \in BOOLEAN
ASSUME BoundAssumption == {MaxRuns, MaxAttach, MaxFaults} \subseteq Nat

VARIABLES
    \* team state, persisted by TeamRepository
    status,      \* member -> TeamMemberStatus
    queue,       \* the wake queue, in sequence order
    activeRun,   \* member -> active_run_id, 0 for None
    gen,         \* member -> run_generation
    plan,        \* member -> its latest plan approval
    \* the Lead process
    lead,        \* detached, recovering, attached, closing, or expired when
                 \* the close timeout of the shutdown has elapsed
    pc,          \* member -> where its driver is, "none" without one
    run,         \* member -> run id in its driver's hands, 0 before start
    asked,       \* member -> cancellation its runtime was asked for
    cancelling,  \* drivers with a CancelledError on its way
    unanswered,  \* members whose _startup future is pending
    reserved,    \* keys of _reservations
    assigning,   \* members whose reservation the coordinator is using
    active, waiters, future, place, poolClosed,  \* the capacity pool
    \* the environment
    foreign,     \* recovery locks a previous Lead process still holds
    attaches, faults

teamState == <<status, queue, activeRun, gen, plan>>
poolVars  == <<active, waiters, future, place, poolClosed>>
driverVars == <<pc, run, asked, cancelling, unanswered>>
coordVars == <<reserved, assigning>>
envVars   == <<foreign, attaches, faults>>
vars == <<teamState, lead, driverVars, coordVars, poolVars, envVars>>

Pool == INSTANCE CapacityPool
          WITH Callers <- Members, Owners <- Members,
               OwnerOf <- [m \in Members |-> m],
               pc <- place, closed <- poolClosed

Statuses == {"idle", "queued", "running", "awaiting", "stopped",
             "interrupted", "failed"}
DriverPcs == {"none", "spawned", "capacity", "lock", "creating", "running",
              "unwinding", "closing"}

TypeOK ==
    /\ status \in [Members -> Statuses]
    /\ queue \in Seq(Members)
    /\ activeRun \in [Members -> Nat]
    /\ gen \in [Members -> Nat]
    /\ plan \in [Members -> {"none", "pending", "decided"}]
    /\ lead \in {"detached", "recovering", "attached", "closing",
                "expired"}
    /\ pc \in [Members -> DriverPcs]
    /\ run \in [Members -> Nat]
    /\ asked \in [Members -> {"no", "cancel", "stop"}]
    /\ cancelling \subseteq Members
    /\ unanswered \subseteq Members
    /\ reserved \subseteq Members
    /\ assigning \subseteq Members
    /\ foreign \subseteq Members
    /\ attaches \in Nat /\ faults \in Nat
    /\ Pool!TypeOK

\* A process that has just started: nothing is driven, the pool is empty.
FreshProcess ==
    /\ pc' = [m \in Members |-> "none"]
    /\ run' = [m \in Members |-> 0]
    /\ asked' = [m \in Members |-> "no"]
    /\ cancelling' = {}
    /\ unanswered' = {}
    /\ reserved' = {} /\ assigning' = {}
    /\ active' = {} /\ waiters' = <<>> /\ poolClosed' = FALSE
    /\ future' = [m \in Members |-> "none"]
    /\ place' = [m \in Members |-> "idle"]

\* add_member publishes members as IDLE (PROVISIONING is never stored).
Init ==
    /\ status = [m \in Members |-> "idle"]
    /\ queue = <<>>
    /\ activeRun = [m \in Members |-> 0]
    /\ gen = [m \in Members |-> 0]
    /\ plan = [m \in Members |-> "none"]
    /\ lead = "attached"
    /\ pc = [m \in Members |-> "none"]
    /\ run = [m \in Members |-> 0]
    /\ asked = [m \in Members |-> "no"]
    /\ cancelling = {}
    /\ unanswered = {}
    /\ reserved = {} /\ assigning = {}
    /\ foreign = {} /\ attaches = 1 /\ faults = 0
    /\ Pool!Init

-----------------------------------------------------------------------------
(* The member state machine of teams/domain.py. *)

\* _MEMBER_TRANSITIONS
LegalTransitions ==
    [idle        |-> {"queued", "stopped"},
     queued      |-> {"running", "stopped", "interrupted", "failed"},
     running     |-> {"idle", "awaiting", "stopped", "interrupted", "failed"},
     awaiting    |-> {"queued", "stopped", "failed"},
     stopped     |-> {"queued"},
     interrupted |-> {"queued", "stopped"},
     failed      |-> {"queued", "stopped"}]

LegalStep(from, to) == to = from \/ to \in LegalTransitions[from]

InQueue(m) == m \in ToSet(queue)
\* The queue without the entry of m; nobody has two.
Dequeued(m) ==
    IF InQueue(m)
    THEN RemoveAt(queue, CHOOSE i \in DOMAIN queue : queue[i] = m)
    ELSE queue

\* transition_member to a status other than RUNNING clears the active run.
TransitionMember(m, to) ==
    /\ LegalStep(status[m], to)
    /\ status' = [status EXCEPT ![m] = to]
    /\ activeRun' = [activeRun EXCEPT ![m] = 0]

BugEnqueueStopped(m) ==
    IF status[m] = "running" \/ InQueue(m)
    THEN UNCHANGED <<queue, status>>
    ELSE /\ queue' = Append(queue, m)
         /\ status' = [status EXCEPT ![m] = "queued"]

\* enqueue_member: a new entry makes the member QUEUED whatever it was; an
\* existing one is merged and leaves the status alone.
EnqueueMember(m) ==
    IF status[m] \in {"running", "stopped"} \/ InQueue(m)
    THEN UNCHANGED <<queue, status>>
    ELSE /\ queue' = Append(queue, m)
         /\ status' = [status EXCEPT ![m] = "queued"]

-----------------------------------------------------------------------------
(* Waking a member. *)

HasLease == lead # "detached"
Closing  == lead \in {"closing", "expired"}

\* _ensure_driver: none once closed, none while a driver task is not done.
EnsureDriver(m) ==
    IF ~Closing /\ pc[m] = "none"
    THEN /\ pc' = [pc EXCEPT ![m] = "spawned"]
         /\ unanswered' = unanswered \cup {m}
    ELSE UNCHANGED <<pc, unanswered>>

\* request_wake: enqueue, commit, then make sure somebody drives the entry.
RequestWake(m) ==
    /\ EnqueueMember(m)
    /\ IF m \in ToSet(queue') THEN EnsureDriver(m) ELSE UNCHANGED <<pc, unanswered>>
    /\ UNCHANGED <<activeRun, run, asked, cancelling>>

\* The statuses for which _wake_if_needed asks for a wake.
Wakeable(m) == status[m] \in {"idle", "interrupted", "failed"}

\* flush_outbox after it delivered a message to m: _wake_if_needed.
FlushWakes(m) ==
    /\ HasLease /\ Wakeable(m) /\ gen[m] < MaxRuns
    /\ RequestWake(m)
    /\ UNCHANGED <<gen, plan, lead, coordVars, poolVars, envVars>>

\* TeamRosterService.resume: commit the queue entry, then request_wake.
RosterResume(m) ==
    /\ lead = "attached" /\ gen[m] < MaxRuns
    /\ Wakeable(m) \/ status[m] = "stopped"
    /\ status' = [status EXCEPT ![m] =
                    IF InQueue(m) /\ @ # "stopped" THEN @ ELSE "queued"]
    /\ activeRun' = [activeRun EXCEPT ![m] = 0]
    /\ queue' = IF InQueue(m) THEN queue ELSE Append(queue, m)
    /\ EnsureDriver(m)
    /\ UNCHANGED <<gen, plan, lead, run, asked, cancelling, coordVars,
                   poolVars, envVars>>

-----------------------------------------------------------------------------
(* The driver task, _drive. *)

Goto(m, where) == pc' = [pc EXCEPT ![m] = where]

Undisturbed(m, where) == pc[m] = where /\ m \notin cancelling

\* The wake of m is answered (or its future is popped with the driver).
Answer(m) == unanswered' = unanswered \ {m}

\* The end of a driver without a runtime: no await in its finally suspends.
EndDriver(m) ==
    /\ Goto(m, "none")
    /\ run' = [run EXCEPT ![m] = 0]
    /\ cancelling' = cancelling \ {m}
    /\ Answer(m)

\* The reservation in _reservations is consumed; else try_acquire.
DriveFirst(m) ==
    /\ Undisturbed(m, "spawned")
    /\ IF m \in reserved THEN Pool!Consume(m) ELSE Pool!TryAcquire(m)
    /\ reserved' = reserved \ {m}
    /\ Goto(m, "lock")
    /\ UNCHANGED <<teamState, lead, run, asked, cancelling, unanswered, assigning,
                   envVars>>

\* try_acquire returned None: the wake is answered QUEUED, acquire suspends.
DriveWaits(m) ==
    /\ Undisturbed(m, "spawned") /\ m \notin reserved
    /\ Pool!AcquireWait(m)
    /\ Answer(m)
    /\ Goto(m, "capacity")
    /\ UNCHANGED <<teamState, lead, run, asked, cancelling, coordVars, envVars>>

\* The pool refuses a second claim of the owner (its reservation is still being
\* closed): the exception reaches _commit_queued_failure.
DriveRefused(m) ==
    /\ Undisturbed(m, "spawned") /\ m \notin reserved
    /\ ~Pool!Unique(m)
    /\ IF status[m] = "queued"
       THEN TransitionMember(m, "failed") /\ queue' = Dequeued(m)
       ELSE UNCHANGED <<status, activeRun, queue>>
    /\ EndDriver(m)
    /\ UNCHANGED <<gen, plan, lead, asked, coordVars, poolVars, envVars>>

DriveGranted(m) ==
    /\ Undisturbed(m, "capacity")
    /\ Pool!Resume(m)
    /\ Goto(m, "lock")
    /\ UNCHANGED <<teamState, lead, run, asked, cancelling, unanswered, coordVars,
                   envVars>>

\* Defects (Bug...): see CapacityPool.
BugLockBusyKeepsSlot(m) ==
    /\ Undisturbed(m, "lock") /\ m \in foreign
    /\ EndDriver(m)
    /\ UNCHANGED <<teamState, lead, asked, coordVars, poolVars, envVars>>

\* The recovery lock is held by another process: _drive returns.
DriveLockBusy(m) ==
    /\ Undisturbed(m, "lock") /\ m \in foreign
    /\ Pool!Release(m)
    /\ EndDriver(m)
    /\ UNCHANGED <<teamState, lead, asked, coordVars, envVars>>

Startable(m) == status[m] = "queued" /\ InQueue(m)

\* The `start` mutation: dequeue, RUNNING, a fresh run id, the next generation.
DriveStart(m) ==
    /\ Undisturbed(m, "lock") /\ m \notin foreign
    /\ Startable(m)
    /\ queue' = Dequeued(m)
    /\ status' = [status EXCEPT ![m] = "running"]
    /\ gen' = [gen EXCEPT ![m] = @ + 1]
    /\ activeRun' = [activeRun EXCEPT ![m] = gen[m] + 1]
    /\ run' = [run EXCEPT ![m] = gen[m] + 1]
    /\ Goto(m, "creating")
    /\ UNCHANGED <<plan, lead, asked, cancelling, unanswered, coordVars, poolVars,
                   envVars>>

\* `start` raises, because the member is no longer startable or because its
\* commit fails: run_id is set, generation is not, so nothing is committed.
DriveStartRaises(m) ==
    /\ Undisturbed(m, "lock") /\ m \notin foreign
    /\ IF Startable(m)
       THEN faults < MaxFaults /\ faults' = faults + 1
       ELSE UNCHANGED faults
    /\ Pool!Release(m)
    /\ EndDriver(m)
    /\ UNCHANGED <<teamState, lead, asked, coordVars, foreign, attaches>>

BugCommitStaleOutcome(m, to) == TransitionMember(m, to) /\ UNCHANGED faults

\* _commit_outcome: a result whose run is no longer the active one is rejected.
\* An exception of the commit is swallowed by _drive.
CommitOutcome(m, to) ==
    IF activeRun[m] = run[m] /\ gen[m] = run[m]
    THEN \/ TransitionMember(m, to) /\ UNCHANGED faults
         \/ faults < MaxFaults /\ faults' = faults + 1 /\ UNCHANGED <<status, activeRun>>
    ELSE UNCHANGED <<status, activeRun, faults>>

\* runtime_factory.create returned: the runtime owns the slot.
DriveCreated(m) ==
    /\ Undisturbed(m, "creating")
    /\ Answer(m)
    /\ Goto(m, "running")
    /\ UNCHANGED <<teamState, lead, run, asked, cancelling, coordVars, poolVars,
                   envVars>>

\* runtime_factory.create raised, or was cancelled: it gave the slot back.
DriveCreateFails(m) ==
    /\ pc[m] = "creating"
    /\ Pool!Release(m)
    /\ CommitOutcome(m, IF m \in cancelling THEN "interrupted" ELSE "failed")
    /\ EndDriver(m)
    /\ UNCHANGED <<queue, gen, plan, lead, asked, coordVars, foreign, attaches>>

\* How a run may end (_map_outcome): by itself, with an error, in the pause that
\* follows a plan request (which cleared activeRun), or as it was asked to.
Outcomes(m) ==
    {"idle", "failed"}
    \cup (IF activeRun[m] # run[m] THEN {"awaiting"} ELSE {})
    \cup (CASE asked[m] = "stop"   -> {"stopped"}
            [] asked[m] = "cancel" -> {"interrupted"}
            [] OTHER               -> {})

BugFinishRun(m) ==  \* to a state of the driver that does not exist
    /\ Goto(m, "finished")
    /\ asked' = [asked EXCEPT ![m] = "no"]
    /\ UNCHANGED <<queue, gen, plan, lead, run, unanswered, coordVars, poolVars,
                   foreign, attaches>>

\* The runtime is popped; its close is still to be awaited.
FinishRun(m) ==
    /\ Goto(m, "closing")
    /\ asked' = [asked EXCEPT ![m] = "no"]
    /\ UNCHANGED <<queue, gen, plan, lead, run, unanswered, coordVars, poolVars,
                   foreign, attaches>>

DriveRunEnds(m) ==
    /\ Undisturbed(m, "running")
    /\ \E to \in Outcomes(m) : CommitOutcome(m, to)
    /\ FinishRun(m)
    /\ UNCHANGED cancelling

\* A cancelled driver awaits runtime.cancel, and the run is INTERRUPTED.
DriveUnwound(m) ==
    /\ pc[m] = "unwinding"
    /\ CommitOutcome(m, "interrupted")
    /\ FinishRun(m)
    /\ UNCHANGED cancelling

\* runtime.close() returns the slot; then the recovery lock and the driver's own
\* entry.  A CancelledError inside close() was swallowed.
DriveCloses(m) ==
    /\ pc[m] = "closing"
    /\ Pool!Release(m)
    /\ EndDriver(m)
    /\ UNCHANGED <<teamState, lead, asked, coordVars, envVars>>

\* A task that is cancelled before it ran ends without its finally: nobody
\* answers the wake.
CancelledUnstarted(m) ==
    /\ m \in cancelling /\ pc[m] = "spawned"
    /\ Goto(m, "none")
    /\ cancelling' = cancelling \ {m}
    /\ UNCHANGED <<teamState, lead, run, asked, unanswered, coordVars, poolVars,
                   envVars>>

\* Cancelled before `start`: no run id, no outcome.
CancelledWaiting(m) ==
    /\ m \in cancelling
    /\ \/ pc[m] = "capacity" /\ (Pool!CancelQueued(m) \/ Pool!CancelResolved(m))
       \/ pc[m] = "lock" /\ Pool!Release(m)
    /\ EndDriver(m)
    /\ UNCHANGED <<teamState, lead, asked, coordVars, envVars>>

BugCancelSwallowed(m) ==
    /\ m \in cancelling /\ pc[m] = "running"
    /\ cancelling' = cancelling \ {m}
    /\ UNCHANGED <<teamState, lead, pc, run, asked, unanswered, coordVars, poolVars,
                   envVars>>

\* Cancelled while it consumes the events: runtime.cancel(explicit_stop=False).
CancelledRunning(m) ==
    /\ m \in cancelling /\ pc[m] = "running"
    /\ Goto(m, "unwinding")
    /\ cancelling' = cancelling \ {m}
    /\ UNCHANGED <<teamState, lead, run, asked, unanswered, coordVars, poolVars,
                   envVars>>

DriverStep(m) ==
    \/ DriveFirst(m)   \/ DriveWaits(m)       \/ DriveRefused(m)
    \/ DriveGranted(m) \/ DriveLockBusy(m)
    \/ DriveStart(m)   \/ DriveStartRaises(m)
    \/ DriveCreated(m) \/ DriveCreateFails(m)
    \/ DriveRunEnds(m) \/ DriveUnwound(m)     \/ DriveCloses(m)
    \/ CancelledUnstarted(m) \/ CancelledWaiting(m) \/ CancelledRunning(m)

-----------------------------------------------------------------------------
(* Stopping a member. *)

\* scheduler.stop up to its mutation: the reservation goes back to the pool.
DropReservation(m) ==
    /\ reserved' = reserved \ {m}
    /\ IF m \in reserved /\ place[m] = "reserved"
       THEN Pool!Release(m) ELSE UNCHANGED poolVars

\* The runtime is told to stop, or the driver task is cancelled.
InterruptDriver(m) ==
    IF pc[m] \in {"running", "unwinding"}
    THEN asked' = [asked EXCEPT ![m] = "stop"] /\ UNCHANGED cancelling
    ELSE /\ cancelling' = IF pc[m] = "none" THEN cancelling ELSE cancelling \cup {m}
         /\ UNCHANGED asked

BugStopKeepsEntry(m) ==
    /\ lead = "attached" /\ status[m] # "stopped"
    /\ TransitionMember(m, "stopped")
    /\ IF status[m] = "running"
       THEN DropReservation(m) /\ InterruptDriver(m)
       ELSE UNCHANGED <<reserved, poolVars, asked, cancelling>>
    /\ UNCHANGED <<queue, gen, plan, lead, pc, run, unanswered, assigning, envVars>>

\* TeamRosterService.stop: STOPPED is committed at once, and only a member that
\* was RUNNING has its driver interrupted.
RosterStop(m) ==
    /\ lead = "attached" /\ status[m] # "stopped"
    /\ queue' = Dequeued(m)
    /\ TransitionMember(m, "stopped")
    /\ IF status[m] = "running"
       THEN DropReservation(m) /\ InterruptDriver(m)
       ELSE UNCHANGED <<reserved, poolVars, asked, cancelling>>
    /\ UNCHANGED <<gen, plan, lead, pc, run, unanswered, assigning, envVars>>

\* The coordinator's STOP decision calls scheduler.stop directly: a runtime is
\* only asked to stop, otherwise a QUEUED member becomes STOPPED.
CoordinatorStop(m) ==
    /\ CoordinatorEnabled /\ lead = "attached"
    /\ DropReservation(m)
    /\ InterruptDriver(m)
    /\ IF pc[m] \notin {"running", "unwinding"} /\ status[m] = "queued"
       THEN TransitionMember(m, "stopped") /\ queue' = Dequeued(m)
       ELSE UNCHANGED <<status, activeRun, queue>>
    /\ UNCHANGED <<gen, plan, lead, pc, run, unanswered, assigning, envVars>>

-----------------------------------------------------------------------------
(* Plan approval, as far as it moves the member. *)

\* A run calls plan_request (domain.request_approval): the status is set without
\* consulting the transition table, whatever it is.  The run need not have heard yet
\* that it was stopped, and it may ask again.  It ends in a pause.
RequestPlan(m) ==
    /\ m \in Gated
    /\ pc[m] \in {"running", "unwinding"}
    /\ status' = [status EXCEPT ![m] = "awaiting"]
    /\ activeRun' = [activeRun EXCEPT ![m] = 0]
    /\ plan' = [plan EXCEPT ![m] = "pending"]
    /\ UNCHANGED <<queue, gen, lead, driverVars, coordVars, poolVars, envVars>>

\* The Lead decides with the plan_decision action: TeamApprovalService.decide
\* commits the decision and a message; the flush then finds AWAITING_APPROVAL.
DecideByTool(m) ==
    /\ lead = "attached" /\ plan[m] = "pending"
    /\ plan' = [plan EXCEPT ![m] = "decided"]
    /\ UNCHANGED <<status, queue, activeRun, gen, lead, driverVars, coordVars,
                   poolVars, envVars>>

\* The Lead decides with a plan_decision message: MailboxService.send commits
\* the decision with a queue entry; the flush then finds QUEUED.
DecideBySend(m) ==
    /\ lead = "attached" /\ plan[m] = "pending" /\ gen[m] < MaxRuns
    /\ plan' = [plan EXCEPT ![m] = "decided"]
    /\ EnqueueMember(m)
    /\ UNCHANGED <<activeRun, gen, lead, driverVars, coordVars, poolVars, envVars>>

-----------------------------------------------------------------------------
(* The delivery coordinator, one reconcile cycle at a time. *)

\* try_reserve before `await member_head`.
TryReserve(m) ==
    /\ CoordinatorEnabled /\ lead = "attached" /\ assigning = {}
    /\ status[m] = "idle" /\ activeRun[m] = 0 /\ gen[m] < MaxRuns
    /\ m \notin reserved /\ pc[m] = "none"
    /\ Pool!TryReserve(m)
    /\ reserved' = reserved \cup {m}
    /\ assigning' = {m}
    /\ UNCHANGED <<teamState, lead, driverVars, envVars>>

\* tasks.assign committed its message and flush_outbox delivered it.
AssignAndFlush(m) ==
    /\ m \in assigning
    /\ assigning' = {}
    /\ IF Wakeable(m) THEN RequestWake(m)
       ELSE UNCHANGED <<status, queue, activeRun, driverVars>>
    /\ UNCHANGED <<gen, plan, lead, reserved, poolVars, envVars>>

\* member_head, assign or the decision record raised: release_reservation.
AssignFails(m) ==
    /\ m \in assigning
    /\ assigning' = {}
    /\ reserved' = reserved \ {m}
    /\ IF place[m] = "reserved" THEN Pool!Release(m) ELSE UNCHANGED poolVars
    /\ UNCHANGED <<teamState, lead, driverVars, envVars>>

-----------------------------------------------------------------------------
(* Attachment, shutdown and loss of the Lead. *)

\* detach or close: scheduler.close forgets the reservations and asks every
\* runtime to cancel.  (detach also demands that nobody is RUNNING, QUEUED or
\* driven, which is a special case.)
BeginShutdown ==
    /\ lead = "attached"
    /\ lead' = "closing"
    /\ reserved' = {} /\ assigning' = {}
    /\ asked' = [m \in Members |->
                   IF pc[m] = "running" /\ asked[m] = "no" THEN "cancel" ELSE asked[m]]
    /\ UNCHANGED <<teamState, pc, run, cancelling, unanswered, poolVars, envVars>>

\* The reservations that scheduler.close took out are closed one by one.
CloseReservation(m) ==
    /\ Closing /\ place[m] = "reserved"
    /\ Pool!Release(m)
    /\ UNCHANGED <<teamState, lead, driverVars, coordVars, envVars>>

BugTimeoutSparesLateStarts ==
    /\ lead = "closing" /\ lead' = "expired"
    /\ cancelling' = {m \in Members : pc[m] \in {"spawned", "capacity"}}
    /\ UNCHANGED <<teamState, pc, run, asked, unanswered, coordVars, poolVars,
                   envVars>>

\* close_timeout elapsed: the drivers that are left are cancelled.
CloseTimeout ==
    /\ lead = "closing" /\ lead' = "expired"
    /\ cancelling' = {m \in Members : pc[m] # "none"}
    /\ UNCHANGED <<teamState, pc, run, asked, unanswered, coordVars, poolVars,
                   envVars>>

\* Every driver is done: flush, release the lease, forget the attachment.
FinishShutdown ==
    /\ Closing
    /\ \A m \in Members : pc[m] = "none" /\ place[m] # "reserved"
    /\ lead' = "detached"
    /\ FreshProcess
    /\ UNCHANGED <<teamState, envVars>>

\* The drivers that hold their member's recovery lock.
LockHolders == {m \in Members :
                    pc[m] \in {"creating", "running", "unwinding", "closing"}}

\* The process dies (the system drops its locks), or it lost its lease and its
\* drivers unwind without being able to commit, holding their locks meanwhile.
LoseLead ==
    /\ HasLease
    /\ lead' = "detached"
    /\ foreign' \in {foreign, foreign \cup LockHolders}
    /\ FreshProcess
    /\ UNCHANGED <<teamState, attaches, faults>>

\* A driver of the process that lost its lease ends.
ForeignRelease(m) ==
    /\ m \in foreign
    /\ foreign' = foreign \ {m}
    /\ UNCHANGED <<teamState, lead, driverVars, coordVars, poolVars, attaches, faults>>

BugAttachWithoutConvergence ==
    /\ lead = "detached" /\ attaches < MaxAttach
    /\ lead' = "recovering"
    /\ attaches' = attaches + 1
    /\ UNCHANGED <<teamState, driverVars, coordVars, poolVars, foreign, faults>>

\* attach: the lease, then _converge_interrupted.
Attach ==
    /\ lead = "detached" /\ attaches < MaxAttach
    /\ lead' = "recovering"
    /\ attaches' = attaches + 1
    /\ status' = [m \in Members |->
                    IF status[m] = "running" THEN "interrupted" ELSE status[m]]
    /\ activeRun' = [m \in Members |->
                       IF status[m] = "running" THEN 0 ELSE activeRun[m]]
    /\ UNCHANGED <<queue, gen, plan, driverVars, coordVars, poolVars, foreign, faults>>

\* scheduler.restore: a driver for every QUEUED entry that has none.
Restore ==
    /\ lead = "recovering"
    /\ lead' = "attached"
    /\ LET woken == {m \in Members : InQueue(m) /\ status[m] = "queued" /\ pc[m] = "none"}
       IN  /\ pc' = [m \in Members |-> IF m \in woken THEN "spawned" ELSE pc[m]]
           /\ unanswered' = unanswered \cup woken
    /\ UNCHANGED <<teamState, run, asked, cancelling, coordVars, poolVars, envVars>>

-----------------------------------------------------------------------------
MemberStep(m) ==
    \/ DriverStep(m)
    \/ FlushWakes(m) \/ RosterResume(m) \/ RosterStop(m) \/ CoordinatorStop(m)
    \/ RequestPlan(m) \/ DecideByTool(m) \/ DecideBySend(m)
    \/ TryReserve(m) \/ AssignAndFlush(m) \/ AssignFails(m)
    \/ CloseReservation(m) \/ ForeignRelease(m)

LeadStep == BeginShutdown \/ CloseTimeout \/ FinishShutdown \/ LoseLead
            \/ Attach \/ Restore

Next == (\E m \in Members : MemberStep(m)) \/ LeadStep

Spec == Init /\ [][Next]_vars

\* The steps the event loop and the operating system take by themselves.  A run
\* need not end unless it was asked to.
PromptStep(m) ==
    \/ DriveFirst(m)   \/ DriveWaits(m)       \/ DriveRefused(m)
    \/ DriveGranted(m) \/ DriveLockBusy(m)
    \/ DriveStart(m)   \/ DriveStartRaises(m)
    \/ DriveCreated(m) \/ DriveCreateFails(m)
    \/ DriveUnwound(m) \/ DriveCloses(m)
    \/ CancelledUnstarted(m) \/ CancelledWaiting(m) \/ CancelledRunning(m)
    \/ asked[m] # "no" /\ DriveRunEnds(m)

\* Ready tasks run, cancelled runs stop, a delivery cycle comes back from git,
\* and a shutdown or an attachment that began carries on.
Fairness ==
    /\ \A m \in Members :
         /\ WF_vars(PromptStep(m))
         /\ WF_vars(AssignAndFlush(m) \/ AssignFails(m))
         /\ WF_vars(CloseReservation(m)) /\ WF_vars(ForeignRelease(m))
    /\ WF_vars(Restore) /\ WF_vars(CloseTimeout) /\ WF_vars(FinishShutdown)

FairSpec == Spec /\ Fairness

\* Every run ends by itself as well: 20 iterations, timeouts of the model client
\* and of the tools.
LiveSpec == FairSpec /\ \A m \in Members : WF_vars(DriveRunEnds(m))

-----------------------------------------------------------------------------
\* One run per member (F53, N13): exactly the RUNNING members have an active run,
\* and while a Lead is attached that run is the one in the hands of the member's
\* driver, which holds a capacity slot for it.  (A commit that fails at the end of
\* a run leaves the member RUNNING without a driver until it is stopped.)
RunningIsDriven ==
    \A m \in Members :
        /\ (activeRun[m] # 0) <=> (status[m] = "running")
        /\ (HasLease /\ status[m] = "running") =>
               /\ faults = 0 => pc[m] \in {"creating", "running", "unwinding"}
               /\ pc[m] \in {"creating", "running", "unwinding"} =>
                      activeRun[m] = run[m] /\ run[m] = gen[m] /\ m \in active

\* The queue has one entry per member, every QUEUED member has one, and an entry
\* left behind belongs to a member that asked for a plan approval meanwhile.
QueueMatchesStatus ==
    /\ IsInjective(queue)
    /\ \A m \in Members :
         /\ status[m] = "queued" => InQueue(m)
         /\ InQueue(m) => status[m] \in {"queued", "awaiting"}

\* Slots and drivers agree: a slot is held by a driver past its acquisition or by
\* a reservation, and no driver runs a model without one.
SlotsMatchDrivers ==
    \A m \in Members :
        /\ place[m] = "waiting" <=> pc[m] = "capacity"
        /\ place[m] = "holding" <=> pc[m] \in {"lock", "creating", "running",
                                                 "unwinding", "closing"}
        /\ place[m] = "reserved" => m \in reserved \/ Closing

\* The pool's own promise, under this use of it.
PoolSafe == Pool!WithinLimit /\ Pool!NoLeakedSlot /\ Pool!WorkConserving

\* Status, run, driver, queue entry and slot of a member always tell the same story.
DriversAccounted == RunningIsDriven /\ QueueMatchesStatus /\ SlotsMatchDrivers /\ PoolSafe

\* A result that arrives for a run that is no longer the member's own changes
\* nothing: whoever stopped, paused or restarted the member meanwhile wins.
StaleResultRejected ==
    [][\A m \in Members :
         (pc[m] \in {"running", "unwinding"} /\ pc'[m] = "closing" /\ activeRun[m] # run[m])
            => UNCHANGED <<status[m], activeRun[m]>>]_vars

\* A driver whose run was told to stop, or that was cancelled, ends: nothing it
\* still waits for (capacity, the recovery lock, an event) can hold it for ever.
StoppedDriversEnd ==
    \A m \in Members :
        (pc[m] # "none" /\ (asked[m] # "no" \/ m \in cancelling)) ~> (pc[m] = "none")

\* N15: a shutdown that began ends, even if a run would never end by itself or is
\* started while the shutdown is under way.
ShutdownEnds == Closing ~> (lead = "detached")

-----------------------------------------------------------------------------
\* F16: a member that was stopped is set going again by the Lead's resume only, and
\* not by a message, a decision on its plan, the coordinator, a result that comes
\* late or a new Lead.  The one way round it is that of TransitionsAreLegal: the run
\* that is still in the hands of its driver asks for a plan approval.
StoppedUntilResumed ==
    [][\A m \in Members :
         (status[m] = "stopped" /\ status'[m] # "stopped")
            => \/ RosterResume(m)
               \/ pc[m] \in {"running", "unwinding"} /\ status'[m] = "awaiting"]_vars

\* F15, AC10, and the error raised by transition_member: no step takes a member
\* along an edge that is not in the transition table.  A plan request does not
\* consult it, and takes a member that was stopped to AWAITING_APPROVAL.
TransitionsAreLegal ==
    [][\A m \in Members : LegalStep(status[m], status'[m])]_vars

\* N13 and "no wake is lost": while a Lead stays attached, a QUEUED member does
\* not stay QUEUED for ever.
WakeNotLost ==
    \A m \in Members :
        (status[m] = "queued") ~> (status[m] # "queued" \/ lead # "attached")
=============================================================================
