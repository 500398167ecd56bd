----------------------------- MODULE TeamLease ------------------------------
(***************************************************************************)
(* The Lead lease (teams/leases.py), the compare-and-swap of the team      *)
(* state (teams/repository.py), and the coordinator's use of both          *)
(* (attach, maintenance loop, close in teams/coordinator.py).              *)
(*                                                                         *)
(* Several processes on one machine share the files.  The lease has a file *)
(* and a lock of its own, the state another; a commit reads the lease file *)
(* without the lease's lock.  Inside one process nothing awaits between    *)
(* the load of a mutation and its commit, so a process is at one place at  *)
(* a time; between processes everything interleaves, and a process may be  *)
(* stopped for longer than a lease lasts, or die, anywhere.  An operation  *)
(* that outlives the attachment it began under keeps the fence of its      *)
(* actor, as one of the other processes here does that is slow.            *)
(***************************************************************************)
EXTENDS Naturals, Sequences

CONSTANTS Procs,       \* processes that may attach the team
          NoProc,
          Expiry,      \* ticks without a heartbeat after which a lease expires
          Attempts,    \* TeamMutationRunner max_attempts
          MaxGen,      \* bound: leases granted
          MaxCommits   \* bound: commits of the team state

ASSUME ProcAssumption  == NoProc \notin Procs
ASSUME BoundAssumption == /\ Expiry \in Nat \ {0} /\ Attempts \in Nat \ {0}
                          /\ MaxGen \in Nat /\ MaxCommits \in Nat

VARIABLES
    \* files
    lease,      \* the lease file: generation, ticks since its heartbeat
    leaseLock,  \* who has the lock of the lease
    stateLock,  \* who has the lock of the team state
    log,        \* the commits of the team state; its revision is Len(log)
    \* processes
    pc,         \* where each is
    fence,      \* the generation of the lease each was granted
    snap,       \* the revision each has loaded
    tries,      \* attempts left of the mutation in flight
    heart       \* the maintenance loop of each: not begun, beating, ended

files == <<lease, leaseLock, stateLock, log>>
procs == <<pc, fence, snap, tries, heart>>
vars  == <<files, procs>>

Places == {"out", "confirming", "leading", "loading", "loaded", "checking",
           "writing"}

TypeOK ==
    /\ lease \in [gen : Nat, age : 0..Expiry]
    /\ leaseLock \in Procs \cup {NoProc}
    /\ stateLock \in Procs \cup {NoProc}
    /\ log \in Seq([gen : Nat, base : Nat])
    /\ pc \in [Procs -> Places]
    /\ fence \in [Procs -> Nat]
    /\ snap \in [Procs -> Nat]
    /\ tries \in [Procs -> 0..Attempts]
    /\ heart \in [Procs -> {"attaching", "beating", "stopped"}]

\* A team that was just created.
Init ==
    /\ lease = [gen |-> 0, age |-> Expiry]
    /\ leaseLock = NoProc /\ stateLock = NoProc
    /\ log = <<>>
    /\ pc = [p \in Procs |-> "out"]
    /\ fence = [p \in Procs |-> 0]
    /\ snap = [p \in Procs |-> 0]
    /\ tries = [p \in Procs |-> 0]
    /\ heart = [p \in Procs |-> "stopped"]

Goto(p, at) == pc' = [pc EXCEPT ![p] = at]

\* A mutation returns or raises, and its local variables are gone.
Return(p) ==
    /\ Goto(p, "leading")
    /\ snap' = [snap EXCEPT ![p] = 0]
    /\ tries' = [tries EXCEPT ![p] = 0]

\* So is everything the attachment or the process kept.
Forget(p) ==
    /\ Goto(p, "out")
    /\ fence' = [fence EXCEPT ![p] = 0]
    /\ snap' = [snap EXCEPT ![p] = 0]
    /\ tries' = [tries EXCEPT ![p] = 0]
    /\ heart' = [heart EXCEPT ![p] = "stopped"]

Expired == lease.age = Expiry
Current(p) == lease.gen = fence[p]

-----------------------------------------------------------------------------
(* TeamLeaseService *)

\* acquire, up to its sleep(0): the lease that was read has expired.
AcquireRead(p) ==
    /\ pc[p] = "out" /\ leaseLock = NoProc /\ Expired
    /\ leaseLock' = p
    /\ Goto(p, "confirming")
    /\ UNCHANGED <<lease, stateLock, log, fence, snap, tries, heart>>

BugAcquireWrite(p) ==  \* the generation is not increased
    /\ pc[p] = "confirming"
    /\ lease' = [gen |-> IF lease.gen = 0 THEN 1 ELSE lease.gen, age |-> 0]
    /\ fence' = [fence EXCEPT ![p] = lease'.gen]
    /\ leaseLock' = NoProc
    /\ Goto(p, "leading")
    /\ heart' = [heart EXCEPT ![p] = "attaching"]
    /\ UNCHANGED <<stateLock, log, snap, tries>>

\* The file is unchanged (the lock was held all the time): a new generation.  The
\* rest of attach runs without a heartbeat.
AcquireWrite(p) ==
    /\ pc[p] = "confirming" /\ lease.gen < MaxGen
    /\ lease' = [gen |-> lease.gen + 1, age |-> 0]
    /\ fence' = [fence EXCEPT ![p] = lease.gen + 1]
    /\ leaseLock' = NoProc
    /\ Goto(p, "leading")
    /\ heart' = [heart EXCEPT ![p] = "attaching"]
    /\ UNCHANGED <<stateLock, log, snap, tries>>

\* attach is done: its last step starts the maintenance loop.
Attached(p) ==
    /\ pc[p] = "leading" /\ heart[p] = "attaching"
    /\ heart' = [heart EXCEPT ![p] = "beating"]
    /\ UNCHANGED <<files, pc, fence, snap, tries>>

\* The heartbeat of the maintenance loop.
Renew(p) ==
    /\ pc[p] = "leading" /\ heart[p] = "beating"
    /\ leaseLock = NoProc /\ Current(p) /\ ~Expired
    /\ lease' = [lease EXCEPT !.age = 0]
    /\ UNCHANGED <<leaseLock, stateLock, log, procs>>

\* renew raises: the lease is somebody else's or has expired, or its lock is busy.
\* The loop reports lease_lost, closes the services and ends; an operation in flight
\* may still try to commit.
RenewFails(p) ==
    /\ pc[p] = "leading" /\ heart[p] = "beating"
    /\ leaseLock # NoProc \/ ~Current(p) \/ Expired
    /\ heart' = [heart EXCEPT ![p] = "stopped"]
    /\ UNCHANGED <<files, pc, fence, snap, tries>>

\* release, at the end of detach and close, and when attach fails: the heartbeat is
\* set back to 1970, unless the lease is another one's by now.
Release(p) ==
    /\ pc[p] = "leading" /\ leaseLock = NoProc
    /\ lease' = IF Current(p) THEN [lease EXCEPT !.age = Expiry] ELSE lease
    /\ Forget(p)
    /\ UNCHANGED <<leaseLock, stateLock, log>>

\* release raises, its lock being busy: the loop has been cancelled, and after detach
\* and close the attachment is still there.  (After attach it is not: as in Crash.)
ReleaseFails(p) ==
    /\ pc[p] = "leading" /\ heart[p] = "beating" /\ leaseLock # NoProc
    /\ heart' = [heart EXCEPT ![p] = "stopped"]
    /\ UNCHANGED <<files, pc, fence, snap, tries>>

Tick ==
    /\ ~Expired
    /\ lease' = [lease EXCEPT !.age = @ + 1]
    /\ UNCHANGED <<leaseLock, stateLock, log, procs>>

-----------------------------------------------------------------------------
(* TeamMutationRunner.run and TeamRepository.compare_and_swap *)

BeginMutation(p) ==
    /\ pc[p] = "leading" /\ Len(log) < MaxCommits
    /\ Goto(p, "loading")
    /\ tries' = [tries EXCEPT ![p] = Attempts]
    /\ UNCHANGED <<files, fence, snap, heart>>

\* load() and the transform of what it returned.
Load(p) ==
    /\ pc[p] = "loading"
    /\ snap' = [snap EXCEPT ![p] = Len(log)]
    /\ Goto(p, "loaded")
    /\ UNCHANGED <<files, fence, tries, heart>>

LockState(p) ==
    /\ pc[p] = "loaded" /\ stateLock = NoProc
    /\ stateLock' = p
    /\ Goto(p, "checking")
    /\ UNCHANGED <<lease, leaseLock, log, fence, snap, tries, heart>>

BugConflict(p) ==  \* the attempts are not limited
    /\ Goto(p, "loading")
    /\ snap' = [snap EXCEPT ![p] = 0]
    /\ tries' = [tries EXCEPT ![p] = @ - 1]

\* TeamConflictError: the next attempt loads again, or the mutation raises.
Conflict(p) ==
    \/ /\ tries[p] > 1
       /\ Goto(p, "loading")
       /\ snap' = [snap EXCEPT ![p] = 0]
       /\ tries' = [tries EXCEPT ![p] = @ - 1]
    \/ tries[p] = 1 /\ Return(p)

LockBusy(p) ==
    /\ pc[p] = "loaded" /\ stateLock # NoProc
    /\ Conflict(p)
    /\ UNCHANGED <<files, fence, heart>>

RevisionConflict(p) ==
    /\ pc[p] = "checking" /\ snap[p] # Len(log)
    /\ stateLock' = NoProc
    /\ Conflict(p)
    /\ UNCHANGED <<lease, leaseLock, log, fence, heart>>

BugFenceAccepts(p) ==  \* without the comparison of the revision
    /\ pc[p] = "checking"
    /\ Current(p) /\ ~Expired
    /\ Goto(p, "writing")
    /\ UNCHANGED <<files, fence, snap, tries, heart>>

BugStaleFenceAccepted(p) ==  \* only the age of the lease is looked at
    /\ pc[p] = "checking" /\ snap[p] = Len(log)
    /\ ~Expired
    /\ Goto(p, "writing")
    /\ UNCHANGED <<files, fence, snap, tries, heart>>

\* The revision is the one loaded, the lease file names this process's lease, and
\* its heartbeat is young enough.
FenceAccepts(p) ==
    /\ pc[p] = "checking" /\ snap[p] = Len(log)
    /\ Current(p) /\ ~Expired
    /\ Goto(p, "writing")
    /\ UNCHANGED <<files, fence, snap, tries, heart>>

\* TeamLeaseError: the mutation raises.
FenceRefuses(p) ==
    /\ pc[p] = "checking" /\ snap[p] = Len(log)
    /\ ~Current(p) \/ Expired
    /\ stateLock' = NoProc
    /\ Return(p)
    /\ UNCHANGED <<lease, leaseLock, log, fence, heart>>

BugWrite(p) ==  \* the lock is given back before the file is replaced
    /\ pc[p] = "writing"
    /\ IF stateLock = p
       THEN stateLock' = NoProc /\ UNCHANGED <<log, pc, snap, tries>>
       ELSE /\ log' = Append(log, [gen |-> fence[p], base |-> snap[p]])
            /\ Return(p) /\ UNCHANGED stateLock
    /\ UNCHANGED <<lease, leaseLock, fence, heart>>

\* atomic_write replaces the file.  (It may still raise afterwards, from the fsync of
\* the directory: then the caller is told of a failure, and the commit stands.)
Write(p) ==
    /\ pc[p] = "writing"
    /\ log' = Append(log, [gen |-> fence[p], base |-> snap[p]])
    /\ stateLock' = NoProc
    /\ Return(p)
    /\ UNCHANGED <<lease, leaseLock, fence, heart>>

\* atomic_write raises before that: the file is the old one.
WriteFails(p) ==
    /\ pc[p] = "writing"
    /\ stateLock' = NoProc
    /\ Return(p)
    /\ UNCHANGED <<lease, leaseLock, log, fence, heart>>

-----------------------------------------------------------------------------
\* The operating system gives back the locks of a process that dies.  An
\* acquire that is cancelled leaves the same behind.
Crash(p) ==
    /\ pc[p] # "out"
    /\ leaseLock' = IF leaseLock = p THEN NoProc ELSE leaseLock
    /\ stateLock' = IF stateLock = p THEN NoProc ELSE stateLock
    /\ Forget(p)
    /\ UNCHANGED <<lease, log>>

Step(p) ==
    \/ AcquireRead(p) \/ AcquireWrite(p) \/ Attached(p)
    \/ Renew(p) \/ RenewFails(p) \/ Release(p) \/ ReleaseFails(p)
    \/ BeginMutation(p) \/ Load(p) \/ LockState(p) \/ LockBusy(p)
    \/ RevisionConflict(p) \/ FenceAccepts(p) \/ FenceRefuses(p) \/ Write(p) \/ WriteFails(p)
    \/ Crash(p)

Next == Tick \/ \E p \in Procs : Step(p)

Spec == Init /\ [][Next]_vars

-----------------------------------------------------------------------------
\* No update is lost: every commit was computed from the revision before it, also
\* when two processes believe they lead.
NoLostUpdate == \A i \in DOMAIN log : log[i].base = i - 1

\* Once a commit of a new Lead is in the state, no commit of an earlier Lead follows
\* ("旧 Lead 即使在进程暂停后恢复，也无法继续写入新一代团队状态",
\* docs/phase-14a-team-core/plan.md).
GenerationsInOrder ==
    \A i, j \in DOMAIN log : i < j => log[i].gen <= log[j].gen

\* Two processes never hold a lease of the same generation.
LeasesDiffer ==
    \A p, q \in Procs : (p # q /\ pc[p] \notin {"out", "confirming"}
                               /\ pc[q] \notin {"out", "confirming"})
        => fence[p] # fence[q]

\* What the lease is for, whoever stalls, dies or takes over.
LeaseIsFenced == NoLostUpdate /\ GenerationsInOrder /\ LeasesDiffer

\* The lease, the fence and the two locks together implement the fenced register.
Register == INSTANCE FencedRegister WITH term <- lease.gen
ImplementsRegister == Register!Spec

=============================================================================
