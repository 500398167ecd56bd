----------------------- MODULE LeaseAndArchiveProofs ------------------------
(***************************************************************************)
(* Two directories that processes share behind locks: the team's state,    *)
(* and the archives of conversations.                                      *)
(*                                                                         *)
(* For any number of processes, any expiry, any number of attempts: the    *)
(* lease and the repository implement the fenced register, no update is    *)
(* lost, and the commits are in the order of the leases.                   *)
(*                                                                         *)
(* The two locks are what the argument rests on.  The lease's lock makes   *)
(* the generation grow by one with every grant, so that holders' fences    *)
(* differ.  The state's lock makes what the fence check has seen of the    *)
(* log still true when the file is replaced: that nothing has been         *)
(* committed since the load, and nothing by a later lease.  What the check *)
(* saw of the lease need not be true any more, and the proof never uses    *)
(* that it is.                                                             *)
(*                                                                         *)
(* For any number of sessions of a workspace and any limit of failures:    *)
(* compaction loses no message and gives up after repeated failures.  A    *)
(* record is numbered after all the others, and names an earlier one: so   *)
(* what can be reached from the summary does not change when a record is   *)
(* written or discarded after it, and what an accepted summary makes       *)
(* reachable is its record and all that was reachable before.              *)
(***************************************************************************)
EXTENDS TeamLease, ContextArchive, SequenceTheorems, TLAPS

-----------------------------------------------------------------------------
(***************************************************************************)
(* The lease and the repository.                                           *)
(***************************************************************************)

Holds(p) == pc[p] \notin {"out", "confirming"}

\* A process in a critical section has the lock of it.
LocksHeld ==
    \A p \in Procs :
        /\ pc[p] = "confirming" => leaseLock = p
        /\ pc[p] \in {"checking", "writing"} => stateLock = p

\* A holder's fence is a generation that was granted.
FencesGranted == \A p \in Procs : Holds(p) => fence[p] \in 1..lease.gen

\* No commit is of a lease that was never granted.
CommitsGranted == \A i \in DOMAIN log : log[i].gen <= lease.gen

\* What the check of a commit has established, until the file is replaced.
Checked ==
    \A p \in Procs : pc[p] = "writing" =>
        /\ snap[p] = Len(log)
        /\ \A i \in DOMAIN log : log[i].gen <= fence[p]

IInv == /\ TypeOK /\ LocksHeld /\ FencesGranted /\ CommitsGranted /\ Checked
        /\ LeasesDiffer /\ NoLostUpdate /\ GenerationsInOrder

-----------------------------------------------------------------------------
\* Init establishes the invariant: no one holds anything.
LEMMA InitInv == Init => IInv
BY ProcAssumption, BoundAssumption
   DEF Init, IInv, TypeOK, Places, LocksHeld, FencesGranted, CommitsGranted, Checked,
       Holds, LeasesDiffer, NoLostUpdate, GenerationsInOrder

\* The attempts left stay within their range, because one that is the last is not
\* counted down.
LEMMA ConflictType ==
    ASSUME TypeOK, NEW p \in Procs, Conflict(p)
    PROVE  snap' \in [Procs -> Nat] /\ tries' \in [Procs -> 0..Attempts]
<1> USE BoundAssumption DEF TypeOK
<1>1. CASE tries[p] = 1
  <2>1. 0 \in 0..Attempts /\ ~(tries[p] > 1)
    BY <1>1
  <2>2. tries' = [tries EXCEPT ![p] = 0] /\ snap' = [snap EXCEPT ![p] = 0]
    BY <2>1 DEF Conflict, Return
  <2> QED  BY <2>1, <2>2
<1>2. CASE tries[p] > 1
  <2>1. tries[p] \in 0..Attempts
    OBVIOUS
  <2>2. tries[p] - 1 \in 0..Attempts
    BY <2>1, <1>2
  <2>3. ~(tries[p] = 1)
    BY <1>2, <2>1
  <2>4. tries' = [tries EXCEPT ![p] = tries[p] - 1] /\ snap' = [snap EXCEPT ![p] = 0]
    BY <2>3 DEF Conflict
  <2> QED  BY <2>2, <2>4
<1> QED  BY <1>1, <1>2 DEF Conflict

\* Every action keeps the type invariant.
LEMMA TypeStep == TypeOK /\ [Next]_vars => TypeOK'
<1> SUFFICES ASSUME TypeOK, [Next]_vars PROVE TypeOK'
    OBVIOUS
<1> USE ProcAssumption, BoundAssumption DEF TypeOK, Places, Goto, Return, Forget
<1>1. CASE UNCHANGED vars
  BY <1>1 DEF vars, files, procs
<1>2. CASE Tick
  <2>1. lease' \in [gen : Nat, age : 0..Expiry]
    <3>1. lease.age \in 0..Expiry /\ lease.age # Expiry
      BY <1>2 DEF Tick, Expired
    <3>2. lease.age + 1 \in 0..Expiry
      BY <3>1
    <3> QED  BY <1>2, <3>2 DEF Tick
  <2> QED  BY <1>2, <2>1 DEF Tick, procs
<1>3. ASSUME NEW p \in Procs, Step(p) PROVE TypeOK'
  <2>1. CASE AcquireRead(p)
    BY <2>1 DEF AcquireRead
  <2>2. CASE AcquireWrite(p)
    <3>1. lease.gen + 1 \in Nat /\ 0 \in 0..Expiry
      OBVIOUS
    <3>2. lease' \in [gen : Nat, age : 0..Expiry] /\ fence' \in [Procs -> Nat]
      BY <2>2, <3>1 DEF AcquireWrite
    <3> QED  BY <2>2, <3>2 DEF AcquireWrite
  <2>3. CASE Attached(p)
    BY <2>3 DEF Attached, files
  <2>4. CASE Renew(p)
    <3>1. lease' \in [gen : Nat, age : 0..Expiry]
      <4>1. 0 \in 0..Expiry
        OBVIOUS
      <4> HIDE DEF Goto, Return, Forget, Places
      <4> QED  BY <2>4, <4>1 DEF Renew
    <3> QED  BY <2>4, <3>1 DEF Renew, procs
  <2>5. CASE RenewFails(p)
    BY <2>5 DEF RenewFails, files
  <2>6. CASE Release(p)
    <3>1. lease' \in [gen : Nat, age : 0..Expiry]
      <4>1. Expiry \in 0..Expiry
        OBVIOUS
      <4>2. \/ lease' = lease
            \/ lease' = [lease EXCEPT !.age = Expiry]
        BY <2>6 DEF Release
      <4> QED  BY <4>1, <4>2
    <3> QED  BY <2>6, <3>1 DEF Release
  <2>7. CASE ReleaseFails(p)
    BY <2>7 DEF ReleaseFails, files
  <2>8. CASE BeginMutation(p)
    BY <2>8 DEF BeginMutation, files
  <2>9. CASE Load(p)
    BY <2>9 DEF Load, files
  <2>10. CASE LockState(p)
    BY <2>10 DEF LockState
  <2>11. CASE LockBusy(p)
    <3>1. snap' \in [Procs -> Nat] /\ tries' \in [Procs -> 0..Attempts]
      BY <2>11, ConflictType DEF LockBusy
    <3> QED  BY <2>11, <3>1 DEF LockBusy, Conflict, files
  <2>12. CASE RevisionConflict(p)
    <3>1. snap' \in [Procs -> Nat] /\ tries' \in [Procs -> 0..Attempts]
      BY <2>12, ConflictType DEF RevisionConflict
    <3> QED  BY <2>12, <3>1 DEF RevisionConflict, Conflict
  <2>13. CASE FenceAccepts(p)
    BY <2>13 DEF FenceAccepts, files
  <2>14. CASE FenceRefuses(p)
    BY <2>14 DEF FenceRefuses
  <2>15. CASE Write(p)
    <3>1. [gen |-> fence[p], base |-> snap[p]] \in [gen : Nat, base : Nat]
      OBVIOUS
    <3>2. log' \in Seq([gen : Nat, base : Nat])
      BY <2>15, <3>1 DEF Write
    <3> QED  BY <2>15, <3>2 DEF Write
  <2>16. CASE WriteFails(p)
    BY <2>16 DEF WriteFails
  <2>17. CASE Crash(p)
    BY <2>17 DEF Crash
  <2> QED
    BY <1>3, <2>1, <2>2, <2>3, <2>4, <2>5, <2>6, <2>7, <2>8, <2>9, <2>10, <2>11,
       <2>12, <2>13, <2>14, <2>15, <2>16, <2>17 DEF Step
<1> QED  BY <1>1, <1>2, <1>3 DEF Next

-----------------------------------------------------------------------------
\* Every step is one of four kinds; the conjuncts of the invariant are about the log,
\* the generation and who holds what, and each kind disturbs one of these.

\* A commit carries a number.
LEMMA CommitType == TypeOK => \A i \in DOMAIN log : log[i].gen \in Nat
<1> DEFINE C == [gen : Nat, base : Nat]
<1> SUFFICES ASSUME TypeOK, NEW i \in DOMAIN log PROVE log[i].gen \in Nat
  OBVIOUS
<1>1. log \in Seq(C)
  BY DEF TypeOK
<1>2. DOMAIN log = 1..Len(log)
  BY <1>1
<1>3. log[i] \in C
  <2> HIDE DEF C
  <2> QED  BY <1>1, <1>2, ElementOfSeq
<1> QED  BY <1>3

\* Granting a lease: the generation grows, and the new holder has it.
LEMMA GrantStep ==
    ASSUME IInv, TypeOK', NEW p \in Procs, AcquireWrite(p)
    PROVE  IInv'
<1> USE DEF IInv, TypeOK, Places, Goto, AcquireWrite
<1>1. /\ lease'.gen = lease.gen + 1 /\ lease.gen \in Nat
      /\ pc' = [pc EXCEPT ![p] = "leading"] /\ fence' = [fence EXCEPT ![p] = lease.gen + 1]
      /\ log' = log /\ snap' = snap /\ stateLock' = stateLock
  OBVIOUS
<1>2. \A q \in Procs : pc[q] = "confirming" => q = p
  BY DEF LocksHeld
<1>3. LocksHeld'
  BY <1>1, <1>2 DEF LocksHeld
<1>4. FencesGranted'
  BY <1>1 DEF FencesGranted, Holds
<1>5. CommitsGranted'
  <2> SUFFICES ASSUME NEW i \in DOMAIN log PROVE log[i].gen <= lease.gen + 1
    BY <1>1 DEF CommitsGranted
  <2>1. log[i].gen \in Nat
    BY CommitType
  <2>2. log[i].gen \in Nat /\ log[i].gen <= lease.gen
    BY <2>1 DEF CommitsGranted
  <2> QED  BY <2>2, <1>1
<1>6. Checked'
  BY <1>1 DEF Checked
<1>7. LeasesDiffer'
  <2>1. /\ pc \in [Procs -> Places] /\ fence \in [Procs -> Nat]
        /\ FencesGranted /\ LeasesDiffer
    OBVIOUS
  <2>2. \A q \in Procs \ {p} : Holds(q)' => /\ Holds(q) /\ fence'[q] = fence[q]
                                          /\ fence'[q] <= lease.gen
    BY <1>1, <2>1 DEF FencesGranted, Holds
  <2>3. fence'[p] = lease.gen + 1
    BY <1>1, <2>1
  <2> HIDE DEF IInv, TypeOK, Places, Goto, AcquireWrite
  <2>4. \A q \in Procs \ {p} : Holds(q)' => fence'[q] # fence'[p]
    BY <1>1, <2>2, <2>3
  <2> QED  BY <2>1, <2>2, <2>4 DEF LeasesDiffer, Holds
<1>8. NoLostUpdate' /\ GenerationsInOrder'
  BY <1>1 DEF NoLostUpdate, GenerationsInOrder
<1> QED  BY <1>3, <1>4, <1>5, <1>6, <1>7, <1>8

\* Replacing the state file: what was checked still holds, so the commit extends the
\* log in order; and no one else is about to write.
LEMMA WriteStep ==
    ASSUME IInv, TypeOK', NEW p \in Procs, Write(p)
    PROVE  IInv'
<1> DEFINE c == [gen |-> fence[p], base |-> snap[p]]
<1>1. /\ pc[p] = "writing" /\ pc' = [pc EXCEPT ![p] = "leading"]
      /\ log' = Append(log, c) /\ lease' = lease /\ fence' = fence
      /\ leaseLock' = leaseLock
  BY DEF Write, Return, Goto
<1>2. /\ log \in Seq([gen : Nat, base : Nat]) /\ c \in [gen : Nat, base : Nat]
      /\ pc \in [Procs -> Places] /\ fence[p] \in Nat /\ lease.gen \in Nat
  BY DEF IInv, TypeOK
<1>3. /\ Len(log') = Len(log) + 1 /\ Len(log) \in Nat
      /\ \A i \in 1..Len(log) : log'[i] = log[i]
      /\ log'[Len(log) + 1] = c
      /\ DOMAIN log = 1..Len(log) /\ DOMAIN log' = 1..(Len(log) + 1)
  BY <1>1, <1>2
<1>4. \A i \in 1..Len(log) : log[i].gen \in Nat
  BY <1>3, CommitType DEF IInv
<1>5. snap[p] = Len(log) /\ \A i \in 1..Len(log) : log[i].gen <= fence[p]
  BY <1>1, <1>3 DEF IInv, Checked
<1>6. \A q \in Procs : pc[q] \in {"checking", "writing"} => q = p
  BY <1>1 DEF IInv, LocksHeld
<1>7. TypeOK' /\ LocksHeld'
  BY <1>1, <1>2, <1>6 DEF IInv, LocksHeld
<1>8. FencesGranted' /\ LeasesDiffer'
  BY <1>1, <1>2 DEF IInv, FencesGranted, LeasesDiffer, Holds
<1>9. CommitsGranted'
  <2>1. fence[p] <= lease.gen
    BY <1>1, <1>2 DEF IInv, FencesGranted, Holds
  <2> QED  BY <2>1, <1>1, <1>2, <1>3 DEF IInv, CommitsGranted
<1>10. Checked'
  BY <1>1, <1>2, <1>6 DEF Checked
<1>11. NoLostUpdate'
  BY <1>3, <1>5 DEF IInv, NoLostUpdate
<1>12. GenerationsInOrder'
  <2> SUFFICES ASSUME NEW i \in DOMAIN log', NEW j \in DOMAIN log', i < j
               PROVE  log'[i].gen <= log'[j].gen
    BY DEF GenerationsInOrder
  <2>1. i \in 1..Len(log)
    BY <1>3
  <2>2. CASE j \in 1..Len(log)
    BY <2>1, <2>2, <1>3 DEF IInv, GenerationsInOrder
  <2>3. CASE j = Len(log) + 1
    BY <2>1, <2>3, <1>3, <1>5
  <2> QED  BY <1>3, <2>2, <2>3
<1> QED  BY <1>7, <1>8, <1>9, <1>10, <1>11, <1>12 DEF IInv

\* The check of a commit: from the next state on, what it has seen is remembered.
LEMMA CheckStep ==
    ASSUME IInv, TypeOK', NEW p \in Procs, FenceAccepts(p)
    PROVE  IInv'
<1>1. /\ pc[p] = "checking" /\ snap[p] = Len(log) /\ lease.gen = fence[p]
      /\ pc' = [pc EXCEPT ![p] = "writing"]
      /\ UNCHANGED <<lease, leaseLock, stateLock, log, fence, snap>>
  BY DEF FenceAccepts, Goto, Current, files
<1>2. pc \in [Procs -> Places]
  BY DEF IInv, TypeOK
<1>3. LocksHeld' /\ FencesGranted' /\ LeasesDiffer'
  BY <1>1, <1>2 DEF IInv, LocksHeld, FencesGranted, LeasesDiffer, Holds
<1>4. Checked'
  BY <1>1, <1>2 DEF IInv, Checked, CommitsGranted
<1>5. CommitsGranted' /\ NoLostUpdate' /\ GenerationsInOrder'
  BY <1>1 DEF IInv, CommitsGranted, NoLostUpdate, GenerationsInOrder
<1> QED  BY <1>3, <1>4, <1>5 DEF IInv

\* Any other step of a process p: the log and the generation stay, the other
\* processes and their locks too; p enters a critical section only with its lock,
\* and keeps its fence as long as it holds a lease.
Minor(p) ==
    /\ log' = log /\ lease'.gen = lease.gen
    /\ \A q \in Procs \ {p} :
          /\ pc'[q] = pc[q] /\ fence'[q] = fence[q] /\ snap'[q] = snap[q]
          /\ leaseLock = q => leaseLock' = q
          /\ stateLock = q => stateLock' = q
    /\ pc'[p] # "writing"
    /\ pc'[p] = "confirming" => leaseLock' = p
    /\ pc'[p] = "checking" => stateLock' = p
    /\ Holds(p)' => Holds(p) /\ fence'[p] = fence[p]

\* Such a step keeps the invariant.
LEMMA MinorStep ==
    ASSUME IInv, TypeOK', NEW p \in Procs, Minor(p)
    PROVE  IInv'
<1> USE DEF IInv, Minor
<1>1. LocksHeld'
  BY DEF LocksHeld
<1>2. FencesGranted' /\ LeasesDiffer'
  BY DEF FencesGranted, LeasesDiffer, Holds
<1>3. Checked'
  BY DEF Checked
<1>4. CommitsGranted' /\ NoLostUpdate' /\ GenerationsInOrder'
  BY DEF CommitsGranted, NoLostUpdate, GenerationsInOrder
<1> QED  BY <1>1, <1>2, <1>3, <1>4

\* The invariant is inductive.
LEMMA NextInv == IInv /\ [Next]_vars => IInv'
<1> SUFFICES ASSUME IInv, [Next]_vars PROVE IInv'
  OBVIOUS
<1>1. TypeOK'
  BY TypeStep DEF IInv
<1>2. CASE UNCHANGED vars
  BY <1>2 DEF vars, files, procs, IInv, TypeOK, LocksHeld, FencesGranted, Checked,
     CommitsGranted, Holds, LeasesDiffer, NoLostUpdate, GenerationsInOrder
<1>3. CASE Tick
  <2>1. log' = log /\ lease'.gen = lease.gen
    BY <1>3 DEF Tick, procs, IInv, TypeOK
  <2>2. UNCHANGED <<pc, fence, snap, leaseLock, stateLock>>
    BY <1>3 DEF Tick, procs
  <2> QED
    BY <1>1, <2>1, <2>2 DEF IInv, LocksHeld, FencesGranted, Checked,
       CommitsGranted, Holds, LeasesDiffer, NoLostUpdate, GenerationsInOrder
<1>4. ASSUME NEW p \in Procs, Step(p) PROVE IInv'
  <2>0. /\ pc \in [Procs -> Places] /\ fence \in [Procs -> Nat]
        /\ snap \in [Procs -> Nat] /\ lease \in [gen : Nat, age : 0..Expiry]
    BY DEF IInv, TypeOK
  <2>1. CASE AcquireWrite(p)
    BY <1>1, <2>1, GrantStep
  <2>2. CASE FenceAccepts(p)
    BY <1>1, <2>2, CheckStep
  <2>3. CASE Write(p)
    BY <1>1, <2>3, WriteStep
  <2> SUFFICES ASSUME ~AcquireWrite(p), ~FenceAccepts(p), ~Write(p) PROVE Minor(p)
    BY <1>1, <2>1, <2>2, <2>3, MinorStep
  <2> USE <2>0 DEF Minor, Goto, Holds
  <2>4. CASE AcquireRead(p)
    BY <2>4, ProcAssumption DEF AcquireRead
  <2>5. CASE Attached(p)
    BY <2>5 DEF Attached, files
  <2>6. CASE Renew(p)
    BY <2>6 DEF Renew, procs
  <2>7. CASE RenewFails(p)
    BY <2>7 DEF RenewFails, files
  <2>8. CASE Release(p)
    BY <2>8 DEF Release, Forget
  <2>9. CASE ReleaseFails(p)
    BY <2>9 DEF ReleaseFails, files
  <2>10. CASE BeginMutation(p)
    BY <2>10 DEF BeginMutation, files
  <2>11. CASE Load(p)
    BY <2>11 DEF Load, files
  <2>12. CASE LockState(p)
    BY <2>12, ProcAssumption DEF LockState
  <2>13. CASE LockBusy(p)
    BY <2>13 DEF LockBusy, Conflict, Return, files
  <2>14. CASE RevisionConflict(p)
    BY <2>14 DEF RevisionConflict, Conflict, Return, IInv, LocksHeld
  <2>15. CASE FenceRefuses(p)
    BY <2>15 DEF FenceRefuses, Return, IInv, LocksHeld
  <2>16. CASE WriteFails(p)
    BY <2>16 DEF WriteFails, Return, IInv, LocksHeld
  <2>17. CASE Crash(p)
    BY <2>17 DEF Crash, Forget
  <2> QED
    BY <1>4, <2>4, <2>5, <2>6, <2>7, <2>8, <2>9, <2>10, <2>11, <2>12, <2>13, <2>14,
       <2>15, <2>16, <2>17 DEF Step
<1> QED  BY <1>2, <1>3, <1>4 DEF Next

\* The invariant holds throughout.
LEMMA InvHolds == Spec => []IInv
<1> QED  BY InitInv, NextInv, PTL DEF Spec

-----------------------------------------------------------------------------
\* The files and the processes are what they are declared to be: an expired lease
\* stays expired, the attempts of a mutation are counted down to none.
THEOREM TypeCorrect == Spec => []TypeOK
<1>1. IInv => TypeOK
  BY DEF IInv
<1> QED  BY <1>1, InvHolds, PTL

\* compare_and_swap loses no update: however many processes believe they lead, every
\* commit was computed from the revision before it.
THEOREM UpdatesKept == Spec => []NoLostUpdate
<1>1. IInv => NoLostUpdate
  BY DEF IInv
<1> QED  BY <1>1, InvHolds, PTL

\* The fence keeps a Lead that was succeeded from writing after its successor has,
\* although the lease may pass on between the check and the write.
THEOREM FenceOrders == Spec => []GenerationsInOrder
<1>1. IInv => GenerationsInOrder
  BY DEF IInv
<1> QED  BY <1>1, InvHolds, PTL

\* acquire never grants one generation twice.
THEOREM GrantsDiffer == Spec => []LeasesDiffer
<1>1. IInv => LeasesDiffer
  BY DEF IInv
<1> QED  BY <1>1, InvHolds, PTL

\* No update is lost, the commits are in the order of the Leads, and no two holders share a
\* generation, in every reachable state.
THEOREM LeaseFences == Spec => []LeaseIsFenced
<1> QED  BY UpdatesKept, FenceOrders, GrantsDiffer, PTL DEF LeaseIsFenced

-----------------------------------------------------------------------------
\* A step of the processes is a grant, a commit, or nothing to the register.
LEMMA StepRefines == IInv /\ IInv' /\ [Next]_vars => [Register!Next]_(Register!vars)
<1> SUFFICES ASSUME IInv, IInv', [Next]_vars PROVE [Register!Next]_(Register!vars)
  OBVIOUS
<1> USE DEF Register!vars
<1>1. CASE UNCHANGED vars
  BY <1>1 DEF vars, files
<1>2. CASE Tick
  BY <1>2 DEF Tick, procs, IInv, TypeOK
<1>3. ASSUME NEW p \in Procs, Step(p) PROVE [Register!Next]_(Register!vars)
  <2>1. CASE AcquireWrite(p)
    BY <2>1 DEF AcquireWrite, Register!Next, Register!Elect
  <2>2. CASE Write(p)
    <3>1. fence[p] \in 1..lease.gen
      BY <2>2 DEF Write, IInv, FencesGranted, Holds
    <3>2. snap[p] = Len(log) /\ \A i \in DOMAIN log : log[i].gen <= fence[p]
      BY <2>2 DEF Write, IInv, Checked
    <3>3. log' = Append(log, [gen |-> fence[p], base |-> Len(log)]) /\ lease' = lease
      BY <2>2, <3>2 DEF Write
    <3>4. Register!Commit(fence[p])
      BY <3>2, <3>3 DEF Register!Commit
    <3> QED  BY <3>1, <3>4 DEF Register!Next
  <2>3. CASE Renew(p)
    BY <2>3 DEF Renew, IInv, TypeOK
  <2>4. CASE Release(p)
    BY <2>4 DEF Release, IInv, TypeOK
  <2> SUFFICES ASSUME ~AcquireWrite(p), ~Write(p), ~Renew(p), ~Release(p)
               PROVE  lease' = lease /\ log' = log
    BY <2>1, <2>2, <2>3, <2>4
  <2> QED
    BY <1>3 DEF Step, AcquireRead, Attached, RenewFails, ReleaseFails, BeginMutation,
       Load, LockState, LockBusy, RevisionConflict, FenceAccepts, FenceRefuses,
       WriteFails, Crash, files
<1> QED  BY <1>1, <1>2, <1>3 DEF Next

\* The lease file, the state file, their two locks and the fence implement the
\* abstract register: to its readers the team state is one history, computed
\* commit from commit, in the order of the Leads.
THEOREM Refinement == Spec => ImplementsRegister
<1>1. Init => Register!Init
  BY DEF Init, Register!Init
<1>2. IInv /\ IInv' /\ [Next]_vars => [Register!Next]_(Register!vars)
  BY StepRefines
<1> QED  BY <1>1, <1>2, InvHolds, PTL DEF Spec, ImplementsRegister, Register!Spec

-----------------------------------------------------------------------------
(***************************************************************************)
(* The archive of a conversation.                                          *)
(***************************************************************************)

\* The records of a session are numbered from 1 to its sequence, and each names an
\* earlier one, or none.
Ordered(p) ==
    \A r \in DOMAIN records[p] : r \in 1 .. seq[p] /\ records[p][r].prev \in 0 .. r - 1

\* A session that has its directory has it for itself.
Placed(p) ==
    /\ mine[p] <= born
    /\ life[p] \in {"locking", "open", "closing"} => mine[p] # 0
    /\ \A q \in Sessions : mine[p] # 0 /\ mine[q] = mine[p] => q = p

\* A process that does not run yet remembers nothing.
Fresh(p) ==
    life[p] \in {"off", "sweeping", "locking"} =>
        /\ count[p] = 0 /\ kept[p] = {} /\ summary[p] = 0
        /\ \A m \in Messages : refs[p][m] = {}

\* A compaction under way, by a session that is open, has written its record last.
Underway(p) ==
    /\ op[p].at # "idle" => life[p] = "open"
    /\ summary[p] <= seq[p] /\ op[p].record <= seq[p]
    /\ op[p].at \in {"asking", "adopting"} => summary[p] < op[p].record
    /\ op[p].mode = "automatic" => failures[p] < FailureLimit

\* The breaker counts at least the automatic failures in a row.
Broken(p) ==
    /\ streak[p] <= failures[p] /\ streak[p] <= FailureLimit
    /\ isOpen[p] \/ failures[p] < FailureLimit

\* While nobody swept the directory: each message is in the history or can be reached,
\* placeholders name records that are there, and a compaction that may still succeed
\* has a record that holds what it takes out, and links it to the summary before.
Whole(p) ==
    life[p] = "open" /\ mine[p] \notin swept =>
        /\ kept[p] \cup Chain(p) = 1 .. count[p]
        /\ \A m \in Messages : refs[p][m] \subseteq DOMAIN records[p]
        /\ op[p].at \in {"asking", "adopting"} =>
             /\ op[p].record \in DOMAIN records[p]
             /\ records[p][op[p].record] = HistoryRecord(p, op[p].early)
             /\ op[p].early \subseteq kept[p]
             /\ \A m \in Messages : op[p].record \notin refs[p][m]

ArchiveInv ==
    /\ ContextTypeOK
    /\ records = [p \in Sessions |-> records[p]]
    /\ \A p \in Sessions : /\ Ordered(p) /\ Placed(p) /\ Fresh(p) /\ Underway(p)
                           /\ Broken(p) /\ Whole(p)

-----------------------------------------------------------------------------
(***************************************************************************)
(* The records one gets to.                                                *)
(***************************************************************************)

\* Records in which each names an earlier one, or none.
Descends(f) == DOMAIN f \subseteq Nat /\ \A r \in DOMAIN f : f[r].prev \in 0 .. r - 1

\* What is reached is one of the sets it is the smallest of.
LEMMA ReachIsLinked ==
    ASSUME NEW f, NEW s
    PROVE  Reach(f, s) \in Linked(f, s)
<1>1. Reach(f, s) \in SUBSET DOMAIN f
  BY DEF Reach
<1>2. s \in DOMAIN f => s \in Reach(f, s)
  BY DEF Reach, Linked
<1>3. ASSUME NEW r \in Reach(f, s), f[r].prev \in DOMAIN f
      PROVE  f[r].prev \in Reach(f, s)
  BY <1>3 DEF Reach, Linked
<1>4. QED
  BY <1>1, <1>2, <1>3 DEF Linked

\* It is in every such set.
LEMMA ReachIsLeast ==
    ASSUME NEW f, NEW s, NEW S \in Linked(f, s)
    PROVE  Reach(f, s) \subseteq S
BY DEF Reach

\* Nothing is reached from a record that is not there.
LEMMA ReachNone ==
    ASSUME NEW f, NEW s, s \notin DOMAIN f
    PROVE  Reach(f, s) = {}
<1>1. {} \in Linked(f, s)
  BY DEF Linked
<1>2. QED
  BY <1>1, ReachIsLeast

\* Nothing later than s is reached from s.
LEMMA ReachBelow ==
    ASSUME NEW f, NEW s \in Nat, Descends(f)
    PROVE  \A r \in Reach(f, s) : r <= s
<1> DEFINE S == {r \in DOMAIN f : r <= s}
<1>1. ASSUME NEW r \in S, f[r].prev \in DOMAIN f
      PROVE  f[r].prev \in S
  BY <1>1 DEF Descends
<1>2. S \in Linked(f, s)
  BY <1>1 DEF Linked, Descends
<1>3. QED
  BY <1>2, ReachIsLeast

\* Records after s do not matter to what is reached from s.
LEMMA ReachIn ==
    ASSUME NEW f, NEW g, NEW s \in Nat, Descends(f), Descends(g),
           \A r \in Nat : r <= s => (r \in DOMAIN f <=> r \in DOMAIN g),
           \A r \in DOMAIN f : r <= s => f[r] = g[r]
    PROVE  Reach(f, s) \subseteq Reach(g, s)
<1> DEFINE T == Reach(g, s)
<1>1. T \in Linked(g, s) /\ (\A r \in T : r <= s) /\ T \subseteq DOMAIN g
  BY ReachIsLinked, ReachBelow DEF Reach
<1>2. T \subseteq DOMAIN f /\ \A r \in T : f[r] = g[r] /\ f[r].prev \in Nat /\ f[r].prev <= s
  BY <1>1 DEF Descends
<1>3. ASSUME NEW r \in T, f[r].prev \in DOMAIN f
      PROVE  f[r].prev \in T
  <2>1. f[r].prev \in DOMAIN g /\ f[r].prev = g[r].prev
    BY <1>2, <1>3
  <2>2. QED
    BY <1>1, <2>1, <1>3 DEF Linked
<1>4. s \in DOMAIN f => s \in T
  BY <1>1 DEF Linked
<1>5. T \in Linked(f, s)
  BY <1>2, <1>3, <1>4 DEF Linked
<1>6. QED
  BY <1>5, ReachIsLeast

\* So two archives that agree up to s reach the same from s.
LEMMA ReachSame ==
    ASSUME NEW f, NEW g, NEW s \in Nat, Descends(f), Descends(g),
           \A r \in Nat : r <= s => (r \in DOMAIN f <=> r \in DOMAIN g),
           \A r \in DOMAIN f : r <= s => f[r] = g[r]
    PROVE  Reach(f, s) = Reach(g, s)
<1>1. Reach(f, s) \subseteq Reach(g, s)
  BY ReachIn
<1>2. \A r \in DOMAIN g : r <= s => g[r] = f[r]
  BY DEF Descends
<1>3. Reach(g, s) \subseteq Reach(f, s)
  BY <1>2, ReachIn
<1>4. QED
  BY <1>1, <1>3

\* From a record one gets to itself, and to all one gets to from what it names.
LEMMA ReachStep ==
    ASSUME NEW f, NEW s \in DOMAIN f
    PROVE  Reach(f, s) = {s} \cup Reach(f, f[s].prev)
<1> DEFINE t == f[s].prev
           S == {s} \cup Reach(f, t)
<1>1. Reach(f, t) \in Linked(f, t) /\ Reach(f, s) \in Linked(f, s)
  BY ReachIsLinked
<1>2. S \in Linked(f, s)
  <2>1. S \subseteq DOMAIN f
    BY DEF Reach
  <2>2. ASSUME NEW r \in S, f[r].prev \in DOMAIN f
        PROVE  f[r].prev \in S
    BY <2>2, <1>1 DEF Linked
  <2>3. QED
    BY <2>1, <2>2 DEF Linked
<1>3. Reach(f, s) \in Linked(f, t)
  BY <1>1 DEF Linked
<1>4. s \in Reach(f, s)
  BY <1>1 DEF Linked
<1>5. QED
  BY <1>2, <1>3, <1>4, ReachIsLeast
-----------------------------------------------------------------------------
(***************************************************************************)
(* What a step leaves of a session.                                        *)
(***************************************************************************)

\* All a session remembers of its conversation, and its records.
Memory(p) == <<records[p], seq[p], count[p], refs[p], kept[p], summary[p],
               op[p], failures[p], isOpen[p], streak[p]>>

Own(p) == Ordered(p) /\ Fresh(p) /\ Underway(p) /\ Broken(p) /\ Whole(p)

\* A session that has read an archive in order has one that descends.
LEMMA OrderedDescends ==
    ASSUME ContextTypeOK, NEW p \in Sessions, Ordered(p)
    PROVE  Descends(records[p])
BY DEF ContextTypeOK, Ordered, Descends

\* A session a step does not touch, and whose directory it does not bring back,
\* is as it was.
LEMMA OthersStay ==
    ASSUME NEW p \in Sessions, Own(p), Memory(p)' = Memory(p),
           life'[p] = life[p], mine'[p] = mine[p],
           life[p] = "open" /\ mine[p] \notin swept' => mine[p] \notin swept
    PROVE  Own(p)'
<1>1. /\ records'[p] = records[p] /\ seq'[p] = seq[p] /\ count'[p] = count[p]
      /\ refs'[p] = refs[p] /\ kept'[p] = kept[p] /\ summary'[p] = summary[p]
      /\ op'[p] = op[p] /\ failures'[p] = failures[p] /\ isOpen'[p] = isOpen[p]
      /\ streak'[p] = streak[p]
  BY DEF Memory
<1>2. Chain(p)' = Chain(p)
  BY <1>1 DEF Chain
<1>3. Ordered(p)' /\ Fresh(p)' /\ Underway(p)' /\ Broken(p)'
  BY <1>1 DEF Own, Ordered, Fresh, Underway, Broken
<1>4. Whole(p)'
  BY <1>1, <1>2 DEF Own, Whole, HistoryRecord
<1>5. QED
  BY <1>3, <1>4 DEF Own

\* What a step that leaves the directories alone has to be shown to do.
LEMMA ConversationStep ==
    ASSUME ArchiveInv, NEW p \in Sessions, UNCHANGED dirvars,
           \A q \in Sessions \ {p} : Memory(q)' = Memory(q),
           records' = [q \in Sessions |-> records'[q]],
           ContextTypeOK', Own(p)'
    PROVE  ArchiveInv'
<1>1. ASSUME NEW q \in Sessions
      PROVE  Own(q)'
  <2>1. CASE q = p
    BY <2>1
  <2>2. CASE q # p
    <3>1. Own(q) /\ Memory(q)' = Memory(q) /\ life'[q] = life[q] /\ mine'[q] = mine[q]
          /\ swept' = swept
      BY <2>2 DEF ArchiveInv, Own, dirvars
    <3>2. QED
      BY <3>1, OthersStay
  <2>3. QED
    BY <2>1, <2>2
<1>2. ASSUME NEW q \in Sessions
      PROVE  Placed(q)'
  BY DEF ArchiveInv, Placed, dirvars
<1>3. QED
  BY <1>1, <1>2 DEF ArchiveInv, Own
-----------------------------------------------------------------------------
(***************************************************************************)
(* The steps of a conversation.                                            *)
(***************************************************************************)

\* Records added after the last leave what is reached from a summary.
LEMMA StoredAfter ==
    ASSUME ArchiveInv, NEW p \in Sessions, NEW new, DOMAIN new \subseteq Nat,
           \A r \in DOMAIN new : r > seq[p] /\ new[r].prev \in 0 .. r - 1,
           Stored(p, new)
    PROVE  /\ DOMAIN records'[p] = DOMAIN records[p] \cup DOMAIN new
           /\ \A r \in DOMAIN new : records'[p][r] = new[r]
           /\ \A r \in DOMAIN records[p] : records'[p][r] = records[p][r]
           /\ Descends(records'[p])
           /\ Reach(records'[p], summary[p]) = Reach(records[p], summary[p])
           /\ \A q \in Sessions \ {p} : records'[q] = records[q]
           /\ records' = [q \in Sessions |-> records'[q]]
<1>0. /\ Ordered(p) /\ summary[p] \in Nat /\ seq[p] \in Nat /\ summary[p] <= seq[p]
      /\ DOMAIN records[p] \subseteq 1 .. seq[p] /\ records = [q \in Sessions |-> records[q]]
  BY DEF ArchiveInv, ContextTypeOK, Underway
<1> DEFINE g == [r \in DOMAIN records[p] \cup DOMAIN new |->
                   IF r \in DOMAIN new THEN new[r] ELSE records[p][r]]
<1>1. records' = [records EXCEPT ![p] = g]
  BY DEF Stored
<1>2. /\ DOMAIN g = DOMAIN records[p] \cup DOMAIN new
      /\ \A r \in DOMAIN new : g[r] = new[r]
      /\ \A r \in DOMAIN records[p] : r \notin DOMAIN new /\ g[r] = records[p][r]
  BY <1>0
<1> HIDE DEF g
<1>3. /\ records'[p] = g /\ \A q \in Sessions \ {p} : records'[q] = records[q]
      /\ records' = [q \in Sessions |-> records'[q]]
  BY <1>0, <1>1
<1>4. Descends(records[p])
  BY <1>0, OrderedDescends DEF ArchiveInv
<1>5. Descends(g)
  BY <1>2, <1>4 DEF Descends
<1>6. Reach(records[p], summary[p]) = Reach(g, summary[p])
  <2>1. \A r \in Nat : r <= summary[p] => (r \in DOMAIN records[p] <=> r \in DOMAIN g)
    BY <1>0, <1>2
  <2>2. \A r \in DOMAIN records[p] : r <= summary[p] => records[p][r] = g[r]
    BY <1>2
  <2>3. QED
    BY <1>0, <1>4, <1>5, <2>1, <2>2, ReachSame
<1>7. QED
  BY <1>2, <1>3, <1>5, <1>6

\* A record written after the summary goes without a trace.
LEMMA DiscardedAfter ==
    ASSUME ArchiveInv, NEW p \in Sessions, NEW r0 \in Nat, summary[p] < r0,
           Discards(p, r0)
    PROVE  /\ DOMAIN records'[p] = DOMAIN records[p] \ {r0}
           /\ \A r \in DOMAIN records'[p] : records'[p][r] = records[p][r]
           /\ Descends(records'[p])
           /\ Reach(records'[p], summary[p]) = Reach(records[p], summary[p])
           /\ \A q \in Sessions \ {p} : records'[q] = records[q]
           /\ records' = [q \in Sessions |-> records'[q]]
<1>0. /\ Ordered(p) /\ summary[p] \in Nat /\ records = [q \in Sessions |-> records[q]]
  BY DEF ArchiveInv, ContextTypeOK
<1> DEFINE g == [r \in DOMAIN records[p] \ {r0} |-> records[p][r]]
<1>1. records' = [records EXCEPT ![p] = g]
  BY DEF Discards
<1>2. DOMAIN g = DOMAIN records[p] \ {r0} /\ \A r \in DOMAIN g : g[r] = records[p][r]
  OBVIOUS
<1> HIDE DEF g
<1>3. /\ records'[p] = g /\ \A q \in Sessions \ {p} : records'[q] = records[q]
      /\ records' = [q \in Sessions |-> records'[q]]
  BY <1>0, <1>1
<1>4. Descends(records[p])
  BY <1>0, OrderedDescends DEF ArchiveInv
<1>5. Descends(g)
  BY <1>2, <1>4 DEF Descends
<1>6. Reach(records[p], summary[p]) = Reach(g, summary[p])
  <2>1. \A r \in Nat : r <= summary[p] => (r \in DOMAIN records[p] <=> r \in DOMAIN g)
    BY <1>0, <1>2
  <2>2. \A r \in DOMAIN records[p] : r <= summary[p] => records[p][r] = g[r]
    BY <1>0, <1>2
  <2>3. QED
    BY <1>0, <1>4, <1>5, <2>1, <2>2, ReachSame
<1>7. QED
  BY <1>2, <1>3, <1>5, <1>6

\* What is reached is read the same when the records reached are the same.
LEMMA ChainStays ==
    ASSUME NEW p \in Sessions,
           Reach(records'[p], summary'[p]) = Reach(records[p], summary[p]),
           \A r \in Reach(records[p], summary[p]) : records'[p][r] = records[p][r]
    PROVE  Chain(p)' = Chain(p)
BY DEF Chain

\* A committed message is in the history, with the records it names.
LEMMA CommitsKeeps ==
    ASSUME ContextAssumption, ArchiveInv, NEW p \in Sessions, NEW n \in 0 .. 2, Commits(p, n)
    PROVE  ArchiveInv'
<1> DEFINE new == seq[p] + 1 .. seq[p] + n
           m == count[p] + 1
<1>0. /\ ContextTypeOK /\ Ordered(p) /\ Fresh(p) /\ Underway(p) /\ Broken(p) /\ Whole(p)
      /\ records = [q \in Sessions |-> records[q]]
      /\ seq[p] \in Nat /\ count[p] \in Nat /\ summary[p] \in Nat
  BY DEF ArchiveInv, ContextTypeOK
<1>1. /\ life[p] = "open" /\ op[p] = NoOp /\ count[p] < MaxMessages /\ seq[p] + n <= MaxRecords
      /\ seq' = [seq EXCEPT ![p] = @ + n] /\ UNCHANGED <<dirvars, summary, opvars>>
  BY DEF Commits
<1>2. CASE /\ Stored(p, [r \in new |-> ToolRecord])
           /\ count' = [count EXCEPT ![p] = m]
           /\ kept' = [kept EXCEPT ![p] = @ \cup {m}]
           /\ refs' = [refs EXCEPT ![p][m] = new]
  <2> DEFINE f == [r \in new |-> ToolRecord]
  <2>1. /\ DOMAIN f \subseteq Nat
        /\ \A r \in DOMAIN f : r > seq[p] /\ f[r].prev \in 0 .. r - 1 /\ f[r] = ToolRecord
    BY <1>0 DEF ToolRecord
  <2>2. DOMAIN f = new
    OBVIOUS
  <2> HIDE DEF f
  <2>3. /\ DOMAIN records'[p] = DOMAIN records[p] \cup new
        /\ \A r \in new : records'[p][r] = ToolRecord
        /\ \A r \in DOMAIN records[p] : records'[p][r] = records[p][r]
        /\ Descends(records'[p])
        /\ Reach(records'[p], summary[p]) = Reach(records[p], summary[p])
        /\ \A q \in Sessions \ {p} : records'[q] = records[q]
        /\ records' = [q \in Sessions |-> records'[q]]
    <3>1. Stored(p, f)
      BY <1>2 DEF f
    <3>2. /\ DOMAIN records'[p] = DOMAIN records[p] \cup DOMAIN f
          /\ \A r \in DOMAIN f : records'[p][r] = f[r]
          /\ \A r \in DOMAIN records[p] : records'[p][r] = records[p][r]
          /\ Descends(records'[p])
          /\ Reach(records'[p], summary[p]) = Reach(records[p], summary[p])
          /\ \A q \in Sessions \ {p} : records'[q] = records[q]
          /\ records' = [q \in Sessions |-> records'[q]]
      BY <2>1, <3>1, StoredAfter
    <3>3. QED
      BY <2>1, <2>2, <3>2
  <2>4. seq'[p] = seq[p] + n /\ \A q \in Sessions \ {p} : seq'[q] = seq[q]
    BY <1>1 DEF ContextTypeOK, ArchiveInv
  <2>5. /\ count'[p] = m /\ kept'[p] = kept[p] \cup {m} /\ refs'[p][m] = new
        /\ \A x \in Messages \ {m} : refs'[p][x] = refs[p][x]
        /\ m \in Messages
    <3>1. m \in Messages
      BY <1>0, <1>1, ContextAssumption DEF ContextTypeOK, Messages
    <3>2. count'[p] = m /\ kept'[p] = kept[p] \cup {m}
      BY <1>0, <1>2 DEF ContextTypeOK
    <3>3. refs'[p] = [refs[p] EXCEPT ![m] = new] /\ refs[p] \in [Messages -> SUBSET RecordIds]
      BY <1>0, <1>2 DEF ContextTypeOK
    <3>4. refs'[p][m] = new /\ \A x \in Messages \ {m} : refs'[p][x] = refs[p][x]
      BY <3>1, <3>3
    <3>5. QED
      BY <3>1, <3>2, <3>4
  <2>6. ContextTypeOK'
    <3>1. count' \in [Sessions -> 0 .. MaxMessages] /\ kept' \in [Sessions -> SUBSET Messages]
      BY <1>0, <1>1, <1>2, <2>5 DEF ContextTypeOK
    <3>2. new \in SUBSET RecordIds
      BY <1>0, <1>1, ContextAssumption DEF RecordIds
    <3>3. refs' \in [Sessions -> [Messages -> SUBSET RecordIds]]
      BY <1>0, <1>2, <2>5, <3>2 DEF ContextTypeOK
    <3>4. seq' \in [Sessions -> 0 .. MaxRecords]
      BY <1>0, <1>1, ContextAssumption DEF ContextTypeOK
    <3>5. ASSUME NEW q \in Sessions
          PROVE  /\ DOMAIN records'[q] \subseteq 1 .. seq'[q]
                 /\ \A r \in DOMAIN records'[q] : /\ records'[q][r].prev \in 0 .. MaxRecords
                                                  /\ records'[q][r].ids \subseteq Messages
      <4>1. CASE q = p
        <5>1. DOMAIN records[p] \subseteq 1 .. seq[p] /\ DOMAIN records'[p] \subseteq 1 .. seq'[p]
          BY <1>0, <2>3, <2>4 DEF ContextTypeOK
        <5>2. \A r \in DOMAIN records[p] : /\ records'[p][r].prev \in 0 .. MaxRecords
                                           /\ records'[p][r].ids \subseteq Messages
          BY <1>0, <2>3 DEF ContextTypeOK
        <5>3. \A r \in new : /\ records'[p][r].prev \in 0 .. MaxRecords
                             /\ records'[p][r].ids \subseteq Messages
          BY <2>3, ContextAssumption DEF ToolRecord
        <5>4. QED
          BY <2>3, <4>1, <5>1, <5>2, <5>3
      <4>2. CASE q # p
        BY <1>0, <2>3, <2>4, <4>2 DEF ContextTypeOK
      <4>3. QED
        BY <4>1, <4>2
    <3>6. QED
      BY <1>0, <1>1, <3>1, <3>3, <3>4, <3>5 DEF ContextTypeOK, dirvars, opvars
  <2>7. Own(p)'
    <3>1. Chain(p)' = Chain(p)
      BY <1>1, <2>3, ChainStays DEF Reach
    <3>2. Whole(p)'
      <4>1. SUFFICES ASSUME mine[p] \notin swept
                     PROVE  Whole(p)'
        BY <1>1 DEF Whole, dirvars
      <4>2. /\ kept[p] \cup Chain(p) = 1 .. count[p]
            /\ \A x \in Messages : refs[p][x] \subseteq DOMAIN records[p]
        BY <1>0, <1>1, <4>1 DEF Whole
      <4>3. kept'[p] \cup Chain(p)' = 1 .. count'[p]
        BY <1>0, <2>5, <3>1, <4>2
      <4>4. \A x \in Messages : refs'[p][x] \subseteq DOMAIN records'[p]
        BY <2>3, <2>5, <4>2
      <4>5. op'[p].at = "idle"
        BY <1>1 DEF opvars, NoOp
      <4>6. QED
        BY <4>3, <4>4, <4>5 DEF Whole
    <3>3. Ordered(p)'
      BY <1>0, <2>3, <2>4 DEF Ordered, ToolRecord
    <3>4. Fresh(p)' /\ Broken(p)'
      BY <1>0, <1>1 DEF Fresh, Broken, dirvars, opvars
    <3>5. Underway(p)'
      BY <1>0, <1>1, <2>4 DEF Underway, dirvars, opvars, NoOp
    <3>6. QED
      BY <3>2, <3>3, <3>4, <3>5 DEF Own
  <2>8. \A q \in Sessions \ {p} : Memory(q)' = Memory(q)
    BY <1>0, <1>1, <1>2, <2>3, <2>4 DEF Memory, opvars, ContextTypeOK
  <2>9. QED
    BY <1>1, <2>3, <2>6, <2>7, <2>8, ConversationStep
<1>3. CASE UNCHANGED <<records, count, kept, refs>>
  <2>1. seq'[p] = seq[p] + n /\ \A q \in Sessions \ {p} : seq'[q] = seq[q]
    BY <1>1 DEF ContextTypeOK, ArchiveInv
  <2>2. ContextTypeOK'
    <3>1. seq' \in [Sessions -> 0 .. MaxRecords]
      BY <1>0, <1>1, ContextAssumption DEF ContextTypeOK
    <3>2. \A q \in Sessions : DOMAIN records[q] \subseteq 1 .. seq'[q]
      BY <1>0, <2>1 DEF ContextTypeOK
    <3>3. QED
      BY <1>0, <1>1, <1>3, <3>1, <3>2 DEF ContextTypeOK, dirvars, opvars
  <2>3. Own(p)'
    <3>1. Chain(p)' = Chain(p)
      BY <1>1, <1>3 DEF Chain
    <3>2. Whole(p)'
      BY <1>0, <1>1, <1>3, <3>1 DEF Whole, dirvars, opvars, NoOp
    <3>3. Ordered(p)' /\ Fresh(p)' /\ Broken(p)'
      BY <1>0, <1>1, <1>3, <2>1 DEF Ordered, Fresh, Broken, dirvars, opvars
    <3>5. Underway(p)'
      BY <1>0, <1>1, <1>3, <2>1 DEF Underway, dirvars, opvars, NoOp
    <3>6. QED
      BY <3>2, <3>3, <3>5 DEF Own
  <2>4. \A q \in Sessions \ {p} : Memory(q)' = Memory(q)
    BY <1>0, <1>1, <1>3, <2>1 DEF Memory, opvars
  <2>5. QED
    BY <1>0, <1>1, <1>3, <2>2, <2>3, <2>4, ConversationStep
<1>4. QED
  BY <1>2, <1>3 DEF Commits

\* An operation that is over is NoOp.
LEMMA NoOperation ==
    ASSUME ContextAssumption
    PROVE  /\ NoOp.at = "idle" /\ NoOp.mode = "none" /\ NoOp.record = 0
           /\ NoOp \in Operations
<1>1. 0 \in 0 .. MaxRecords /\ {} \in SUBSET Messages
  BY ContextAssumption
<1>2. QED
  BY <1>1 DEF NoOp, Operations

\* An operation that failed keeps how it was begun.
LEMMA FailedOperation ==
    ASSUME NEW o0 \in Operations,
           NEW mode \in {"none", "automatic", "manual"}
    PROVE  /\ [o0 EXCEPT !.at = "failing", !.mode = mode].at = "failing"
           /\ [o0 EXCEPT !.at = "failing", !.mode = mode].mode = mode
           /\ [o0 EXCEPT !.at = "failing", !.mode = mode].record = o0.record
           /\ [o0 EXCEPT !.at = "failing", !.mode = mode] \in
                Operations
BY DEF Operations

\* A compaction that has begun has a record of what it takes out, after all the others.
LEMMA BeginsKeeps ==
    ASSUME ContextAssumption, ArchiveInv, NEW p \in Sessions,
           NEW mode \in {"automatic", "manual"}, NEW early \in Beginnings(p),
           Begins(p, mode, early)
    PROVE  ArchiveInv'
<1> DEFINE r0 == seq[p] + 1
<1>0. /\ ContextTypeOK /\ Ordered(p) /\ Fresh(p) /\ Underway(p) /\ Broken(p) /\ Whole(p)
      /\ records = [q \in Sessions |-> records[q]]
      /\ seq[p] \in Nat /\ count[p] \in Nat /\ summary[p] \in Nat
  BY DEF ArchiveInv, ContextTypeOK
<1>1. /\ life[p] = "open" /\ op[p] = NoOp /\ seq[p] < MaxRecords
      /\ mode = "automatic" => ~isOpen[p]
      /\ seq' = [seq EXCEPT ![p] = @ + 1]
      /\ UNCHANGED <<dirvars, textvars, failures, isOpen, streak>>
  BY DEF Begins, Allowed, Automatic
<1>2. early \subseteq kept[p] /\ kept[p] \subseteq Messages
  BY <1>0 DEF Beginnings, ContextTypeOK
<1>3. seq'[p] = r0 /\ \A q \in Sessions \ {p} : seq'[q] = seq[q]
  BY <1>0, <1>1 DEF ContextTypeOK
<1>4. seq' \in [Sessions -> 0 .. MaxRecords]
  BY <1>0, <1>1, ContextAssumption DEF ContextTypeOK
<1>5. mode = "automatic" => failures[p] < FailureLimit
  BY <1>0, <1>1 DEF Broken
<1>6. CASE /\ Stored(p, [r \in {r0} |-> HistoryRecord(p, early)])
           /\ op' = [op EXCEPT ![p] = [at |-> "asking", mode |-> mode,
                                       early |-> early, record |-> r0]]
  <2> DEFINE f == [r \in {r0} |-> HistoryRecord(p, early)]
             o == [at |-> "asking", mode |-> mode, early |-> early, record |-> r0]
  <2>1. /\ DOMAIN f \subseteq Nat
        /\ \A r \in DOMAIN f : r > seq[p] /\ f[r].prev \in 0 .. r - 1
    BY <1>0 DEF HistoryRecord, Underway
  <2>2. DOMAIN f = {r0} /\ f[r0] = HistoryRecord(p, early)
    OBVIOUS
  <2>0. op' = [op EXCEPT ![p] = o] /\ Stored(p, f)
    BY <1>6
  <2>a. /\ o.at = "asking" /\ o.mode = mode /\ o.early = early /\ o.record = r0
        /\ o \in Operations
    BY <1>0, <1>1, <1>2, ContextAssumption DEF Operations
  <2> HIDE DEF f, o
  <2>3. /\ DOMAIN records'[p] = DOMAIN records[p] \cup {r0}
        /\ records'[p][r0] = HistoryRecord(p, early)
        /\ \A r \in DOMAIN records[p] : records'[p][r] = records[p][r]
        /\ Descends(records'[p])
        /\ Reach(records'[p], summary[p]) = Reach(records[p], summary[p])
        /\ \A q \in Sessions \ {p} : records'[q] = records[q]
        /\ records' = [q \in Sessions |-> records'[q]]
    <3>1. /\ DOMAIN records'[p] = DOMAIN records[p] \cup DOMAIN f
          /\ \A r \in DOMAIN f : records'[p][r] = f[r]
          /\ \A r \in DOMAIN records[p] : records'[p][r] = records[p][r]
          /\ Descends(records'[p])
          /\ Reach(records'[p], summary[p]) = Reach(records[p], summary[p])
          /\ \A q \in Sessions \ {p} : records'[q] = records[q]
          /\ records' = [q \in Sessions |-> records'[q]]
      BY <2>0, <2>1, StoredAfter
    <3>2. QED
      BY <2>2, <3>1
  <2>4. op'[p] = o /\ \A q \in Sessions \ {p} : op'[q] = op[q]
    BY <1>0, <2>0 DEF ContextTypeOK
  <2>5. DOMAIN records[p] \subseteq 1 .. seq[p]
    BY <1>0 DEF ContextTypeOK
  <2>6. ContextTypeOK'
    <3>1. op' \in [Sessions -> Operations]
      BY <1>0, <2>0, <2>a DEF ContextTypeOK
    <3>2. ASSUME NEW q \in Sessions
          PROVE  /\ DOMAIN records'[q] \subseteq 1 .. seq'[q]
                 /\ \A r \in DOMAIN records'[q] : /\ records'[q][r].prev \in 0 .. MaxRecords
                                                  /\ records'[q][r].ids \subseteq Messages
      <4>1. CASE q = p
        <5>1. DOMAIN records'[p] \subseteq 1 .. seq'[p]
          BY <1>0, <1>3, <2>3, <2>5
        <5>2. \A r \in DOMAIN records[p] : /\ records'[p][r].prev \in 0 .. MaxRecords
                                           /\ records'[p][r].ids \subseteq Messages
          BY <1>0, <2>3 DEF ContextTypeOK
        <5>3. records'[p][r0].prev \in 0 .. MaxRecords /\ records'[p][r0].ids \subseteq Messages
          BY <1>0, <1>2, <2>3 DEF HistoryRecord, ContextTypeOK
        <5>4. QED
          BY <2>3, <4>1, <5>1, <5>2, <5>3
      <4>2. CASE q # p
        BY <1>0, <1>3, <2>3, <4>2 DEF ContextTypeOK
      <4>3. QED
        BY <4>1, <4>2
    <3>3. QED
      BY <1>0, <1>1, <1>4, <3>1, <3>2 DEF ContextTypeOK, dirvars, textvars
  <2>7. Own(p)'
    <3>1. Chain(p)' = Chain(p)
      BY <1>1, <2>3, ChainStays DEF Reach, textvars
    <3>2. Whole(p)'
      <4>1. SUFFICES ASSUME mine[p] \notin swept
                     PROVE  Whole(p)'
        BY <1>1 DEF Whole, dirvars
      <4>2. /\ kept[p] \cup Chain(p) = 1 .. count[p]
            /\ \A m \in Messages : refs[p][m] \subseteq DOMAIN records[p]
        BY <1>0, <1>1, <4>1 DEF Whole
      <4>3. HistoryRecord(p, early)' = HistoryRecord(p, early)
        BY <1>1 DEF HistoryRecord, textvars
      <4>4. \A m \in Messages : r0 \notin refs[p][m]
        BY <1>0, <2>5, <4>2
      <4>5. /\ kept'[p] = kept[p] /\ count'[p] = count[p] /\ refs'[p] = refs[p]
            /\ op'[p].at = "asking" /\ op'[p].early = early /\ op'[p].record = r0
        BY <1>1, <2>4, <2>a DEF textvars
      <4>6. summary'[p] = summary[p]
        BY <1>1 DEF textvars
      <4>7. QED
        BY <1>2, <2>3, <3>1, <4>2, <4>3, <4>4, <4>5, <4>6 DEF Whole, HistoryRecord
    <3>3. Ordered(p)'
      <4>1. r0 \in 1 .. seq'[p] /\ HistoryRecord(p, early).prev \in 0 .. r0 - 1
        BY <1>0, <1>3 DEF HistoryRecord, Underway
      <4>2. QED
        BY <1>0, <1>3, <2>3, <4>1 DEF Ordered
    <3>4. Fresh(p)' /\ Broken(p)'
      BY <1>0, <1>1 DEF Fresh, Broken, dirvars, textvars
    <3>5. Underway(p)'
      BY <1>0, <1>1, <1>3, <1>5, <2>4, <2>a DEF Underway, dirvars, textvars
    <3>6. QED
      BY <3>2, <3>3, <3>4, <3>5 DEF Own
  <2>8. \A q \in Sessions \ {p} : Memory(q)' = Memory(q)
    BY <1>1, <1>3, <2>3, <2>4 DEF Memory, textvars
  <2>9. QED
    BY <1>1, <2>3, <2>6, <2>7, <2>8, ConversationStep
<1>7. CASE /\ op' = [op EXCEPT ![p] = [NoOp EXCEPT !.at = "failing", !.mode = mode]]
           /\ UNCHANGED records
  <2> DEFINE o == [NoOp EXCEPT !.at = "failing", !.mode = mode]
  <2>0. op' = [op EXCEPT ![p] = o]
    BY <1>7
  <2>a. /\ o.at = "failing" /\ o.mode = mode /\ o.record = 0
        /\ o \in Operations
    <3>1. mode \in {"none", "automatic", "manual"}
      OBVIOUS
    <3>2. QED
      BY <3>1, NoOperation, FailedOperation
  <2> HIDE DEF o
  <2>4. op'[p] = o /\ \A q \in Sessions \ {p} : op'[q] = op[q]
    BY <1>0, <2>0 DEF ContextTypeOK
  <2>6. ContextTypeOK'
    <3>1. op' \in [Sessions -> Operations]
      BY <1>0, <2>0, <2>a DEF ContextTypeOK
    <3>2. ASSUME NEW q \in Sessions
          PROVE  DOMAIN records[q] \subseteq 1 .. seq'[q]
      <4>1. DOMAIN records[q] \subseteq 1 .. seq[q] /\ seq[q] \in Nat
            /\ (seq'[q] = seq[q] \/ seq'[q] = seq[q] + 1)
        BY <1>0, <1>3 DEF ContextTypeOK
      <4>2. QED
        BY <4>1
    <3>3. QED
      BY <1>0, <1>1, <1>4, <1>7, <3>1, <3>2 DEF ContextTypeOK, dirvars, textvars
  <2>7. Own(p)'
    <3>1. Chain(p)' = Chain(p)
      BY <1>1, <1>7 DEF Chain, textvars
    <3>2. Whole(p)'
      BY <1>0, <1>1, <1>7, <2>4, <2>a, <3>1 DEF Whole, dirvars, textvars
    <3>3. Ordered(p)' /\ Fresh(p)' /\ Broken(p)'
      BY <1>0, <1>1, <1>3, <1>7 DEF Ordered, Fresh, Broken, dirvars, textvars
    <3>5. Underway(p)'
      BY <1>0, <1>1, <1>3, <1>5, <2>4, <2>a DEF Underway, dirvars, textvars
    <3>6. QED
      BY <3>2, <3>3, <3>5 DEF Own
  <2>8. \A q \in Sessions \ {p} : Memory(q)' = Memory(q)
    BY <1>1, <1>3, <1>7, <2>4 DEF Memory, textvars
  <2>9. QED
    BY <1>0, <1>1, <1>7, <2>6, <2>7, <2>8, ConversationStep
<1>8. QED
  BY <1>6, <1>7 DEF Begins

\* What a step that ends or continues a compaction sets of its operation.
LEMMA OperationSet ==
    ASSUME ContextTypeOK, NEW p \in Sessions, NEW o \in Operations,
           op' = [op EXCEPT ![p] = o]
    PROVE  /\ op'[p] = o /\ \A q \in Sessions \ {p} : op'[q] = op[q]
           /\ op' \in [Sessions -> Operations]
BY DEF ContextTypeOK

\* A summary that was accepted closes the breaker.
LEMMA SucceedsKeeps ==
    ASSUME ContextAssumption, ArchiveInv, NEW p \in Sessions, Succeeds(p)
    PROVE  ArchiveInv'
<1> DEFINE o == [op[p] EXCEPT !.at = "adopting"]
<1>0. /\ ContextTypeOK /\ Ordered(p) /\ Fresh(p) /\ Underway(p) /\ Broken(p) /\ Whole(p)
      /\ records = [q \in Sessions |-> records[q]]
  BY DEF ArchiveInv
<1>1. op[p].at = "asking" /\ UNCHANGED <<dirvars, records, seq, textvars>>
  BY DEF Succeeds
<1>2. op' = [op EXCEPT ![p] = o]
  BY <1>0 DEF Succeeds, ContextTypeOK
<1>3. /\ o.at = "adopting" /\ o.mode = op[p].mode /\ o.early = op[p].early
      /\ o.record = op[p].record
      /\ o \in Operations
  <2>1. op[p] \in Operations
    BY <1>0 DEF ContextTypeOK
  <2>2. QED
    BY <2>1 DEF Operations
<1> HIDE DEF o
<1>4. /\ op'[p] = o /\ \A q \in Sessions \ {p} : op'[q] = op[q]
      /\ op' \in [Sessions -> Operations]
  BY <1>0, <1>2, <1>3, OperationSet
<1>5. /\ failures' \in [Sessions -> 0 .. FailureLimit + 1] /\ isOpen' \in [Sessions -> BOOLEAN]
      /\ streak' \in [Sessions -> 0 .. FailureLimit + 1]
      /\ failures'[p] = 0 /\ streak'[p] = 0 /\ ~isOpen'[p]
      /\ \A q \in Sessions \ {p} : failures'[q] = failures[q] /\ isOpen'[q] = isOpen[q]
                                   /\ streak'[q] = streak[q]
  BY <1>0, ContextAssumption DEF Succeeds, ContextTypeOK
<1>6. ContextTypeOK'
  BY <1>0, <1>1, <1>4, <1>5 DEF ContextTypeOK, dirvars, textvars
<1>7. Own(p)'
  <2>1. Chain(p)' = Chain(p)
    BY <1>1 DEF Chain, textvars
  <2>2. Whole(p)'
    BY <1>0, <1>1, <1>3, <1>4, <2>1 DEF Whole, HistoryRecord, dirvars, textvars
  <2>3. Ordered(p)' /\ Fresh(p)'
    BY <1>0, <1>1 DEF Ordered, Fresh, dirvars, textvars
  <2>4. Broken(p)'
    BY <1>5, ContextAssumption DEF Broken
  <2>5. Underway(p)'
    BY <1>0, <1>1, <1>3, <1>4, <1>5, ContextAssumption DEF Underway, dirvars, textvars
  <2>6. QED
    BY <2>2, <2>3, <2>4, <2>5 DEF Own
<1>8. \A q \in Sessions \ {p} : Memory(q)' = Memory(q)
  BY <1>1, <1>4, <1>5 DEF Memory, textvars
<1>9. QED
  BY <1>0, <1>1, <1>6, <1>7, <1>8, ConversationStep

\* A summary that did not come takes its record with it.
LEMMA FailsKeeps ==
    ASSUME ContextAssumption, ArchiveInv, NEW p \in Sessions, Fails(p)
    PROVE  ArchiveInv'
<1> DEFINE o == [NoOp EXCEPT !.at = "failing", !.mode = op[p].mode]
<1>0. /\ ContextTypeOK /\ Ordered(p) /\ Fresh(p) /\ Underway(p) /\ Broken(p) /\ Whole(p)
      /\ records = [q \in Sessions |-> records[q]]
  BY DEF ArchiveInv
<1>1. /\ op[p].at = "asking" /\ Discards(p, op[p].record) /\ op' = [op EXCEPT ![p] = o]
      /\ UNCHANGED <<dirvars, seq, textvars, failures, isOpen, streak>>
  BY DEF Fails
<1>2. op[p].mode \in {"none", "automatic", "manual"} /\ op[p].record \in Nat
  BY <1>0, ContextAssumption DEF ContextTypeOK, Operations
<1>3. /\ o.at = "failing" /\ o.mode = op[p].mode /\ o.record = 0
      /\ o \in Operations
  BY <1>2, NoOperation, FailedOperation
<1> HIDE DEF o
<1>4. /\ op'[p] = o /\ \A q \in Sessions \ {p} : op'[q] = op[q]
      /\ op' \in [Sessions -> Operations]
  BY <1>0, <1>1, <1>3, OperationSet
<1>5. QED
  <2>1. summary[p] < op[p].record
    BY <1>0, <1>1 DEF Underway
  <2>2. /\ DOMAIN records'[p] = DOMAIN records[p] \ {op[p].record}
        /\ \A r \in DOMAIN records'[p] : records'[p][r] = records[p][r]
        /\ Reach(records'[p], summary[p]) = Reach(records[p], summary[p])
        /\ \A q \in Sessions \ {p} : records'[q] = records[q]
        /\ records' = [q \in Sessions |-> records'[q]]
    BY <1>1, <1>2, <2>1, DiscardedAfter
  <2>3. ContextTypeOK'
    <3>1. ASSUME NEW q \in Sessions
          PROVE  /\ DOMAIN records'[q] \subseteq 1 .. seq'[q]
                 /\ \A r \in DOMAIN records'[q] : /\ records'[q][r].prev \in 0 .. MaxRecords
                                                  /\ records'[q][r].ids \subseteq Messages
      BY <1>0, <1>1, <2>2 DEF ContextTypeOK
    <3>2. QED
      BY <1>0, <1>1, <1>4, <3>1 DEF ContextTypeOK, dirvars, textvars
  <2>4. Own(p)'
    <3>1. Chain(p)' = Chain(p)
      <4>1. \A r \in Reach(records[p], summary[p]) : records'[p][r] = records[p][r]
        BY <2>2 DEF Reach
      <4>2. summary'[p] = summary[p]
        BY <1>1 DEF textvars
      <4>3. QED
        BY <2>2, <4>1, <4>2, ChainStays
    <3>2. Whole(p)'
      BY <1>0, <1>1, <1>3, <1>4, <2>2, <3>1 DEF Whole, Underway, dirvars, textvars
    <3>3. Ordered(p)' /\ Fresh(p)' /\ Broken(p)'
      BY <1>0, <1>1, <2>2 DEF Ordered, Fresh, Broken, dirvars, textvars
    <3>5. Underway(p)'
      BY <1>0, <1>1, <1>3, <1>4, ContextAssumption DEF Underway, dirvars, textvars, ContextTypeOK
    <3>6. QED
      BY <3>2, <3>3, <3>5 DEF Own
  <2>5. \A q \in Sessions \ {p} : Memory(q)' = Memory(q)
    BY <1>1, <1>4, <2>2 DEF Memory, textvars
  <2>6. QED
    BY <1>1, <2>2, <2>3, <2>4, <2>5, ConversationStep

\* An automatic request was begun below the limit, so its failure reaches it at most.
LEMMA CountsKeeps ==
    ASSUME ContextAssumption, ArchiveInv, NEW p \in Sessions, Counts(p)
    PROVE  ArchiveInv'
<1>0. /\ ContextTypeOK /\ Ordered(p) /\ Fresh(p) /\ Underway(p) /\ Broken(p) /\ Whole(p)
      /\ records = [q \in Sessions |-> records[q]]
  BY DEF ArchiveInv
<1>1. /\ op[p].at = "failing" /\ failures[p] <= FailureLimit
      /\ op' = [op EXCEPT ![p] = NoOp] /\ UNCHANGED <<dirvars, records, seq, textvars>>
  BY DEF Counts
<1>2. NoOp.at = "idle" /\ NoOp.mode = "none" /\ NoOp.record = 0
  BY NoOperation
<1>3. /\ op'[p] = NoOp /\ \A q \in Sessions \ {p} : op'[q] = op[q]
      /\ op' \in [Sessions -> Operations]
  BY <1>0, <1>1, NoOperation, OperationSet
<1> DEFINE k == failures[p] + 1
           s == IF op[p].mode = "automatic" THEN streak[p] + 1 ELSE streak[p]
           b == isOpen[p] \/ k >= FailureLimit
<1>4. /\ failures' = [failures EXCEPT ![p] = k] /\ streak' = [streak EXCEPT ![p] = s]
      /\ isOpen' = [isOpen EXCEPT ![p] = b]
  BY DEF Counts
<1>5. /\ k \in 0 .. FailureLimit + 1 /\ s \in 0 .. FailureLimit + 1 /\ b \in BOOLEAN
      /\ s <= k /\ s <= FailureLimit /\ (b \/ k < FailureLimit)
  BY <1>0, <1>1, ContextAssumption DEF ContextTypeOK, Broken, Underway
<1> HIDE DEF k, s, b
<1>6. /\ failures' \in [Sessions -> 0 .. FailureLimit + 1] /\ isOpen' \in [Sessions -> BOOLEAN]
      /\ streak' \in [Sessions -> 0 .. FailureLimit + 1]
  BY <1>0, <1>4, <1>5 DEF ContextTypeOK
<1>7. /\ failures'[p] = k /\ streak'[p] = s /\ isOpen'[p] = b
      /\ \A q \in Sessions \ {p} : failures'[q] = failures[q] /\ isOpen'[q] = isOpen[q]
                                   /\ streak'[q] = streak[q]
  BY <1>0, <1>4 DEF ContextTypeOK
<1>8. ContextTypeOK'
  BY <1>0, <1>1, <1>3, <1>6 DEF ContextTypeOK, dirvars, textvars
<1>9. Own(p)'
  <2>1. Chain(p)' = Chain(p)
    BY <1>1 DEF Chain, textvars
  <2>2. Whole(p)'
    BY <1>0, <1>1, <1>2, <1>3, <2>1 DEF Whole, dirvars, textvars
  <2>3. Ordered(p)' /\ Fresh(p)'
    BY <1>0, <1>1 DEF Ordered, Fresh, dirvars, textvars
  <2>4. Broken(p)'
    BY <1>5, <1>7 DEF Broken
  <2>5. Underway(p)'
    <3>1. op'[p].at = "idle" /\ op'[p].mode = "none" /\ op'[p].record = 0
      BY <1>2, <1>3
    <3>2. seq'[p] = seq[p] /\ summary'[p] = summary[p] /\ seq[p] \in Nat
      BY <1>0, <1>1 DEF textvars, ContextTypeOK
    <3>3. QED
      BY <1>0, <3>1, <3>2 DEF Underway
  <2>6. QED
    BY <2>2, <2>3, <2>4, <2>5 DEF Own
<1>10. \A q \in Sessions \ {p} : Memory(q)' = Memory(q)
  BY <1>1, <1>3, <1>7 DEF Memory, textvars
<1>11. QED
  BY <1>0, <1>1, <1>8, <1>9, <1>10, ConversationStep

\* A request that is cancelled takes its record with it; a summary already accepted
\* leaves its record, which nothing names.
LEMMA CancelsKeeps ==
    ASSUME ContextAssumption, ArchiveInv, NEW p \in Sessions, Cancels(p)
    PROVE  ArchiveInv'
<1>0. /\ ContextTypeOK /\ Ordered(p) /\ Fresh(p) /\ Underway(p) /\ Broken(p) /\ Whole(p)
      /\ records = [q \in Sessions |-> records[q]]
  BY DEF ArchiveInv
<1>1. /\ op[p].at # "idle" /\ op' = [op EXCEPT ![p] = NoOp]
      /\ UNCHANGED <<dirvars, seq, textvars, failures, isOpen, streak>>
  BY DEF Cancels
<1>2. NoOp.at = "idle" /\ NoOp.mode = "none" /\ NoOp.record = 0
  BY NoOperation
<1>3. /\ op'[p] = NoOp /\ \A q \in Sessions \ {p} : op'[q] = op[q]
      /\ op' \in [Sessions -> Operations]
  BY <1>0, <1>1, NoOperation, OperationSet
<1>4. /\ DOMAIN records'[p] \subseteq DOMAIN records[p]
      /\ \A r \in DOMAIN records'[p] : records'[p][r] = records[p][r]
      /\ \A r \in DOMAIN records[p] : r \notin DOMAIN records'[p]
                                        => op[p].at = "asking" /\ r = op[p].record
      /\ Reach(records'[p], summary[p]) = Reach(records[p], summary[p])
      /\ \A q \in Sessions \ {p} : records'[q] = records[q]
      /\ records' = [q \in Sessions |-> records'[q]]
  <2>1. CASE op[p].at = "asking"
    <3>1. Discards(p, op[p].record) /\ summary[p] < op[p].record /\ op[p].record \in Nat
      BY <1>0, <2>1, ContextAssumption DEF Cancels, Underway, ContextTypeOK, Operations
    <3>2. /\ DOMAIN records'[p] = DOMAIN records[p] \ {op[p].record}
          /\ \A r \in DOMAIN records'[p] : records'[p][r] = records[p][r]
          /\ Reach(records'[p], summary[p]) = Reach(records[p], summary[p])
          /\ \A q \in Sessions \ {p} : records'[q] = records[q]
          /\ records' = [q \in Sessions |-> records'[q]]
      BY <3>1, DiscardedAfter
    <3>3. QED
      BY <2>1, <3>2
  <2>2. CASE op[p].at # "asking"
    <3>1. records' = records
      BY <2>2 DEF Cancels
    <3>2. QED
      BY <1>0, <3>1
  <2>3. QED
    BY <2>1, <2>2
<1>5. ContextTypeOK'
  <2>1. ASSUME NEW q \in Sessions
        PROVE  /\ DOMAIN records'[q] \subseteq 1 .. seq'[q]
               /\ \A r \in DOMAIN records'[q] : /\ records'[q][r].prev \in 0 .. MaxRecords
                                                /\ records'[q][r].ids \subseteq Messages
    BY <1>0, <1>1, <1>4 DEF ContextTypeOK
  <2>2. QED
    BY <1>0, <1>1, <1>3, <2>1 DEF ContextTypeOK, dirvars, textvars
<1>6. Own(p)'
  <2>1. Chain(p)' = Chain(p)
    <3>1. \A r \in Reach(records'[p], summary[p]) : records'[p][r] = records[p][r]
      BY <1>4 DEF Reach
    <3>2. summary'[p] = summary[p]
      BY <1>1 DEF textvars
    <3>3. QED
      BY <1>4, <3>1, <3>2, ChainStays
  <2>2. Whole(p)'
    <3>1. SUFFICES ASSUME life[p] = "open", mine[p] \notin swept
                   PROVE  Whole(p)'
      BY <1>1 DEF Whole, dirvars
    <3>2. \A m \in Messages : refs[p][m] \subseteq DOMAIN records'[p]
      BY <1>0, <1>4, <3>1 DEF Whole
    <3>3. QED
      BY <1>0, <1>1, <1>2, <1>3, <2>1, <3>1, <3>2 DEF Whole, dirvars, textvars
  <2>3. Ordered(p)' /\ Fresh(p)' /\ Broken(p)'
    BY <1>0, <1>1, <1>4 DEF Ordered, Fresh, Broken, dirvars, textvars
  <2>4. Underway(p)'
    <3>1. op'[p].at = "idle" /\ op'[p].mode = "none" /\ op'[p].record = 0
      BY <1>2, <1>3
    <3>2. seq'[p] = seq[p] /\ summary'[p] = summary[p] /\ seq[p] \in Nat
      BY <1>0, <1>1 DEF textvars, ContextTypeOK
    <3>3. QED
      BY <1>0, <3>1, <3>2 DEF Underway
  <2>5. QED
    BY <2>2, <2>3, <2>4 DEF Own
<1>7. \A q \in Sessions \ {p} : Memory(q)' = Memory(q)
  BY <1>1, <1>3, <1>4 DEF Memory, textvars
<1>8. QED
  BY <1>1, <1>4, <1>5, <1>6, <1>7, ConversationStep

\* What an adopted summary takes out of the history is in its record, and the summary
\* before it is named there.
LEMMA AdoptsKeeps ==
    ASSUME ContextAssumption, ArchiveInv, NEW p \in Sessions, Adopts(p)
    PROVE  ArchiveInv'
<1>0. /\ ContextTypeOK /\ Ordered(p) /\ Fresh(p) /\ Underway(p) /\ Broken(p) /\ Whole(p)
      /\ records = [q \in Sessions |-> records[q]]
  BY DEF ArchiveInv
<1>1. /\ op[p].at = "adopting" /\ op' = [op EXCEPT ![p] = NoOp]
      /\ UNCHANGED <<dirvars, records, seq, count, refs, failures, isOpen, streak>>
  BY DEF Adopts
<1>2. NoOp.at = "idle" /\ NoOp.mode = "none" /\ NoOp.record = 0
  BY NoOperation
<1>3. /\ op'[p] = NoOp /\ \A q \in Sessions \ {p} : op'[q] = op[q]
      /\ op' \in [Sessions -> Operations]
  BY <1>0, <1>1, NoOperation, OperationSet
<1>4. /\ op[p].record \in 0 .. MaxRecords /\ op[p].record <= seq[p] /\ seq[p] \in Nat
      /\ life[p] = "open"
  BY <1>0, <1>1 DEF ContextTypeOK, Underway, Operations
<1>a. /\ kept' \in [Sessions -> SUBSET Messages] /\ summary' \in [Sessions -> 0 .. MaxRecords]
      /\ \A q \in Sessions \ {p} : kept'[q] = kept[q] /\ summary'[q] = summary[q]
      /\ \/ kept'[p] = kept[p] \ op[p].early /\ summary'[p] = op[p].record
         \/ kept'[p] = kept[p] /\ summary'[p] = summary[p]
  <2>1. CASE /\ kept' = [kept EXCEPT ![p] = @ \ op[p].early]
             /\ summary' = [summary EXCEPT ![p] = op[p].record]
    BY <1>0, <1>4, <2>1 DEF ContextTypeOK
  <2>2. CASE UNCHANGED <<kept, summary>>
    BY <1>0, <2>2 DEF ContextTypeOK
  <2>3. QED
    BY <2>1, <2>2 DEF Adopts
<1>5. ContextTypeOK'
  BY <1>0, <1>1, <1>3, <1>a DEF ContextTypeOK, dirvars
<1>6. Own(p)'
  <2>1. Whole(p)'
    <3>1. SUFFICES ASSUME mine[p] \notin swept
                   PROVE  (kept[p] \cup Chain(p) = 1 .. count[p])'
      BY <1>0, <1>1, <1>2, <1>3, <1>4 DEF Whole, dirvars
    <3>2. CASE kept'[p] = kept[p] \ op[p].early /\ summary'[p] = op[p].record
      <4> DEFINE f == records[p]
                 r0 == op[p].record
      <4>1. /\ r0 \in DOMAIN f /\ f[r0] = HistoryRecord(p, op[p].early)
            /\ op[p].early \subseteq kept[p] /\ kept[p] \cup Chain(p) = 1 .. count[p]
        BY <1>0, <1>1, <1>4, <3>1 DEF Whole
      <4>2. f[r0].prev = summary[p] /\ f[r0].ids = op[p].early
        BY <4>1 DEF HistoryRecord
      <4>3. Reach(f, r0) = {r0} \cup Reach(f, summary[p])
        BY <4>1, <4>2, ReachStep
      <4>4. Chain(p)' = op[p].early \cup Chain(p)
        BY <1>1, <3>2, <4>2, <4>3 DEF Chain
      <4>5. QED
        BY <1>1, <3>2, <4>1, <4>4
    <3>3. CASE kept'[p] = kept[p] /\ summary'[p] = summary[p]
      <4>1. Chain(p)' = Chain(p)
        BY <1>1, <3>3 DEF Chain
      <4>2. QED
        BY <1>0, <1>1, <1>4, <3>1, <3>3, <4>1 DEF Whole
    <3>4. QED
      BY <1>a, <3>2, <3>3
  <2>2. Ordered(p)' /\ Fresh(p)' /\ Broken(p)'
    BY <1>0, <1>1, <1>4 DEF Ordered, Fresh, Broken, dirvars
  <2>3. Underway(p)'
    <3>1. op'[p].at = "idle" /\ op'[p].mode = "none" /\ op'[p].record = 0
      BY <1>2, <1>3
    <3>2. seq'[p] = seq[p] /\ summary'[p] <= seq[p]
      BY <1>0, <1>1, <1>4, <1>a DEF Underway
    <3>3. QED
      BY <1>4, <3>1, <3>2 DEF Underway
  <2>4. QED
    BY <2>1, <2>2, <2>3 DEF Own
<1>7. \A q \in Sessions \ {p} : Memory(q)' = Memory(q)
  BY <1>1, <1>3, <1>a DEF Memory
<1>8. QED
  BY <1>0, <1>1, <1>5, <1>6, <1>7, ConversationStep

\* A conversation that is cleared starts again with nothing to be lost.
LEMMA ResetsKeeps ==
    ASSUME ContextAssumption, ArchiveInv, NEW p \in Sessions, Resets(p)
    PROVE  ArchiveInv'
<1>0. /\ ContextTypeOK /\ Ordered(p) /\ Fresh(p) /\ Underway(p) /\ Broken(p) /\ Whole(p)
      /\ records = [q \in Sessions |-> records[q]]
  BY DEF ArchiveInv
<1>1. life[p] = "open" /\ op[p] = NoOp /\ UNCHANGED <<dirvars, records, seq, op>>
  BY DEF Resets
<1>2. NoOp.at = "idle" /\ NoOp.mode = "none" /\ NoOp.record = 0
  BY NoOperation
<1>3. /\ count' \in [Sessions -> 0 .. MaxMessages] /\ kept' \in [Sessions -> SUBSET Messages]
      /\ refs' \in [Sessions -> [Messages -> SUBSET RecordIds]]
      /\ summary' \in [Sessions -> 0 .. MaxRecords]
      /\ failures' \in [Sessions -> 0 .. FailureLimit + 1] /\ isOpen' \in [Sessions -> BOOLEAN]
      /\ streak' \in [Sessions -> 0 .. FailureLimit + 1]
  BY <1>0, ContextAssumption DEF Resets, ContextTypeOK
<1>4. /\ count'[p] = 0 /\ kept'[p] = {} /\ summary'[p] = 0
      /\ \A m \in Messages : refs'[p][m] = {}
      /\ failures'[p] = 0 /\ ~isOpen'[p] /\ streak'[p] = 0
  BY <1>0 DEF Resets, ContextTypeOK
<1>5. \A q \in Sessions \ {p} : /\ count'[q] = count[q] /\ kept'[q] = kept[q]
                                /\ summary'[q] = summary[q] /\ refs'[q] = refs[q]
                                /\ failures'[q] = failures[q] /\ isOpen'[q] = isOpen[q]
                                /\ streak'[q] = streak[q]
  BY <1>0 DEF Resets, ContextTypeOK
<1>6. ContextTypeOK'
  BY <1>0, <1>1, <1>3 DEF ContextTypeOK, dirvars
<1>7. Own(p)'
  <2>1. Chain(p)' = {}
    <3>1. 0 \notin DOMAIN records[p]
      BY <1>0 DEF Ordered
    <3>2. Reach(records[p], 0) = {}
      BY <3>1, ReachNone
    <3>3. QED
      BY <1>1, <1>4, <3>2 DEF Chain
  <2>2. Whole(p)'
    BY <1>1, <1>2, <1>4, <2>1 DEF Whole
  <2>3. Ordered(p)'
    BY <1>0, <1>1 DEF Ordered
  <2>4. Fresh(p)' /\ Broken(p)'
    BY <1>4, ContextAssumption DEF Fresh, Broken
  <2>5. Underway(p)'
    BY <1>0, <1>1, <1>2, <1>4 DEF Underway, ContextTypeOK
  <2>6. QED
    BY <2>2, <2>3, <2>4, <2>5 DEF Own
<1>8. \A q \in Sessions \ {p} : Memory(q)' = Memory(q)
  BY <1>1, <1>5 DEF Memory
<1>9. QED
  BY <1>0, <1>1, <1>6, <1>7, <1>8, ConversationStep

-----------------------------------------------------------------------------
(***************************************************************************)
(* The steps of the directories.                                           *)
(***************************************************************************)

\* What a step has to be shown to do that leaves every session its memory: the session
\* that moves is between two operations, and opens or closes.
LEMMA DirectoryStep ==
    ASSUME ArchiveInv, NEW p \in Sessions, UNCHANGED <<swept, records, seq, textvars, opvars>>,
           \A q \in Sessions \ {p} : life'[q] = life[q] /\ mine'[q] = mine[q],
           \/ life'[p] = life[p] /\ mine'[p] = mine[p]
           \/ /\ op[p].at = "idle" /\ life'[p] # "open"
              /\ life'[p] \in {"off", "sweeping", "locking"} =>
                   life[p] \in {"off", "sweeping", "locking"},
           ContextTypeOK', \A q \in Sessions : Placed(q)'
    PROVE  ArchiveInv'
<1>1. ASSUME NEW q \in Sessions
      PROVE  Own(q)'
  <2>0. Own(q)
    BY DEF ArchiveInv, Own
  <2>1. CASE life'[q] = life[q] /\ mine'[q] = mine[q]
    <3>1. Memory(q)' = Memory(q) /\ swept' = swept
      BY DEF Memory, textvars, opvars
    <3>2. QED
      BY <2>0, <2>1, <3>1, OthersStay
  <2>2. CASE /\ op[q].at = "idle" /\ life'[q] # "open"
             /\ life'[q] \in {"off", "sweeping", "locking"} =>
                  life[q] \in {"off", "sweeping", "locking"}
    BY <2>0, <2>2 DEF Own, Ordered, Fresh, Underway, Broken, Whole, textvars, opvars
  <2>3. QED
    BY <2>1, <2>2
<1>2. records' = [q \in Sessions |-> records'[q]]
  BY DEF ArchiveInv
<1>3. QED
  BY <1>1, <1>2 DEF ArchiveInv, Own

\* The sweep of a start lists what is there.
LEMMA ListsKeeps ==
    ASSUME ContextAssumption, ArchiveInv, NEW p \in Sessions, Lists(p)
    PROVE  ArchiveInv'
<1>0. ContextTypeOK /\ Underway(p) /\ \A q \in Sessions : Placed(q)
  BY DEF ArchiveInv
<1>1. /\ life[p] = "off" /\ life' = [life EXCEPT ![p] = "sweeping"]
      /\ todo' = [todo EXCEPT ![p] = dirs]
      /\ UNCHANGED <<dirs, born, swept, holder, mine, probe, records, seq, textvars, opvars>>
  BY DEF Lists
<1>2. life'[p] = "sweeping" /\ \A q \in Sessions \ {p} : life'[q] = life[q]
  BY <1>0, <1>1 DEF ContextTypeOK
<1>3. ContextTypeOK'
  <2>1. /\ life' \in [Sessions -> {"off", "sweeping", "locking", "open", "closing"}]
        /\ todo' \in [Sessions -> SUBSET DirIds]
    BY <1>0, <1>1 DEF ContextTypeOK
  <2>2. QED
    BY <1>0, <1>1, <2>1 DEF ContextTypeOK, textvars, opvars
<1>4. ASSUME NEW q \in Sessions
      PROVE  Placed(q)'
  BY <1>0, <1>1, <1>2 DEF Placed
<1>5. QED
  BY <1>0, <1>1, <1>2, <1>3, <1>4, DirectoryStep DEF Underway

\* It takes the lock of a directory nobody lives in.
LEMMA ProbesKeeps ==
    ASSUME ContextAssumption, ArchiveInv, NEW p \in Sessions, NEW d \in DirIds, Probes(p, d)
    PROVE  ArchiveInv'
<1>0. ContextTypeOK /\ \A q \in Sessions : Placed(q)
  BY DEF ArchiveInv
<1>1. /\ todo' = [todo EXCEPT ![p] = @ \ {d}]
      /\ UNCHANGED <<born, swept, life, mine, records, seq, textvars, opvars>>
  BY DEF Probes
<1>2. dirs' \in SUBSET DirIds /\ holder' \in [DirIds -> Sessions \cup {Nobody}]
      /\ probe' \in [Sessions -> 0 .. MaxDirs] /\ todo' \in [Sessions -> SUBSET DirIds]
  <2>1. todo' \in [Sessions -> SUBSET DirIds]
    BY <1>0, <1>1 DEF ContextTypeOK
  <2>2. CASE Acquire(p, d) /\ probe' = [probe EXCEPT ![p] = d]
    <3>1. dirs' \in SUBSET DirIds /\ holder' \in [DirIds -> Sessions \cup {Nobody}]
      BY <1>0, <2>2 DEF Acquire, ContextTypeOK
    <3>2. d \in 0 .. MaxDirs
      BY ContextAssumption DEF DirIds
    <3>3. probe' \in [Sessions -> 0 .. MaxDirs]
      BY <1>0, <2>2, <3>2 DEF ContextTypeOK
    <3>4. QED
      BY <2>1, <3>1, <3>3
  <2>3. CASE UNCHANGED <<dirs, holder, probe>>
    BY <1>0, <2>1, <2>3 DEF ContextTypeOK
  <2>4. QED
    BY <2>2, <2>3 DEF Probes
<1>3. ContextTypeOK'
  BY <1>0, <1>1, <1>2 DEF ContextTypeOK, textvars, opvars
<1>4. ASSUME NEW q \in Sessions
      PROVE  Placed(q)'
  BY <1>0, <1>1 DEF Placed
<1>5. QED
  BY <1>1, <1>3, <1>4, DirectoryStep

\* It gives the lock back.
LEMMA ClosesProbeKeeps ==
    ASSUME ArchiveInv, NEW p \in Sessions, ClosesProbe(p)
    PROVE  ArchiveInv'
<1>0. ContextTypeOK /\ \A q \in Sessions : Placed(q)
  BY DEF ArchiveInv
<1>1. /\ holder' = [holder EXCEPT ![probe[p]] = Nobody]
      /\ UNCHANGED <<dirs, born, swept, life, mine, todo, probe, records, seq, textvars, opvars>>
  BY DEF ClosesProbe
<1>2. holder' \in [DirIds -> Sessions \cup {Nobody}]
  BY <1>0, <1>1 DEF ContextTypeOK
<1>3. ContextTypeOK'
  BY <1>0, <1>1, <1>2 DEF ContextTypeOK, textvars, opvars
<1>4. ASSUME NEW q \in Sessions
      PROVE  Placed(q)'
  BY <1>0, <1>1 DEF Placed
<1>5. QED
  BY <1>1, <1>3, <1>4, DirectoryStep

\* What a removal of a directory does: its owner's records are gone, if it has one.
LEMMA Removed ==
    ASSUME ContextTypeOK, NEW d, RemoveDir(d)
    PROVE  /\ dirs' \in SUBSET DirIds /\ holder' \in [DirIds -> Sessions \cup {Nobody}]
           /\ \A q \in Sessions : mine[q] = d => DOMAIN records'[q] = {}
           /\ \A q \in Sessions : mine[q] # d => records'[q] = records[q]
           /\ records' = [q \in Sessions |-> records'[q]]
<1>1. dirs' \in SUBSET DirIds /\ holder' \in [DirIds -> Sessions \cup {Nobody}]
  BY DEF RemoveDir, ContextTypeOK
<1>2. records' = [q \in Sessions |-> IF mine[q] = d THEN << >> ELSE records[q]]
  BY DEF RemoveDir
<1>3. DOMAIN << >> = {}
  OBVIOUS
<1>4. QED
  BY <1>1, <1>2, <1>3

\* The sweep removes a directory: if a session has it, its records are not promised.
LEMMA SweepsKeeps ==
    ASSUME ContextAssumption, ArchiveInv, NEW p \in Sessions, Sweeps(p)
    PROVE  ArchiveInv'
<1>0. ContextTypeOK /\ \A q \in Sessions : Placed(q) /\ Own(q)
  BY DEF ArchiveInv, Own
<1>1. /\ probe[p] # 0 /\ probe' = [probe EXCEPT ![p] = 0]
      /\ UNCHANGED <<born, life, mine, todo, seq, textvars, opvars>>
  BY DEF Sweeps
<1>2. probe' \in [Sessions -> 0 .. MaxDirs]
  BY <1>0, <1>1, ContextAssumption DEF ContextTypeOK
<1>3. ASSUME NEW q \in Sessions
      PROVE  Placed(q)'
  BY <1>0, <1>1 DEF Placed
<1>4. CASE RemoveDir(probe[p]) /\ swept' = swept \cup {probe[p]}
  <2> DEFINE d == probe[p]
  <2>1. /\ dirs' \in SUBSET DirIds /\ holder' \in [DirIds -> Sessions \cup {Nobody}]
        /\ \A q \in Sessions : mine[q] = d => DOMAIN records'[q] = {}
        /\ \A q \in Sessions : mine[q] # d => records'[q] = records[q]
        /\ records' = [q \in Sessions |-> records'[q]]
    BY <1>0, <1>4, Removed
  <2>2. swept' \in SUBSET DirIds
    <3>1. d \in DirIds
      BY <1>0, <1>1, ContextAssumption DEF ContextTypeOK, DirIds
    <3>2. QED
      BY <1>0, <1>4, <3>1 DEF ContextTypeOK
  <2>3. ASSUME NEW q \in Sessions
        PROVE  /\ DOMAIN records'[q] \subseteq 1 .. seq'[q]
               /\ \A r \in DOMAIN records'[q] : /\ records'[q][r].prev \in 0 .. MaxRecords
                                                /\ records'[q][r].ids \subseteq Messages
    BY <1>0, <1>1, <2>1 DEF ContextTypeOK
  <2>4. ContextTypeOK'
    BY <1>0, <1>1, <1>2, <2>1, <2>2, <2>3 DEF ContextTypeOK, textvars, opvars
  <2>5. ASSUME NEW q \in Sessions
        PROVE  Own(q)'
    <3>1. CASE mine[q] = d
      BY <1>0, <1>1, <1>4, <2>1, <3>1
         DEF Own, Ordered, Fresh, Underway, Broken, Whole, textvars, opvars
    <3>2. CASE mine[q] # d
      <4>1. Memory(q)' = Memory(q)
        BY <1>1, <2>1, <3>2 DEF Memory, textvars, opvars
      <4>2. QED
        BY <1>0, <1>1, <1>4, <4>1, OthersStay
    <3>3. QED
      BY <3>1, <3>2
  <2>6. QED
    BY <1>3, <2>1, <2>4, <2>5 DEF ArchiveInv, Own
<1>5. CASE UNCHANGED <<dirs, holder, swept, records>>
  <2>1. ContextTypeOK'
    BY <1>0, <1>1, <1>2, <1>5 DEF ContextTypeOK, textvars, opvars
  <2>2. QED
    BY <1>1, <1>3, <1>5, <2>1, DirectoryStep
<1>6. QED
  BY <1>4, <1>5 DEF Sweeps

\* The directory a session makes has a number nobody has.
LEMMA MakesKeeps ==
    ASSUME ContextAssumption, ArchiveInv, NEW p \in Sessions, Makes(p)
    PROVE  ArchiveInv'
<1>0. ContextTypeOK /\ Underway(p) /\ \A q \in Sessions : Placed(q)
  BY DEF ArchiveInv
<1>1. /\ life[p] = "sweeping" /\ born < MaxDirs /\ born' = born + 1
      /\ dirs' = dirs \cup {born'} /\ mine' = [mine EXCEPT ![p] = born']
      /\ life' = [life EXCEPT ![p] = "locking"]
      /\ UNCHANGED <<swept, holder, todo, probe, records, seq, textvars, opvars>>
  BY DEF Makes
<1>2. born \in Nat /\ born' \in 1 .. MaxDirs /\ born' = born + 1
  BY <1>0, <1>1, ContextAssumption DEF ContextTypeOK
<1>3. /\ life'[p] = "locking" /\ mine'[p] = born'
      /\ \A q \in Sessions \ {p} : life'[q] = life[q] /\ mine'[q] = mine[q]
  BY <1>0, <1>1 DEF ContextTypeOK
<1>4. ContextTypeOK'
  <2>1. /\ life' \in [Sessions -> {"off", "sweeping", "locking", "open", "closing"}]
        /\ mine' \in [Sessions -> 0 .. MaxDirs]
        /\ dirs' \in SUBSET DirIds /\ born' \in 0 .. MaxDirs
    <3>1. born' \in DirIds /\ born' \in 0 .. MaxDirs
      BY <1>2 DEF DirIds
    <3>2. QED
      BY <1>0, <1>1, <3>1 DEF ContextTypeOK
  <2>2. QED
    BY <1>0, <1>1, <2>1 DEF ContextTypeOK, textvars, opvars
<1>5. ASSUME NEW q \in Sessions
      PROVE  Placed(q)'
  <2>1. \A x \in Sessions : mine[x] \in Nat /\ mine[x] <= born
    BY <1>0, ContextAssumption DEF Placed, ContextTypeOK
  <2>2. QED
    BY <1>0, <1>2, <1>3, <2>1 DEF Placed
<1>6. QED
  BY <1>0, <1>1, <1>3, <1>4, <1>5, DirectoryStep DEF Underway

\* A session that is closed gives its lock back.
LEMMA ClosesKeeps ==
    ASSUME ContextAssumption, ArchiveInv, NEW p \in Sessions, Closes(p)
    PROVE  ArchiveInv'
<1>0. ContextTypeOK /\ \A q \in Sessions : Placed(q)
  BY DEF ArchiveInv
<1>1. /\ life[p] = "open" /\ op[p] = NoOp /\ life' = [life EXCEPT ![p] = "closing"]
      /\ holder' = [holder EXCEPT ![mine[p]] = IF @ = p THEN Nobody ELSE @]
      /\ UNCHANGED <<dirs, born, swept, mine, todo, probe, records, seq, textvars, opvars>>
  BY DEF Closes
<1>2. life'[p] = "closing" /\ \A q \in Sessions \ {p} : life'[q] = life[q]
  BY <1>0, <1>1 DEF ContextTypeOK
<1>3. ContextTypeOK'
  <2>1. /\ life' \in [Sessions -> {"off", "sweeping", "locking", "open", "closing"}]
        /\ holder' \in [DirIds -> Sessions \cup {Nobody}]
    BY <1>0, <1>1 DEF ContextTypeOK
  <2>2. QED
    BY <1>0, <1>1, <2>1 DEF ContextTypeOK, textvars, opvars
<1>4. ASSUME NEW q \in Sessions
      PROVE  Placed(q)'
  BY <1>0, <1>1, <1>2 DEF Placed
<1>5. op[p].at = "idle"
  BY <1>1, NoOperation
<1>6. QED
  BY <1>1, <1>2, <1>3, <1>4, <1>5, DirectoryStep

\* A process that is gone remembers nothing, and all the others what they did.
LEMMA Forgotten ==
    ASSUME ContextAssumption, ContextTypeOK, NEW p \in Sessions, Forgets(p)
    PROVE  /\ mine' \in [Sessions -> 0 .. MaxDirs] /\ todo' \in [Sessions -> SUBSET DirIds]
           /\ probe' \in [Sessions -> 0 .. MaxDirs] /\ seq' \in [Sessions -> 0 .. MaxRecords]
           /\ count' \in [Sessions -> 0 .. MaxMessages]
           /\ refs' \in [Sessions -> [Messages -> SUBSET RecordIds]]
           /\ kept' \in [Sessions -> SUBSET Messages]
           /\ summary' \in [Sessions -> 0 .. MaxRecords]
           /\ op' \in [Sessions -> Operations]
           /\ failures' \in [Sessions -> 0 .. FailureLimit + 1]
           /\ isOpen' \in [Sessions -> BOOLEAN]
           /\ streak' \in [Sessions -> 0 .. FailureLimit + 1]
           /\ life' \in [Sessions -> {"off", "sweeping", "locking", "open", "closing"}]
           /\ life'[p] = "off" /\ mine'[p] = 0 /\ seq'[p] = 0 /\ count'[p] = 0
           /\ kept'[p] = {} /\ summary'[p] = 0 /\ op'[p] = NoOp
           /\ \A m \in Messages : refs'[p][m] = {}
           /\ failures'[p] = 0 /\ streak'[p] = 0
           /\ \A q \in Sessions \ {p} :
                /\ life'[q] = life[q] /\ mine'[q] = mine[q] /\ seq'[q] = seq[q]
                /\ count'[q] = count[q] /\ refs'[q] = refs[q] /\ kept'[q] = kept[q]
                /\ summary'[q] = summary[q] /\ op'[q] = op[q]
                /\ failures'[q] = failures[q] /\ isOpen'[q] = isOpen[q]
                /\ streak'[q] = streak[q]
<1>1. /\ mine' = [mine EXCEPT ![p] = 0] /\ todo' = [todo EXCEPT ![p] = {}]
      /\ probe' = [probe EXCEPT ![p] = 0] /\ seq' = [seq EXCEPT ![p] = 0]
      /\ count' = [count EXCEPT ![p] = 0] /\ life' = [life EXCEPT ![p] = "off"]
      /\ refs' = [refs EXCEPT ![p] = [m \in Messages |-> {}]]
      /\ kept' = [kept EXCEPT ![p] = {}] /\ summary' = [summary EXCEPT ![p] = 0]
      /\ op' = [op EXCEPT ![p] = NoOp] /\ failures' = [failures EXCEPT ![p] = 0]
      /\ isOpen' = [isOpen EXCEPT ![p] = FALSE] /\ streak' = [streak EXCEPT ![p] = 0]
  BY DEF Forgets
<1>2. /\ mine' \in [Sessions -> 0 .. MaxDirs] /\ todo' \in [Sessions -> SUBSET DirIds]
      /\ probe' \in [Sessions -> 0 .. MaxDirs] /\ seq' \in [Sessions -> 0 .. MaxRecords]
      /\ count' \in [Sessions -> 0 .. MaxMessages]
      /\ life' \in [Sessions -> {"off", "sweeping", "locking", "open", "closing"}]
  BY <1>1, ContextAssumption DEF ContextTypeOK
<1>3. /\ refs' \in [Sessions -> [Messages -> SUBSET RecordIds]]
      /\ kept' \in [Sessions -> SUBSET Messages]
      /\ summary' \in [Sessions -> 0 .. MaxRecords]
      /\ \A m \in Messages : refs'[p][m] = {}
  BY <1>1, ContextAssumption DEF ContextTypeOK
<1>4. op' \in [Sessions -> Operations]
  BY <1>1, NoOperation DEF ContextTypeOK
<1>5. /\ failures' \in [Sessions -> 0 .. FailureLimit + 1]
      /\ isOpen' \in [Sessions -> BOOLEAN]
      /\ streak' \in [Sessions -> 0 .. FailureLimit + 1]
  BY <1>1, ContextAssumption DEF ContextTypeOK
<1>6. /\ life'[p] = "off" /\ mine'[p] = 0 /\ seq'[p] = 0 /\ count'[p] = 0
      /\ kept'[p] = {} /\ summary'[p] = 0 /\ op'[p] = NoOp
      /\ failures'[p] = 0 /\ streak'[p] = 0
  BY <1>1 DEF ContextTypeOK
<1>7. \A q \in Sessions \ {p} :
                /\ life'[q] = life[q] /\ mine'[q] = mine[q] /\ seq'[q] = seq[q]
                /\ count'[q] = count[q] /\ refs'[q] = refs[q] /\ kept'[q] = kept[q]
                /\ summary'[q] = summary[q] /\ op'[q] = op[q]
                /\ failures'[q] = failures[q] /\ isOpen'[q] = isOpen[q]
                /\ streak'[q] = streak[q]
  BY <1>1 DEF ContextTypeOK
<1>8. QED
  BY <1>2, <1>3, <1>4, <1>5, <1>6, <1>7

\* What a step has to be shown to do with which a process is gone: only its own records go.
LEMMA EndStep ==
    ASSUME ContextAssumption, ArchiveInv, NEW p \in Sessions, Forgets(p),
           UNCHANGED <<born, swept>>, dirs' \in SUBSET DirIds,
           holder' \in [DirIds -> Sessions \cup {Nobody}],
           DOMAIN records'[p] = {},
           \A q \in Sessions \ {p} : records'[q] = records[q],
           records' = [q \in Sessions |-> records'[q]]
    PROVE  ArchiveInv'
<1>0. ContextTypeOK /\ \A q \in Sessions : Placed(q) /\ Own(q)
  BY DEF ArchiveInv, Own
<1>1. /\ mine' \in [Sessions -> 0 .. MaxDirs] /\ todo' \in [Sessions -> SUBSET DirIds]
      /\ probe' \in [Sessions -> 0 .. MaxDirs] /\ seq' \in [Sessions -> 0 .. MaxRecords]
      /\ count' \in [Sessions -> 0 .. MaxMessages]
      /\ refs' \in [Sessions -> [Messages -> SUBSET RecordIds]]
      /\ kept' \in [Sessions -> SUBSET Messages]
      /\ summary' \in [Sessions -> 0 .. MaxRecords]
      /\ op' \in [Sessions -> Operations]
      /\ failures' \in [Sessions -> 0 .. FailureLimit + 1]
      /\ isOpen' \in [Sessions -> BOOLEAN]
      /\ streak' \in [Sessions -> 0 .. FailureLimit + 1]
      /\ life' \in [Sessions -> {"off", "sweeping", "locking", "open", "closing"}]
  BY <1>0, Forgotten
<1>2. /\ life'[p] = "off" /\ mine'[p] = 0 /\ seq'[p] = 0 /\ count'[p] = 0
      /\ kept'[p] = {} /\ summary'[p] = 0 /\ op'[p] = NoOp
      /\ \A m \in Messages : refs'[p][m] = {}
      /\ failures'[p] = 0 /\ streak'[p] = 0
  BY <1>0, Forgotten
<1>3. \A q \in Sessions \ {p} :
        /\ life'[q] = life[q] /\ mine'[q] = mine[q] /\ seq'[q] = seq[q]
        /\ count'[q] = count[q] /\ refs'[q] = refs[q] /\ kept'[q] = kept[q]
        /\ summary'[q] = summary[q] /\ op'[q] = op[q]
        /\ failures'[q] = failures[q] /\ isOpen'[q] = isOpen[q]
        /\ streak'[q] = streak[q]
  BY <1>0, Forgotten
<1>4. ContextTypeOK'
  <2>1. ASSUME NEW q \in Sessions
        PROVE  /\ DOMAIN records'[q] \subseteq 1 .. seq'[q]
               /\ \A r \in DOMAIN records'[q] : /\ records'[q][r].prev \in 0 .. MaxRecords
                                                /\ records'[q][r].ids \subseteq Messages
    BY <1>0, <1>3 DEF ContextTypeOK
  <2>2. swept' \in SUBSET DirIds /\ born' \in 0 .. MaxDirs
    BY <1>0 DEF ContextTypeOK
  <2>3. QED
    BY <1>1, <2>1, <2>2 DEF ContextTypeOK
<1>5. ASSUME NEW q \in Sessions
      PROVE  Own(q)'
  <2>1. CASE q = p
    <3>1. NoOp.at = "idle" /\ NoOp.mode = "none" /\ NoOp.record = 0
      BY NoOperation
    <3>2. QED
      BY <1>2, <2>1, <3>1, ContextAssumption
         DEF Own, Ordered, Fresh, Underway, Broken, Whole
  <2>2. CASE q # p
    <3>1. Memory(q)' = Memory(q) /\ life'[q] = life[q] /\ mine'[q] = mine[q] /\ swept' = swept
      BY <1>3, <2>2 DEF Memory
    <3>2. QED
      BY <1>0, <3>1, OthersStay
  <2>3. QED
    BY <2>1, <2>2
<1>6. ASSUME NEW q \in Sessions
      PROVE  Placed(q)'
  <2>1. born' = born /\ born \in Nat
    BY <1>0, ContextAssumption DEF ContextTypeOK
  <2>2. QED
    BY <1>0, <1>2, <1>3, <2>1 DEF Placed
<1>7. QED
  BY <1>4, <1>5, <1>6 DEF ArchiveInv, Own

\* A session that has its lock is open, and nothing was swept from it.
LEMMA LocksKeeps ==
    ASSUME ContextAssumption, ArchiveInv, NEW p \in Sessions, Locks(p)
    PROVE  ArchiveInv'
<1>0. ContextTypeOK /\ \A q \in Sessions : Placed(q) /\ Own(q)
  BY DEF ArchiveInv, Own
<1>1. life[p] = "locking" /\ mine[p] # 0 /\ mine[p] \in DirIds
      /\ \A q \in Sessions : mine[q] = mine[p] => q = p
  BY <1>0, ContextAssumption DEF Locks, Placed, ContextTypeOK, DirIds
<1>2. CASE /\ Acquire(p, mine[p]) /\ life' = [life EXCEPT ![p] = "open"]
           /\ swept' = swept \ {mine[p]}
           /\ UNCHANGED <<born, mine, todo, probe, records, seq, textvars, opvars>>
  <2>1. /\ life' \in [Sessions -> {"off", "sweeping", "locking", "open", "closing"}]
        /\ life'[p] = "open" /\ \A q \in Sessions \ {p} : life'[q] = life[q]
        /\ dirs' \in SUBSET DirIds /\ holder' \in [DirIds -> Sessions \cup {Nobody}]
        /\ swept' \in SUBSET DirIds
    BY <1>0, <1>1, <1>2 DEF ContextTypeOK, Acquire
  <2>2. ContextTypeOK'
    BY <1>0, <1>2, <2>1 DEF ContextTypeOK, textvars, opvars
  <2>3. ASSUME NEW q \in Sessions
        PROVE  Own(q)'
    <3>1. CASE q = p
      <4>1. /\ Ordered(p) /\ Fresh(p) /\ Underway(p) /\ Broken(p)
        BY <1>0 DEF Own
      <4>2. /\ count[p] = 0 /\ kept[p] = {} /\ summary[p] = 0 /\ op[p].at = "idle"
            /\ \A m \in Messages : refs[p][m] = {}
        BY <1>1, <4>1 DEF Fresh, Underway
      <4>3. Reach(records[p], 0) = {}
        BY <4>1, ReachNone DEF Ordered
      <4>4. Chain(p)' = {}
        BY <1>2, <4>2, <4>3 DEF Chain, textvars
      <4>5. Whole(p)'
        BY <1>2, <4>2, <4>4 DEF Whole, textvars, opvars
      <4>6. Ordered(p)' /\ Fresh(p)' /\ Underway(p)' /\ Broken(p)'
        BY <1>2, <2>1, <4>1 DEF Ordered, Fresh, Underway, Broken, textvars, opvars
      <4>7. QED
        BY <3>1, <4>5, <4>6 DEF Own
    <3>2. CASE q # p
      <4>1. /\ Memory(q)' = Memory(q) /\ life'[q] = life[q] /\ mine'[q] = mine[q]
            /\ mine[q] \notin swept' => mine[q] \notin swept
        BY <1>1, <1>2, <2>1, <3>2 DEF Memory, textvars, opvars
      <4>2. QED
        BY <1>0, <4>1, OthersStay
    <3>3. QED
      BY <3>1, <3>2
  <2>4. ASSUME NEW q \in Sessions
        PROVE  Placed(q)'
    BY <1>0, <1>1, <1>2, <2>1 DEF Placed
  <2>5. records' = [q \in Sessions |-> records'[q]]
    BY <1>2 DEF ArchiveInv
  <2>6. QED
    BY <2>2, <2>3, <2>4, <2>5 DEF ArchiveInv, Own
<1>3. CASE RemoveDir(mine[p]) /\ Forgets(p) /\ UNCHANGED <<born, swept>>
  <2>1. /\ dirs' \in SUBSET DirIds /\ holder' \in [DirIds -> Sessions \cup {Nobody}]
        /\ DOMAIN records'[p] = {}
        /\ \A q \in Sessions \ {p} : records'[q] = records[q]
        /\ records' = [q \in Sessions |-> records'[q]]
    BY <1>0, <1>1, <1>3, Removed
  <2>2. QED
    BY <1>3, <2>1, EndStep
<1>4. QED
  BY <1>2, <1>3 DEF Locks

\* The directory of a closed session goes with its records.
LEMMA ClosedKeeps ==
    ASSUME ContextAssumption, ArchiveInv, NEW p \in Sessions, Closed(p)
    PROVE  ArchiveInv'
<1>0. ContextTypeOK /\ Placed(p)
  BY DEF ArchiveInv
<1>1. /\ life[p] = "closing" /\ RemoveDir(mine[p]) /\ Forgets(p) /\ UNCHANGED <<born, swept>>
      /\ \A q \in Sessions : mine[q] = mine[p] => q = p
  BY <1>0 DEF Closed, Placed
<1>2. /\ dirs' \in SUBSET DirIds /\ holder' \in [DirIds -> Sessions \cup {Nobody}]
      /\ DOMAIN records'[p] = {}
      /\ \A q \in Sessions \ {p} : records'[q] = records[q]
      /\ records' = [q \in Sessions |-> records'[q]]
  BY <1>0, <1>1, Removed
<1>3. QED
  BY <1>1, <1>2, EndStep

\* A process that dies takes nobody's records but its own.
LEMMA DiesKeeps ==
    ASSUME ContextAssumption, ArchiveInv, NEW p \in Sessions, Dies(p)
    PROVE  ArchiveInv'
<1>0. ContextTypeOK /\ records = [q \in Sessions |-> records[q]]
  BY DEF ArchiveInv
<1>1. /\ holder' = [d \in DirIds |-> IF holder[d] = p THEN Nobody ELSE holder[d]]
      /\ records' = [records EXCEPT ![p] = << >>] /\ Forgets(p)
      /\ UNCHANGED <<dirs, born, swept>>
  BY DEF Dies
<1>2. dirs' \in SUBSET DirIds /\ holder' \in [DirIds -> Sessions \cup {Nobody}]
  BY <1>0, <1>1 DEF ContextTypeOK
<1>3. DOMAIN << >> = {}
  OBVIOUS
<1>4. /\ DOMAIN records'[p] = {}
      /\ \A q \in Sessions \ {p} : records'[q] = records[q]
      /\ records' = [q \in Sessions |-> records'[q]]
  BY <1>0, <1>1, <1>3
<1>5. QED
  BY <1>1, <1>2, <1>4, EndStep

-----------------------------------------------------------------------------
(***************************************************************************)
(* The theorem.                                                            *)
(***************************************************************************)

\* It holds at the beginning, when no process runs.
LEMMA ArchiveBegins ==
    ASSUME ContextAssumption, ContextInit
    PROVE  ArchiveInv
<1>1. ContextTypeOK
  <2>1. \A p \in Sessions : DOMAIN records[p] = {}
    BY DEF ContextInit
  <2>2. op \in [Sessions -> Operations]
    BY NoOperation DEF ContextInit
  <2>3. QED
    BY <2>1, <2>2, ContextAssumption DEF ContextInit, ContextTypeOK
<1>2. ASSUME NEW p \in Sessions
      PROVE  Ordered(p) /\ Placed(p) /\ Fresh(p) /\ Underway(p) /\ Broken(p) /\ Whole(p)
  <2>1. DOMAIN records[p] = {} /\ op[p] = NoOp /\ life[p] = "off" /\ mine[p] = 0
    BY DEF ContextInit
  <2>2. NoOp.at = "idle" /\ NoOp.mode = "none" /\ NoOp.record = 0
    BY NoOperation
  <2>3. QED
    BY <2>1, <2>2, ContextAssumption
       DEF ContextInit, Ordered, Placed, Fresh, Underway, Broken, Whole
<1>3. records = [p \in Sessions |-> records[p]]
  BY DEF ContextInit
<1>4. QED
  BY <1>1, <1>2, <1>3 DEF ArchiveInv

\* And every step keeps it.
LEMMA ArchiveGoesOn ==
    ASSUME ContextAssumption, ArchiveInv, [ContextNext]_contextvars
    PROVE  ArchiveInv'
<1>1. ASSUME NEW p \in Sessions, NEW d \in DirIds, Probes(p, d)
      PROVE  ArchiveInv'
  BY <1>1, ProbesKeeps
<1>2. ASSUME NEW p \in Sessions, NEW n \in 0 .. 2, Commits(p, n)
      PROVE  ArchiveInv'
  BY <1>2, CommitsKeeps
<1>3. ASSUME NEW p \in Sessions, NEW mode \in {"automatic", "manual"},
             NEW early \in Beginnings(p), Begins(p, mode, early)
      PROVE  ArchiveInv'
  BY <1>3, BeginsKeeps
<1>4. ASSUME NEW p \in Sessions,
             Lists(p) \/ ClosesProbe(p) \/ Sweeps(p) \/ Makes(p) \/ Locks(p)
               \/ Closes(p) \/ Closed(p) \/ Dies(p)
      PROVE  ArchiveInv'
  BY <1>4, ListsKeeps, ClosesProbeKeeps, SweepsKeeps, MakesKeeps, LocksKeeps, ClosesKeeps,
     ClosedKeeps, DiesKeeps
<1>5. ASSUME NEW p \in Sessions,
             Succeeds(p) \/ RequestTooLong(p) \/ StreamFails(p) \/ Unparsable(p)
               \/ Counts(p) \/ Cancels(p) \/ RunAdopts(p) \/ ConversationAdopts(p) \/ Resets(p)
      PROVE  ArchiveInv'
  BY <1>5, SucceedsKeeps, FailsKeeps, CountsKeeps, CancelsKeeps, AdoptsKeeps, ResetsKeeps
     DEF RequestTooLong, StreamFails, Unparsable, RunAdopts, ConversationAdopts
<1>6. CASE UNCHANGED contextvars
  <2>1. ContextTypeOK'
    BY <1>6 DEF ArchiveInv, ContextTypeOK, contextvars, dirvars, textvars, opvars
  <2>2. ASSUME NEW q \in Sessions
        PROVE  Placed(q)'
    BY <1>6 DEF ArchiveInv, Placed, contextvars, dirvars
  <2>3. \A q \in Sessions : life'[q] = life[q] /\ mine'[q] = mine[q] /\ Memory(q)' = Memory(q)
                            /\ swept' = swept
    BY <1>6 DEF Memory, contextvars, dirvars, textvars, opvars
  <2>4. \A q \in Sessions : Own(q)
    BY DEF ArchiveInv, Own
  <2>5. \A q \in Sessions : Own(q)'
    BY <2>3, <2>4, OthersStay
  <2>6. records' = [q \in Sessions |-> records'[q]]
    BY <1>6 DEF ArchiveInv, contextvars
  <2>7. QED
    BY <2>1, <2>2, <2>5, <2>6 DEF ArchiveInv, Own
<1>7. QED
  BY <1>1, <1>2, <1>3, <1>4, <1>5, <1>6 DEF ContextNext

\* What was committed can be read, and the breaker has stopped automatic requests.
LEMMA ArchiveInvSuffices ==
    ASSUME ContextAssumption, ArchiveInv
    PROVE  ArchiveIsKept
<1>1. ASSUME NEW p \in Sessions, life[p] = "open", mine[p] \notin swept
      PROVE  1 .. count[p] = Readable(p)
  <2>1. /\ kept[p] \cup Chain(p) = 1 .. count[p]
        /\ \A m \in Messages : refs[p][m] \subseteq DOMAIN records[p]
    BY <1>1 DEF ArchiveInv, Whole
  <2>2. 1 .. count[p] \subseteq Messages
    BY ContextAssumption DEF ArchiveInv, ContextTypeOK, Messages
  <2>3. QED
    BY <2>1, <2>2 DEF Readable
<1>2. AutomaticGivesUp
  BY DEF ArchiveInv, Broken, AutomaticGivesUp
<1>3. QED
  BY <1>1, <1>2 DEF ArchiveIsKept, NothingIsLost

\* Whatever compactions fail, are cancelled half way or cannot be stored, in any order and
\* with any process starting, sweeping and dying next to the session: while nobody swept
\* its directory, every message committed is in the history or in a record that can be
\* reached from its summary, and what its placeholders name is there; and after
\* FailureLimit failures in a row no automatic request is made.
THEOREM ArchiveStaysKept == ContextSpec => []ArchiveIsKept
<1>1. ContextAssumption
  BY ContextAssumption
<1>2. ContextInit => ArchiveInv
  BY <1>1, ArchiveBegins
<1>3. ArchiveInv /\ [ContextNext]_contextvars => ArchiveInv'
  BY <1>1, ArchiveGoesOn
<1>4. ArchiveInv => ArchiveIsKept
  BY <1>1, ArchiveInvSuffices
<1>5. QED
  BY <1>2, <1>3, <1>4, PTL DEF ContextSpec

\* Every variable keeps its type.
THEOREM ContextKeepsTypes == ContextSpec => []ContextTypeOK
<1>1. ContextAssumption
  BY ContextAssumption
<1>2. ContextInit => ArchiveInv
  BY <1>1, ArchiveBegins
<1>3. ArchiveInv /\ [ContextNext]_contextvars => ArchiveInv'
  BY <1>1, ArchiveGoesOn
<1>4. ArchiveInv => ContextTypeOK
  BY DEF ArchiveInv
<1>5. QED
  BY <1>2, <1>3, <1>4, PTL DEF ContextSpec

=============================================================================
