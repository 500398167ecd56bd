--------------------------- MODULE TeamWorkProofs ---------------------------
(***************************************************************************)
(* The work of a team: its task list (TeamTasks), and the runs that a      *)
(* member in a pane is asked for (PaneControl).                            *)
(*                                                                         *)
(* The task list keeps its promises for any number of members, tasks,      *)
(* revisions and plans.  Type correctness is inductive by itself; the two  *)
(* others need each other: a plan is requested for the current task, so    *)
(* only CurrentIsAssigned makes its member the assignee.                   *)
(*                                                                         *)
(* A run that a pane is asked for is in one place at a time, whatever dies *)
(* and however many hosts connect: it is a request in one queue, or a      *)
(* worker, or a report, and it leaves one when it gets to the next.  So    *)
(* what is reported of it is its own, and no worker of it is left.         *)
(***************************************************************************)
EXTENDS TeamTasks, PaneControl, SequenceTheorems, TLAPS

\* What Invalidated(t) leaves open is what was open before, for other tasks; it adds
\* no record of a new member or task.
LEMMA InvalidatedFacts ==
    ASSUME TypeOK, NEW t \in Tasks
    PROVE  /\ Invalidated(t) \subseteq Approvals
           /\ \A a \in Invalidated(t) : a.status \in Open => a \in approvals /\ a.task # t
  <1>1. ASSUME NEW a \in approvals
        PROVE  [a EXCEPT !.status = "invalidated"] \in Approvals
    BY DEF TypeOK, Approvals
  <1>2. Invalidated(t) \subseteq Approvals
    BY <1>1 DEF Invalidated, TypeOK
  <1>3. ASSUME NEW a \in Invalidated(t), a.status \in Open
        PROVE  a \in approvals /\ a.task # t
    <2>1. PICK b \in approvals :
             a = IF b.task = t /\ b.status \in Open
                 THEN [b EXCEPT !.status = "invalidated"] ELSE b
      BY DEF Invalidated
    <2>2. CASE b.task = t /\ b.status \in Open
      <3>1. b \in Approvals
        BY DEF TypeOK
      <3>2. a.status = "invalidated"
        BY <2>1, <2>2, <3>1 DEF Approvals
      <3> QED BY <1>3, <3>2 DEF Open
    <2>3. CASE ~(b.task = t /\ b.status \in Open)
      BY <2>1, <2>3, <1>3
    <2> QED BY <2>2, <2>3
  <1> QED BY <1>2, <1>3

\* The current tasks after a release are well typed and no new ones appear.
LEMMA ReleasedFacts ==
    ASSUME TypeOK, NEW t \in Tasks
    PROVE  /\ Released(t) \in [Members -> Tasks \cup {NoTask}]
           /\ \A m \in Members : Released(t)[m] \in {NoTask, current[m]}
           /\ \A m \in Members : m = assignee[t] => Released(t)[m] = NoTask
  BY DEF Released, TypeOK

\* The initial state satisfies the inductive invariant.
LEMMA InitInv == Init => TypeOK /\ CurrentIsAssigned /\ OpenApprovalsMatch
  BY DEF Init, TypeOK, CurrentIsAssigned, OpenApprovalsMatch, Statuses, Permits, NoPermit

\* Type correctness is preserved by every operation.
LEMMA TypeInvariance == TypeOK /\ [Next]_vars => TypeOK'
  <1> SUFFICES ASSUME TypeOK, [Next]_vars PROVE TypeOK'
    OBVIOUS
  <1>1. ASSUME NEW t \in Tasks, NEW ds \in SUBSET Tasks, CreateTask(t, ds)
        PROVE  TypeOK'
    BY <1>1 DEF CreateTask, TypeOK, Statuses, Present
  <1>2. ASSUME NEW t \in Tasks, NEW expected \in 0..MaxRevision, NEW m \in Members,
               AssignTask(t, m, expected),
               outbox' = outbox \/ Notify(m, t)
        PROVE  TypeOK'
    BY <1>2, InvalidatedFacts, ReleasedFacts
       DEF AssignTask, Fresh, Notify, Announce, TypeOK, Notices, Actors
  <1>3. ASSUME NEW t \in Tasks, NEW expected \in 0..MaxRevision, NEW actor \in Actors,
               NEW ds \in SUBSET Tasks, UpdateTask(actor, t, expected, ds)
        PROVE  TypeOK'
    BY <1>3, InvalidatedFacts DEF UpdateTask, Fresh, TypeOK
  <1>4. ASSUME NEW t \in Tasks, NEW expected \in 0..MaxRevision, NEW actor \in Actors,
               NEW to \in Present, Transition(actor, t, to, expected)
        PROVE  TypeOK'
    <2>1. approvals' \subseteq Approvals
      BY <1>4, InvalidatedFacts DEF Transition, TypeOK
    <2>2. outbox' \subseteq Notices
      BY <1>4 DEF Transition, Fresh, Notify, Announce, TypeOK, Notices, Actors
    <2>3. current' \in [Members -> Tasks \cup {NoTask}]
      BY <1>4, ReleasedFacts DEF Transition, TypeOK
    <2> QED BY <1>4, <2>1, <2>2, <2>3 DEF Transition, Fresh, TypeOK, Statuses
  <1>5. ASSUME NEW t \in Tasks, NEW expected \in 0..MaxRevision, NEW actor \in Actors,
               DeleteTask(actor, t, expected)
        PROVE  TypeOK'
    BY <1>5 DEF DeleteTask, Fresh, TypeOK, Statuses
  <1>6. ASSUME NEW m \in Members, NEW version \in 1..MaxPlans, RequestApproval(m, version)
        PROVE  TypeOK'
    <2>1. current[m] \in Tasks
      BY <1>6 DEF RequestApproval, TypeOK
    <2>2. [member |-> m, task |-> current[m], version |-> version,
           revision |-> revision[current[m]], epoch |-> epoch[current[m]],
           status |-> "pending"] \in Approvals
      BY <2>1 DEF TypeOK, Approvals, Open
    <2>3. [to |-> Lead, task |-> current[m], revision |-> revision[current[m]]] \in Notices
      BY <2>1 DEF TypeOK, Notices, Actors
    <2> QED BY <1>6, <2>1, <2>2, <2>3, InvalidatedFacts
            DEF RequestApproval, Announce, TypeOK, taskVars
  <1>7. ASSUME NEW a \in approvals, NEW decision \in {"approved", "rejected"},
               Decide(a, decision)
        PROVE  TypeOK'
    <2>1. a \in Approvals
      BY DEF TypeOK
    <2>2. [a EXCEPT !.status = decision] \in Approvals
      BY <2>1 DEF Approvals, Open
    <2>3. [to |-> a.member, task |-> a.task, revision |-> a.revision] \in Notices
      BY <2>1 DEF Approvals, Notices, Actors
    <2> QED BY <1>7, <2>2, <2>3 DEF Decide, Decided, Announce, TypeOK, taskVars
  <1>8. ASSUME NEW m \in Members, GrantPermit(m) \/ ReleasePermit(m)
        PROVE  TypeOK'
    BY <1>8 DEF GrantPermit, ReleasePermit, TypeOK, Permits, taskVars
  <1>9. CASE UNCHANGED vars
    BY <1>9 DEF vars, TypeOK
  <1> QED
    BY <1>1, <1>2, <1>3, <1>4, <1>5, <1>6, <1>7, <1>8, <1>9
       DEF Next, TaskStep, ApprovalStep, PermitStep, Assign, Claim

\* A current task stays live and assigned to its member.
LEMMA CurrentInvariance ==
    TypeOK /\ CurrentIsAssigned /\ [Next]_vars => CurrentIsAssigned'
  <1> SUFFICES ASSUME TypeOK, CurrentIsAssigned, [Next]_vars,
                      NEW m \in Members, current'[m] # NoTask
               PROVE  Live(current[m])' /\ assignee'[current'[m]] = m
    BY DEF CurrentIsAssigned
  <1>1. ASSUME NEW t \in Tasks, NEW ds \in SUBSET Tasks, CreateTask(t, ds)
        PROVE  Live(current[m])' /\ assignee'[current'[m]] = m
    BY <1>1 DEF CreateTask, TypeOK, CurrentIsAssigned, Live, Present
  <1>2. ASSUME NEW t \in Tasks, NEW expected \in 0..MaxRevision, NEW n \in Members,
               AssignTask(t, n, expected)
        PROVE  Live(current[m])' /\ assignee'[current'[m]] = m
    <2>1. CASE m = n
      BY <1>2, <2>1, ReleasedFacts DEF AssignTask, Fresh, TypeOK, Live
    <2>2. CASE m # n
      <3>1. current'[m] = current[m] /\ m # assignee[t]
        BY <1>2, <2>2, ReleasedFacts DEF AssignTask
      <3>2. current[m] # t
        BY <3>1 DEF CurrentIsAssigned
      <3> QED BY <1>2, <3>1, <3>2 DEF AssignTask, TypeOK, CurrentIsAssigned, Live
    <2> QED BY <2>1, <2>2
  <1>3. ASSUME NEW t \in Tasks, NEW expected \in 0..MaxRevision, NEW actor \in Actors,
               NEW ds \in SUBSET Tasks, UpdateTask(actor, t, expected, ds)
        PROVE  Live(current[m])' /\ assignee'[current'[m]] = m
    BY <1>3 DEF UpdateTask, CurrentIsAssigned, Live
  <1>4. ASSUME NEW t \in Tasks, NEW expected \in 0..MaxRevision, NEW actor \in Actors,
               NEW to \in Present, Transition(actor, t, to, expected)
        PROVE  Live(current[m])' /\ assignee'[current'[m]] = m
    <2>1. current'[m] = current[m]
      BY <1>4, ReleasedFacts DEF Transition
    <2> QED BY <1>4, <2>1 DEF Transition, TypeOK, CurrentIsAssigned, Live
  <1>5. ASSUME NEW t \in Tasks, NEW expected \in 0..MaxRevision, NEW actor \in Actors,
               DeleteTask(actor, t, expected)
        PROVE  Live(current[m])' /\ assignee'[current'[m]] = m
    BY <1>5 DEF DeleteTask, TypeOK, CurrentIsAssigned, Live
  <1>6. ASSUME UNCHANGED <<taskVars, current>>
        PROVE  Live(current[m])' /\ assignee'[current'[m]] = m
    BY <1>6 DEF taskVars, CurrentIsAssigned, Live
  <1> QED
    BY <1>1, <1>2, <1>3, <1>4, <1>5, <1>6
       DEF Next, TaskStep, ApprovalStep, PermitStep, Assign, Claim, RequestApproval,
           Decide, GrantPermit, ReleasePermit, vars, taskVars

\* An open approval stays that of the assignee's present epoch, and the only one.
LEMMA ApprovalInvariance ==
    TypeOK /\ CurrentIsAssigned /\ OpenApprovalsMatch /\ [Next]_vars => OpenApprovalsMatch'
  <1> SUFFICES ASSUME TypeOK, CurrentIsAssigned, OpenApprovalsMatch, [Next]_vars
               PROVE  OpenApprovalsMatch'
    OBVIOUS
  <1> DEFINE Match(a) == /\ Live(a.task)
                         /\ a.member = assignee[a.task] /\ a.epoch = epoch[a.task]
  <1>a. \A a \in approvals : a.task \in Tasks /\ a.member \in Members /\ a.version \in Nat
    BY DEF TypeOK, Approvals
  \* Operations on task t that close its approvals and spare the others.
  <1>b. ASSUME NEW t \in Tasks,
               \A a \in approvals' : a.status \in Open => a \in approvals /\ a.task # t,
               \A u \in Tasks \ {t} : /\ status'[u] = status[u]
                                      /\ assignee'[u] = assignee[u]
                                      /\ epoch'[u] = epoch[u]
        PROVE  OpenApprovalsMatch'
    BY <1>a, <1>b DEF OpenApprovalsMatch, Live
  \* Operations that leave approvals and what they are bound to alone.
  <1>c. ASSUME approvals' = approvals, assignee' = assignee, epoch' = epoch,
               \A u \in Tasks : Live(u) => Live(u)'
        PROVE  OpenApprovalsMatch'
    BY <1>a, <1>c DEF OpenApprovalsMatch
  <1>1. ASSUME NEW t \in Tasks, NEW ds \in SUBSET Tasks, CreateTask(t, ds)
        PROVE  OpenApprovalsMatch'
    <2>1. \A u \in Tasks : Live(u) => Live(u)'
      BY <1>1 DEF CreateTask, TypeOK, Live, Present
    <2> QED BY <1>1, <1>c, <2>1 DEF CreateTask
  <1>2. ASSUME NEW t \in Tasks, NEW expected \in 0..MaxRevision, NEW n \in Members,
               AssignTask(t, n, expected)
        PROVE  OpenApprovalsMatch'
    <2>1. \A a \in approvals' : a.status \in Open => a \in approvals /\ a.task # t
      BY <1>2, InvalidatedFacts DEF AssignTask
    <2>2. \A u \in Tasks \ {t} : /\ status'[u] = status[u]
                                 /\ assignee'[u] = assignee[u]
                                 /\ epoch'[u] = epoch[u]
      BY <1>2 DEF AssignTask, TypeOK
    <2> QED BY <1>b, <2>1, <2>2
  <1>3. ASSUME NEW t \in Tasks, NEW expected \in 0..MaxRevision, NEW actor \in Actors,
               NEW ds \in SUBSET Tasks, UpdateTask(actor, t, expected, ds)
        PROVE  OpenApprovalsMatch'
    <2>1. CASE ds = deps[t]
      BY <1>3, <1>c, <2>1 DEF UpdateTask, TypeOK, Live
    <2>2. CASE ds # deps[t]
      <3>1. \A a \in approvals' : a.status \in Open => a \in approvals /\ a.task # t
        BY <1>3, <2>2, InvalidatedFacts DEF UpdateTask
      <3>2. \A u \in Tasks \ {t} : /\ status'[u] = status[u]
                                   /\ assignee'[u] = assignee[u]
                                   /\ epoch'[u] = epoch[u]
        BY <1>3 DEF UpdateTask, TypeOK
      <3> QED BY <1>b, <3>1, <3>2
    <2> QED BY <2>1, <2>2
  <1>4. ASSUME NEW t \in Tasks, NEW expected \in 0..MaxRevision, NEW actor \in Actors,
               NEW to \in Present, Transition(actor, t, to, expected)
        PROVE  OpenApprovalsMatch'
    <2>1. CASE to = "pending"
      <3>1. \A a \in approvals' : a.status \in Open => a \in approvals /\ a.task # t
        BY <1>4, <2>1, InvalidatedFacts DEF Transition
      <3>2. \A u \in Tasks \ {t} : /\ status'[u] = status[u]
                                   /\ assignee'[u] = assignee[u]
                                   /\ epoch'[u] = epoch[u]
        BY <1>4 DEF Transition, TypeOK
      <3> QED BY <1>b, <3>1, <3>2
    <2>2. CASE to # "pending"
      <3>1. approvals' = approvals /\ assignee' = assignee /\ epoch' = epoch
        BY <1>4, <2>2 DEF Transition, TypeOK
      <3>2. \A u \in Tasks : Live(u) => Live(u)'
        BY <1>4 DEF Transition, TypeOK, Live
      <3> QED BY <1>c, <3>1, <3>2
    <2> QED BY <2>1, <2>2
  <1>5. ASSUME NEW t \in Tasks, NEW expected \in 0..MaxRevision, NEW actor \in Actors,
               DeleteTask(actor, t, expected)
        PROVE  OpenApprovalsMatch'
    <2>1. \A a \in approvals' : a.status \in Open => a \in approvals /\ a.task # t
      BY <1>5 DEF DeleteTask
    <2>2. \A u \in Tasks \ {t} : /\ status'[u] = status[u]
                                 /\ assignee'[u] = assignee[u]
                                 /\ epoch'[u] = epoch[u]
      BY <1>5 DEF DeleteTask, TypeOK
    <2> QED BY <1>b, <2>1, <2>2
  <1>6. ASSUME NEW m \in Members, NEW version \in 1..MaxPlans, RequestApproval(m, version)
        PROVE  OpenApprovalsMatch'
    <2> DEFINE t == current[m]
               new == [member |-> m, task |-> t, version |-> version,
                       revision |-> revision[t], epoch |-> epoch[t], status |-> "pending"]
    <2>1. t \in Tasks /\ Live(t) /\ assignee[t] = m
      BY <1>6 DEF RequestApproval, TypeOK, CurrentIsAssigned
    <2>2. \A a \in Invalidated(t) : a.status \in Open => a \in approvals /\ a.task # t
      BY <2>1, InvalidatedFacts
    <2>3. approvals' = Invalidated(t) \cup {new} /\ UNCHANGED taskVars
      BY <1>6 DEF RequestApproval
    <2>4. \A a \in approvals' : a.status \in Open =>
             \/ a = new
             \/ a \in approvals /\ a.task # t
      BY <2>2, <2>3
    <2>5. new.task = t /\ Match(new)
      BY <2>1
    <2>6. \A a \in approvals' : a.status \in Open => Match(a)
      BY <2>4, <2>5 DEF OpenApprovalsMatch
    <2>7. ASSUME NEW a \in approvals', NEW b \in approvals',
                 a.status \in Open, b.status \in Open, a.task = b.task
          PROVE  b = a
      BY <2>4, <2>5, <2>7 DEF OpenApprovalsMatch
    <2>8. \A a : Match(a)' <=> Match(a)
      BY <2>3 DEF taskVars, Live
    <2> QED BY <2>6, <2>7, <2>8 DEF OpenApprovalsMatch
  <1>7. ASSUME NEW r \in approvals, NEW decision \in {"approved", "rejected"},
               Decide(r, decision)
        PROVE  OpenApprovalsMatch'
    <2> DEFINE new == [r EXCEPT !.status = decision]
    <2>1. r \in Approvals
      BY DEF TypeOK
    <2>2. new.task = r.task /\ new.member = r.member /\ new.epoch = r.epoch
      BY <2>1 DEF Approvals
    <2>3. r.status \in Open
      BY <1>7 DEF Decide, Open
    <2>4. approvals' = (approvals \ {r}) \cup {new} /\ UNCHANGED taskVars
      BY <1>7 DEF Decide, Decided
    <2>5. \A a \in approvals' : a.status \in Open =>
             \/ a = new
             \/ a \in approvals /\ a.task # r.task
      BY <2>3, <2>4 DEF OpenApprovalsMatch
    <2>6. Match(new)
      BY <2>2, <2>3 DEF OpenApprovalsMatch
    <2>7. \A a \in approvals' : a.status \in Open => Match(a)
      BY <2>5, <2>6 DEF OpenApprovalsMatch
    <2>8. ASSUME NEW a \in approvals', NEW b \in approvals',
                 a.status \in Open, b.status \in Open, a.task = b.task
          PROVE  b = a
      BY <2>5, <2>2, <2>8 DEF OpenApprovalsMatch
    <2>9. \A a : Match(a)' <=> Match(a)
      BY <2>4 DEF taskVars, Live
    <2> QED BY <2>7, <2>8, <2>9 DEF OpenApprovalsMatch
  <1>8. ASSUME NEW m \in Members, GrantPermit(m) \/ ReleasePermit(m)
        PROVE  OpenApprovalsMatch'
    BY <1>8, <1>c DEF GrantPermit, ReleasePermit, taskVars, Live
  <1>9. CASE UNCHANGED vars
    BY <1>9, <1>c DEF vars, Live
  <1> QED
    BY <1>1, <1>2, <1>3, <1>4, <1>5, <1>6, <1>7, <1>8, <1>9
       DEF Next, TaskStep, ApprovalStep, PermitStep, Assign, Claim

\* Every reachable state is well typed.
THEOREM TypeCorrect == Spec => []TypeOK
  <1>1. Init => TypeOK
    BY InitInv
  <1> QED BY <1>1, TypeInvariance, PTL DEF Spec

\* A current task exists and is assigned to the one member it is current for.
THEOREM CurrentTasksAssigned == Spec => []CurrentIsAssigned
  <1>1. Init => CurrentIsAssigned
    BY InitInv
  <1> QED BY <1>1, CurrentInvariance, TypeCorrect, PTL DEF Spec

\* No approval outlives the assignment, the dependencies or the opening of the task
\* it was given for, and none coexists with a newer plan.
THEOREM ApprovalsBound == Spec => []OpenApprovalsMatch
  <1>1. Init => OpenApprovalsMatch
    BY InitInv
  <1> QED BY <1>1, ApprovalInvariance, CurrentTasksAssigned, TypeCorrect, PTL DEF Spec

\* Current tasks, assignees and open approvals agree in every reachable state.
THEOREM BoardConsistent == Spec => []AssignmentsMatch
  <1> QED BY CurrentTasksAssigned, ApprovalsBound, PTL DEF AssignmentsMatch

\* Whatever reassigns a task, replaces its dependencies or reopens it closes its
\* approvals in the same commit.
LEMMA StepInvalidates ==
    TypeOK /\ CurrentIsAssigned /\ [Next]_vars =>
        \A t \in Tasks :
          (Live(t) /\ \/ assignee'[t] # assignee[t]
                      \/ deps'[t] # deps[t]
                      \/ status[t] \in Terminal /\ status'[t] = "pending")
            => \A a \in approvals' : a.task = t => a.status \notin Open
  <1> SUFFICES ASSUME TypeOK, [Next]_vars, NEW u \in Tasks, Live(u),
                      \/ assignee'[u] # assignee[u]
                      \/ deps'[u] # deps[u]
                      \/ status[u] \in Terminal /\ status'[u] = "pending"
               PROVE  \A a \in approvals' : a.task = u => a.status \notin Open
    OBVIOUS
  <1>1. ASSUME NEW t \in Tasks, NEW ds \in SUBSET Tasks, CreateTask(t, ds)
        PROVE  FALSE
    BY <1>1 DEF CreateTask, TypeOK, Live, Present, Terminal
  <1>2. ASSUME NEW t \in Tasks, NEW expected \in 0..MaxRevision, NEW n \in Members,
               AssignTask(t, n, expected)
        PROVE  u = t /\ approvals' = Invalidated(u)
    BY <1>2 DEF AssignTask, TypeOK, Terminal
  <1>3. ASSUME NEW t \in Tasks, NEW expected \in 0..MaxRevision, NEW actor \in Actors,
               NEW ds \in SUBSET Tasks, UpdateTask(actor, t, expected, ds)
        PROVE  u = t /\ approvals' = Invalidated(u)
    BY <1>3 DEF UpdateTask, TypeOK, Terminal
  <1>4. ASSUME NEW t \in Tasks, NEW expected \in 0..MaxRevision, NEW actor \in Actors,
               NEW to \in Present, Transition(actor, t, to, expected)
        PROVE  u = t /\ approvals' = Invalidated(u)
    BY <1>4 DEF Transition, TypeOK, Terminal
  <1>5. ASSUME NEW t \in Tasks, NEW expected \in 0..MaxRevision, NEW actor \in Actors,
               DeleteTask(actor, t, expected)
        PROVE  FALSE
    BY <1>5 DEF DeleteTask, TypeOK, Terminal
  <1>6. ASSUME UNCHANGED taskVars
        PROVE  FALSE
    BY <1>6 DEF taskVars, TypeOK, Terminal
  <1>7. ~UNCHANGED taskVars
    BY <1>6
  <1>8. approvals' = Invalidated(u)
    BY <1>1, <1>2, <1>3, <1>4, <1>5, <1>7
       DEF Next, TaskStep, ApprovalStep, PermitStep, Assign, Claim, RequestApproval,
           Decide, GrantPermit, ReleasePermit, vars, taskVars
  <1> QED BY <1>8, InvalidatedFacts

\* A change that starts a new epoch of a task closes its approvals in the same step.
THEOREM ChangesCloseApprovals == Spec => ChangesInvalidate
  <1> QED
    BY StepInvalidates, TypeCorrect, CurrentTasksAssigned, PTL
       DEF Spec, ChangesInvalidate

-----------------------------------------------------------------------------
\* Plan versions grow: an open approval is the latest of its member and task.
LatestOpen ==
    /\ \A a \in approvals : a.version \in 1..MaxPlans
    /\ \A a, b \in approvals :
         (a.status \in Open /\ b.member = a.member /\ b.task = a.task)
            => b.version <= a.version

\* LatestOpen is inductive given the types.
LEMMA LatestInvariance ==
    TypeOK /\ LatestOpen /\ [Next]_vars => LatestOpen'
  <1> SUFFICES ASSUME TypeOK, LatestOpen, [Next]_vars PROVE LatestOpen'
    OBVIOUS
  <1>a. \A a \in approvals : a.version \in Nat /\ a.task \in Tasks /\ a \in Approvals
    BY DEF TypeOK, Approvals
  \* Invalidation keeps members, tasks and versions.
  <1>b. ASSUME NEW t \in Tasks, NEW a \in Invalidated(t)
        PROVE  \E b \in approvals : /\ a.member = b.member /\ a.task = b.task
                                    /\ a.version = b.version
                                    /\ a.status \in Open => b.status \in Open
    <2>1. PICK b \in approvals :
             a = IF b.task = t /\ b.status \in Open
                 THEN [b EXCEPT !.status = "invalidated"] ELSE b
      BY <1>b DEF Invalidated
    <2>2. b \in Approvals
      BY <1>a
    <2>3. CASE b.task = t /\ b.status \in Open
      BY <2>1, <2>2, <2>3 DEF Approvals
    <2>4. CASE ~(b.task = t /\ b.status \in Open)
      BY <2>1, <2>4
    <2> QED BY <2>3, <2>4
  <1>c. ASSUME NEW t \in Tasks, approvals' = Invalidated(t) PROVE LatestOpen'
    BY <1>b, <1>c DEF LatestOpen
  <1>d. ASSUME approvals' \subseteq approvals PROVE LatestOpen'
    BY <1>d DEF LatestOpen
  <1>1. ASSUME NEW m \in Members, NEW version \in 1..MaxPlans, RequestApproval(m, version)
        PROVE  LatestOpen'
    <2> DEFINE t == current[m]
               new == [member |-> m, task |-> t, version |-> version,
                       revision |-> revision[t], epoch |-> epoch[t], status |-> "pending"]
    <2>1. t \in Tasks
      BY <1>1 DEF RequestApproval, TypeOK
    <2>2. approvals' = Invalidated(t) \cup {new}
      BY <1>1 DEF RequestApproval
    <2>3. \A a \in approvals : (a.member = m /\ a.task = t) => a.version < version
      BY <1>1, <1>a DEF RequestApproval, Versions, LatestOpen
    <2>4. \A a \in Invalidated(t) : (a.member = m /\ a.task = t) => a.version < version
      BY <1>b, <2>1, <2>3
    <2>5. \A a \in Invalidated(t) : a.status \in Open => a.task # t
      BY <2>1, InvalidatedFacts
    <2>6. ASSUME NEW a \in approvals' PROVE a.version \in 1..MaxPlans
      BY <1>b, <2>1, <2>2, <2>6 DEF LatestOpen
    <2>7. ASSUME NEW a \in approvals', NEW b \in approvals', a.status \in Open,
                 b.member = a.member, b.task = a.task
          PROVE  b.version <= a.version
      <3>1. CASE a = new
        BY <2>2, <2>4, <2>6, <2>7, <3>1 DEF Invalidated
      <3>2. CASE a # new
        <4>1. a \in Invalidated(t) /\ b \in Invalidated(t)
          BY <2>2, <2>5, <2>7, <3>2
        <4> QED BY <1>b, <2>1, <2>7, <4>1 DEF LatestOpen
      <3> QED BY <3>1, <3>2
    <2> QED BY <2>6, <2>7 DEF LatestOpen
  <1>2. ASSUME NEW r \in approvals, NEW decision \in {"approved", "rejected"},
               Decide(r, decision)
        PROVE  LatestOpen'
    <2> DEFINE new == [r EXCEPT !.status = decision]
    <2>1. r \in Approvals
      BY <1>a
    <2>2. new.task = r.task /\ new.member = r.member /\ new.version = r.version
      BY <2>1 DEF Approvals
    <2>3. r.status \in Open /\ approvals' = (approvals \ {r}) \cup {new}
      BY <1>2 DEF Decide, Decided, Open
    <2>4. ASSUME NEW a \in approvals'
          PROVE  \E b \in approvals : /\ a.member = b.member /\ a.task = b.task
                                      /\ a.version = b.version
                                      /\ a.status \in Open => b.status \in Open
      BY <2>2, <2>3
    <2> QED BY <2>4 DEF LatestOpen
  <1> QED
    BY <1>1, <1>2, <1>c, <1>d
       DEF Next, TaskStep, ApprovalStep, PermitStep, Assign, Claim, AssignTask, UpdateTask,
           CreateTask, Transition, DeleteTask, GrantPermit, ReleasePermit, vars

\* A side effect of a gated member starts only under the latest plan for its task,
\* and the Lead approved that plan.
THEOREM SideEffectsUnderApprovedPlan == Spec => SideEffectsApproved
  <1>1. Init => LatestOpen
    BY DEF Init, LatestOpen
  <1>2. Spec => []LatestOpen
    BY <1>1, LatestInvariance, TypeCorrect, PTL DEF Spec
  <1>3. ASSUME TypeOK, CurrentIsAssigned, LatestOpen, [Next]_vars, NEW m \in Gated,
               permit[m] = NoPermit, permit'[m] # NoPermit
        PROVE  /\ assignee[permit'[m].task] = m
               /\ \E a \in approvals :
                    /\ a.status = "approved" /\ a.member = m /\ a.task = permit'[m].task
                    /\ \A b \in approvals :
                         (b.member = m /\ b.task = a.task) => b.version <= a.version
    <2>1. m \in Members
      BY <1>3, MemberAssumption
    <2>2. GrantPermit(m)
      <3>1. PICK n \in Members : GrantPermit(n) \/ ReleasePermit(n)
        BY <1>3 DEF Next, TaskStep, ApprovalStep, PermitStep, Assign, Claim, AssignTask,
             UpdateTask, CreateTask, Transition, DeleteTask, RequestApproval, Decide, vars
      <3>2. n = m
        BY <1>3, <2>1, <3>1 DEF GrantPermit, ReleasePermit, TypeOK
      <3> QED BY <1>3, <3>1, <3>2 DEF ReleasePermit
    <2>3. permit'[m].task = current[m] /\ current[m] # NoTask /\ MayRun(m, current[m])
      BY <1>3, <2>1, <2>2 DEF GrantPermit, TypeOK
    <2>4. assignee[current[m]] = m
      BY <1>3, <2>1, <2>3 DEF CurrentIsAssigned
    <2>5. PICK a \in approvals : Authorises(a, m, current[m])
      BY <1>3, <2>3 DEF MayRun
    <2>6. \A b \in approvals : (b.member = m /\ b.task = a.task) => b.version <= a.version
      BY <1>3, <2>5 DEF Authorises, LatestOpen, Open
    <2> QED BY <2>3, <2>4, <2>5, <2>6 DEF Authorises
  <1>4. TypeOK /\ CurrentIsAssigned /\ LatestOpen /\ [Next]_vars =>
          \A m \in Gated :
            (permit[m] = NoPermit /\ permit'[m] # NoPermit) =>
              /\ assignee[permit'[m].task] = m
              /\ \E a \in approvals :
                   /\ a.status = "approved" /\ a.member = m /\ a.task = permit'[m].task
                   /\ \A b \in approvals :
                        (b.member = m /\ b.task = a.task) => b.version <= a.version
    BY <1>3
  <1> QED
    BY <1>2, <1>4, TypeCorrect, CurrentTasksAssigned, PTL DEF Spec, SideEffectsApproved

-----------------------------------------------------------------------------
\* No task waits for a deleted one, and there is always one to begin with in any set of
\* tasks.
GraphIsSound ==
    /\ Acyclic(deps)
    /\ \A t \in Tasks : Live(t) => \A d \in deps[t] : Live(d)

\* GraphIsSound is inductive given the types: dependencies are checked when they are
\* written, and a task that another one waits for is not deleted.
LEMMA GraphInvariance ==
    TypeOK /\ GraphIsSound /\ [Next]_vars => GraphIsSound'
  <1> SUFFICES ASSUME TypeOK, GraphIsSound, [Next]_vars PROVE GraphIsSound'
    OBVIOUS
  \* Operations on task t, after which t may wait for other tasks.
  <1>a. ASSUME NEW t \in Tasks, NEW ds \in SUBSET Tasks, ValidDependencies(t, ds),
               deps' = [deps EXCEPT ![t] = ds],
               \A u \in Tasks \ {t} : status'[u] = status[u],
               Live(t)'
        PROVE  GraphIsSound'
    <2>1. Acyclic(deps)'
      BY <1>a DEF ValidDependencies, Acyclic
    <2>2. ASSUME NEW u \in Tasks, Live(u)', NEW d \in deps'[u] PROVE Live(d)'
      <3>1. CASE u = t
        BY <1>a, <2>2, <3>1 DEF ValidDependencies, TypeOK, Live
      <3>2. CASE u # t
        <4>1. d \in deps[u] /\ Live(u)
          BY <1>a, <2>2, <3>2 DEF TypeOK, Live
        <4>2. d \in Tasks /\ Live(d)
          BY <4>1 DEF TypeOK, GraphIsSound
        <4> QED BY <1>a, <4>2 DEF Live
      <3> QED BY <3>1, <3>2
    <2> QED BY <2>1, <2>2 DEF GraphIsSound
  \* Operations that change no dependency and after which the same tasks exist.
  <1>b. ASSUME UNCHANGED deps, \A u \in Tasks : Live(u)' <=> Live(u)
        PROVE  GraphIsSound'
    BY <1>b DEF GraphIsSound, Acyclic, TypeOK
  <1>1. ASSUME NEW t \in Tasks, NEW ds \in SUBSET Tasks, CreateTask(t, ds)
        PROVE  GraphIsSound'
    BY <1>1, <1>a DEF CreateTask, TypeOK, Live, Present
  <1>2. ASSUME NEW t \in Tasks, NEW expected \in 0..MaxRevision, NEW n \in Members,
               AssignTask(t, n, expected)
        PROVE  GraphIsSound'
    BY <1>2, <1>b DEF AssignTask, Live
  <1>3. ASSUME NEW t \in Tasks, NEW expected \in 0..MaxRevision, NEW actor \in Actors,
               NEW ds \in SUBSET Tasks, UpdateTask(actor, t, expected, ds)
        PROVE  GraphIsSound'
    BY <1>3, <1>a DEF UpdateTask, Fresh, Live
  <1>4. ASSUME NEW t \in Tasks, NEW expected \in 0..MaxRevision, NEW actor \in Actors,
               NEW to \in Present, Transition(actor, t, to, expected)
        PROVE  GraphIsSound'
    BY <1>4, <1>b DEF Transition, Fresh, TypeOK, Live
  <1>5. ASSUME NEW t \in Tasks, NEW expected \in 0..MaxRevision, NEW actor \in Actors,
               DeleteTask(actor, t, expected)
        PROVE  GraphIsSound'
    <2>1. /\ UNCHANGED deps /\ ~Live(t)'
          /\ \A u \in Tasks \ {t} : Live(u)' <=> Live(u)
          /\ \A u \in Tasks : Live(u) => t \notin deps[u]
      BY <1>5 DEF DeleteTask, TypeOK, Live, Present, Terminal
    <2>2. Acyclic(deps)'
      BY <2>1 DEF GraphIsSound, Acyclic
    <2>3. \A u \in Tasks : Live(u)' => \A d \in deps'[u] : Live(d)'
      BY <2>1 DEF GraphIsSound, TypeOK
    <2> QED BY <2>2, <2>3 DEF GraphIsSound
  <1> QED
    BY <1>1, <1>2, <1>3, <1>4, <1>5, <1>b
       DEF Next, TaskStep, ApprovalStep, PermitStep, Assign, Claim, RequestApproval,
           Decide, GrantPermit, ReleasePermit, vars, taskVars, Live

\* As long as some task is not completed, some such task waits for no other: however often
\* dependencies are replaced, tasks reopened and deleted.
THEOREM TasksNeverWedge == Spec => []SomeTaskUnblocked
  <1>1. Init => GraphIsSound
    BY DEF Init, GraphIsSound, Acyclic, Live, Present, Terminal
  <1>2. TypeOK /\ GraphIsSound => SomeTaskUnblocked
    <2> SUFFICES ASSUME TypeOK, GraphIsSound,
                        NEW u \in Tasks, Live(u), status[u] # "completed"
                 PROVE  \E t \in Tasks : Live(t) /\ status[t] # "completed" /\ ~Blocked(t)
      BY DEF SomeTaskUnblocked
    <2> DEFINE S == {t \in Tasks : Live(t) /\ status[t] # "completed"}
    <2>1. PICK t \in S : deps[t] \cap S = {}
      <3>1. S \in SUBSET Tasks /\ u \in S
        OBVIOUS
      <3> QED BY <3>1 DEF GraphIsSound, Acyclic
    <2>2. \A d \in deps[t] : d \in Tasks /\ Live(d)
      BY <2>1 DEF GraphIsSound, TypeOK
    <2>3. ~Blocked(t)
      BY <2>1, <2>2 DEF Blocked
    <2> QED BY <2>1, <2>3
  <1> QED BY <1>1, <1>2, GraphInvariance, TypeCorrect, PTL DEF Spec

-----------------------------------------------------------------------------
(* The pane of a member. *)

\* What is in a queue, and that a message is in it once.
Items(s) == {s[i] : i \in 1..Len(s)}
Once(s, m) == \A i, j \in 1..Len(s) : s[i] = m /\ s[j] = m => i = j

\* Which runs a link carries a request for, which ones the member is told to cancel, and
\* which ones a report is under way of.
Wants(q, l)   == {r \in Runs : Item("run", r) \in Items(q[l].down)}
Cancels(q)    == {r \in Runs : \E l \in Links : Item("cancel", r) \in Items(q[l].down)}
Says(q, kind) == {r \in Runs : \E l \in Links :
                     Item(kind, r) \in Items(q[l].up) \cup Items(q[l].events)}
Reports(kind) == Says(links, kind) \cup {r \in Runs : outcome[r] = kind}

\* A driver that waits has a run and a link; a host that reads has a link, and a
\* worker if it is busy; a link that was not opened is nobody's.
AtWork == {"busy", "killing", "killing for nobody"}
SeatsAreTaken ==
    /\ driver # "idle" => paneRun \in Runs
    /\ driver = "waiting" => mine \in Links
    /\ hid <= paneRun
    /\ \A p \in Hosts : /\ host[p] \in {"asked", "idle"} \cup AtWork => tries[p] >= 1
                        /\ host[p] \in AtWork => worker[p] \in Runs
    /\ \A l \in Links : l[2] > tries[l[1]] => links[l].lead = "none"

\* A run that was not requested yet is unknown everywhere.
Unasked(r) == r > paneRun \/ (r = paneRun /\ driver = "provision")
Unknown(r) ==
    /\ \A l \in Links : r \notin Wants(links, l)
    /\ r \notin Cancels(links) \cup Reports("done") \cup Reports("stopped")
    /\ \A p \in Hosts : worker[p] # r

\* It is in one place: a request, or a worker, or a report.
InOnePlace(r) ==
    /\ \A k, l \in Links : r \in Wants(links, k) /\ r \in Wants(links, l) => k = l
    /\ \A l \in Links : Once(links[l].down, Item("run", r))
    /\ \A p, o \in Hosts : worker[p] = r /\ worker[o] = r => p = o
    /\ \A p \in Hosts, l \in Links : worker[p] = r => r \notin Wants(links, l)
    /\ r \in Reports("done") \cup Reports("stopped") =>
         /\ \A l \in Links : r \notin Wants(links, l)
         /\ \A p \in Hosts : worker[p] # r

\* What is said of it is true.
ReportsAreTrue ==
    /\ Reports("done") \subseteq ended
    /\ Reports("stopped") \cup Cancels(links) \subseteq stopping
    /\ \A p \in Hosts : host[p] = "killing" => worker[p] \in stopping

RunsAreTraced == \A r \in Runs : InOnePlace(r) /\ (Unasked(r) => Unknown(r))

PaneInv == PaneTypeOK /\ OneHostServes /\ SeatsAreTaken /\ RunsAreTraced /\ ReportsAreTrue

LinkRec == [id : 0..MaxPaneRuns, up : Seq(Reported), down : Seq(Requested),
            events : Seq(Reported), lead : {"none", "new", "open", "closed"},
            host : {"none", "open", "closed"}]
Connections == [Links -> LinkRec]

\* What the last message adds to a queue, and what reading the first takes from it.
LEMMA AppendedItems ==
    ASSUME NEW S, NEW s \in Seq(S), NEW m \in S
    PROVE  /\ Append(s, m) \in Seq(S)
           /\ Items(Append(s, m)) = Items(s) \cup {m}
           /\ \A x : Once(s, x) /\ (x # m \/ x \notin Items(s)) => Once(Append(s, m), x)
<1>. DEFINE t == Append(s, m)
<1>1. t \in Seq(S) /\ Len(s) \in Nat /\ Len(t) = Len(s) + 1 /\ t[Len(s) + 1] = m
      /\ \A i \in 1..Len(s) : t[i] = s[i]
  BY AppendProperties, LenProperties
<1>. HIDE DEF t
<1>2. \A i \in 1..Len(t) : i \in 1..Len(s) \/ i = Len(s) + 1
  BY <1>1
<1>3. Items(t) = Items(s) \cup {m}
  <2>1. ASSUME NEW i \in 1..Len(t) PROVE t[i] \in Items(s) \cup {m}
    BY <1>1, <1>2 DEF Items
  <2>2. ASSUME NEW i \in 1..Len(s) PROVE s[i] \in Items(t)
    <3>1. i \in 1..Len(t) /\ t[i] = s[i]
      BY <1>1
    <3> QED BY <3>1 DEF Items
  <2>3. m \in Items(t)
    <3>1. Len(s) + 1 \in 1..Len(t)
      BY <1>1
    <3> QED BY <1>1, <3>1 DEF Items
  <2> QED BY <2>1, <2>2, <2>3 DEF Items
<1>4. ASSUME NEW x, Once(s, x), x # m \/ x \notin Items(s), NEW i \in 1..Len(t), NEW j \in 1..Len(t),
             t[i] = x, t[j] = x
      PROVE  i = j
  <2>1. CASE x # m
    BY <1>1, <1>2, <1>4, <2>1 DEF Once
  <2>2. CASE x \notin Items(s)
    <3>1. \A k \in 1..Len(t) : t[k] = x => k = Len(s) + 1
      BY <1>1, <1>2, <2>2 DEF Items
    <3> QED BY <1>4, <3>1
  <2> QED BY <1>4, <2>1, <2>2
<1> QED BY <1>1, <1>3, <1>4 DEF t, Once

\* What reading the first takes from it.
LEMMA TailItems ==
    ASSUME NEW S, NEW s \in Seq(S), s # <<>>
    PROVE  /\ Tail(s) \in Seq(S) /\ Head(s) \in S /\ Head(s) \in Items(s)
           /\ Items(Tail(s)) \subseteq Items(s)
           /\ \A x : Once(s, x) => Once(Tail(s), x) /\ (x = Head(s) => x \notin Items(Tail(s)))
<1>. DEFINE t == Tail(s)
<1>1. /\ t \in Seq(S) /\ Len(s) \in Nat /\ Len(s) >= 1 /\ Len(t) = Len(s) - 1 /\ Head(s) = s[1]
      /\ Head(s) \in S
  BY HeadTailProperties, EmptySeq, LenProperties
<1>2. \A i \in 1..Len(t) : t[i] = s[i + 1] /\ i + 1 \in 1..Len(s) /\ i + 1 # 1
  BY <1>1, HeadTailProperties
<1>. HIDE DEF t
<1>3. Items(t) \subseteq Items(s) /\ Head(s) \in Items(s)
  <2>1. 1 \in 1..Len(s)
    BY <1>1
  <2> QED BY <1>1, <1>2, <2>1 DEF Items
<1>4. ASSUME NEW x, Once(s, x) PROVE Once(t, x) /\ (x = Head(s) => x \notin Items(t))
  <2>1. ASSUME NEW i \in 1..Len(t), NEW j \in 1..Len(t), t[i] = x, t[j] = x PROVE i = j
    <3>1. i + 1 = j + 1
      BY <1>2, <1>4, <2>1 DEF Once
    <3> QED BY <1>1, <3>1
  <2>2. ASSUME x = Head(s), NEW i \in 1..Len(t), t[i] = x PROVE FALSE
    <3>1. 1 \in 1..Len(s) /\ i + 1 \in 1..Len(s) /\ s[1] = x /\ s[i + 1] = x /\ i + 1 # 1
      BY <1>1, <1>2, <2>2
    <3> QED BY <1>4, <3>1 DEF Once
  <2> QED BY <2>1, <2>2 DEF Once, Items
<1> QED BY <1>1, <1>3, <1>4 DEF t

\* Nothing but what was under way is under way.
Less(q1, q) ==
    /\ \A k \in Links : /\ Wants(q1, k) \subseteq Wants(q, k)
                        /\ \A r \in Runs : Once(q[k].down, Item("run", r))
                                             => Once(q1[k].down, Item("run", r))
    /\ Cancels(q1) \subseteq Cancels(q)
    /\ \A kind \in {"done", "stopped"} : Says(q1, kind) \subseteq Says(q, kind)

\* It is so when each queue holds less.
LEMMA LessItems ==
    ASSUME NEW q, NEW q1,
           \A k \in Links :
             /\ \A r \in Runs, kind \in {"run", "cancel"} :
                  Item(kind, r) \in Items(q1[k].down) => Item(kind, r) \in Items(q[k].down)
             /\ \A r \in Runs : Once(q[k].down, Item("run", r)) => Once(q1[k].down, Item("run", r))
             /\ \A r \in Runs, kind \in {"done", "stopped"} :
                  Item(kind, r) \in Items(q1[k].up) \cup Items(q1[k].events)
                    => Item(kind, r) \in Items(q[k].up) \cup Items(q[k].events)
    PROVE  Less(q1, q)
BY DEF Less, Wants, Cancels, Says

\* Two such steps are one.
LEMMA LessTwice == ASSUME NEW q, NEW q1, NEW q2, Less(q1, q), Less(q2, q1) PROVE Less(q2, q)
BY DEF Less

\* What a message to the host changes.
LEMMA SentDown ==
    ASSUME NEW q \in Connections, NEW l \in Links, NEW m \in Requested, NEW q1,
           q1 = Sent(q, l, "down", m)
    PROVE  /\ q1 \in Connections
           /\ \A k \in Links : q1[k].lead = q[k].lead /\ q1[k].host = q[k].host /\ q1[k].id = q[k].id
                /\ q1[k].up = q[k].up /\ q1[k].events = q[k].events
           /\ \A k \in Links : k # l => q1[k] = q[k]
           /\ \A x : x \in Items(q1[l].down) => x \in Items(q[l].down) \/ x = m
           /\ \A x : Once(q[l].down, x) /\ (x # m \/ x \notin Items(q[l].down)) => Once(q1[l].down, x)
<1>1. q[l] \in LinkRec /\ q[l].down \in Seq(Requested)
  BY DEF Connections, LinkRec
<1>. DEFINE d == Append(q[l].down, m)
<1>2. /\ d \in Seq(Requested)
      /\ Items(d) = Items(q[l].down) \cup {m}
      /\ \A x : Once(q[l].down, x) /\ (x # m \/ x \notin Items(q[l].down)) => Once(d, x)
  BY <1>1, AppendedItems
<1>3. q1 = [q EXCEPT ![l] = [q[l] EXCEPT !.down = d]]
  BY DEF Sent, Connections
<1>. HIDE DEF d
<1>4. [q[l] EXCEPT !.down = d] \in LinkRec
  BY <1>1, <1>2 DEF LinkRec
<1>5. q1 \in Connections /\ q1[l] = [q[l] EXCEPT !.down = d] /\ \A k \in Links : k # l => q1[k] = q[k]
  BY <1>3, <1>4 DEF Connections
<1>6. /\ q1[l].down = d /\ q1[l].lead = q[l].lead /\ q1[l].host = q[l].host /\ q1[l].id = q[l].id
      /\ q1[l].up = q[l].up /\ q1[l].events = q[l].events
  BY <1>1, <1>5 DEF LinkRec
<1> QED BY <1>2, <1>5, <1>6

\* What a message of the host changes.
LEMMA SentUp ==
    ASSUME NEW q \in Connections, NEW l \in Links, NEW m \in Reported, NEW q1,
           q1 = Sent(q, l, "up", m)
    PROVE  /\ q1 \in Connections
           /\ \A k \in Links : q1[k].lead = q[k].lead /\ q1[k].host = q[k].host /\ q1[k].id = q[k].id
                /\ q1[k].down = q[k].down /\ q1[k].events = q[k].events
           /\ \A k \in Links : k # l => q1[k] = q[k]
           /\ Items(q1[l].up) = Items(q[l].up) \cup {m}
<1>1. q[l] \in LinkRec /\ q[l].up \in Seq(Reported)
  BY DEF Connections, LinkRec
<1>. DEFINE d == Append(q[l].up, m)
<1>2. d \in Seq(Reported) /\ Items(d) = Items(q[l].up) \cup {m}
  BY <1>1, AppendedItems
<1>3. q1 = [q EXCEPT ![l] = [q[l] EXCEPT !.up = d]]
  BY DEF Sent, Connections
<1>. HIDE DEF d
<1>4. [q[l] EXCEPT !.up = d] \in LinkRec
  BY <1>1, <1>2 DEF LinkRec
<1>5. q1 \in Connections /\ q1[l] = [q[l] EXCEPT !.up = d] /\ \A k \in Links : k # l => q1[k] = q[k]
  BY <1>3, <1>4 DEF Connections
<1>6. /\ q1[l].up = d /\ q1[l].lead = q[l].lead /\ q1[l].host = q[l].host /\ q1[l].id = q[l].id
      /\ q1[l].down = q[l].down /\ q1[l].events = q[l].events
  BY <1>1, <1>5 DEF LinkRec
<1> QED BY <1>2, <1>5, <1>6

\* What reading of each direction changes.
LEMMA ReadDown ==
    ASSUME NEW q \in Connections, NEW l \in Links, q[l].down # <<>>, NEW q1,
           q1 = Read(q, l, "down")
    PROVE  /\ q1 \in Connections
           /\ \A k \in Links : q1[k].lead = q[k].lead /\ q1[k].host = q[k].host /\ q1[k].id = q[k].id
                /\ q1[k].up = q[k].up /\ q1[k].events = q[k].events
           /\ \A k \in Links : k # l => q1[k] = q[k]
           /\ Head(q[l].down) \in Requested /\ Head(q[l].down) \in Items(q[l].down)
           /\ Items(q1[l].down) \subseteq Items(q[l].down)
           /\ \A x : Once(q[l].down, x) => Once(q1[l].down, x)
                       /\ (x = Head(q[l].down) => x \notin Items(q1[l].down))
<1>1. q[l] \in LinkRec /\ q[l].down \in Seq(Requested)
  BY DEF Connections, LinkRec
<1>. DEFINE d == Tail(q[l].down)
<1>2. /\ d \in Seq(Requested) /\ Head(q[l].down) \in Requested /\ Head(q[l].down) \in Items(q[l].down)
      /\ Items(d) \subseteq Items(q[l].down)
      /\ \A x : Once(q[l].down, x) => Once(d, x) /\ (x = Head(q[l].down) => x \notin Items(d))
  BY <1>1, TailItems
<1>3. q1 = [q EXCEPT ![l] = [q[l] EXCEPT !.down = d]]
  BY DEF Read, Connections
<1>. HIDE DEF d
<1>4. [q[l] EXCEPT !.down = d] \in LinkRec
  BY <1>1, <1>2 DEF LinkRec
<1>5. q1 \in Connections /\ q1[l] = [q[l] EXCEPT !.down = d] /\ \A k \in Links : k # l => q1[k] = q[k]
  BY <1>3, <1>4 DEF Connections
<1>6. /\ q1[l].down = d /\ q1[l].lead = q[l].lead /\ q1[l].host = q[l].host /\ q1[l].id = q[l].id
      /\ q1[l].up = q[l].up /\ q1[l].events = q[l].events
  BY <1>1, <1>5 DEF LinkRec
<1> QED BY <1>2, <1>5, <1>6

\* Reading of the other direction.
LEMMA ReadUp ==
    ASSUME NEW q \in Connections, NEW l \in Links, q[l].up # <<>>, NEW q1,
           q1 = Read(q, l, "up")
    PROVE  /\ q1 \in Connections
           /\ \A k \in Links : q1[k].lead = q[k].lead /\ q1[k].host = q[k].host /\ q1[k].id = q[k].id
                /\ q1[k].down = q[k].down /\ q1[k].events = q[k].events
           /\ \A k \in Links : k # l => q1[k] = q[k]
           /\ Head(q[l].up) \in Reported /\ Head(q[l].up) \in Items(q[l].up)
           /\ Items(q1[l].up) \subseteq Items(q[l].up)
<1>1. q[l] \in LinkRec /\ q[l].up \in Seq(Reported)
  BY DEF Connections, LinkRec
<1>. DEFINE d == Tail(q[l].up)
<1>2. /\ d \in Seq(Reported) /\ Head(q[l].up) \in Reported /\ Head(q[l].up) \in Items(q[l].up)
      /\ Items(d) \subseteq Items(q[l].up)
  BY <1>1, TailItems
<1>3. q1 = [q EXCEPT ![l] = [q[l] EXCEPT !.up = d]]
  BY DEF Read, Connections
<1>. HIDE DEF d
<1>4. [q[l] EXCEPT !.up = d] \in LinkRec
  BY <1>1, <1>2 DEF LinkRec
<1>5. q1 \in Connections /\ q1[l] = [q[l] EXCEPT !.up = d] /\ \A k \in Links : k # l => q1[k] = q[k]
  BY <1>3, <1>4 DEF Connections
<1>6. /\ q1[l].up = d /\ q1[l].lead = q[l].lead /\ q1[l].host = q[l].host /\ q1[l].id = q[l].id
      /\ q1[l].down = q[l].down /\ q1[l].events = q[l].events
  BY <1>1, <1>5 DEF LinkRec
<1> QED BY <1>2, <1>5, <1>6

\* Taking from the queue of reports.
LEMMA ReadEvents ==
    ASSUME NEW q \in Connections, NEW l \in Links, q[l].events # <<>>, NEW q1,
           q1 = Read(q, l, "events")
    PROVE  /\ q1 \in Connections
           /\ \A k \in Links : q1[k].lead = q[k].lead /\ q1[k].host = q[k].host /\ q1[k].id = q[k].id
                /\ q1[k].down = q[k].down /\ q1[k].up = q[k].up
           /\ \A k \in Links : k # l => q1[k] = q[k]
           /\ Head(q[l].events) \in Reported /\ Head(q[l].events) \in Items(q[l].events)
           /\ Items(q1[l].events) \subseteq Items(q[l].events)
<1>1. q[l] \in LinkRec /\ q[l].events \in Seq(Reported)
  BY DEF Connections, LinkRec
<1>. DEFINE d == Tail(q[l].events)
<1>2. /\ d \in Seq(Reported) /\ Head(q[l].events) \in Reported
      /\ Head(q[l].events) \in Items(q[l].events)
      /\ Items(d) \subseteq Items(q[l].events)
  BY <1>1, TailItems
<1>3. q1 = [q EXCEPT ![l] = [q[l] EXCEPT !.events = d]]
  BY DEF Read, Connections
<1>. HIDE DEF d
<1>4. [q[l] EXCEPT !.events = d] \in LinkRec
  BY <1>1, <1>2 DEF LinkRec
<1>5. q1 \in Connections /\ q1[l] = [q[l] EXCEPT !.events = d] /\ \A k \in Links : k # l => q1[k] = q[k]
  BY <1>3, <1>4 DEF Connections
<1>6. /\ q1[l].events = d /\ q1[l].lead = q[l].lead /\ q1[l].host = q[l].host /\ q1[l].id = q[l].id
      /\ q1[l].down = q[l].down /\ q1[l].up = q[l].up
  BY <1>1, <1>5 DEF LinkRec
<1> QED BY <1>2, <1>5, <1>6

\* Leaving links closes one end of them and keeps their queues.
LEMMA LeftEnds ==
    ASSUME NEW q \in Connections, NEW S, NEW end \in {"lead", "host"}, NEW q1,
           q1 = Leave(q, S, end)
    PROVE  /\ q1 \in Connections
           /\ \A k \in Links : /\ q1[k].up = q[k].up /\ q1[k].down = q[k].down
                               /\ q1[k].events = q[k].events /\ q1[k].id = q[k].id
           /\ \A k \in Links : k \notin S => q1[k] = q[k]
           /\ end = "host" => \A k \in Links : q1[k].lead = q[k].lead
           /\ end = "lead" => \A k \in Links : k \in S => q1[k].lead = "closed"
<1>1. ASSUME NEW k \in Links
      PROVE  /\ q1[k] \in LinkRec
             /\ q1[k].up = q[k].up /\ q1[k].down = q[k].down
             /\ q1[k].events = q[k].events /\ q1[k].id = q[k].id
             /\ k \notin S => q1[k] = q[k]
             /\ end = "host" => q1[k].lead = q[k].lead
             /\ end = "lead" /\ k \in S => q1[k].lead = "closed"
  <2>1. q[k] \in LinkRec
    BY DEF Connections
  <2>2. CASE k \notin S
    BY <2>1, <2>2 DEF Leave
  <2>3. CASE k \in S /\ end = "host"
    <3>1. q1[k] = [q[k] EXCEPT !.host = "closed"]
      BY <2>3 DEF Leave
    <3> QED BY <2>1, <2>3, <3>1 DEF LinkRec
  <2>4. CASE k \in S /\ end = "lead"
    <3>1. q1[k] = [q[k] EXCEPT !.lead = "closed"]
      BY <2>4 DEF Leave
    <3> QED BY <2>1, <2>4, <3>1 DEF LinkRec
  <2> QED BY <2>2, <2>3, <2>4
<1>2. q1 \in Connections
  BY <1>1 DEF Leave, Connections
<1> QED BY <1>1, <1>2
\* A step that starts, requests and reports no run keeps what is known of the runs.
Quieter ==
    /\ Less(links', links)
    /\ \A r \in Runs : outcome'[r] \in {outcome[r], "failed"} \/ r \in Says(links, outcome'[r])
    /\ \A p \in Hosts : worker'[p] \in {worker[p], 0}
    /\ ended \subseteq ended' /\ stopping \subseteq stopping'
    /\ \A r \in Runs : r > paneRun' \/ (r = paneRun' /\ driver' = "provision") => Unasked(r)
    /\ \A p \in Hosts : host'[p] = "killing" => worker'[p] = worker[p] /\ worker[p] \in stopping

\* What such a step needs of the runs is enough.
LEMMA RunsStayTraced ==
    ASSUME RunsAreTraced, ReportsAreTrue, Quieter
    PROVE  RunsAreTraced' /\ ReportsAreTrue'
<1>1. \A r \in Runs : r # 0
  BY PaneAssumption DEF Runs
<1>2. ASSUME NEW r \in Runs
      PROVE  /\ \A l \in Links : r \in Wants(links', l) => r \in Wants(links, l)
             /\ \A l \in Links : Once(links[l].down, Item("run", r)) => Once(links'[l].down, Item("run", r))
             /\ r \in Cancels(links') => r \in Cancels(links)
             /\ \A kind \in {"done", "stopped"} :
                  r \in Says(links', kind) \/ outcome'[r] = kind => r \in Reports(kind)
             /\ \A p \in Hosts : worker'[p] = r => worker[p] = r
  BY <1>1 DEF Quieter, Less, Reports
<1>3. ASSUME NEW r \in Runs PROVE InOnePlace(r)' /\ (Unasked(r)' => Unknown(r)')
  <2>1. InOnePlace(r) /\ (Unasked(r) => Unknown(r))
    BY DEF RunsAreTraced
  <2>2. InOnePlace(r)'
    BY <1>2, <2>1 DEF InOnePlace, Reports
  <2>3. ASSUME Unasked(r)' PROVE Unknown(r)'
    <3>1. Unknown(r)
      BY <2>1, <2>3 DEF Quieter, Unasked
    <3> QED BY <1>2, <3>1 DEF Unknown, Reports
  <2> QED BY <2>2, <2>3
<1>4. ReportsAreTrue'
  <2>1. ASSUME NEW r \in Runs
        PROVE  /\ r \in Reports("done")' => r \in ended'
               /\ r \in Reports("stopped")' => r \in stopping'
               /\ r \in Cancels(links') => r \in stopping'
    BY <1>2 DEF Quieter, ReportsAreTrue, Reports
  <2>2. Reports("done")' \subseteq Runs /\ Reports("stopped")' \subseteq Runs /\ Cancels(links') \subseteq Runs
    BY DEF Reports, Says, Cancels
  <2>3. \A p \in Hosts : host'[p] = "killing" => worker'[p] \in stopping'
    BY DEF Quieter, ReportsAreTrue
  <2> QED BY <2>1, <2>2, <2>3 DEF ReportsAreTrue
<1> QED BY <1>3, <1>4 DEF RunsAreTraced

\* Some consequences of the types.
LEMMA PaneTypes ==
    ASSUME PaneTypeOK
    PROVE  /\ MaxPaneRuns \in Nat /\ MaxTries \in Nat /\ NoLink \notin Links /\ Hosts = Runs
           /\ \A r \in Runs : r \in Nat /\ r # 0 /\ r <= MaxPaneRuns
           /\ \A l \in Links : l[1] \in Hosts /\ l[2] \in 1..MaxTries /\ l = <<l[1], l[2]>>
           /\ links \in Connections
           /\ \A l \in Links : links[l] \in LinkRec
           /\ \A p \in Hosts : tries[p] \in 0..MaxTries /\ worker[p] \in 0..MaxPaneRuns
           /\ SeatsAreTaken => \A p \in Hosts : tries[p] >= 1 => Link(p) \in Links
<1>1. MaxPaneRuns \in Nat /\ MaxTries \in Nat
  BY PaneAssumption
<1>2. links \in Connections
  BY DEF PaneTypeOK, Connections, LinkRec
<1>3. NoLink \notin Links
  BY <1>1 DEF NoLink, Links, Hosts
<1>4. \A p \in Hosts : tries[p] \in 0..MaxTries /\ worker[p] \in 0..MaxPaneRuns
  BY DEF PaneTypeOK
<1>5. \A l \in Links : l[1] \in Hosts /\ l[2] \in 1..MaxTries /\ l = <<l[1], l[2]>>
  BY DEF Links
<1>6. \A p \in Hosts : tries[p] >= 1 => Link(p) \in Links
  BY <1>1, <1>4 DEF Links, Link
<1> QED BY <1>1, <1>2, <1>3, <1>4, <1>5, <1>6 DEF Connections, Runs, Hosts
\* A step that stays within the types and keeps the seats keeps the invariant when it is quiet.
LEMMA QuietStep ==
    ASSUME PaneInv, Quieter, PaneTypeOK', OneHostServes', SeatsAreTaken'
    PROVE  PaneInv'
BY RunsStayTraced DEF PaneInv

\* Nothing at all is such a step, and so is closing ends and reading messages.
LEMMA LessSame == ASSUME NEW q PROVE Less(q, q)
BY DEF Less

\* Closing ends of links.
LEMMA LessLeft ==
    ASSUME NEW q \in Connections, NEW S, NEW end \in {"lead", "host"}
    PROVE  Less(Leave(q, S, end), q)
BY LeftEnds, LessItems

\* Reading a request.
LEMMA LessReadDown ==
    ASSUME NEW q \in Connections, NEW l \in Links, q[l].down # <<>>
    PROVE  Less(Read(q, l, "down"), q)
<1>. DEFINE q1 == Read(q, l, "down")
<1>1. /\ \A k \in Links : q1[k].up = q[k].up /\ q1[k].events = q[k].events
      /\ \A k \in Links : k # l => q1[k] = q[k]
      /\ Items(q1[l].down) \subseteq Items(q[l].down)
      /\ \A x : Once(q[l].down, x) => Once(q1[l].down, x)
  <2>1. q1 = Read(q, l, "down")
    OBVIOUS
  <2>. HIDE DEF q1
  <2> QED BY <2>1, ReadDown
<1>. HIDE DEF q1
<1>2. Less(q1, q)
  BY <1>1, LessItems
<1> QED BY <1>2 DEF q1

\* Taking a report out of the queue of the lead.
LEMMA LessReadEvents ==
    ASSUME NEW q \in Connections, NEW l \in Links, q[l].events # <<>>
    PROVE  Less(Read(q, l, "events"), q)
<1>. DEFINE q1 == Read(q, l, "events")
<1>1. /\ \A k \in Links : q1[k].up = q[k].up /\ q1[k].down = q[k].down
      /\ \A k \in Links : k # l => q1[k] = q[k]
      /\ Items(q1[l].events) \subseteq Items(q[l].events)
  BY ReadEvents
<1>. HIDE DEF q1
<1>2. Less(q1, q)
  BY <1>1, LessItems
<1> QED BY <1>2 DEF q1

\* Reading what the host sent.
LEMMA LessReadUp ==
    ASSUME NEW q \in Connections, NEW l \in Links, q[l].up # <<>>
    PROVE  Less(Read(q, l, "up"), q)
<1>. DEFINE q1 == Read(q, l, "up")
<1>1. /\ \A k \in Links : q1[k].down = q[k].down /\ q1[k].events = q[k].events
      /\ \A k \in Links : k # l => q1[k] = q[k]
      /\ Items(q1[l].up) \subseteq Items(q[l].up)
  BY ReadUp
<1>. HIDE DEF q1
<1>2. Less(q1, q)
  BY <1>1, LessItems
<1> QED BY <1>2 DEF q1

\* A word between broker and host is not about a run.
LEMMA LessToldHost ==
    ASSUME NEW q \in Connections, NEW l \in Links, NEW kind \in {"registered", "shutdown"}
    PROVE  Item(kind, 0) \in Requested /\ Less(Sent(q, l, "down", Item(kind, 0)), q)
<1>. DEFINE q1 == Sent(q, l, "down", Item(kind, 0))
<1>1. Item(kind, 0) \in Requested
  BY DEF Item, Requested
<1>2. /\ \A k \in Links : q1[k].up = q[k].up /\ q1[k].events = q[k].events
      /\ \A k \in Links : k # l => q1[k] = q[k]
      /\ \A x : x \in Items(q1[l].down) => x \in Items(q[l].down) \/ x = Item(kind, 0)
      /\ \A x : Once(q[l].down, x) /\ x # Item(kind, 0) => Once(q1[l].down, x)
  <2>. DEFINE m == Item(kind, 0)
  <2>1. q1 = Sent(q, l, "down", m) /\ m \in Requested
    BY <1>1
  <2>. HIDE DEF q1, m
  <2>2. /\ \A k \in Links : q1[k].up = q[k].up /\ q1[k].events = q[k].events
        /\ \A k \in Links : k # l => q1[k] = q[k]
    BY <2>1, SentDown
  <2>3. /\ \A x : x \in Items(q1[l].down) => x \in Items(q[l].down) \/ x = m
        /\ \A x : Once(q[l].down, x) /\ x # m => Once(q1[l].down, x)
    <3>1. /\ \A x : x \in Items(q1[l].down) => x \in Items(q[l].down) \/ x = m
          /\ \A x : Once(q[l].down, x) /\ (x # m \/ x \notin Items(q[l].down))
                      => Once(q1[l].down, x)
      BY <2>1, SentDown
    <3> QED BY <3>1
  <2> QED BY <2>2, <2>3 DEF m
<1>3. \A r \in Runs, ask \in {"run", "cancel"} : Item(ask, r) # Item(kind, 0)
  BY DEF Item
<1>. HIDE DEF q1
<1>4. Less(q1, q)
  BY <1>2, <1>3, LessItems
<1> QED BY <1>1, <1>4 DEF q1

\* Faults are counted up to their bound.
LEMMA FaultCounted == ASSUME PaneTypeOK, Faulty PROVE paneFaults' \in 0..MaxPaneFaults
<1>1. MaxPaneFaults \in Nat /\ paneFaults \in 0..MaxPaneFaults
  BY PaneAssumption DEF PaneTypeOK
<1> QED BY <1>1 DEF Faulty

-----------------------------------------------------------------------------
\* The lead finds the connection closed: the run has failed, nothing else changes.
LEMMA KeepsLoses == ASSUME PaneInv, Loses PROVE PaneInv'
<1>1. PaneTypeOK'
  BY DEF PaneInv, PaneTypeOK, Loses, Settles, leadvars, brokervars, hostvars
<1>2. OneHostServes' /\ SeatsAreTaken'
  BY DEF PaneInv, OneHostServes, SeatsAreTaken, Loses, Settles, brokervars, hostvars, AtWork
<1>3. \A r \in Runs : outcome'[r] \in {outcome[r], "failed"}
  BY DEF PaneInv, PaneTypeOK, Loses, Settles
<1>4. Quieter
  BY <1>3, LessSame DEF PaneInv, Loses, Settles, Quieter, Unasked, brokervars, hostvars, ReportsAreTrue
<1> QED BY <1>1, <1>2, <1>4, QuietStep

\* Every open link is closed, and none is on record.
LEMMA KeepsReopens == ASSUME PaneInv, Reopens PROVE PaneInv'
<1>. USE PaneTypes DEF PaneInv
<1>. DEFINE S == {l \in Links : links[l].lead \in {"new", "open"}}
<1>0. links \in Connections /\ links' = Leave(links, S, "lead")
  BY DEF Reopens
<1>1. /\ links' \in Connections
      /\ \A l \in Links : l \in S => links'[l].lead = "closed"
      /\ \A l \in Links : l \notin S => links'[l] = links[l]
      /\ Less(links', links)
  BY <1>0, LeftEnds, LessLeft
<1>2. /\ outcome' \in [Runs -> {"none", "done", "stopped", "failed"}]
      /\ \A r \in Runs : outcome'[r] \in {outcome[r], "failed"}
      /\ driver' = "idle"
  BY DEF PaneTypeOK, Reopens, Settles
<1>3. paneFaults' \in 0..MaxPaneFaults
  BY FaultCounted DEF Reopens
<1>4. PaneTypeOK'
  BY <1>1, <1>2, <1>3 DEF PaneTypeOK, Reopens, Connections, LinkRec, hostvars
<1>5. OneHostServes'
  BY <1>1 DEF OneHostServes, Reopens, PaneTypeOK
<1>6. SeatsAreTaken'
  BY <1>1, <1>2 DEF SeatsAreTaken, Reopens, hostvars, AtWork
<1>7. Quieter
  BY <1>1, <1>2 DEF Reopens, Quieter, Unasked, hostvars, ReportsAreTrue
<1> QED BY <1>4, <1>5, <1>6, <1>7, QuietStep

\* A new host id, and a pane that has not connected.
LEMMA KeepsProvisions == ASSUME PaneInv, Provisions PROVE PaneInv'
<1>. USE PaneTypes DEF PaneInv
<1>1. paneRun' = paneRun + 1 /\ paneRun' \in Runs /\ hid' = hid + 1 /\ hid' \in Hosts /\ hid' <= paneRun'
  <2>1. MaxPaneRuns \in Nat /\ paneRun \in 0..MaxPaneRuns /\ hid \in 0..MaxPaneRuns /\ hid <= paneRun
    BY DEF PaneTypeOK, SeatsAreTaken
  <2>2. paneRun' = paneRun + 1 /\ paneRun < MaxPaneRuns /\ hid' = hid + 1
    BY DEF Provisions
  <2> QED BY <2>1, <2>2 DEF Runs, Hosts
<1>2. PaneTypeOK'
  <2>1. host' \in [Hosts -> {"absent", "seek", "asked", "idle", "busy", "killing",
                         "killing for nobody", "gone"}]
    BY DEF PaneTypeOK, Provisions
  <2>2. paneRun' \in 0..MaxPaneRuns /\ hid' \in 0..MaxPaneRuns
    BY <1>1 DEF Runs, Hosts
  <2>3. /\ pending' = pending \cup {hid'} /\ tokens' = tokens \cup {hid'} /\ file' = hid'
        /\ driver' = "provision"
        /\ UNCHANGED <<outcome, stopping, mine, conn, told, links, tries, worker, ended, paneFaults>>
    BY DEF Provisions
  <2> QED BY <1>1, <2>1, <2>2, <2>3 DEF PaneTypeOK
<1>3. OneHostServes'
  BY DEF OneHostServes, Provisions
<1>4. \A p \in Hosts : host'[p] \in {host[p], "seek"}
  BY DEF PaneTypeOK, Provisions
<1>5. SeatsAreTaken'
  BY <1>1, <1>4 DEF SeatsAreTaken, Provisions, AtWork
<1>6. Quieter
  <2>1. \A r \in Runs : r > paneRun' \/ (r = paneRun' /\ driver' = "provision") => Unasked(r)
    <3>1. paneRun \in 0..MaxPaneRuns /\ MaxPaneRuns \in Nat /\ \A r \in Runs : r \in Nat
      BY DEF PaneTypeOK
    <3> QED BY <1>1, <3>1 DEF Unasked
  <2>2. \A p \in Hosts : host'[p] = "killing" => worker'[p] = worker[p] /\ worker[p] \in stopping
    BY <1>4 DEF ReportsAreTrue, Provisions
  <2> QED BY <2>1, <2>2, LessSame DEF Provisions, Quieter
<1> QED BY <1>2, <1>3, <1>5, <1>6, QuietStep

\* Closing a pane ends its process and worker, and its end of its links.
LEMMA KilledFacts ==
    ASSUME PaneInv, NEW S, NEW q \in Connections, Killed(S, q)
    PROVE  /\ links' \in Connections /\ Less(links', q)
           /\ \A l \in Links : links'[l].lead = q[l].lead
           /\ host' \in [Hosts -> {"absent", "seek", "asked", "idle", "busy", "killing",
                                   "killing for nobody", "gone"}]
           /\ worker' \in [Hosts -> 0..MaxPaneRuns]
           /\ \A p \in Hosts : worker'[p] \in {worker[p], 0} /\ host'[p] \in {host[p], "gone"}
           /\ \A p \in Hosts : (host'[p] = host[p] /\ worker'[p] = worker[p]) \/ host'[p] = "gone"
<1>1. links' \in Connections /\ Less(links', q) /\ \A l \in Links : links'[l].lead = q[l].lead
  BY LeftEnds, LessLeft DEF Killed
<1>2. /\ \A p \in Hosts : worker'[p] \in {worker[p], 0} /\ host'[p] \in {host[p], "gone"}
      /\ \A p \in Hosts : (host'[p] = host[p] /\ worker'[p] = worker[p]) \/ host'[p] = "gone"
  BY DEF Killed
<1>3. worker' \in [Hosts -> 0..MaxPaneRuns]
  <2>1. 0 \in 0..MaxPaneRuns /\ \A p \in Hosts : worker[p] \in 0..MaxPaneRuns
    BY PaneTypes DEF PaneInv
  <2> QED BY <2>1 DEF Killed
<1>4. host' \in [Hosts -> {"absent", "seek", "asked", "idle", "busy", "killing",
                                   "killing for nobody", "gone"}]
  BY DEF Killed, PaneInv, PaneTypeOK
<1> QED BY <1>1, <1>2, <1>3, <1>4

\* The pane, if it is killed, takes its worker with it.
LEMMA KeepsProvisionTimesOut == ASSUME PaneInv, ProvisionTimesOut PROVE PaneInv'
<1>. USE PaneTypes DEF PaneInv
<1>1. PICK S \in {{}, {hid}} : Killed(S, links)
  BY DEF ProvisionTimesOut
<1>2. /\ links' \in Connections /\ Less(links', links)
      /\ \A l \in Links : links'[l].lead = links[l].lead
      /\ host' \in [Hosts -> {"absent", "seek", "asked", "idle", "busy", "killing",
                              "killing for nobody", "gone"}]
      /\ worker' \in [Hosts -> 0..MaxPaneRuns]
      /\ \A p \in Hosts : worker'[p] \in {worker[p], 0} /\ host'[p] \in {host[p], "gone"}
      /\ \A p \in Hosts : (host'[p] = host[p] /\ worker'[p] = worker[p]) \/ host'[p] = "gone"
  BY <1>1, KilledFacts
<1>3. /\ outcome' \in [Runs -> {"none", "done", "stopped", "failed"}]
      /\ \A r \in Runs : outcome'[r] \in {outcome[r], "failed"}
      /\ driver' = "idle"
  BY DEF PaneTypeOK, ProvisionTimesOut, Settles
<1>4. PaneTypeOK'
  <2>1. 0 \in 0..MaxPaneRuns
    OBVIOUS
  <2> QED BY <1>2, <1>3, <2>1 DEF PaneTypeOK, ProvisionTimesOut, Connections, LinkRec
<1>5. OneHostServes'
  BY <1>2 DEF OneHostServes, ProvisionTimesOut
<1>6. SeatsAreTaken'
  BY <1>2, <1>3 DEF SeatsAreTaken, ProvisionTimesOut, AtWork
<1>7. Quieter
  BY <1>2, <1>3 DEF ProvisionTimesOut, Quieter, Unasked, ReportsAreTrue
<1> QED BY <1>4, <1>5, <1>6, <1>7, QuietStep

\* The link of the host that registered is closed and not on record any more.
LEMMA KeepsPublishFails == ASSUME PaneInv, PublishFails PROVE PaneInv'
<1>. USE PaneTypes DEF PaneInv
<1>. DEFINE told1 == conn # NoLink /\ links[conn].id = hid
            q == IF told1
                 THEN Leave(Sent(links, conn, "down", Item("shutdown", 0)), {conn}, "lead")
                 ELSE links
<1>1. PICK S \in {{}, {hid}} : Killed(S, q)
  BY DEF PublishFails
<1>2. conn' = (IF told1 THEN NoLink ELSE conn) /\ conn \in Links \cup {NoLink}
  BY DEF PublishFails, PaneTypeOK
<1>3. q \in Connections /\ Less(q, links)
      /\ \A l \in Links : (q[l].lead = "open" <=> l = conn')
                          /\ (links[l].lead = "none" => q[l].lead = "none")
  <2>1. CASE told1
    <3>. DEFINE q1 == Sent(links, conn, "down", Item("shutdown", 0))
    <3>1. conn \in Links
      BY <1>2, <2>1
    <3>2. q1 \in Connections /\ Less(q1, links) /\ \A l \in Links : q1[l].lead = links[l].lead
      BY <3>1, SentDown, LessToldHost
    <3>. HIDE DEF q1
    <3>. DEFINE q2 == Leave(q1, {conn}, "lead")
    <3>3. /\ q2 \in Connections /\ Less(q2, q1)
          /\ \A l \in Links : l # conn => q2[l] = q1[l]
          /\ q2[conn].lead = "closed"
      <4>1. conn \in {conn}
        OBVIOUS
      <4> QED BY <3>1, <3>2, <4>1, LeftEnds, LessLeft
    <3>4. q = q2
      BY <2>1 DEF q1
    <3>. HIDE DEF q2
    <3>5. links[conn].lead = "open"
      BY <3>1 DEF OneHostServes
    <3>6. conn' = NoLink /\ \A l \in Links : l # NoLink
      BY <1>2, <2>1
    <3>7. Less(q, links)
      BY <3>2, <3>3, <3>4, LessTwice
    <3>. HIDE DEF q
    <3>8. ASSUME NEW l \in Links
          PROVE  (q[l].lead = "open" <=> l = conn') /\ (links[l].lead = "none" => q[l].lead = "none")
      <4>1. CASE l = conn
        <5>1. q[l].lead = "closed" /\ links[l].lead = "open"
          BY <3>3, <3>4, <3>5, <4>1
        <5>2. l # conn'
          BY <3>6
        <5> QED BY <5>1, <5>2
      <4>2. CASE l # conn
        BY <3>2, <3>3, <3>4, <3>6, <4>2 DEF OneHostServes
      <4> QED BY <4>1, <4>2
    <3> QED BY <3>3, <3>4, <3>7, <3>8
  <2>2. CASE ~told1
    BY <1>2, <2>2, LessSame DEF OneHostServes
  <2> QED BY <2>1, <2>2
<1>. HIDE DEF q, told1
<1>4. /\ links' \in Connections /\ Less(links', q)
      /\ \A l \in Links : links'[l].lead = q[l].lead
      /\ host' \in [Hosts -> {"absent", "seek", "asked", "idle", "busy", "killing",
                              "killing for nobody", "gone"}]
      /\ worker' \in [Hosts -> 0..MaxPaneRuns]
      /\ \A p \in Hosts : worker'[p] \in {worker[p], 0} /\ host'[p] \in {host[p], "gone"}
      /\ \A p \in Hosts : (host'[p] = host[p] /\ worker'[p] = worker[p]) \/ host'[p] = "gone"
  BY <1>1, <1>3, KilledFacts
<1>5. /\ outcome' \in [Runs -> {"none", "done", "stopped", "failed"}]
      /\ \A r \in Runs : outcome'[r] \in {outcome[r], "failed"}
      /\ driver' = "idle"
  BY DEF PaneTypeOK, PublishFails, Settles
<1>6. paneFaults' \in 0..MaxPaneFaults
  BY FaultCounted DEF PublishFails
<1>7. PaneTypeOK'
  <2>1. conn' \in Links \cup {NoLink}
    BY <1>2
  <2> QED BY <1>4, <1>5, <1>6, <2>1 DEF PaneTypeOK, PublishFails, Connections, LinkRec
<1>8. OneHostServes'
  BY <1>3, <1>4 DEF OneHostServes
<1>9. SeatsAreTaken'
  BY <1>3, <1>4, <1>5 DEF SeatsAreTaken, PublishFails, AtWork
<1>10. Less(links', links)
  BY <1>3, <1>4, LessTwice
<1>11. Quieter
  BY <1>4, <1>5, <1>10 DEF PublishFails, Quieter, Unasked, ReportsAreTrue
<1> QED BY <1>7, <1>8, <1>9, <1>11, QuietStep
\* Which link is open follows the broker's record when one link is closed.
LEMMA KeepsEnds == ASSUME PaneInv, NEW l \in Links, Ends(l) PROVE PaneInv'
<1>. USE DEF PaneInv
<1>1. links \in Connections /\ links' = Leave(links, {l}, "lead") /\ l = conn /\ NoLink \notin Links
  BY PaneTypes DEF Ends, OneHostServes
<1>2. /\ links' \in Connections /\ Less(links', links)
      /\ links'[l].lead = "closed"
      /\ \A k \in Links : k # l => links'[k] = links[k]
  <2>1. l \in {l}
    OBVIOUS
  <2> QED BY <1>1, <2>1, LeftEnds, LessLeft
<1>3. conn' = NoLink
  BY <1>1 DEF Ends
<1>4. PaneTypeOK'
  BY <1>2, <1>3 DEF PaneTypeOK, Ends, Connections, LinkRec, leadvars, hostvars
<1>5. OneHostServes'
  BY <1>1, <1>2, <1>3 DEF OneHostServes
<1>6. SeatsAreTaken'
  <2>1. \A k \in Links : links[k].lead = "none" => links'[k].lead = "none"
    BY <1>2 DEF Ends
  <2> QED BY <2>1 DEF SeatsAreTaken, Ends, leadvars, hostvars, AtWork
<1>7. Quieter
  BY <1>2 DEF Ends, Quieter, Unasked, ReportsAreTrue, leadvars, hostvars
<1> QED BY <1>4, <1>5, <1>6, <1>7, QuietStep

\* Nobody is on record when a link is accepted; a refused one closes the one of its own name.
LEMMA KeepsRegisters == ASSUME PaneInv, NEW l \in Links, Registers(l) PROVE PaneInv'
<1>. USE DEF PaneInv
<1>1. /\ links \in Connections /\ NoLink \notin Links /\ links[l].lead = "new" /\ links[l].up # <<>>
      /\ conn \in Links \cup {NoLink}
      /\ UNCHANGED <<leadvars, tokens, file, hostvars, paneFaults>>
  BY PaneTypes DEF Registers, PaneTypeOK
<1>2. /\ links' \in Connections /\ Less(links', links)
      /\ pending' \subseteq pending /\ told' \subseteq Hosts /\ conn' \in Links \cup {NoLink}
      /\ \A k \in Links : /\ links'[k].lead = "open" <=> k = conn'
                          /\ links[k].lead = "none" => links'[k].lead = "none"
  <2>. DEFINE id == links[l].id
  <2>1. CASE id \in tokens /\ conn = NoLink /\ id \in pending
    <3>. DEFINE q == Read(links, l, "up")
                q1 == Sent(q, l, "down", Item("registered", 0))
    <3>1. conn' = l /\ pending' = pending \ {id} /\ told' = told \cup {id}
          /\ links' = [q1 EXCEPT ![l].lead = "open"]
      BY <2>1 DEF Registers
    <3>2. q \in Connections /\ Less(q, links) /\ \A k \in Links : q[k].lead = links[k].lead
      BY <1>1, ReadUp, LessReadUp
    <3>. HIDE DEF q
    <3>3. q1 \in Connections /\ Less(q1, q) /\ \A k \in Links : q1[k].lead = q[k].lead
      BY <3>2, SentDown, LessToldHost
    <3>. HIDE DEF q1
    <3>4. /\ links' \in Connections /\ links'[l].lead = "open"
          /\ \A k \in Links : k # l => links'[k] = q1[k]
          /\ \A k \in Links : /\ links'[k].up = q1[k].up /\ links'[k].down = q1[k].down
                              /\ links'[k].events = q1[k].events
      <4>1. q1[l] \in LinkRec /\ links' = [q1 EXCEPT ![l] = [q1[l] EXCEPT !.lead = "open"]]
        BY <3>1, <3>3 DEF Connections
      <4>2. [q1[l] EXCEPT !.lead = "open"] \in LinkRec
        BY <4>1 DEF LinkRec
      <4>3. /\ links' \in Connections /\ links'[l] = [q1[l] EXCEPT !.lead = "open"]
            /\ \A k \in Links : k # l => links'[k] = q1[k]
        BY <3>3, <4>1, <4>2 DEF Connections
      <4> QED BY <4>1, <4>3 DEF LinkRec
    <3>5. Less(links', q1)
      BY <3>4, LessItems
    <3>6. Less(links', links)
      BY <3>2, <3>3, <3>5, LessTwice
    <3>7. ASSUME NEW k \in Links
          PROVE  /\ links'[k].lead = "open" <=> k = conn'
                 /\ links[k].lead = "none" => links'[k].lead = "none"
      BY <1>1, <2>1, <3>1, <3>2, <3>3, <3>4 DEF OneHostServes
    <3> QED BY <2>1, <3>1, <3>4, <3>6, <3>7 DEF PaneTypeOK
  <2>2. CASE ~(id \in tokens /\ conn = NoLink /\ id \in pending)
    <3>. DEFINE out == {l} \cup {k \in {conn} \ {NoLink} : links[k].id = id}
    <3>1. /\ links' = Leave(links, out, "lead")
          /\ conn' = IF conn \in out THEN NoLink ELSE conn
          /\ UNCHANGED <<pending, told>>
      BY <2>2 DEF Registers
    <3>2. l \in out /\ \A k \in Links : k \in out => k = l \/ k = conn
      OBVIOUS
    <3>. HIDE DEF out
    <3>3. /\ links' \in Connections /\ Less(links', links)
          /\ \A k \in Links : k \in out => links'[k].lead = "closed"
          /\ \A k \in Links : k \notin out => links'[k] = links[k]
      BY <1>1, <3>1, LeftEnds, LessLeft
    <3>4. ASSUME NEW k \in Links
          PROVE  /\ links'[k].lead = "open" <=> k = conn'
                 /\ links[k].lead = "none" => links'[k].lead = "none"
      <4>1. CASE k \in out
        <5>1. links'[k].lead = "closed" /\ links[k].lead # "none"
          BY <1>1, <3>2, <3>3, <4>1 DEF OneHostServes
        <5>2. k # conn'
          BY <1>1, <3>1, <4>1
        <5> QED BY <5>1, <5>2
      <4>2. CASE k \notin out
        BY <1>1, <3>1, <3>3, <4>2 DEF OneHostServes
      <4> QED BY <4>1, <4>2
    <3> QED BY <1>1, <3>1, <3>3, <3>4 DEF PaneTypeOK
  <2> QED BY <2>1, <2>2
<1>3. PaneTypeOK'
  BY <1>1, <1>2 DEF PaneTypeOK, Connections, LinkRec, leadvars, hostvars
<1>4. OneHostServes'
  BY <1>2 DEF OneHostServes
<1>5. SeatsAreTaken'
  BY <1>1, <1>2 DEF SeatsAreTaken, leadvars, hostvars, AtWork
<1>6. Quieter
  BY <1>1, <1>2 DEF Quieter, Unasked, ReportsAreTrue, leadvars, hostvars
<1> QED BY <1>3, <1>4, <1>5, <1>6, QuietStep

\* A link that is open, or was closed, keeps that when only its queues change.
LEMMA KeepsPublishes == ASSUME PaneInv, NEW l \in Links, Publishes(l) PROVE PaneInv'
<1>. USE DEF PaneInv
<1>. DEFINE q == Read(links, l, "up")
            m == Head(links[l].up)
<1>1. /\ links \in Connections /\ links[l] \in LinkRec /\ links[l].up # <<>>
      /\ links' = Sent(q, l, "events", m)
      /\ UNCHANGED <<leadvars, brokervars, hostvars, paneFaults>>
  BY PaneTypes DEF Publishes
<1>2. /\ q \in Connections /\ m \in Reported /\ m \in Items(links[l].up)
      /\ \A k \in Links : /\ q[k].lead = links[k].lead /\ q[k].down = links[k].down
                          /\ q[k].events = links[k].events
      /\ \A k \in Links : k # l => q[k] = links[k]
      /\ Items(q[l].up) \subseteq Items(links[l].up)
  BY <1>1, ReadUp
<1>. HIDE DEF q, m
<1>3. /\ links' \in Connections
      /\ \A k \in Links : k # l => links'[k] = q[k]
      /\ links'[l].lead = q[l].lead /\ links'[l].down = q[l].down /\ links'[l].up = q[l].up
      /\ Items(links'[l].events) = Items(q[l].events) \cup {m}
  <2>. DEFINE d == Append(q[l].events, m)
  <2>1. q[l] \in LinkRec /\ q[l].events \in Seq(Reported)
    BY <1>2 DEF Connections, LinkRec
  <2>2. d \in Seq(Reported) /\ Items(d) = Items(q[l].events) \cup {m}
    BY <1>2, <2>1, AppendedItems
  <2>3. links' = [q EXCEPT ![l] = [q[l] EXCEPT !.events = d]]
    BY <1>1, <1>2 DEF Sent, Connections
  <2>. HIDE DEF d
  <2>4. [q[l] EXCEPT !.events = d] \in LinkRec
    BY <2>1, <2>2 DEF LinkRec
  <2>5. /\ links' \in Connections /\ links'[l] = [q[l] EXCEPT !.events = d]
        /\ \A k \in Links : k # l => links'[k] = q[k]
    BY <1>2, <2>3, <2>4 DEF Connections
  <2> QED BY <2>1, <2>2, <2>5 DEF LinkRec
<1>4. \A k \in Links : links'[k].lead = links[k].lead /\ links'[k].down = links[k].down
        /\ Items(links'[k].up) \cup Items(links'[k].events)
             \subseteq Items(links[k].up) \cup Items(links[k].events)
  BY <1>2, <1>3
<1>5. Less(links', links)
  BY <1>4, LessItems
<1>6. PaneTypeOK'
  BY <1>1, <1>3 DEF PaneTypeOK, Connections, LinkRec, leadvars, brokervars, hostvars
<1>7. OneHostServes'
  BY <1>1, <1>4 DEF OneHostServes, brokervars
<1>8. SeatsAreTaken'
  BY <1>1, <1>4 DEF SeatsAreTaken, leadvars, hostvars, AtWork
<1>9. Quieter
  BY <1>1, <1>5 DEF Quieter, Unasked, ReportsAreTrue, leadvars, hostvars
<1> QED BY <1>6, <1>7, <1>8, <1>9, QuietStep

\* A new link has one message, which is about no run.
LEMMA KeepsConnects == ASSUME PaneInv, NEW p \in Hosts, Connects(p) PROVE PaneInv'
<1>. USE DEF PaneInv
<1>. DEFINE l == <<p, tries[p] + 1>>
            new == [id |-> file, up |-> <<Item("register", 0)>>, down |-> <<>>, events |-> <<>>,
                    lead |-> "new", host |-> "open"]
<1>1. /\ links \in Connections /\ tries[p] \in Nat /\ l \in Links /\ l[1] = p /\ l[2] = tries[p] + 1
      /\ MaxTries \in Nat /\ tries[p] + 1 \in 0..MaxTries
      /\ \A k \in Links : k[1] \in Hosts /\ k[2] \in Nat
      /\ \A o \in Hosts : tries[o] \in Nat
      /\ UNCHANGED <<leadvars, brokervars, worker, ended, paneFaults>>
  <2>1. MaxTries \in Nat /\ tries[p] \in 0..MaxTries /\ tries[p] < MaxTries
    BY PaneTypes DEF Connects
  <2>2. l \in Links
    BY <2>1 DEF Links
  <2> QED BY <2>1, <2>2, PaneTypes DEF Connects
<1>2. /\ links' = [links EXCEPT ![l] = new] /\ new \in LinkRec
      /\ new.lead = "new" /\ new.down = <<>> /\ new.events = <<>>
      /\ new.up = <<Item("register", 0)>>
  <2>1. <<Item("register", 0)>> \in Seq(Reported)
    BY DEF Item, Reported
  <2>2. file \in 0..MaxPaneRuns /\ <<>> \in Seq(Reported) /\ <<>> \in Seq(Requested)
    BY EmptySeq DEF PaneTypeOK
  <2> QED BY <2>1, <2>2 DEF Connects, LinkRec
<1>. HIDE DEF l, new
<1>3. /\ links' \in Connections /\ links'[l] = new /\ \A k \in Links : k # l => links'[k] = links[k]
  BY <1>1, <1>2 DEF Connections
<1>4. Less(links', links)
  <2>1. Items(new.down) = {} /\ Items(new.events) = {} /\ Items(new.up) = {Item("register", 0)}
    BY <1>2 DEF Items
  <2>2. \A r \in Runs, kind \in {"done", "stopped"} : Item(kind, r) # Item("register", 0)
    BY DEF Item
  <2>3. \A x : Once(new.down, x)
    BY <1>2 DEF Once
  <2>4. ASSUME NEW k \in Links
        PROVE  /\ \A r \in Runs, kind \in {"run", "cancel"} :
                    Item(kind, r) \in Items(links'[k].down) => Item(kind, r) \in Items(links[k].down)
               /\ \A r \in Runs : Once(links[k].down, Item("run", r))
                                    => Once(links'[k].down, Item("run", r))
               /\ \A r \in Runs, kind \in {"done", "stopped"} :
                    Item(kind, r) \in Items(links'[k].up) \cup Items(links'[k].events)
                      => Item(kind, r) \in Items(links[k].up) \cup Items(links[k].events)
    <3>1. CASE k = l
      BY <1>3, <2>1, <2>2, <2>3, <3>1
    <3>2. CASE k # l
      BY <1>3, <3>2
    <3> QED BY <3>1, <3>2
  <2> QED BY <2>4, LessItems
<1>5. /\ tries' \in [Hosts -> 0..MaxTries] /\ tries'[p] = tries[p] + 1
      /\ \A o \in Hosts : o # p => tries'[o] = tries[o]
      /\ host' \in [Hosts -> {"absent", "seek", "asked", "idle", "busy", "killing",
                              "killing for nobody", "gone"}]
      /\ host'[p] = "asked" /\ \A o \in Hosts : o # p => host'[o] = host[o]
  <2>1. /\ tries' = [tries EXCEPT ![p] = tries[p] + 1] /\ host' = [host EXCEPT ![p] = "asked"]
    BY DEF Connects
  <2> QED BY <1>1, <2>1 DEF PaneTypeOK
<1>6. PaneTypeOK'
  BY <1>1, <1>3, <1>5 DEF PaneTypeOK, Connections, LinkRec, leadvars, brokervars
<1>7. links[l].lead = "none" /\ l # conn
  BY <1>1 DEF SeatsAreTaken, OneHostServes
<1>8. OneHostServes'
  <2>1. ASSUME NEW k \in Links PROVE links'[k].lead = "open" <=> k = conn
    <3>1. CASE k = l
      BY <1>2, <1>3, <1>7, <3>1
    <3>2. CASE k # l
      BY <1>3, <3>2 DEF OneHostServes
    <3> QED BY <3>1, <3>2
  <2> QED BY <1>1, <2>1 DEF OneHostServes, brokervars
<1>9. SeatsAreTaken'
  <2>. DEFINE n == tries[p]
  <2>m. n \in Nat /\ l[1] = p /\ l[2] = n + 1
    BY <1>1
  <2>k. tries'[p] = n + 1
    BY <1>5
  <2>. HIDE DEF n
  <2>n. n \in Nat /\ n + 1 >= 1 /\ tries'[p] = n + 1 /\ l[1] = p /\ l[2] = n + 1
    BY <2>m, <2>k
  <2>1. ASSUME NEW o \in Hosts
        PROVE  /\ host'[o] \in {"asked", "idle"} \cup AtWork => tries'[o] >= 1
               /\ host'[o] \in AtWork => worker'[o] \in Runs
    <3>1. CASE o = p
      BY <1>5, <2>n, <3>1 DEF AtWork
    <3>2. CASE o # p
      BY <1>1, <1>5, <3>2 DEF SeatsAreTaken
    <3> QED BY <3>1, <3>2
  <2>2. ASSUME NEW k \in Links, k[2] > tries'[k[1]] PROVE links'[k].lead = "none"
    <3>0. k[1] \in Hosts /\ k[2] \in Nat
      BY <1>1
    <3>1. k # l
      <4>1. k = l => k[1] = p /\ k[2] = n + 1
        BY <2>n
      <4>2. k = l => ~(k[2] > tries'[k[1]])
        BY <2>n, <4>1
      <4> QED BY <2>2, <4>2
    <3>2. k[2] > tries[k[1]]
      <4>1. CASE k[1] = p
        <5>1. tries[p] = n /\ k[2] > n + 1
          BY <2>2, <2>n, <4>1 DEF n
        <5> QED BY <2>n, <3>0, <4>1, <5>1
      <4>2. CASE k[1] # p
        BY <1>5, <2>2, <3>0, <4>2
      <4> QED BY <4>1, <4>2
    <3> QED BY <1>3, <3>1, <3>2 DEF SeatsAreTaken
  <2> QED BY <1>1, <2>1, <2>2 DEF SeatsAreTaken, leadvars
<1>10. Quieter
  BY <1>1, <1>4, <1>5 DEF Quieter, Unasked, ReportsAreTrue, leadvars
<1> QED BY <1>6, <1>8, <1>9, <1>10, QuietStep
HostStates == {"absent", "seek", "asked", "idle", "busy", "killing", "killing for nobody", "gone"}

\* What one pane's process does leaves the others, the broker and the lead alone.
LEMMA OneHostSteps ==
    ASSUME PaneInv, NEW p \in Hosts, NEW h \in HostStates, NEW w \in 0..MaxPaneRuns,
           UNCHANGED <<leadvars, brokervars, tries>>,
           links' \in Connections, \A l \in Links : links'[l].lead = links[l].lead,
           host' = [host EXCEPT ![p] = h], worker' = [worker EXCEPT ![p] = w],
           ended' \subseteq Runs, paneFaults' \in 0..MaxPaneFaults,
           h \in {"asked", "idle"} \cup AtWork => tries[p] >= 1,
           h \in AtWork => w \in Runs
    PROVE  /\ PaneTypeOK' /\ OneHostServes' /\ SeatsAreTaken'
           /\ host'[p] = h /\ worker'[p] = w
           /\ \A o \in Hosts : o # p => host'[o] = host[o] /\ worker'[o] = worker[o]
<1>. USE DEF PaneInv
<1>1. /\ host' \in [Hosts -> HostStates] /\ worker' \in [Hosts -> 0..MaxPaneRuns]
      /\ host'[p] = h /\ worker'[p] = w
      /\ \A o \in Hosts : o # p => host'[o] = host[o] /\ worker'[o] = worker[o]
  BY DEF PaneTypeOK, HostStates
<1>2. PaneTypeOK'
  BY <1>1 DEF PaneTypeOK, HostStates, Connections, LinkRec, leadvars, brokervars
<1>3. OneHostServes'
  BY DEF OneHostServes, brokervars
<1>4. SeatsAreTaken'
  <2>1. ASSUME NEW o \in Hosts
        PROVE  /\ host'[o] \in {"asked", "idle"} \cup AtWork => tries'[o] >= 1
               /\ host'[o] \in AtWork => worker'[o] \in Runs
    BY <1>1 DEF SeatsAreTaken
  <2>2. \A l \in Links : l[2] > tries'[l[1]] => links'[l].lead = "none"
    BY DEF SeatsAreTaken
  <2> QED BY <2>1, <2>2 DEF SeatsAreTaken, leadvars
<1> QED BY <1>1, <1>2, <1>3, <1>4

\* A process that gives its link up.
LEMMA DropsFacts ==
    ASSUME PaneInv, NEW p \in Hosts, Drops(p)
    PROVE  /\ links' \in Connections /\ Less(links', links)
           /\ \A l \in Links : links'[l].lead = links[l].lead
           /\ host' = [host EXCEPT ![p] = "seek"]
BY PaneTypes, LeftEnds, LessLeft DEF PaneInv, Drops

\* A quiet step of a process.
LEMMA QuietHost ==
    ASSUME PaneInv, NEW p \in Hosts, UNCHANGED <<leadvars>>, Less(links', links),
           ended \subseteq ended',
           \A o \in Hosts : o # p => host'[o] = host[o] /\ worker'[o] = worker[o],
           worker'[p] \in {worker[p], 0},
           host'[p] = "killing" => worker'[p] = worker[p] /\ worker[p] \in stopping
    PROVE  Quieter
<1>1. \A o \in Hosts : host'[o] = "killing" => worker'[o] = worker[o] /\ worker[o] \in stopping
  BY DEF PaneInv, ReportsAreTrue
<1> QED BY <1>1 DEF Quieter, Unasked, leadvars

\* What is known of a process that is about to act.
LEMMA WorkerOf == ASSUME PaneInv, NEW p \in Hosts
                  PROVE  /\ worker' = [worker EXCEPT ![p] = worker[p]] <=> worker' = worker
                         /\ worker[p] \in 0..MaxPaneRuns /\ 0 \in 0..MaxPaneRuns
                         /\ ended \subseteq Runs /\ paneFaults \in 0..MaxPaneFaults
                         /\ links \in Connections
                         /\ host[p] \in {"asked", "idle"} \cup AtWork => Link(p) \in Links /\ tries[p] >= 1
                         /\ host[p] \in AtWork => worker[p] \in Runs
<1>1. worker \in [Hosts -> 0..MaxPaneRuns]
  BY DEF PaneInv, PaneTypeOK
<1>2. [worker EXCEPT ![p] = worker[p]] = worker
  BY <1>1
<1>3. host[p] \in {"asked", "idle"} \cup AtWork => tries[p] >= 1
  BY DEF PaneInv, SeatsAreTaken
<1>4. /\ worker[p] \in 0..MaxPaneRuns /\ MaxPaneRuns \in Nat /\ links \in Connections
      /\ tries[p] >= 1 => Link(p) \in Links
  BY PaneTypes DEF PaneInv
<1>5. ended \subseteq Runs /\ paneFaults \in 0..MaxPaneFaults
  BY DEF PaneInv, PaneTypeOK
<1>6. host[p] \in AtWork => worker[p] \in Runs
  BY DEF PaneInv, SeatsAreTaken
<1>7. 0 \in 0..MaxPaneRuns
  BY <1>4
<1> QED BY <1>2, <1>3, <1>4, <1>5, <1>6, <1>7

\* A request is lost, its run is nowhere.
LEMMA KeepsSpawnFails == ASSUME PaneInv, NEW p \in Hosts, SpawnFails(p) PROVE PaneInv'
<1>1. /\ links' \in Connections /\ Less(links', links)
      /\ \A l \in Links : links'[l].lead = links[l].lead
      /\ host' = [host EXCEPT ![p] = "seek"] /\ worker' = [worker EXCEPT ![p] = 0]
      /\ UNCHANGED <<leadvars, brokervars, tries, ended>>
  BY DropsFacts DEF SpawnFails
<1>2. "seek" \in HostStates /\ "seek" \notin {"asked", "idle"} \cup AtWork
  BY DEF HostStates, AtWork
<1>3. /\ PaneTypeOK' /\ OneHostServes' /\ SeatsAreTaken'
      /\ host'[p] = "seek" /\ worker'[p] = 0
      /\ \A o \in Hosts : o # p => host'[o] = host[o] /\ worker'[o] = worker[o]
  <2>1. paneFaults' \in 0..MaxPaneFaults
    BY FaultCounted DEF SpawnFails, PaneInv
  <2> QED BY <1>1, <1>2, <2>1, WorkerOf, OneHostSteps
<1>4. Quieter
  BY <1>1, <1>3, QuietHost
<1> QED BY <1>3, <1>4, QuietStep

\* A worker is lost, its run is nowhere.
LEMMA KeepsPaneDies == ASSUME PaneInv, NEW p \in Hosts, PaneDies(p) PROVE PaneInv'
<1>1. /\ links' \in Connections /\ Less(links', links)
      /\ \A l \in Links : links'[l].lead = links[l].lead
      /\ UNCHANGED <<leadvars, brokervars, tries, ended>>
      /\ \A o \in Hosts : worker'[o] \in {worker[o], 0}
  BY PaneTypes, KilledFacts DEF PaneDies, PaneInv
<1>2. host' = [host EXCEPT ![p] = "gone"] /\ worker' = [worker EXCEPT ![p] = 0]
  BY DEF PaneDies, Killed, PaneInv, PaneTypeOK
<1>3. "gone" \in HostStates /\ "gone" \notin {"asked", "idle"} \cup AtWork
  BY DEF HostStates, AtWork
<1>4. /\ PaneTypeOK' /\ OneHostServes' /\ SeatsAreTaken'
      /\ host'[p] = "gone" /\ worker'[p] = 0
      /\ \A o \in Hosts : o # p => host'[o] = host[o] /\ worker'[o] = worker[o]
  <2>1. paneFaults' \in 0..MaxPaneFaults
    BY FaultCounted DEF PaneDies, PaneInv
  <2> QED BY <1>1, <1>2, <1>3, <2>1, WorkerOf, OneHostSteps
<1>5. Quieter
  BY <1>1, <1>4, QuietHost
<1> QED BY <1>4, <1>5, QuietStep

\* A message that was read.
LEMMA TakenDown ==
    ASSUME PaneInv, NEW l \in Links, links[l].down # <<>>, NEW q, q = Read(links, l, "down")
    PROVE  /\ q \in Connections /\ Less(q, links)
           /\ \A k \in Links : q[k].lead = links[k].lead
           /\ Head(links[l].down) \in Requested /\ Head(links[l].down) \in Items(links[l].down)
           /\ \A x : Once(links[l].down, x) => (x = Head(links[l].down) => x \notin Items(q[l].down))
<1>1. links \in Connections
  BY PaneTypes DEF PaneInv
<1>2. q \in Connections /\ \A k \in Links : q[k].lead = links[k].lead
  BY <1>1, ReadDown
<1>3. Head(links[l].down) \in Requested /\ Head(links[l].down) \in Items(links[l].down)
  BY <1>1, ReadDown
<1>4. \A x : Once(links[l].down, x) => (x = Head(links[l].down) => x \notin Items(q[l].down))
  BY <1>1, ReadDown
<1>5. Less(q, links)
  BY <1>1, LessReadDown
<1> QED BY <1>2, <1>3, <1>4, <1>5

\* A host ends a worker on request of the lead, or for nobody.
LEMMA KeepsHeeds == ASSUME PaneInv, NEW p \in Hosts, Heeds(p) PROVE PaneInv'
<1>. DEFINE l == Link(p)
            m == Head(links[l].down)
            h == IF links[l].down = <<>> THEN "killing for nobody"
                 ELSE IF m = Item("cancel", worker[p]) THEN "killing" ELSE "busy"
<1>1. /\ l \in Links /\ links \in Connections /\ tries[p] >= 1 /\ worker[p] \in Runs
      /\ host[p] = "busy" /\ ended \subseteq Runs /\ paneFaults \in 0..MaxPaneFaults
      /\ worker[p] \in 0..MaxPaneRuns
      /\ UNCHANGED <<leadvars, brokervars, tries, worker, ended, paneFaults>>
  BY WorkerOf DEF Heeds, AtWork
<1>2. host' = [host EXCEPT ![p] = h]
  BY <1>1 DEF Heeds, PaneInv, PaneTypeOK
<1>3. links' = IF links[l].down = <<>> THEN links ELSE Read(links, l, "down")
  BY DEF Heeds
<1>. HIDE DEF l
<1>4. /\ links' \in Connections /\ Less(links', links)
      /\ \A k \in Links : links'[k].lead = links[k].lead
  BY <1>1, <1>3, TakenDown, LessSame
<1>5. h = "killing" => worker[p] \in stopping
  <2>1. ASSUME h = "killing" PROVE worker[p] \in stopping
    <3>1. Item("cancel", worker[p]) \in Items(links[l].down)
      BY <1>1, <2>1, TakenDown
    <3>2. worker[p] \in Cancels(links)
      BY <1>1, <3>1 DEF Cancels
    <3> QED BY <3>2 DEF PaneInv, ReportsAreTrue
  <2> QED BY <2>1
<1>6. h \in HostStates
  BY DEF HostStates
<1>. HIDE DEF h
<1>7. worker' = [worker EXCEPT ![p] = worker[p]]
  BY <1>1, WorkerOf
<1>8. /\ PaneTypeOK' /\ OneHostServes' /\ SeatsAreTaken'
      /\ host'[p] = h /\ worker'[p] = worker[p]
      /\ \A o \in Hosts : o # p => host'[o] = host[o] /\ worker'[o] = worker[o]
  <2>1. UNCHANGED <<leadvars, brokervars, tries>> /\ ended' \subseteq Runs
        /\ paneFaults' \in 0..MaxPaneFaults
    BY <1>1
  <2> QED BY <1>1, <1>2, <1>4, <1>6, <1>7, <2>1, OneHostSteps
<1>9. Quieter
  <2>1. UNCHANGED <<leadvars>> /\ ended \subseteq ended'
    BY <1>1
  <2> QED BY <1>4, <1>5, <1>8, <2>1, QuietHost
<1> QED BY <1>8, <1>9, QuietStep
\* A request becomes a worker: it leaves the queue, and it was in that queue only.
LEMMA RunIsTaken ==
    ASSUME RunsAreTraced, ReportsAreTrue, NEW p \in Hosts, NEW l \in Links, NEW r \in Runs,
           r \in Wants(links, l), r \notin Wants(links', l), Less(links', links),
           worker'[p] = r, \A o \in Hosts : o # p => worker'[o] = worker[o] /\ host'[o] = host[o],
           host'[p] # "killing", UNCHANGED <<leadvars, ended>>
    PROVE  RunsAreTraced' /\ ReportsAreTrue'
<1>1. ASSUME NEW s \in Runs
      PROVE  /\ \A k \in Links : s \in Wants(links', k) => s \in Wants(links, k)
             /\ \A k \in Links : Once(links[k].down, Item("run", s)) => Once(links'[k].down, Item("run", s))
             /\ s \in Cancels(links') => s \in Cancels(links)
             /\ \A kind \in {"done", "stopped"} : s \in Reports(kind)' => s \in Reports(kind)
             /\ Unasked(s)' => Unasked(s)
  BY DEF Less, Reports, leadvars, Unasked
<1>2. InOnePlace(r) /\ (Unasked(r) => Unknown(r))
  BY DEF RunsAreTraced
<1>3. InOnePlace(r)' /\ ~Unasked(r)'
  <2>1. \A k \in Links : r \notin Wants(links', k)
    BY <1>1, <1>2 DEF InOnePlace
  <2>2. r \notin Reports("done")' \cup Reports("stopped")'
    BY <1>1, <1>2 DEF InOnePlace
  <2>3. \A o \in Hosts : worker'[o] = r => o = p
    BY <1>2 DEF InOnePlace
  <2>4. ~Unasked(r)'
    BY <1>1, <1>2 DEF Unknown
  <2>5. \A k \in Links : Once(links'[k].down, Item("run", r))
    BY <1>1, <1>2 DEF InOnePlace
  <2> QED BY <2>1, <2>2, <2>3, <2>4, <2>5 DEF InOnePlace
<1>4. ASSUME NEW s \in Runs, s # r PROVE InOnePlace(s)' /\ (Unasked(s)' => Unknown(s)')
  <2>1. InOnePlace(s) /\ (Unasked(s) => Unknown(s))
    BY DEF RunsAreTraced
  <2>2. \A o \in Hosts : worker'[o] = s => worker[o] = s
    BY <1>4
  <2>3. InOnePlace(s)'
    BY <1>1, <2>1, <2>2 DEF InOnePlace
  <2>4. Unasked(s)' => Unknown(s)'
    BY <1>1, <2>1, <2>2 DEF Unknown
  <2> QED BY <2>3, <2>4
<1>5. ReportsAreTrue'
  <2>1. ASSUME NEW s \in Runs
        PROVE  /\ s \in Reports("done")' => s \in ended'
               /\ s \in Reports("stopped")' => s \in stopping'
               /\ s \in Cancels(links') => s \in stopping'
    BY <1>1 DEF ReportsAreTrue, leadvars
  <2>2. Reports("done")' \subseteq Runs /\ Reports("stopped")' \subseteq Runs /\ Cancels(links') \subseteq Runs
    BY DEF Reports, Says, Cancels
  <2>3. \A o \in Hosts : host'[o] = "killing" => worker'[o] \in stopping'
    BY DEF ReportsAreTrue, leadvars
  <2> QED BY <2>1, <2>2, <2>3 DEF ReportsAreTrue
<1> QED BY <1>3, <1>4, <1>5 DEF RunsAreTraced

\* A worker becomes a report: no other place has its run.
LEMMA RunIsReported ==
    ASSUME RunsAreTraced, ReportsAreTrue, NEW p \in Hosts, NEW r \in Runs, worker[p] = r,
           NEW kind \in {"done", "stopped"}, kind = "done" => r \in ended',
           kind = "stopped" => r \in stopping,
           \A k \in Links : links'[k].down = links[k].down,
           Says(links', kind) \subseteq Says(links, kind) \cup {r},
           \A other \in {"done", "stopped"} : other # kind => Says(links', other) \subseteq Says(links, other),
           worker'[p] = 0, \A o \in Hosts : o # p => worker'[o] = worker[o] /\ host'[o] = host[o],
           host'[p] # "killing", UNCHANGED leadvars, ended \subseteq ended'
    PROVE  RunsAreTraced' /\ ReportsAreTrue'
<1>0. r # 0 /\ \A s \in Runs : s # 0
  BY PaneAssumption DEF Runs
<1>1. ASSUME NEW s \in Runs
      PROVE  /\ \A k \in Links : s \in Wants(links', k) <=> s \in Wants(links, k)
             /\ \A k \in Links : links'[k].down = links[k].down
             /\ s \in Cancels(links') => s \in Cancels(links)
             /\ \A any \in {"done", "stopped"} : s \in Reports(any)' => s \in Reports(any) \/ (s = r /\ any = kind)
             /\ Unasked(s)' => Unasked(s)
             /\ \A o \in Hosts : worker'[o] = s => worker[o] = s /\ o # p
  <2>1. Unasked(s)' => Unasked(s)
    BY DEF leadvars, Unasked
  <2>2. \A any \in {"done", "stopped"} : s \in Reports(any)' => s \in Reports(any) \/ (s = r /\ any = kind)
    BY DEF Reports, leadvars
  <2>3. \A o \in Hosts : worker'[o] = s => worker[o] = s /\ o # p
    BY <1>0
  <2> QED BY <2>1, <2>2, <2>3 DEF Wants, Cancels
<1>2. InOnePlace(r) /\ (Unasked(r) => Unknown(r))
  BY DEF RunsAreTraced
<1>3. InOnePlace(r)' /\ ~Unasked(r)'
  <2>1. \A k \in Links : r \notin Wants(links', k)
    BY <1>1, <1>2 DEF InOnePlace
  <2>2. \A o \in Hosts : worker'[o] # r
    BY <1>1, <1>2 DEF InOnePlace
  <2>3. ~Unasked(r)'
    BY <1>1, <1>2 DEF Unknown
  <2>4. \A k \in Links : Once(links'[k].down, Item("run", r))
    BY <1>1, <1>2 DEF InOnePlace
  <2> QED BY <2>1, <2>2, <2>3, <2>4 DEF InOnePlace
<1>4. ASSUME NEW s \in Runs, s # r PROVE InOnePlace(s)' /\ (Unasked(s)' => Unknown(s)')
  <2>1. InOnePlace(s) /\ (Unasked(s) => Unknown(s))
    BY DEF RunsAreTraced
  <2>2. InOnePlace(s)'
    BY <1>1, <1>4, <2>1 DEF InOnePlace
  <2>3. Unasked(s)' => Unknown(s)'
    BY <1>1, <1>4, <2>1 DEF Unknown
  <2> QED BY <2>2, <2>3
<1>5. ReportsAreTrue'
  <2>1. ASSUME NEW s \in Runs
        PROVE  /\ s \in Reports("done")' => s \in ended'
               /\ s \in Reports("stopped")' => s \in stopping'
               /\ s \in Cancels(links') => s \in stopping'
    BY <1>1 DEF ReportsAreTrue, leadvars
  <2>2. Reports("done")' \subseteq Runs /\ Reports("stopped")' \subseteq Runs /\ Cancels(links') \subseteq Runs
    BY DEF Reports, Says, Cancels
  <2>3. \A o \in Hosts : host'[o] = "killing" => worker'[o] \in stopping'
    BY DEF ReportsAreTrue, leadvars
  <2> QED BY <2>1, <2>2, <2>3 DEF ReportsAreTrue
<1> QED BY <1>3, <1>4, <1>5 DEF RunsAreTraced

\* The report that is sent.
LEMMA ReportSent ==
    ASSUME NEW q \in Connections, NEW l \in Links, NEW kind \in {"done", "stopped"}, NEW r \in Runs,
           NEW q1, q1 = Sent(q, l, "up", Item(kind, r))
    PROVE  /\ q1 \in Connections
           /\ \A k \in Links : q1[k].lead = q[k].lead /\ q1[k].down = q[k].down
           /\ Says(q1, kind) \subseteq Says(q, kind) \cup {r}
           /\ \A other \in {"done", "stopped"} : other # kind => Says(q1, other) \subseteq Says(q, other)
<1>1. Item(kind, r) \in Reported
  BY DEF Item, Reported
<1>2. /\ q1 \in Connections
      /\ \A k \in Links : q1[k].lead = q[k].lead /\ q1[k].down = q[k].down /\ q1[k].events = q[k].events
      /\ \A k \in Links : k # l => q1[k] = q[k]
      /\ Items(q1[l].up) = Items(q[l].up) \cup {Item(kind, r)}
  BY <1>1, SentUp
<1>3. ASSUME NEW any \in {"done", "stopped"}, NEW s \in Says(q1, any)
      PROVE  s \in Says(q, any) \/ (s = r /\ any = kind)
  <2>1. s \in Runs /\ \E k \in Links : Item(any, s) \in Items(q1[k].up) \cup Items(q1[k].events)
    BY <1>3 DEF Says
  <2>2. PICK k \in Links : Item(any, s) \in Items(q1[k].up) \cup Items(q1[k].events)
    BY <2>1
  <2>3. CASE Item(any, s) = Item(kind, r)
    BY <2>3 DEF Item
  <2>4. CASE Item(any, s) # Item(kind, r)
    <3>1. Item(any, s) \in Items(q[k].up) \cup Items(q[k].events)
      BY <1>2, <2>2, <2>4
    <3> QED BY <2>1, <3>1 DEF Says
  <2> QED BY <2>3, <2>4
<1> QED BY <1>2, <1>3

\* The run moves from the worker to the report.
LEMMA KeepsWorkerEnds == ASSUME PaneInv, NEW p \in Hosts, WorkerEnds(p) PROVE PaneInv'
<1>. DEFINE l == Link(p)
            r == worker[p]
<1>1. /\ l \in Links /\ links \in Connections /\ tries[p] >= 1 /\ r \in Runs
      /\ 0 \in 0..MaxPaneRuns /\ ended \subseteq Runs /\ paneFaults \in 0..MaxPaneFaults
      /\ links' = Sent(links, l, "up", Item("done", r)) /\ ended' = ended \cup {r}
      /\ worker' = [worker EXCEPT ![p] = 0] /\ host' = [host EXCEPT ![p] = "idle"]
      /\ UNCHANGED <<leadvars, brokervars, tries, paneFaults>>
  BY WorkerOf DEF WorkerEnds, AtWork
<1>. HIDE DEF l
<1>2. /\ links' \in Connections
      /\ \A k \in Links : links'[k].lead = links[k].lead /\ links'[k].down = links[k].down
      /\ Says(links', "done") \subseteq Says(links, "done") \cup {r}
      /\ Says(links', "stopped") \subseteq Says(links, "stopped")
  BY <1>1, ReportSent
<1>3. /\ PaneTypeOK' /\ OneHostServes' /\ SeatsAreTaken'
      /\ host'[p] = "idle" /\ worker'[p] = 0
      /\ \A o \in Hosts : o # p => host'[o] = host[o] /\ worker'[o] = worker[o]
  <2>1. /\ UNCHANGED <<leadvars, brokervars, tries>> /\ ended' \subseteq Runs
        /\ paneFaults' \in 0..MaxPaneFaults /\ "idle" \in HostStates /\ "idle" \notin AtWork
    BY <1>1 DEF HostStates, AtWork
  <2> QED BY <1>1, <1>2, <2>1, OneHostSteps
<1>4. RunsAreTraced' /\ ReportsAreTrue'
  <2>1. RunsAreTraced /\ ReportsAreTrue
    BY DEF PaneInv
  <2>2. r \in ended' /\ ended \subseteq ended' /\ UNCHANGED leadvars /\ host'[p] # "killing"
    BY <1>1, <1>3
  <2>3. \A other \in {"done", "stopped"} : other # "done" => Says(links', other) \subseteq Says(links, other)
    BY <1>2
  <2> QED BY <1>1, <1>2, <1>3, <2>1, <2>2, <2>3, RunIsReported
<1> QED BY <1>3, <1>4 DEF PaneInv

\* The run moves from the worker to the report, or nowhere.
LEMMA KeepsWorkerKilled == ASSUME PaneInv, NEW p \in Hosts, WorkerKilled(p) PROVE PaneInv'
<1>. DEFINE l == Link(p)
            r == worker[p]
<1>1. /\ l \in Links /\ links \in Connections /\ tries[p] >= 1 /\ r \in Runs
      /\ 0 \in 0..MaxPaneRuns /\ ended \subseteq Runs /\ paneFaults \in 0..MaxPaneFaults
      /\ worker' = [worker EXCEPT ![p] = 0]
      /\ UNCHANGED <<leadvars, brokervars, tries, ended, paneFaults>>
  BY WorkerOf DEF WorkerKilled, AtWork
<1>2. /\ UNCHANGED <<leadvars, brokervars, tries>> /\ UNCHANGED leadvars /\ ended' \subseteq Runs
      /\ ended \subseteq ended' /\ paneFaults' \in 0..MaxPaneFaults
      /\ "idle" \in HostStates /\ "idle" \notin AtWork
      /\ "seek" \in HostStates /\ "seek" \notin AtWork \cup {"asked", "idle"}
    BY <1>1 DEF HostStates, AtWork
<1>3. CASE host[p] = "killing"
  <2>1. links' = Sent(links, l, "up", Item("stopped", r)) /\ host' = [host EXCEPT ![p] = "idle"]
    BY <1>3 DEF WorkerKilled
  <2>. HIDE DEF l
  <2>2. /\ links' \in Connections
        /\ \A k \in Links : links'[k].lead = links[k].lead /\ links'[k].down = links[k].down
        /\ Says(links', "stopped") \subseteq Says(links, "stopped") \cup {r}
        /\ Says(links', "done") \subseteq Says(links, "done")
    BY <1>1, <2>1, ReportSent
  <2>3. /\ PaneTypeOK' /\ OneHostServes' /\ SeatsAreTaken'
        /\ host'[p] = "idle" /\ worker'[p] = 0
        /\ \A o \in Hosts : o # p => host'[o] = host[o] /\ worker'[o] = worker[o]
    BY <1>1, <1>2, <2>1, <2>2, OneHostSteps
  <2>4. RunsAreTraced' /\ ReportsAreTrue'
    <3>1. RunsAreTraced /\ ReportsAreTrue /\ r \in stopping
      BY <1>3 DEF PaneInv, ReportsAreTrue
    <3>2. \A other \in {"done", "stopped"} : other # "stopped" => Says(links', other) \subseteq Says(links, other)
      BY <2>2
    <3>3. host'[p] # "killing"
      BY <2>3
    <3> QED BY <1>1, <1>2, <2>2, <2>3, <3>1, <3>2, <3>3, RunIsReported
  <2> QED BY <2>3, <2>4 DEF PaneInv
<1>4. CASE host[p] # "killing"
  <2>1. /\ links' \in Connections /\ Less(links', links)
        /\ \A k \in Links : links'[k].lead = links[k].lead
        /\ host' = [host EXCEPT ![p] = "seek"]
    BY <1>4, DropsFacts DEF WorkerKilled
  <2>2. /\ PaneTypeOK' /\ OneHostServes' /\ SeatsAreTaken'
        /\ host'[p] = "seek" /\ worker'[p] = 0
        /\ \A o \in Hosts : o # p => host'[o] = host[o] /\ worker'[o] = worker[o]
    BY <1>1, <1>2, <2>1, OneHostSteps
  <2>3. Quieter
    <3>1. UNCHANGED <<leadvars>>
      BY <1>2
    <3> QED BY <1>2, <2>1, <2>2, <3>1, QuietHost
  <2> QED BY <2>2, <2>3, QuietStep
<1> QED BY <1>3, <1>4
\* The run moves from the request to the worker.
LEMMA KeepsAnswered == ASSUME PaneInv, NEW p \in Hosts, Answered(p) PROVE PaneInv'
<1>. DEFINE l == Link(p)
            m == Head(links[l].down)
            q == Read(links, l, "down")
<1>1. /\ l \in Links /\ links \in Connections /\ tries[p] >= 1
      /\ 0 \in 0..MaxPaneRuns /\ ended \subseteq Runs /\ paneFaults \in 0..MaxPaneFaults
      /\ worker[p] \in 0..MaxPaneRuns
      /\ UNCHANGED <<leadvars, brokervars, tries, ended, paneFaults>>
  BY WorkerOf DEF Answered
<1>2. /\ UNCHANGED <<leadvars, brokervars, tries>> /\ UNCHANGED leadvars /\ UNCHANGED <<leadvars, ended>>
      /\ UNCHANGED <<leadvars>>
      /\ ended' \subseteq Runs /\ ended \subseteq ended' /\ paneFaults' \in 0..MaxPaneFaults
      /\ {"idle", "seek", "gone", "busy"} \subseteq HostStates
      /\ "busy" \in AtWork /\ {"idle", "seek", "gone"} \cap AtWork = {}
    BY <1>1 DEF HostStates, AtWork
<1>3. CASE links[l].down = <<>>
  <2>1. /\ links' \in Connections /\ Less(links', links)
        /\ \A k \in Links : links'[k].lead = links[k].lead
        /\ host' = [host EXCEPT ![p] = "seek"]
    BY <1>3, DropsFacts DEF Answered
  <2>2. worker' = [worker EXCEPT ![p] = worker[p]]
    BY <1>3, WorkerOf DEF Answered
  <2>3. /\ PaneTypeOK' /\ OneHostServes' /\ SeatsAreTaken'
        /\ host'[p] = "seek" /\ worker'[p] = worker[p]
        /\ \A o \in Hosts : o # p => host'[o] = host[o] /\ worker'[o] = worker[o]
    BY <1>1, <1>2, <2>1, <2>2, OneHostSteps
  <2>4. Quieter
    BY <1>2, <2>1, <2>3, QuietHost
  <2> QED BY <2>3, <2>4, QuietStep
<1>4. CASE links[l].down # <<>>
  <2>1. /\ q \in Connections /\ Less(q, links)
        /\ \A k \in Links : q[k].lead = links[k].lead
        /\ m \in Requested /\ m \in Items(links[l].down)
        /\ Once(links[l].down, m) => m \notin Items(q[l].down)
    BY <1>1, <1>4, TakenDown
  <2>2. /\ links' = IF m.kind = "shutdown" THEN Leave(q, {l}, "host") ELSE q
        /\ host' = [host EXCEPT ![p] = CASE m.kind = "run" -> "busy"
                                         [] m.kind = "shutdown" -> "gone"
                                         [] OTHER -> "idle"]
        /\ worker' = [worker EXCEPT ![p] = IF m.kind = "run" THEN m.run ELSE 0]
    BY <1>4 DEF Answered
  <2>. HIDE DEF q, m, l
  <2>3. CASE m.kind = "run"
    <3>1. m.run \in Runs /\ m = Item("run", m.run)
      BY <2>1, <2>3 DEF Requested, Item
    <3>. DEFINE r == m.run
    <3>2. /\ links' = q /\ host' = [host EXCEPT ![p] = "busy"] /\ worker' = [worker EXCEPT ![p] = r]
      BY <2>2, <2>3
    <3>3. r \in 0..MaxPaneRuns
      BY <3>1 DEF Runs
    <3>4. /\ PaneTypeOK' /\ OneHostServes' /\ SeatsAreTaken'
          /\ host'[p] = "busy" /\ worker'[p] = r
          /\ \A o \in Hosts : o # p => host'[o] = host[o] /\ worker'[o] = worker[o]
      BY <1>1, <1>2, <2>1, <3>1, <3>2, <3>3, OneHostSteps
    <3>5. RunsAreTraced /\ ReportsAreTrue /\ r \in Wants(links, l)
      BY <2>1, <3>1 DEF PaneInv, Wants
    <3>6. r \notin Wants(links', l)
      <4>1. Once(links[l].down, Item("run", r))
        BY <1>1, <3>1, <3>5 DEF RunsAreTraced, InOnePlace
      <4> QED BY <2>1, <3>1, <3>2, <4>1 DEF Wants
    <3>7. Less(links', links) /\ host'[p] # "killing"
      BY <2>1, <3>2, <3>4
    <3>8. RunsAreTraced' /\ ReportsAreTrue'
      <4>. HIDE DEF r
      <4>1. r \in Runs
        BY <3>1 DEF r
      <4> QED BY <1>1, <1>2, <3>4, <3>5, <3>6, <3>7, <4>1, RunIsTaken
    <3> QED BY <3>4, <3>8 DEF PaneInv
  <2>4. CASE m.kind # "run"
    <3>. DEFINE h == IF m.kind = "shutdown" THEN "gone" ELSE "idle"
    <3>1. /\ host' = [host EXCEPT ![p] = h] /\ worker' = [worker EXCEPT ![p] = 0]
          /\ h \in HostStates /\ h \notin AtWork /\ h # "killing"
      BY <1>2, <2>2, <2>4 DEF AtWork
    <3>2. /\ links' \in Connections /\ Less(links', links)
          /\ \A k \in Links : links'[k].lead = links[k].lead
      <4>1. Leave(q, {l}, "host") \in Connections /\ Less(Leave(q, {l}, "host"), q)
            /\ \A k \in Links : Leave(q, {l}, "host")[k].lead = q[k].lead
        BY <2>1, LeftEnds, LessLeft
      <4> QED BY <2>1, <2>2, <4>1, LessTwice
    <3>. HIDE DEF h
    <3>3. /\ PaneTypeOK' /\ OneHostServes' /\ SeatsAreTaken'
          /\ host'[p] = h /\ worker'[p] = 0
          /\ \A o \in Hosts : o # p => host'[o] = host[o] /\ worker'[o] = worker[o]
      BY <1>1, <1>2, <3>1, <3>2, OneHostSteps
    <3>4. Quieter
      BY <1>2, <3>1, <3>2, <3>3, QuietHost
    <3> QED BY <3>3, <3>4, QuietStep
  <2> QED BY <2>3, <2>4
<1> QED BY <1>3, <1>4

-----------------------------------------------------------------------------
\* A request for a run that is unknown everywhere puts it in one place.
LEMMA RunIsRequested ==
    ASSUME PaneInv, NEW r \in Runs, Unknown(r), conn \in Links, Requests(r),
           UNCHANGED <<stopping, hid, brokervars, hostvars, paneFaults>>,
           paneRun' = r, paneRun <= r
    PROVE  PaneInv'
<1>. USE DEF PaneInv
<1>. DEFINE m == Item("run", r)
<1>0. /\ links \in Connections /\ MaxPaneRuns \in Nat /\ paneRun \in 0..MaxPaneRuns
      /\ \A s \in Runs : s \in Nat /\ s # 0 /\ s <= MaxPaneRuns
  BY PaneTypes DEF PaneTypeOK
<1>1. m \in Requested
  BY DEF Item, Requested
<1>2. /\ links' \in Connections
      /\ \A k \in Links : /\ links'[k].lead = links[k].lead
                          /\ links'[k].up = links[k].up /\ links'[k].events = links[k].events
      /\ \A k \in Links : k # conn => links'[k] = links[k]
      /\ \A x : x \in Items(links'[conn].down) => x \in Items(links[conn].down) \/ x = m
      /\ \A x : Once(links[conn].down, x) /\ (x # m \/ x \notin Items(links[conn].down))
                  => Once(links'[conn].down, x)
  <2>1. links' = Sent(links, conn, "down", m)
    BY DEF Requests
  <2>. HIDE DEF m
  <2>2. /\ links' \in Connections
        /\ \A k \in Links : /\ links'[k].lead = links[k].lead
                            /\ links'[k].up = links[k].up /\ links'[k].events = links[k].events
        /\ \A k \in Links : k # conn => links'[k] = links[k]
    BY <1>0, <1>1, <2>1, SentDown
  <2>3. /\ \A x : x \in Items(links'[conn].down) => x \in Items(links[conn].down) \/ x = m
        /\ \A x : Once(links[conn].down, x) /\ (x # m \/ x \notin Items(links[conn].down))
                    => Once(links'[conn].down, x)
    BY <1>0, <1>1, <2>1, SentDown
  <2> QED BY <2>2, <2>3
<1>3. /\ mine' = conn /\ driver' = "waiting" /\ outcome' = outcome /\ paneRun' = r
      /\ UNCHANGED <<stopping, hid, conn, pending, tokens, told, file>>
      /\ UNCHANGED <<host, tries, worker, ended, paneFaults>>
  BY DEF Requests, brokervars, hostvars
<1>4. PaneTypeOK'
  <2>1. r \in 0..MaxPaneRuns
    BY <1>0
  <2> QED BY <1>2, <1>3, <2>1 DEF PaneTypeOK, Connections, LinkRec
<1>5. OneHostServes'
  BY <1>2, <1>3 DEF OneHostServes
<1>6. SeatsAreTaken'
  <2>1. hid' <= paneRun'
    <3>1. hid' = hid /\ hid <= paneRun /\ paneRun' = r /\ paneRun \in Nat /\ r \in Nat
      BY <1>0, <1>3 DEF SeatsAreTaken
    <3>2. hid \in 0..MaxPaneRuns /\ MaxPaneRuns \in Nat
      BY <1>0 DEF PaneTypeOK
    <3> QED BY <3>1, <3>2
  <2>2. /\ \A p \in Hosts : /\ host'[p] \in {"asked", "idle"} \cup AtWork => tries'[p] >= 1
                            /\ host'[p] \in AtWork => worker'[p] \in Runs
        /\ \A l \in Links : l[2] > tries'[l[1]] => links'[l].lead = "none"
    BY <1>2, <1>3 DEF SeatsAreTaken
  <2> QED BY <1>3, <2>1, <2>2 DEF SeatsAreTaken
<1>7. ASSUME NEW s \in Runs
      PROVE  /\ \A k \in Links : s \in Wants(links', k) => s \in Wants(links, k) \/ (s = r /\ k = conn)
             /\ s \in Cancels(links') => s \in Cancels(links)
             /\ \A kind \in {"done", "stopped"} : s \in Reports(kind)' => s \in Reports(kind)
             /\ Unasked(s)' => Unasked(s) /\ s # r
             /\ \A k \in Links : Once(links[k].down, Item("run", s)) => Once(links'[k].down, Item("run", s))
  <2>1. \A ask \in {"run", "cancel"} : Item(ask, s) = m => s = r /\ ask = "run"
    BY DEF Item
  <2>2. \A k \in Links, ask \in {"run", "cancel"} :
          Item(ask, s) \in Items(links'[k].down)
            => Item(ask, s) \in Items(links[k].down) \/ (Item(ask, s) = m /\ k = conn)
    BY <1>2
  <2>3. \A k \in Links : s \in Wants(links', k) => s \in Wants(links, k) \/ (s = r /\ k = conn)
    BY <2>1, <2>2 DEF Wants
  <2>4. s \in Cancels(links') => s \in Cancels(links)
    BY <2>1, <2>2 DEF Cancels
  <2>5. \A kind \in {"done", "stopped"} : s \in Reports(kind)' => s \in Reports(kind)
    BY <1>2, <1>3 DEF Reports, Says
  <2>6. Unasked(s)' => Unasked(s) /\ s # r
    BY <1>0, <1>3 DEF Unasked
  <2>7. ASSUME NEW k \in Links, Once(links[k].down, Item("run", s))
        PROVE  Once(links'[k].down, Item("run", s))
    <3>1. CASE k # conn
      BY <1>2, <2>7, <3>1
    <3>2. CASE k = conn
      <4>1. Item("run", s) # m \/ Item("run", s) \notin Items(links[conn].down)
        BY <2>1 DEF Unknown, Wants
      <4> QED BY <1>2, <2>7, <3>2, <4>1
    <3> QED BY <3>1, <3>2
  <2> QED BY <2>3, <2>4, <2>5, <2>6, <2>7
<1>8. InOnePlace(r)' /\ ~Unasked(r)'
  <2>1. /\ \A k \in Links : r \in Wants(links', k) => k = conn
        /\ r \notin Reports("done")' \cup Reports("stopped")'
        /\ \A p \in Hosts : worker'[p] # r
        /\ ~Unasked(r)'
    BY <1>3, <1>7 DEF Unknown
  <2>2. \A k \in Links : Once(links'[k].down, Item("run", r))
    BY <1>7 DEF RunsAreTraced, InOnePlace
  <2> QED BY <2>1, <2>2 DEF InOnePlace
<1>9. ASSUME NEW s \in Runs, s # r PROVE InOnePlace(s)' /\ (Unasked(s)' => Unknown(s)')
  <2>1. InOnePlace(s) /\ (Unasked(s) => Unknown(s))
    BY DEF RunsAreTraced
  <2>2. InOnePlace(s)'
    BY <1>3, <1>7, <1>9, <2>1 DEF InOnePlace
  <2>3. Unasked(s)' => Unknown(s)'
    BY <1>3, <1>7, <1>9, <2>1 DEF Unknown
  <2> QED BY <2>2, <2>3
<1>10. ReportsAreTrue'
  <2>1. ASSUME NEW s \in Runs
        PROVE  /\ s \in Reports("done")' => s \in ended'
               /\ s \in Reports("stopped")' => s \in stopping'
               /\ s \in Cancels(links') => s \in stopping'
    BY <1>3, <1>7 DEF ReportsAreTrue
  <2>2. Reports("done")' \subseteq Runs /\ Reports("stopped")' \subseteq Runs /\ Cancels(links') \subseteq Runs
    BY DEF Reports, Says, Cancels
  <2>3. \A o \in Hosts : host'[o] = "killing" => worker'[o] \in stopping'
    BY <1>3 DEF ReportsAreTrue
  <2> QED BY <2>1, <2>2, <2>3 DEF ReportsAreTrue
<1> QED BY <1>4, <1>5, <1>6, <1>8, <1>9, <1>10 DEF RunsAreTraced

\* The next run was not requested before.
LEMMA KeepsRunsOnHost == ASSUME PaneInv, RunsOnHost PROVE PaneInv'
<1>1. paneRun \in 0..MaxPaneRuns /\ MaxPaneRuns \in Nat /\ conn \in Links \cup {NoLink}
  BY PaneTypes DEF PaneInv, PaneTypeOK
<1>. DEFINE r == paneRun + 1
<1>2. /\ r \in Runs /\ r > paneRun /\ paneRun <= r
  BY <1>1 DEF RunsOnHost, Runs
<1>3. paneRun' = r /\ Requests(r) /\ conn \in Links
      /\ UNCHANGED <<stopping, hid, brokervars, hostvars, paneFaults>>
  BY <1>1 DEF RunsOnHost, Requests
<1>. HIDE DEF r
<1>4. Unknown(r)
  BY <1>2 DEF PaneInv, RunsAreTraced, Unasked
<1> QED BY <1>2, <1>3, <1>4, RunIsRequested

\* Nor was the one a pane was provisioned for.
LEMMA KeepsProvisioned == ASSUME PaneInv, Provisioned PROVE PaneInv'
<1>1. /\ paneRun \in Runs /\ paneRun \in Nat /\ conn \in Links \cup {NoLink}
      /\ UNCHANGED <<stopping, hid, brokervars, hostvars, paneFaults>> /\ UNCHANGED paneRun
      /\ driver = "provision"
  BY PaneTypes DEF PaneInv, PaneTypeOK, SeatsAreTaken, Provisioned
<1>2. CASE conn # NoLink
  <2>1. Unknown(paneRun)
    BY <1>1 DEF PaneInv, RunsAreTraced, Unasked
  <2>2. Requests(paneRun) /\ paneRun' = paneRun /\ paneRun <= paneRun /\ conn \in Links
    BY <1>1, <1>2 DEF Provisioned
  <2> QED BY <1>1, <2>1, <2>2, RunIsRequested
<1>3. CASE conn = NoLink
  <2>1. /\ outcome' = [outcome EXCEPT ![paneRun'] = "failed"] /\ driver' = "idle"
        /\ UNCHANGED <<links, mine>>
    BY <1>3 DEF Provisioned, Settles
  <2>2. /\ outcome' \in [Runs -> {"none", "done", "stopped", "failed"}]
        /\ \A r \in Runs : outcome'[r] \in {outcome[r], "failed"}
    BY <2>1 DEF PaneInv, PaneTypeOK
  <2>3. PaneTypeOK'
    BY <1>1, <2>1, <2>2 DEF PaneInv, PaneTypeOK, brokervars, hostvars
  <2>4. OneHostServes' /\ SeatsAreTaken'
    BY <1>1, <2>1 DEF PaneInv, OneHostServes, SeatsAreTaken, brokervars, hostvars, AtWork
  <2>5. Quieter
    BY <1>1, <2>1, <2>2, LessSame DEF PaneInv, Quieter, Unasked, brokervars, hostvars, ReportsAreTrue
  <2> QED BY <2>3, <2>4, <2>5, QuietStep
<1> QED BY <1>2, <1>3

\* What the lead hears of its run was said of it.
LEMMA KeepsHears == ASSUME PaneInv, Hears PROVE PaneInv'
<1>. USE DEF PaneInv
<1>. DEFINE m == Head(links[mine].events)
            got == IF m.run = paneRun THEN m.kind ELSE "failed"
<1>1. /\ mine \in Links /\ links \in Connections /\ links[mine].events # <<>> /\ paneRun \in Runs
      /\ links' = Read(links, mine, "events") /\ driver = "waiting" /\ driver' = "idle"
      /\ outcome' = [outcome EXCEPT ![paneRun] = got] /\ paneRun' = paneRun
      /\ UNCHANGED <<stopping, hid, mine, brokervars, hostvars, paneFaults>>
      /\ \A r \in Runs : r # 0
  BY PaneTypes DEF Hears, Settles, SeatsAreTaken
<1>2. /\ links' \in Connections /\ Less(links', links)
      /\ \A k \in Links : links'[k].lead = links[k].lead
  BY <1>1, ReadEvents, LessReadEvents
<1>3. m \in Reported /\ m \in Items(links[mine].events)
  BY <1>1, ReadEvents
<1>. HIDE DEF m
<1>4. got = "failed" \/ (got \in {"done", "stopped"} /\ m = Item(got, paneRun))
  BY <1>1, <1>3 DEF Reported, Item
<1>5. got = "failed" \/ (got \in {"done", "stopped"} /\ paneRun \in Says(links, got))
  <2>. HIDE DEF got
  <2> QED BY <1>1, <1>3, <1>4 DEF Says
<1>. HIDE DEF got
<1>6. /\ outcome' \in [Runs -> {"none", "done", "stopped", "failed"}]
      /\ \A r \in Runs : outcome'[r] \in {outcome[r], "failed"} \/ r \in Says(links, outcome'[r])
  BY <1>1, <1>5 DEF PaneTypeOK
<1>7. PaneTypeOK'
  BY <1>1, <1>2, <1>6 DEF PaneTypeOK, Connections, LinkRec, brokervars, hostvars
<1>8. OneHostServes' /\ SeatsAreTaken'
  BY <1>1, <1>2 DEF OneHostServes, SeatsAreTaken, brokervars, hostvars, AtWork
<1>9. Quieter
  BY <1>1, <1>2, <1>6 DEF Quieter, Unasked, brokervars, hostvars, ReportsAreTrue
<1> QED BY <1>7, <1>8, <1>9, QuietStep

\* A request to stop is for a run that was requested.
LEMMA KeepsStops == ASSUME PaneInv, Stops PROVE PaneInv'
<1>. USE DEF PaneInv
<1>. DEFINE m == Item("cancel", paneRun)
<1>1. /\ mine \in Links /\ links \in Connections /\ paneRun \in Runs /\ driver = "waiting"
      /\ stopping' = stopping \cup {paneRun}
      /\ UNCHANGED <<driver, paneRun, outcome, hid, mine, brokervars, hostvars, paneFaults>>
  BY PaneTypes DEF Stops, SeatsAreTaken
<1>2. m \in Requested
  BY <1>1 DEF Item, Requested
<1>3. \A s \in Runs : Item("run", s) # m /\ (Item("cancel", s) = m => s = paneRun)
  BY DEF Item
<1>4. /\ links' \in Connections
      /\ \A k \in Links : /\ links'[k].lead = links[k].lead
                          /\ links'[k].up = links[k].up /\ links'[k].events = links[k].events
      /\ \A k \in Links : \A x : x \in Items(links'[k].down) => x \in Items(links[k].down) \/ x = m
      /\ \A k \in Links : \A x : Once(links[k].down, x) /\ x # m => Once(links'[k].down, x)
  <2>. HIDE DEF m
  <2>1. CASE links[mine].lead = "open"
    <3>1. links' = Sent(links, mine, "down", m)
      BY <2>1 DEF Stops, m
    <3>2. /\ links' \in Connections
          /\ \A k \in Links : /\ links'[k].lead = links[k].lead
                              /\ links'[k].up = links[k].up /\ links'[k].events = links[k].events
          /\ \A k \in Links : k # mine => links'[k] = links[k]
      BY <1>1, <1>2, <3>1, SentDown
    <3>3. /\ \A x : x \in Items(links'[mine].down) => x \in Items(links[mine].down) \/ x = m
          /\ \A x : Once(links[mine].down, x) /\ (x # m \/ x \notin Items(links[mine].down))
                      => Once(links'[mine].down, x)
      BY <1>1, <1>2, <3>1, SentDown
    <3> QED BY <3>2, <3>3
  <2>2. CASE links[mine].lead # "open"
    <3>1. links' = links
      BY <2>2 DEF Stops
    <3> QED BY <1>1, <3>1
  <2> QED BY <2>1, <2>2
<1>5. PaneTypeOK'
  BY <1>1, <1>4 DEF PaneTypeOK, Connections, LinkRec, brokervars, hostvars
<1>6. OneHostServes' /\ SeatsAreTaken'
  BY <1>1, <1>4 DEF OneHostServes, SeatsAreTaken, brokervars, hostvars
<1>7. ASSUME NEW s \in Runs
      PROVE  /\ \A k \in Links : s \in Wants(links', k) => s \in Wants(links, k)
             /\ s \in Cancels(links') => s \in Cancels(links) \/ s = paneRun
             /\ \A kind \in {"done", "stopped"} : s \in Reports(kind)' => s \in Reports(kind)
             /\ \A k \in Links : Once(links[k].down, Item("run", s)) => Once(links'[k].down, Item("run", s))
             /\ Unasked(s)' => Unasked(s) /\ s # paneRun
             /\ \A p \in Hosts : worker'[p] = worker[p]
  <2>1. \A k \in Links : s \in Wants(links', k) => s \in Wants(links, k)
    BY <1>3, <1>4 DEF Wants
  <2>2. s \in Cancels(links') => s \in Cancels(links) \/ s = paneRun
    BY <1>3, <1>4 DEF Cancels
  <2>3. \A kind \in {"done", "stopped"} : s \in Reports(kind)' => s \in Reports(kind)
    BY <1>1, <1>4 DEF Reports, Says
  <2>4. Unasked(s)' => Unasked(s) /\ s # paneRun
    <3>1. s \in Nat /\ paneRun \in Nat
      BY <1>1, PaneTypes
    <3> QED BY <1>1, <3>1 DEF Unasked
  <2> QED BY <1>1, <1>3, <1>4, <2>1, <2>2, <2>3, <2>4 DEF hostvars
<1>8. ASSUME NEW s \in Runs PROVE InOnePlace(s)' /\ (Unasked(s)' => Unknown(s)')
  <2>1. InOnePlace(s) /\ (Unasked(s) => Unknown(s))
    BY DEF RunsAreTraced
  <2>2. InOnePlace(s)'
    BY <1>7, <2>1 DEF InOnePlace
  <2>3. Unasked(s)' => Unknown(s)'
    BY <1>7, <2>1 DEF Unknown
  <2> QED BY <2>2, <2>3
<1>9. ReportsAreTrue'
  <2>1. ASSUME NEW s \in Runs
        PROVE  /\ s \in Reports("done")' => s \in ended'
               /\ s \in Reports("stopped")' => s \in stopping'
               /\ s \in Cancels(links') => s \in stopping'
    BY <1>1, <1>7 DEF ReportsAreTrue, hostvars
  <2>2. Reports("done")' \subseteq Runs /\ Reports("stopped")' \subseteq Runs /\ Cancels(links') \subseteq Runs
    BY DEF Reports, Says, Cancels
  <2>3. \A o \in Hosts : host'[o] = "killing" => worker'[o] \in stopping'
    BY <1>1 DEF ReportsAreTrue, hostvars
  <2> QED BY <2>1, <2>2, <2>3 DEF ReportsAreTrue
<1> QED BY <1>5, <1>6, <1>8, <1>9 DEF RunsAreTraced

-----------------------------------------------------------------------------
\* The invariant holds where the control plane begins.
LEMMA PaneBegins == PaneInit => PaneInv
<1>. SUFFICES ASSUME PaneInit PROVE PaneInv
  OBVIOUS
<1>1. MaxPaneRuns \in Nat /\ MaxTries \in Nat /\ MaxPaneFaults \in Nat
      /\ 0 \in 0..MaxPaneRuns /\ 0 \in 0..MaxTries /\ 0 \in 0..MaxPaneFaults
      /\ \A r \in Runs : r \in Nat /\ r > 0
  BY PaneAssumption DEF Runs
<1>2. \A l \in Links : /\ links[l].lead = "none" /\ links[l].up = <<>> /\ links[l].down = <<>>
                       /\ links[l].events = <<>>
  BY DEF PaneInit
<1>3. PaneTypeOK
  <2>1. <<>> \in Seq(Reported) /\ <<>> \in Seq(Requested)
    BY EmptySeq
  <2>2. links \in Connections
    BY <1>1, <2>1 DEF PaneInit, Connections, LinkRec
  <2> QED BY <1>1, <2>2 DEF PaneInit, PaneTypeOK, Connections, LinkRec
<1>4. OneHostServes
  <2>1. conn \notin Links
    BY PaneTypes, <1>3 DEF PaneInit
  <2> QED BY <1>2, <2>1 DEF OneHostServes
<1>5. SeatsAreTaken
  <2>1. hid <= paneRun
    BY DEF PaneInit
  <2> QED BY <1>2, <2>1 DEF PaneInit, SeatsAreTaken, AtWork
<1>6. Items(<<>>) = {} /\ \A x : Once(<<>>, x)
  BY DEF Items, Once
<1>7. /\ \A l \in Links : Wants(links, l) = {}
      /\ Cancels(links) = {} /\ Reports("done") = {} /\ Reports("stopped") = {}
  BY <1>2, <1>6 DEF Wants, Cancels, Reports, Says, PaneInit
<1>8. \A l \in Links : \A x : Once(links[l].down, x)
  BY <1>2, <1>6
<1>9. \A p \in Hosts : worker[p] = 0 /\ host[p] = "absent"
  BY DEF PaneInit
<1>10. RunsAreTraced
  BY <1>1, <1>7, <1>8, <1>9 DEF RunsAreTraced, InOnePlace, Unknown
<1>11. ReportsAreTrue
  BY <1>7, <1>9 DEF ReportsAreTrue
<1> QED BY <1>3, <1>4, <1>5, <1>10, <1>11 DEF PaneInv

\* A step of the lead, the broker or a pane keeps it.
LEMMA PaneSteps == PaneInv /\ [PaneNext]_panevars => PaneInv'
<1>. SUFFICES ASSUME PaneInv, [PaneNext]_panevars PROVE PaneInv'
  OBVIOUS
<1>1. CASE LeadActs
  BY <1>1, KeepsRunsOnHost, KeepsProvisions, KeepsProvisioned, KeepsPublishFails, KeepsProvisionTimesOut,
     KeepsStops, KeepsHears, KeepsLoses, KeepsReopens DEF LeadActs
<1>2. ASSUME NEW l \in Links, BrokerStep(l) PROVE PaneInv'
  BY <1>2, KeepsRegisters, KeepsPublishes, KeepsEnds DEF BrokerStep
<1>3. ASSUME NEW p \in Hosts, HostStep(p) PROVE PaneInv'
  BY <1>3, KeepsConnects, KeepsAnswered, KeepsSpawnFails, KeepsWorkerEnds, KeepsHeeds, KeepsWorkerKilled,
     KeepsPaneDies DEF HostStep
<1>4. CASE UNCHANGED panevars
  <2>1. /\ UNCHANGED <<driver, paneRun, outcome, stopping, hid, mine, conn, pending, tokens, told, file>>
        /\ UNCHANGED <<links, host, tries, worker, ended, paneFaults>>
    BY <1>4 DEF panevars, leadvars, brokervars, hostvars
  <2>2. PaneTypeOK' /\ OneHostServes' /\ SeatsAreTaken'
    BY <2>1 DEF PaneInv, PaneTypeOK, OneHostServes, SeatsAreTaken
  <2>3. Quieter
    BY <2>1, LessSame DEF PaneInv, Quieter, Unasked, ReportsAreTrue
  <2> QED BY <2>2, <2>3, QuietStep
<1> QED BY <1>1, <1>2, <1>3, <1>4 DEF PaneNext

\* A member's pane: one host serves it at a time, and the outcome the lead takes for a run is that
\* run's own, reported when no worker of it is left in any pane (control.py, pane_host.py).
THEOREM PanesStayServed == PaneSpec => []PanesAreServed
<1>1. PaneInv => PanesAreServed
  <2>. SUFFICES ASSUME PaneInv PROVE PanesAreServed
    OBVIOUS
  <2>1. ASSUME NEW r \in Runs
        PROVE  /\ outcome[r] = "done" => r \in ended
               /\ outcome[r] = "stopped" => r \in stopping
               /\ outcome[r] \in {"done", "stopped"} => \A p \in Hosts : worker[p] # r
    <3>1. outcome[r] \in {"done", "stopped"} => r \in Reports(outcome[r])
      BY DEF Reports
    <3> QED BY <3>1 DEF PaneInv, ReportsAreTrue, RunsAreTraced, InOnePlace
  <2> QED BY <2>1 DEF PaneInv, PanesAreServed, OutcomeIsOwn
<1> QED BY <1>1, PaneBegins, PaneSteps, PTL DEF PaneSpec

=============================================================================
