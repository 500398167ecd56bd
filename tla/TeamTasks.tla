----------------------------- MODULE TeamTasks -----------------------------
(***************************************************************************)
(* The shared task list of a team and the plan approvals bound to it:      *)
(* teams/domain.py under TeamTaskService (teams/tasks.py) and              *)
(* TeamApprovalService (teams/approvals.py).                               *)
(*                                                                         *)
(* Each operation is one TeamMutationRunner.run: load, transform, compare  *)
(* and swap, without an await, so it is one step.  A transform that raises *)
(* and a candidate that TeamRepository.validate rejects change nothing.    *)
(* The only operation with an extent in time is a side-effect tool, which  *)
(* executes under side_effect_permit while other tasks of the event loop   *)
(* go on mutating the state.                                               *)
(*                                                                         *)
(* The life cycle of the members, which request_approval also touches, is  *)
(* in TeamScheduler.  Titles, descriptions and results are left out, and   *)
(* the uuid of an approval is its (member, task, plan version).            *)
(***************************************************************************)
EXTENDS Naturals, FiniteSets

CONSTANTS Members,        \* member ids
          Gated,          \* members with requires_approval
          Tasks,          \* task ids that may ever be created
          Lead,           \* the Lead's participant id
          NoMember,       \* assignee_id None
          NoTask,         \* current_task_id None
          MaxRevision,    \* bound: revisions of a task
          MaxPlans        \* bound: plan versions of a member for a task

ASSUME MemberAssumption == /\ Gated \subseteq Members
                           /\ Lead \notin Members /\ NoMember \notin Members
ASSUME TaskAssumption   == NoTask \notin Tasks /\ IsFiniteSet(Tasks)
ASSUME BoundAssumption  == MaxRevision \in Nat /\ MaxPlans \in Nat

VARIABLES
    status,      \* task -> TeamTaskStatus; absent before create, then deleted
    assignee,    \* task -> assignee_id
    deps,        \* task -> dependency_ids
    revision,    \* task -> revision
    epoch,       \* task -> approval_epoch
    current,     \* member -> current_task_id
    approvals,   \* the plan approval records
    outbox,      \* notifications committed with the change they announce
    permit       \* member -> the task and epoch its side effect runs for

vars == <<status, assignee, deps, revision, epoch, current, approvals, outbox, permit>>
taskVars == <<status, assignee, deps, revision, epoch>>

Actors   == Members \cup {Lead}
Terminal == {"completed", "failed", "cancelled"}
Present  == {"pending", "in_progress"} \cup Terminal
Statuses == Present \cup {"absent", "deleted"}
Open     == {"pending", "approved"}

Approvals == [member : Members, task : Tasks, version : Nat, revision : Nat,
              epoch : Nat, status : Open \cup {"rejected", "invalidated"}]
Notices   == [to : Actors, task : Tasks, revision : Nat]
NoPermit  == [task |-> NoTask, epoch |-> 0]
Permits   == [task : Tasks, epoch : Nat] \cup {NoPermit}

TypeOK ==
    /\ status \in [Tasks -> Statuses]
    /\ assignee \in [Tasks -> Members \cup {NoMember}]
    /\ deps \in [Tasks -> SUBSET Tasks]
    /\ revision \in [Tasks -> Nat]
    /\ epoch \in [Tasks -> Nat]
    /\ current \in [Members -> Tasks \cup {NoTask}]
    /\ approvals \subseteq Approvals
    /\ outbox \subseteq Notices
    /\ permit \in [Members -> Permits]

Init ==
    /\ status = [t \in Tasks |-> "absent"]
    /\ assignee = [t \in Tasks |-> NoMember]
    /\ deps = [t \in Tasks |-> {}]
    /\ revision = [t \in Tasks |-> 0]
    /\ epoch = [t \in Tasks |-> 0]
    /\ current = [m \in Members |-> NoTask]
    /\ approvals = {}
    /\ outbox = {}
    /\ permit = [m \in Members |-> NoPermit]

-----------------------------------------------------------------------------
Live(t) == status[t] \in Present

\* task_view: some dependency is not completed.
Blocked(t) == \E d \in deps[t] : status[d] # "completed"

Claimable(t) == status[t] = "pending" /\ assignee[t] = NoMember /\ ~Blocked(t)

\* A cycle is a set of tasks that all depend on a member of the set.
Acyclic(graph) == \A S \in SUBSET Tasks : S # {} => \E t \in S : graph[t] \cap S = {}

\* Defects.  The operators named Bug... change one definition each, the way a slip
\* in the code would; no behaviour of this module uses them.
BugValidDependencies(t, ds) == \A d \in ds : Live(d) /\ d # t

\* _validate_dependencies of the state in which t depends on ds.
ValidDependencies(t, ds) ==
    /\ \A d \in ds : Live(d) /\ d # t
    /\ Acyclic([deps EXCEPT ![t] = ds])

\* _task, _check_revision: a write based on another revision is refused.  (Every
\* accepted one is a new revision, hence the bound.)
Fresh(t, expected) == Live(t) /\ expected = revision[t] /\ revision[t] < MaxRevision

BugInvalidated(t) ==
    {IF a.task = t /\ a.status = "pending"
     THEN [a EXCEPT !.status = "invalidated"] ELSE a : a \in approvals}

\* invalidate_approvals
Invalidated(t) ==
    {IF a.task = t /\ a.status \in Open
     THEN [a EXCEPT !.status = "invalidated"] ELSE a : a \in approvals}

\* The message that the commit of a change to t's revision r adds to the outbox.
Announce(to, t, r) == outbox' = outbox \cup {[to |-> to, task |-> t, revision |-> r]}

Notify(to, t) == Announce(to, t, revision'[t])

-----------------------------------------------------------------------------
(* TeamTaskService *)

CreateTask(t, ds) ==
    /\ status[t] = "absent"
    /\ ValidDependencies(t, ds)
    /\ status' = [status EXCEPT ![t] = "pending"]
    /\ deps' = [deps EXCEPT ![t] = ds]
    /\ UNCHANGED <<assignee, revision, epoch, current, approvals, outbox, permit>>

CanEdit(actor, t) ==
    \/ actor = Lead
    \/ assignee[t] = actor
    \/ status[t] = "pending" /\ assignee[t] = NoMember

BugUpdateTask(actor, t, expected, ds) ==
    /\ Fresh(t, expected) /\ CanEdit(actor, t)
    /\ ValidDependencies(t, ds)
    /\ deps' = [deps EXCEPT ![t] = ds]
    /\ revision' = [revision EXCEPT ![t] = @ + 1]
    /\ epoch' = [epoch EXCEPT ![t] = IF ds # deps[t] THEN @ + 1 ELSE @]
    /\ UNCHANGED <<status, assignee, current, approvals, outbox, permit>>

\* update: other dependencies are a new approval epoch.
UpdateTask(actor, t, expected, ds) ==
    /\ Fresh(t, expected) /\ CanEdit(actor, t)
    /\ ValidDependencies(t, ds)
    /\ deps' = [deps EXCEPT ![t] = ds]
    /\ revision' = [revision EXCEPT ![t] = @ + 1]
    /\ epoch' = [epoch EXCEPT ![t] = IF ds # deps[t] THEN @ + 1 ELSE @]
    /\ approvals' = IF ds # deps[t] THEN Invalidated(t) ELSE approvals
    /\ UNCHANGED <<status, assignee, current, outbox, permit>>

BugReleased(t) == current

\* The current task of t's assignee is cleared, whichever task that is.
Released(t) == [m \in Members |-> IF m = assignee[t] THEN NoTask ELSE current[m]]

\* assign_task: no look at the task's status.
AssignTask(t, m, expected) ==
    /\ Fresh(t, expected)
    /\ Released(t)[m] \in {NoTask, t}
    /\ current' = [Released(t) EXCEPT ![m] = t]
    /\ assignee' = [assignee EXCEPT ![t] = m]
    /\ revision' = [revision EXCEPT ![t] = @ + 1]
    /\ epoch' = [epoch EXCEPT ![t] = @ + 1]
    /\ approvals' = Invalidated(t)
    /\ UNCHANGED <<status, deps, permit>>

\* assign, by the Lead: the assignee is notified.
Assign(t, m, expected) == AssignTask(t, m, expected) /\ Notify(m, t)

\* claim, by the member itself.
Claim(m, t, expected) ==
    /\ Claimable(t) /\ current[m] = NoTask
    /\ AssignTask(t, m, expected)
    /\ UNCHANGED outbox

\* The table of transition_task.
NextStatuses(from) ==
    CASE from = "pending"     -> {"in_progress", "cancelled"}
      [] from = "in_progress" -> Terminal
      [] from \in Terminal    -> {"pending"}
      [] OTHER                -> {}

\* transition: a task that ends is no longer current, one that is reopened needs
\* a new approval.
Transition(actor, t, to, expected) ==
    LET reset == to = "pending"
    IN  /\ Fresh(t, expected)
        /\ actor \in {Lead, assignee[t]}
        /\ to \in NextStatuses(status[t])
        /\ to = "in_progress" => ~Blocked(t)
        /\ status' = [status EXCEPT ![t] = to]
        /\ revision' = [revision EXCEPT ![t] = @ + 1]
        /\ epoch' = [epoch EXCEPT ![t] = IF reset THEN @ + 1 ELSE @]
        /\ approvals' = IF reset THEN Invalidated(t) ELSE approvals
        /\ current' = IF to \in Terminal THEN Released(t) ELSE current
        /\ IF to \in Terminal THEN Notify(Lead, t) ELSE UNCHANGED outbox
        /\ UNCHANGED <<assignee, deps, permit>>

\* delete: the repository rejects the candidate in which a member still has t as
\* its current task.
DeleteTask(actor, t, expected) ==
    /\ Fresh(t, expected)
    /\ status[t] # "in_progress"
    /\ \A u \in Tasks : Live(u) => t \notin deps[u]
    /\ actor # Lead => status[t] = "pending" /\ assignee[t] = NoMember
    /\ \A m \in Members : current[m] # t
    /\ status' = [status EXCEPT ![t] = "deleted"]
    /\ approvals' = {a \in approvals : a.task # t}
    /\ UNCHANGED <<assignee, deps, revision, epoch, current, outbox, permit>>

-----------------------------------------------------------------------------
(* TeamApprovalService *)

Versions(m, t) == {a.version : a \in {b \in approvals : b.member = m /\ b.task = t}}

\* request, for the member's current task: a new plan replaces the older ones.
RequestApproval(m, version) ==
    LET t == current[m]
    IN  /\ m \in Gated /\ t # NoTask
        /\ version \notin Versions(m, t)
        /\ \A v \in 1..MaxPlans : v < version <=> v \in Versions(m, t)
        /\ approvals' = Invalidated(t) \cup
              {[member |-> m, task |-> t, version |-> version,
                revision |-> revision[t], epoch |-> epoch[t], status |-> "pending"]}
        /\ Announce(Lead, t, revision[t])
        /\ UNCHANGED <<taskVars, current, permit>>

BugDecide(a, decision) ==
    /\ a.status = "pending"
    /\ approvals' = (approvals \ {a}) \cup
          {[a EXCEPT !.status = IF decision = "approved" THEN "approve" ELSE "reject"]}
    /\ Announce(a.member, a.task, a.revision)
    /\ UNCHANGED <<taskVars, current, permit>>

\* decide_approval
Decided(a, decision) == (approvals \ {a}) \cup {[a EXCEPT !.status = decision]}

\* decide, by the Lead.
Decide(a, decision) ==
    /\ a.status = "pending"
    /\ approvals' = Decided(a, decision)
    /\ Announce(a.member, a.task, a.revision)
    /\ UNCHANGED <<taskVars, current, permit>>

\* An approval record that side_effect_permit accepts.
Authorises(a, m, t) ==
    /\ a.status = "approved" /\ a.member = m /\ a.task = t
    /\ a.revision = revision[t] /\ a.epoch = epoch[t]

BugMayRun(m, t) == m \in Gated => \E a \in approvals : a.member = m /\ a.status = "approved"

MayRun(m, t) == m \in Gated => \E a \in approvals : Authorises(a, m, t)

\* side_effect_permit is entered under the member's lock.
GrantPermit(m) ==
    /\ permit[m] = NoPermit
    /\ current[m] # NoTask
    /\ MayRun(m, current[m])
    /\ permit' = [permit EXCEPT ![m] = [task |-> current[m], epoch |-> epoch[current[m]]]]
    /\ UNCHANGED <<taskVars, current, approvals, outbox>>

\* The tool returned.
ReleasePermit(m) ==
    /\ permit[m] # NoPermit
    /\ permit' = [permit EXCEPT ![m] = NoPermit]
    /\ UNCHANGED <<taskVars, current, approvals, outbox>>

-----------------------------------------------------------------------------
TaskStep(t) ==
    \/ \E ds \in SUBSET Tasks : CreateTask(t, ds)
    \/ \E expected \in 0..MaxRevision :
         \/ \E m \in Members : Assign(t, m, expected) \/ Claim(m, t, expected)
         \/ \E actor \in Actors :
              \/ \E ds \in SUBSET Tasks : UpdateTask(actor, t, expected, ds)
              \/ \E to \in Present : Transition(actor, t, to, expected)
              \/ DeleteTask(actor, t, expected)

ApprovalStep ==
    \/ \E m \in Members : \E version \in 1..MaxPlans : RequestApproval(m, version)
    \/ \E a \in approvals : \E decision \in {"approved", "rejected"} : Decide(a, decision)

PermitStep == \E m \in Members : GrantPermit(m) \/ ReleasePermit(m)

Next == (\E t \in Tasks : TaskStep(t)) \/ ApprovalStep \/ PermitStep

Spec == Init /\ [][Next]_vars

-----------------------------------------------------------------------------
\* A current task exists and is assigned to the member it is current for, so no
\* task is ever current for two members (F24), whatever claims, reassignments and
\* deletions went before.
CurrentIsAssigned ==
    \A m \in Members : current[m] # NoTask =>
        Live(current[m]) /\ assignee[current[m]] = m

\* An approval that is still pending or approved belongs to the task's assignee and
\* to its present epoch, and it is the only one of its task (F41, F45).
OpenApprovalsMatch ==
    \A a \in approvals : a.status \in Open =>
        /\ Live(a.task)
        /\ a.member = assignee[a.task] /\ a.epoch = epoch[a.task]
        /\ \A b \in approvals : b.status \in Open /\ b.task = a.task => b = a

\* Current tasks, assignees and open approvals agree.
AssignmentsMatch == CurrentIsAssigned /\ OpenApprovalsMatch

\* The dependency graph never wedges the team (F21, F26): as long as some task is
\* not completed, some task that is not completed waits for no other.
SomeTaskUnblocked ==
    (\E t \in Tasks : Live(t) /\ status[t] # "completed") =>
        \E t \in Tasks : Live(t) /\ status[t] # "completed" /\ ~Blocked(t)

\* Reassigning a task, replacing its dependencies or reopening it leaves no approval
\* of the earlier plan in force (F45).
ChangesInvalidate ==
    [][\A t \in Tasks :
         (Live(t) /\ \/ assignee'[t] # assignee[t]
                     \/ deps'[t] # deps[t]
                     \/ status[t] \in Terminal /\ status'[t] = "pending")
            => \A a \in approvals' : a.task = t => a.status \notin Open]_vars

\* A side effect of a gated member starts only under a plan that the Lead approved
\* for exactly the task the member is working on, in its present version (F41, F42).
SideEffectsApproved ==
    [][\A m \in Gated :
         (permit[m] = NoPermit /\ permit'[m] # NoPermit) =>
            /\ assignee[permit'[m].task] = m
            /\ \E a \in approvals :
                 /\ a.status = "approved" /\ a.member = m /\ a.task = permit'[m].task
                 /\ \A b \in approvals :
                      (b.member = m /\ b.task = a.task) => b.version <= a.version]_vars

-----------------------------------------------------------------------------
\* Phase 14A plan: a change of the task waits for the tool that holds the permit.
PermitProtects ==
    \A m \in Members : permit[m] # NoPermit => permit[m].epoch = epoch[permit[m].task]
=============================================================================
