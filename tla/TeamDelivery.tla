---------------------------- MODULE TeamDelivery ----------------------------
(***************************************************************************)
(* From a user goal to an integration batch: TeamDeliveryCoordinator       *)
(* (teams/orchestration.py) and the plan of TeamIntegrationService         *)
(* (teams/integration.py); what the batch does then is TeamIntegration.    *)
(*                                                                         *)
(* A run publishes its tasks on the team's board, a loop (the cycle)       *)
(* dispatches them, freezes the commits of what was completed, and, when   *)
(* the Lead has accepted all of it, plans the batch.  The cycle works on a *)
(* copy of the run that it loaded at its start and saves it with the       *)
(* revision it saw; the Lead's tool calls save the run in between.  What   *)
(* matters of a revision is whether a copy still has the saved one (stale). *)
(* A step ends where the code waits: for the scheduler, Git, the mailbox.  *)
(***************************************************************************)
EXTENDS Naturals, FiniteSets

CONSTANTS Tasks, Deps,    \* the tasks of the run, and the ones each depends on
          Workers,        \* the members that do them
          MaxHead,        \* bound: commits in a member's worktree
          MaxCalls        \* bound: calls that reject, reassign, stop, cancel, reopen or delete

VARIABLES
    run,        \* the status of the run
    stale,      \* who holds a copy of the run with a revision that is not the saved one
    decided,    \* the last dispatch decision of a task: the worktree's start, or Undecided
    review,     \* the frozen delivery of a task: NoReview or [status, who, rev, range]
    board,      \* the task on the team's board: [status, who, rev, by]
    holds,      \* the current task of a member
    live,       \* members whose run goes on
    head,       \* commits in the worktree of each member
    cycle,      \* reconcile(): where it is, the tasks it has still to look at,
                \* and what it read before it waits for Git
    asks,       \* the Lead's call that waits: [what, task, copy], or NoToolCall
    plan,       \* what the batch merges: a range for each task, or NoBatch
    accepted,   \* ranges of a task the Lead has accepted
    deleted,    \* tasks that somebody has deleted from the board
    calls       \* counts what MaxCalls bounds

dvars == <<run, stale, decided, review, board, holds, live, head, cycle, asks, plan, accepted,
           deleted, calls>>
savedRun == <<run, stale>>
team == <<board, holds, live, head, deleted>>
lists == <<review, plan, accepted, calls>>

Nobody == "nobody"
NoStart == MaxHead + 1       \* a decision that names no start of the worktree
Undecided == MaxHead + 2
NoRange == <<0, 0>>
NoTask == "none"
NoReview == [status |-> "none", who |-> Nobody, rev |-> 0, range |-> NoRange]
NoReviews == [t \in Tasks |-> NoReview]
NoBatch == [t \in Tasks |-> NoRange]
NoCard == [status |-> "absent", who |-> Nobody, rev |-> 0, by |-> Nobody]
NoToolCall == [what |-> "none", task |-> NoTask, copy |-> NoReviews]
IdleCycle == [at |-> "idle", todo |-> {}, task |-> NoTask, who |-> Nobody, seen |-> 0,
              copy |-> NoReviews, board |-> "open", sees |-> {}]
RunOver == {"completed", "failed", "manual"}

Starts  == Nat \cup {NoStart, Undecided}
Ranges  == Starts \X Nat
Reviews == {NoReview} \cup [status : {"pending", "accepted", "rejected"}, who : Workers,
                            rev : Nat, range : Ranges]
Cards   == [status : {"absent", "pending", "completed", "failed"}, who : Workers \cup {Nobody},
            rev : Nat, by : {Nobody, "dispatch", "claim"}]
Cycles  == [at : {"idle", "tasks", "head", "freeze", "inspect", "integrate"},
            todo : SUBSET Tasks, task : Tasks \cup {NoTask}, who : Workers \cup {Nobody},
            seen : Nat, copy : [Tasks -> Reviews], board : {"open", "done", "failed"},
            sees : SUBSET Tasks]
Asks    == [what : {"none", "reassign", "stop", "plan"}, task : Tasks \cup {NoTask},
            copy : [Tasks -> Reviews]]

DeliveryTypeOK ==
    /\ run \in {"none", "prepared", "active", "ready"} \cup RunOver
    /\ stale \subseteq {"cycle", "lead"}
    /\ decided \in [Tasks -> Starts] /\ review \in [Tasks -> Reviews]
    /\ board \in [Tasks -> Cards] /\ holds \in [Workers -> Tasks \cup {NoTask}]
    /\ live \subseteq Workers /\ head \in [Workers -> Nat]
    /\ cycle \in Cycles
    /\ cycle.at \in {"head", "freeze"} => cycle.task \in Tasks /\ cycle.who \in Workers
    /\ asks \in Asks /\ (asks.what = "reassign" => asks.task \in Tasks)
    /\ plan \in [Tasks -> Ranges] /\ accepted \in [Tasks -> SUBSET Ranges] /\ calls \in Nat
    /\ deleted \subseteq Tasks

DeliveryInit ==
    /\ run = "none" /\ stale = {}
    /\ decided = [t \in Tasks |-> Undecided] /\ review = NoReviews
    /\ board = [t \in Tasks |-> NoCard]
    /\ holds = [m \in Workers |-> NoTask] /\ live = {} /\ head = [m \in Workers |-> 0]
    /\ cycle = IdleCycle /\ asks = NoToolCall
    /\ plan = NoBatch /\ accepted = [t \in Tasks |-> {}] /\ calls = 0
    /\ deleted = {}

\* update_decomposition: x saves the run, and the copies others loaded are of an old
\* revision; with an old revision nothing is saved.
SaveRun(x, status) == run' = status /\ stale' = {"cycle", "lead"} \ {x}
Fresh == "cycle" \notin stale
Go(at) == cycle' = [cycle EXCEPT !.at = at]
Raises == cycle' = IdleCycle /\ UNCHANGED savedRun

-----------------------------------------------------------------------------
(* decompose, and its recovery when the coordinator is opened *)

Decompose ==
    /\ run = "none" /\ run' = "prepared" /\ UNCHANGED stale
    /\ UNCHANGED <<decided, team, cycle, asks, lists>>

Absent == {t \in Tasks : board[t].status = "absent"}
PublishAll == board' = [t \in Tasks |-> [board[t] EXCEPT !.status = "pending"]]

\* create_batch commits all tasks at once; then the run is saved as active.
Publish ==
    /\ run = "prepared" /\ Absent = Tasks /\ deleted = {}
    /\ \/ PublishAll /\ UNCHANGED savedRun           \* cut off before the run is saved
       \/ PublishAll /\ SaveRun("opener", "active")
       \/ SaveRun("opener", "failed") /\ UNCHANGED board
       \/ PublishAll /\ SaveRun("opener", "failed")       \* the journal could not be written
    /\ UNCHANGED <<decided, holds, live, head, deleted, cycle, asks, lists>>

BugRecoverRun ==  \* recovery takes the tasks for published
    /\ run = "prepared"
    /\ SaveRun("opener", "active")
    /\ UNCHANGED <<decided, team, cycle, asks, lists>>

RecoverRun ==
    /\ run = "prepared"
    /\ IF Absent = Tasks THEN PublishAll /\ deleted' = {} ELSE UNCHANGED <<board, deleted>>
    /\ SaveRun("opener", IF Absent \in {{}, Tasks} THEN "active" ELSE "manual")
    /\ UNCHANGED <<decided, holds, live, head, cycle, asks, lists>>

-----------------------------------------------------------------------------
(* reviews, and the plan made of them *)

RangeOf(m, start) == <<start, head[m]>>
Frozen(t, m, rev) ==
    [status |-> "pending", who |-> m, rev |-> rev, range |-> RangeOf(m, decided[t])]

\* A review counts while its task is as it was when it was frozen.
Outdated(t, r) == r = NoReview \/ board[t].status # "completed" \/ board[t].rev # r.rev
Current == [t \in Tasks |-> IF Outdated(t, review[t]) THEN NoReview ELSE review[t]]

\* TeamIntegrationService.plan: one batch for a run, of what was accepted.
Plans(rs) ==
    IF plan # NoBatch THEN UNCHANGED plan
    ELSE /\ \A t \in Tasks : rs[t].status = "accepted" /\ ~Outdated(t, rs[t])
         /\ plan' = [t \in Tasks |-> rs[t].range]

-----------------------------------------------------------------------------
(* reconcile: dispatch *)

CycleBegins ==
    /\ cycle = IdleCycle
    /\ \/ /\ run = "active"
          /\ cycle' = [IdleCycle EXCEPT !.at = "tasks", !.todo = Tasks, !.sees = Tasks \ Absent]
          /\ UNCHANGED plan
       \/ /\ run = "ready" /\ Plans(review)
          /\ cycle' = [IdleCycle EXCEPT !.at = "integrate"]
    /\ stale' = stale \ {"cycle"}
    /\ UNCHANGED <<run, decided, team, asks, review, accepted, calls>>

\* _eligible_members
Eligible(m) == m \notin live /\ holds[m] = NoTask
Open(t) == board[t].status = "pending" /\ board[t].who = Nobody
Unblocked(t) == \A d \in Deps[t] : board[d].status = "completed"

\* A task that cannot be dispatched stays pending, and why is recorded once.  Of one that
\* was deleted before the board was loaded, nothing is found: the cycle raises (CycleEnds).
Passes(t) ==
    /\ cycle.at = "tasks" /\ t \in cycle.todo \cap cycle.sees /\ cycle.todo \cap Deps[t] = {}
    /\ \/ Fresh /\ cycle' = [cycle EXCEPT !.todo = @ \ {t}] /\ UNCHANGED savedRun
       \/ /\ Open(t)
          /\ IF Fresh THEN /\ SaveRun("cycle", run)
                           /\ cycle' = [cycle EXCEPT !.todo = @ \ {t}]
             ELSE Raises
    /\ UNCHANGED <<decided, team, asks, lists>>

\* assign_task: the task passes from its assignee to m, who may hold no other.
Assign(t, m, by) ==
    /\ holds[m] \in {NoTask, t}
    /\ board' = [board EXCEPT ![t] =
                   [board[t] EXCEPT !.who = m, !.rev = board[t].rev + 1, !.by = by]]
    /\ holds' = [n \in Workers |-> IF n = m THEN t
                                  ELSE IF n = board[t].who THEN NoTask ELSE holds[n]]

\* A slot is reserved for the member, then Git is asked for the head of its worktree.
Reserves(t, m) ==
    /\ cycle.at = "tasks" /\ t \in cycle.todo /\ Open(t) /\ Unblocked(t) /\ Eligible(m)
    /\ cycle' = [cycle EXCEPT !.at = "head", !.todo = @ \ {t}, !.task = t, !.who = m]
    /\ UNCHANGED <<savedRun, decided, team, asks, lists>>

\* The task is assigned, then the decision is recorded: not if the run has moved on.
Assigns ==
    LET t == cycle.task IN
    /\ cycle.at = "head"
    /\ \/ /\ Open(t) /\ Assign(t, cycle.who, "dispatch") /\ live' = live \cup {cycle.who}
          /\ IF Fresh THEN /\ decided' = [decided EXCEPT ![t] = head[cycle.who]]
                           /\ SaveRun("cycle", run)
                           /\ cycle' = [cycle EXCEPT !.at = "tasks", !.sees = Tasks \ Absent]
             ELSE Raises /\ UNCHANGED decided
       \/ Raises /\ UNCHANGED <<board, holds, live, decided>>      \* Git fails, a revision is stale
    /\ UNCHANGED <<head, deleted, asks, lists>>

-----------------------------------------------------------------------------
(* reconcile: delivery and reviews *)

\* _freeze_delivery: of a member whose run is over; Git lists its commits.
Freezable(t) == /\ board[t].status = "completed" /\ board[t].who \notin live \cup {Nobody}
                /\ decided[t] < NoStart
FreezeBegins(t) ==
    /\ cycle.at = "tasks" /\ t \in cycle.todo /\ review[t] = NoReview /\ Freezable(t)
    /\ cycle' = [cycle EXCEPT !.at = "freeze", !.task = t, !.who = board[t].who,
                              !.seen = board[t].rev, !.todo = @ \ {t}]
    /\ UNCHANGED <<savedRun, decided, team, asks, lists>>
FreezeEnds ==
    /\ cycle.at = "freeze"
    /\ \/ Go("tasks") /\ UNCHANGED <<savedRun, review>>        \* no commits, or Git fails
       \/ LET t == cycle.task IN
          /\ decided[t] < head[cycle.who]
          /\ IF Fresh THEN /\ review' = [review EXCEPT ![t] = Frozen(t, cycle.who, cycle.seen)]
                           /\ SaveRun("cycle", run) /\ Go("tasks")
             ELSE Raises /\ UNCHANGED review
    /\ UNCHANGED <<decided, team, asks, plan, accepted, calls>>

\* _refresh_reviews starts from the reviews of tasks that are still as they were reviewed;
\* when a task is missing the cycle raises after the reviews are saved: the run stays ...
Refresh ==
    /\ cycle.at = "tasks" /\ cycle.todo = {}
    /\ cycle' = [cycle EXCEPT !.at = "inspect", !.copy = Current, !.sees = {},
                    !.board = IF Absent # {} THEN "open"
                              ELSE IF \E t \in Tasks : board[t].status = "failed" THEN "failed"
                              ELSE IF \A t \in Tasks : board[t].status = "completed" THEN "done"
                              ELSE "open"]
    /\ UNCHANGED <<savedRun, decided, team, asks, lists>>

BugRefreshed(r) ==  \* the verdict is kept when the commits have changed
    IF r = NoReview THEN {NoReview} ELSE {NoReview, [r EXCEPT !.range = RangeOf(r.who, r.range[1])]}

\* ... and looks at their worktrees: a review of other commits than are there now starts
\* again; one whose worktree cannot be inspected is dropped.
Refreshed(r) ==
    IF r = NoReview THEN {NoReview}
    ELSE {NoReview, IF RangeOf(r.who, r.range[1]) = r.range THEN r
                    ELSE [r EXCEPT !.status = "pending", !.range = RangeOf(r.who, r.range[1])]}
Inspections(copy) == {f \in [Tasks -> UNION {Refreshed(copy[t]) : t \in Tasks}] :
                         \A t \in Tasks : f[t] \in Refreshed(copy[t])}

\* A task failed; all accepted; one rejected; or the run goes on.  A run that is ready is
\* planned at once.
Verdict(rs) ==
    LET verdicts == {rs[t].status : t \in Tasks} IN
    IF cycle.board = "failed" THEN "failed"
    ELSE IF cycle.board = "open" \/ "none" \in verdicts THEN run
    ELSE IF "rejected" \in verdicts THEN "manual"
    ELSE IF verdicts = {"accepted"} THEN "ready" ELSE run

Conclude ==
    /\ cycle.at = "inspect"
    /\ \/ Raises /\ UNCHANGED <<review, plan>>
       \/ \E rs \in Inspections(cycle.copy) :
             /\ Fresh /\ review' = rs
             /\ IF Verdict(rs) = run /\ rs = review THEN UNCHANGED savedRun
                ELSE SaveRun("cycle", Verdict(rs))
             /\ \/ Verdict(rs) = "ready" /\ Plans(rs) /\ Go("integrate")
                \/ cycle' = IdleCycle /\ UNCHANGED plan
    /\ UNCHANGED <<decided, team, asks, accepted, calls>>

\* _auto_integrate: the batch is executed (see TeamIntegration), then the run ends.
AutoIntegrates ==
    /\ cycle.at = "integrate" /\ Fresh
    /\ \E end \in {"completed", "failed"} : SaveRun("cycle", end)
    /\ cycle' = IdleCycle
    /\ UNCHANGED <<decided, team, asks, lists>>

\* The loop passes over whatever a cycle raises; a cycle that is not cut off may be.
CycleEnds ==
    /\ cycle # IdleCycle /\ Raises
    /\ UNCHANGED <<decided, team, asks, lists>>

-----------------------------------------------------------------------------
(* the Lead's tool calls, one at a time *)

LeadCalls == /\ asks = NoToolCall /\ run \notin {"none", "prepared"}

Counts == calls < MaxCalls /\ calls' = calls + 1

Review(t, verdict) ==
    /\ LeadCalls /\ review[t] # NoReview
    /\ IF verdict = "rejected" THEN Counts ELSE UNCHANGED calls
    /\ SaveRun("lead", run)
    /\ review' = [review EXCEPT ![t].status = verdict]
    /\ accepted' = [accepted EXCEPT ![t] = IF verdict = "accepted" THEN @ \cup {review[t].range}
                                           ELSE @]
    /\ UNCHANGED <<decided, team, cycle, asks, plan>>

\* decide: the task is reassigned, or its member is stopped, and the call waits: for the
\* mailbox, for the scheduler; then the decision is recorded, unless the run has moved on.
Reassign(t, m) ==
    /\ LeadCalls /\ Counts /\ t \notin Absent
    /\ asks' = [NoToolCall EXCEPT !.what = "reassign", !.task = t]
    /\ Assign(t, m, "dispatch") /\ live' = live \cup {m}
    /\ stale' = stale \ {"lead"}
    /\ UNCHANGED <<run, decided, head, deleted, cycle, review, plan, accepted>>
Stop(t) ==
    /\ LeadCalls /\ Counts /\ board[t].who \in live
    /\ asks' = [NoToolCall EXCEPT !.what = "stop", !.task = t]
    /\ live' = live \ {board[t].who}
    /\ stale' = stale \ {"lead"}
    /\ UNCHANGED <<run, decided, board, holds, head, deleted, cycle, review, plan, accepted>>

DecideEnds ==
    /\ asks.what \in {"reassign", "stop"} /\ asks' = NoToolCall
    /\ IF "lead" \notin stale
       THEN /\ SaveRun("lead", run)
            /\ decided' = IF asks.what = "stop" THEN decided
                          ELSE [decided EXCEPT ![asks.task] = NoStart]
       ELSE UNCHANGED <<savedRun, decided>>
    /\ UNCHANGED <<team, cycle, lists>>

\* decide: cancel a task that is not over, or hand the run over to a human.
Settles(t, status) == [board EXCEPT ![t].status = status]
Released(t) == [m \in Workers |-> IF m = board[t].who THEN NoTask ELSE holds[m]]
Cancel(t) ==
    /\ LeadCalls /\ Counts /\ board[t].status = "pending"
    /\ board' = Settles(t, "failed") /\ holds' = Released(t) /\ SaveRun("lead", run)
    /\ UNCHANGED <<decided, live, head, deleted, cycle, asks, review, plan, accepted>>
HandOver ==
    /\ LeadCalls /\ run \in {"active", "ready"} /\ Absent # Tasks /\ SaveRun("lead", "manual")
    /\ UNCHANGED <<decided, team, cycle, asks, lists>>

\* delete_task: a task that is not in progress and that no other needs, by the Lead; one
\* that nobody has, also by a member.  Who holds the task goes on holding it.
DeleteTask(t) ==
    /\ Counts /\ t \notin Absent /\ \A d \in Tasks \ Absent : t \notin Deps[d]
    /\ board' = [board EXCEPT ![t] = NoCard] /\ deleted' = deleted \cup {t}
    /\ UNCHANGED <<savedRun, decided, holds, live, head, cycle, asks, review, plan, accepted>>

\* plan_integration: looks at the worktrees once more, on a copy of run and board.
PlanBegins ==
    /\ LeadCalls /\ run = "ready"
    /\ asks' = [what |-> "plan", task |-> NoTask, copy |-> Current]
    /\ stale' = stale \ {"lead"} /\ UNCHANGED <<run, decided, team, cycle, lists>>

\* A delivery that changed gives the run up: saved, if nobody saved in between.
PlanEnds ==
    /\ asks.what = "plan" /\ asks' = NoToolCall
    /\ \E rs \in Inspections(asks.copy) :
          IF \A t \in Tasks : rs[t].status = "accepted"
          THEN /\ plan' = IF plan = NoBatch THEN [t \in Tasks |-> rs[t].range] ELSE plan
               /\ UNCHANGED <<savedRun, review>>
          ELSE /\ UNCHANGED plan
               /\ IF "lead" \notin stale THEN SaveRun("lead", "manual") /\ review' = rs
                  ELSE UNCHANGED <<savedRun, review>>
    /\ UNCHANGED <<decided, team, cycle, accepted, calls>>

-----------------------------------------------------------------------------
(* the members at work *)

Runs(m) ==
    /\ \/ live' = live \cup {m} /\ UNCHANGED head      \* woken by a message
       \/ live' = live \ {m} /\ UNCHANGED head
       \/ /\ m \in live /\ head[m] < MaxHead
          /\ head' = [head EXCEPT ![m] = @ + 1] /\ UNCHANGED live
    /\ UNCHANGED <<board, holds, calls, deleted>>

Finishes(t, status) ==
    /\ board[t].status = "pending" /\ board[t].who \in live /\ Unblocked(t)
    /\ board' = Settles(t, status) /\ holds' = Released(t)
    /\ UNCHANGED <<live, head, calls, deleted>>

\* A member takes a task that nobody has; a task that was over is opened again.
Claims(t, m) ==
    /\ m \in live /\ Open(t) /\ Unblocked(t)
    /\ Assign(t, m, "claim")
    /\ UNCHANGED <<live, head, calls, deleted>>
Reopens(t) ==
    /\ board[t].status \in {"completed", "failed"} /\ Counts
    /\ board' = [board EXCEPT ![t] =
                   [board[t] EXCEPT !.status = "pending", !.rev = board[t].rev + 1]]
    /\ UNCHANGED <<holds, live, head, deleted>>

MembersWork ==
    /\ \/ \E m \in Workers : Runs(m) \/ \E t \in Tasks : Claims(t, m)
       \/ \E t \in Tasks : Reopens(t) \/ Finishes(t, "completed") \/ Finishes(t, "failed")
    /\ UNCHANGED <<savedRun, decided, cycle, asks, review, plan, accepted>>

DeliveryNext ==
    \/ Decompose \/ Publish \/ RecoverRun
    \/ CycleBegins \/ Assigns \/ FreezeEnds \/ Refresh \/ Conclude
    \/ AutoIntegrates \/ CycleEnds \/ DecideEnds \/ HandOver \/ PlanBegins \/ PlanEnds
    \/ \E t \in Tasks : \/ Passes(t) \/ FreezeBegins(t) \/ Cancel(t) \/ Stop(t) \/ DeleteTask(t)
                        \/ \E v \in {"accepted", "rejected"} : Review(t, v)
                        \/ \E m \in Workers : Reserves(t, m) \/ Reassign(t, m)
    \/ MembersWork

DeliverySpec == DeliveryInit /\ [][DeliveryNext]_dvars

-----------------------------------------------------------------------------
\* What the batch merges of a task is exactly what the Lead accepted, however members go
\* on committing and whichever cycle or call planned it.
MergesWhatWasAccepted == plan # NoBatch => \A t \in Tasks : plan[t] \in accepted[t]

\* A run that is under way has all its tasks on the board, wherever its publication was
\* cut off, but those that somebody has deleted since.
PublishedWhole ==
    run \in {"active", "ready", "completed"} => Absent \subseteq deleted

\* What is merged of a task is a range that the Lead accepted, and a run that is under way
\* has all its tasks on the board but those that were deleted.
DeliveriesAreSound == MergesWhatWasAccepted /\ PublishedWhole

\* docs/phase-14c-team-coordinator/spec.md:64 (AC3): every dispatch can be traced.  A task
\* that the coordinator or the Lead has given to a member has a dispatch decision.
DispatchIsDecided ==
    \A t \in Tasks :
        board[t].by = "dispatch" /\ asks.task # t => decided[t] # Undecided

=============================================================================
