--------------------------- MODULE SubagentTasks ----------------------------
(***************************************************************************)
(* Sub-agent tasks: SubagentTaskManager (subagents/tasks.py), the agent    *)
(* tool's operation (subagents/control.py) and the notification queue      *)
(* (subagents/notifications.py).                                           *)
(*                                                                         *)
(* A task runs in a driver coroutine (drive), which runs the agent in an   *)
(* execution task of its own (exec) against a deadline.  It may be bound   *)
(* to the tool call that started it, which waits for its events and        *)
(* answers with its result, or be in the background, and then its result   *)
(* goes to a queue that the next request to the model empties.  Meanwhile  *)
(* anybody may detach it or cancel it, and the whole manager may be reset. *)
(* The critical sections of the manager's lock hold no await, so each is   *)
(* one step; a step ends where a coroutine waits.                          *)
(***************************************************************************)
EXTENDS Naturals, Sequences, FiniteSets, SequencesExt

CONSTANTS Tasks,      \* every id is used once: they are UUIDs
          Forks,      \* those that fork the parent's request: always in the background
          MaxActive,  \* slots of the capacity pool, and the manager's own limit
          Retention   \* delivered tasks whose record is kept

VARIABLES
    task,       \* record of each task, see Fresh
    held,       \* tasks whose capacity lease is open
    foreground, \* _current_foreground
    manager,    \* open, resetting, closing, closed
    caller,     \* the cancel() call that acts for a task: none, waits, killed
    op,         \* the tool call that started a task: none, waits, answered
    pending,    \* the notification queue
    marking,    \* _mark_delivered tasks that have not run
    retired,    \* _delivered_terminal
    told        \* what the model was told of each task, in order

tvars == <<task, held, foreground, manager, caller, op, pending, marking, retired, told>>
reports == <<pending, marking, retired, told>>

NoTask == "none"

ASSUME TaskAssumption == NoTask \notin Tasks /\ Retention \in Nat

Active == {"registered", "running"}
Ended == {"completed", "failed", "cancelled"}

Fresh == [known |-> FALSE,           \* in _records
          status |-> "registered", place |-> "foreground", pend |-> FALSE,
          cancel |-> FALSE,          \* cancel_requested
          late |-> FALSE,            \* timeout_triggered
          drive |-> "none", exec |-> "none", driver |-> FALSE, outcome |-> "failed",
          shut |-> FALSE]            \* cancelled by _cancel_many

TaskRecords ==
    [known : BOOLEAN, status : Active \cup Ended, place : {"foreground", "background"},
     pend : BOOLEAN, cancel : BOOLEAN, late : BOOLEAN,
     drive : {"none", "new", "waits", "expires", "unwinds", "leaves", "closes", "commits",
              "over"},
     exec : {"none", "starts", "works", "stops", "done"}, driver : BOOLEAN, outcome : Ended,
     shut : BOOLEAN]

TasksTypeOK ==
    /\ task \in [Tasks -> TaskRecords]
    /\ held \subseteq Tasks /\ foreground \in Tasks \cup {NoTask}
    /\ manager \in {"open", "resetting", "closing", "closed"}
    /\ caller \in [Tasks -> {"none", "waits", "killed"}]
    /\ op \in [Tasks -> {"none", "waits", "answered"}]
    /\ pending \in Seq(Tasks) /\ retired \in Seq(Tasks) /\ marking \subseteq Tasks
    /\ told \in [Tasks -> Seq({"result", "notice"})]

TasksInit ==
    /\ task = [t \in Tasks |-> Fresh]
    /\ held = {} /\ foreground = NoTask /\ manager = "open"
    /\ caller = [t \in Tasks |-> "none"] /\ op = [t \in Tasks |-> "none"]
    /\ pending = <<>> /\ marking = {} /\ retired = <<>>
    /\ told = [t \in Tasks |-> <<>>]

IsActive(t) == task[t].known /\ task[t].status \in Active
Tell(t, what) == told' = [told EXCEPT ![t] = Append(@, what)]

-----------------------------------------------------------------------------
(* start *)

\* SubagentCoordinator.prepare: a fork is always in the background.
Places(t) == IF t \in Forks THEN {"background"} ELSE {"foreground", "background"}

Start(t, place) ==
    /\ task[t].drive = "none" /\ manager = "open" /\ place \in Places(t)
    /\ Cardinality({x \in Tasks : IsActive(x)}) < MaxActive
    /\ Cardinality(held) < MaxActive
    /\ place = "foreground" => foreground = NoTask
    /\ task' = [task EXCEPT ![t] = [Fresh EXCEPT !.known = TRUE, !.place = place,
                                                 !.drive = "new"]]
    /\ held' = held \cup {t}
    /\ foreground' = IF place = "foreground" THEN t ELSE foreground
    /\ op' = [op EXCEPT ![t] = IF place = "foreground" THEN "waits" ELSE "answered"]
    /\ UNCHANGED <<manager, caller, reports>>

-----------------------------------------------------------------------------
(* _drive and _run_driver *)

OnlyTask == UNCHANGED <<held, foreground, manager, caller, op, reports>>

DriveBegins(t) ==
    /\ task[t].drive = "new"
    /\ IF task[t].known
       THEN task' = [task EXCEPT ![t].drive = "waits", ![t].exec = "starts",
                                 ![t].status = IF task[t].cancel THEN @ ELSE "running"]
       ELSE task' = [task EXCEPT ![t].drive = "over"]
    /\ OnlyTask

\* The driver is there; a cancel that came too early for it is forwarded.
DriverCreated(t) ==
    /\ task[t].exec = "starts" /\ task[t].known
    /\ task' = [task EXCEPT ![t].driver = TRUE,
                            ![t].exec = IF task[t].cancel THEN "stops" ELSE "works"]
    /\ OnlyTask

\* The agent ends by itself, the factory fails, or it has heard of its cancellation.
ExecEnds(t) ==
    /\ \/ task[t].exec \in {"starts", "works"} /\ task' = [task EXCEPT ![t].exec = "done",
                                                                      ![t].outcome = "failed"]
       \/ task[t].exec = "works" /\ task' = [task EXCEPT ![t].exec = "done",
                                                         ![t].outcome = "completed"]
    /\ OnlyTask

BugExecStops(t) ==  \* what the driver ends with replaces the verdict of the deadline
    /\ task[t].exec = "stops"
    /\ \E o \in {"completed", "cancelled"} :
          task' = [task EXCEPT ![t].exec = "done", ![t].outcome = o]
    /\ OnlyTask

ExecStops(t) ==
    /\ task[t].exec = "stops"
    /\ \E o \in {"completed", "cancelled"} :
          task' = [task EXCEPT ![t].exec = "done",
                               ![t].outcome = IF task[t].drive = "waits" THEN o ELSE @]
    /\ OnlyTask

\* asyncio.wait returns: the execution first, if both are done.
DriveWakes(t) ==
    /\ task[t].drive = "waits" /\ task[t].exec = "done"
    /\ task' = [task EXCEPT ![t].drive = "closes"]
    /\ OnlyTask

\* The deadline passes: the driver and the execution are cancelled and waited for.
Deadline(t) ==
    /\ task[t].drive = "waits" /\ task[t].exec \in {"starts", "works", "stops"}
    /\ task' = [task EXCEPT ![t].drive = "expires", ![t].exec = "stops",
                            ![t].late = ~task[t].cancel,
                            ![t].outcome = IF task[t].cancel THEN "cancelled" ELSE "failed"]
    /\ OnlyTask

\* The finally waits for the execution; a second cancellation makes it leave after that.
DriveUnwound(t) ==
    /\ task[t].drive \in {"expires", "unwinds", "leaves"} /\ task[t].exec = "done"
    /\ task' = [task EXCEPT ![t].drive = IF @ = "leaves" THEN "over" ELSE "closes"]
    /\ OnlyTask

\* driver.close(), and what driver.outcome says then.  The outcome stays where there is
\* no driver, where the close fails or where the agent came to none; else a task that is
\* late has failed after all, whatever cancelled it meanwhile.  A Worktree driver reports
\* a failure of its own, or that the agent had ended before it heard of the cancellation.
Closed(r) ==
    {r.outcome} \cup
    (IF ~r.driver THEN {}
     ELSE IF ~r.late /\ r.outcome = "cancelled" THEN {"failed", "completed"} ELSE {"failed"})

DriverCloses(t) ==
    /\ task[t].drive = "closes"
    /\ \E o \in Closed(task[t]) :
          task' = [task EXCEPT ![t].drive = "commits", ![t].outcome = o]
    /\ OnlyTask

\* Those of _known_ids that have left the queue.
Announced == {t \in Tasks : "notice" \in Range(told[t])}

\* _commit_terminal, and the lease is closed.
Commit(t, outcome, preserve) ==
    IF ~IsActive(t)
    THEN UNCHANGED <<held, foreground, pending>> /\ task' = [task EXCEPT ![t].drive = "over"]
    ELSE LET background == task[t].place = "background" /\ manager = "open" IN
         /\ task' = [task EXCEPT ![t].drive = "over", ![t].pend = background,
                ![t].status = IF task[t].cancel /\ outcome # "completed" /\ ~preserve
                              THEN "cancelled" ELSE outcome]
         /\ foreground' = IF foreground = t THEN NoTask ELSE foreground
         /\ held' = held \ {t}
         /\ pending' = IF background /\ t \notin Range(pending) \cup Announced
                       THEN Append(pending, t) ELSE pending

DriveCommits(t) ==
    /\ task[t].drive = "commits"
    /\ Commit(t, task[t].outcome, task[t].late)
    /\ UNCHANGED <<manager, caller, op, marking, retired, told>>

-----------------------------------------------------------------------------
(* cancel *)

\* drive_task.cancel(), where the coroutine waits: before its first step it never runs;
\* in the try it goes to its finally, with the outcome that the task was cancelled, also
\* when it had expired; there it will leave without a commit.  A driver's close swallows
\* it.
Killed(r) ==
    CASE r.drive = "new" -> [r EXCEPT !.drive = "over"]
      [] r.drive = "waits" -> [r EXCEPT !.drive = "unwinds", !.outcome = "cancelled",
                                  !.exec = IF @ = "done" THEN "done" ELSE "stops"]
      [] r.drive = "expires" -> [r EXCEPT !.drive = "unwinds", !.outcome = "cancelled"]
      [] r.drive = "unwinds" -> [r EXCEPT !.drive = "leaves"]
      [] OTHER -> r

\* The first call acts, every later one is answered at once.
CancelRecord(r) ==
    LET asked == [r EXCEPT !.cancel = TRUE] IN
    IF r.driver THEN [asked EXCEPT !.exec = IF @ = "works" THEN "stops" ELSE @]
    ELSE Killed(asked)

CanCancel(t) == IsActive(t) /\ ~task[t].cancel /\ ~task[t].late

Cancel(t) ==
    /\ manager = "open" /\ CanCancel(t)
    /\ task' = [task EXCEPT ![t] = CancelRecord(@)]
    /\ caller' = [caller EXCEPT ![t] = "waits"]
    /\ UNCHANGED <<held, foreground, manager, op, reports>>

\* _bounded_wait: five seconds, then the driver coroutine is cancelled.
CallerKills(t) ==
    /\ caller[t] = "waits" /\ task[t].drive # "over"
    /\ task' = [task EXCEPT ![t] = Killed(@)]
    /\ caller' = [caller EXCEPT ![t] = "killed"]
    /\ UNCHANGED <<held, foreground, manager, op, reports>>

BugCallerCommits(t) ==  \* it does not wait for the driver coroutine it has cancelled
    /\ caller[t] = "killed" \/ (caller[t] = "waits" /\ task[t].drive = "over")
    /\ Commit(t, "cancelled", FALSE)
    /\ caller' = [caller EXCEPT ![t] = "none"]
    /\ UNCHANGED <<manager, op, marking, retired, told>>

BugCallerForgets(t) ==  \* it relies on the driver coroutine
    /\ caller[t] # "none" /\ task[t].drive = "over"
    /\ caller' = [caller EXCEPT ![t] = "none"]
    /\ UNCHANGED <<task, held, foreground, manager, op, reports>>

\* What the driver coroutine did not commit, the caller commits.
CallerCommits(t) ==
    /\ caller[t] # "none" /\ task[t].drive = "over"
    /\ Commit(t, "cancelled", FALSE)
    /\ caller' = [caller EXCEPT ![t] = "none"]
    /\ UNCHANGED <<manager, op, marking, retired, told>>

-----------------------------------------------------------------------------
(* The foreground: _foreground_events and SubagentDelegationOperation *)

CanDetach(t) == IsActive(t) /\ task[t].place = "foreground"

BugDetach(t) ==  \* the binding of the foreground is left
    /\ CanDetach(t)
    /\ task' = [task EXCEPT ![t].place = "background"]
    /\ UNCHANGED <<held, foreground, manager, caller, op, reports>>

\* By the user, or after ten seconds.
Detach(t) ==
    /\ CanDetach(t)
    /\ task' = [task EXCEPT ![t].place = "background"]
    /\ foreground' = IF foreground = t THEN NoTask ELSE foreground
    /\ UNCHANGED <<held, manager, caller, op, reports>>

BugAnswer(t) ==  \* the status is looked at before the placement
    /\ op[t] = "waits"
    /\ ~task[t].known \/ task[t].status \in Ended \/ task[t].place = "background"
    /\ op' = [op EXCEPT ![t] = "answered"]
    /\ IF task[t].known /\ task[t].status \in Ended THEN Tell(t, "result") ELSE UNCHANGED told
    /\ UNCHANGED <<task, held, foreground, manager, caller, pending, marking, retired>>

\* The events end with the task or its detachment; the answer depends on its placement.
Answer(t) ==
    /\ op[t] = "waits"
    /\ ~task[t].known \/ task[t].status \in Ended \/ task[t].place = "background"
    /\ op' = [op EXCEPT ![t] = "answered"]
    /\ IF task[t].known /\ task[t].place = "foreground"
       THEN Tell(t, "result") ELSE UNCHANGED told
    /\ UNCHANGED <<task, held, foreground, manager, caller, pending, marking, retired>>

-----------------------------------------------------------------------------
(* Notifications *)

\* consume_batch: as many of the oldest as fit into a request.
ConsumeBatch ==
    /\ \E n \in 1..Len(pending) :
          LET batch == {pending[i] : i \in 1..n} IN
          /\ pending' = SubSeq(pending, n + 1, Len(pending))
          /\ marking' = marking \cup batch
          /\ told' = [t \in Tasks |-> IF t \in batch THEN Append(told[t], "notice")
                                      ELSE told[t]]
    /\ UNCHANGED <<task, held, foreground, manager, caller, op, retired>>

BugMarkDelivered(t) ==  \* any ended task may go, delivered or not, and one too early
    LET done == Append(retired, t)
        ended == {x \in Tasks : task[x].known /\ task[x].status \in Ended} IN
    /\ t \in marking
    /\ marking' = marking \ {t}
    /\ retired' = done
    /\ \E old \in ended :
          task' = [task EXCEPT ![t].pend = FALSE, ![old].known = Len(done) < Retention]
    /\ UNCHANGED <<held, foreground, manager, caller, op, pending, told>>

\* _mark_delivered: the records of the oldest delivered tasks are given up.
MarkDelivered(t) ==
    LET done == Append(retired, t)
        extra == IF Len(done) > Retention THEN Len(done) - Retention ELSE 0
        given == {done[i] : i \in 1..extra} IN
    /\ t \in marking
    /\ marking' = marking \ {t}
    /\ IF IsActive(t) \/ ~task[t].known \/ ~task[t].pend
       THEN UNCHANGED <<task, retired>>
       ELSE /\ retired' = SubSeq(done, extra + 1, Len(done))
            /\ task' = [x \in Tasks |->
                  LET r == IF x = t THEN [task[x] EXCEPT !.pend = FALSE] ELSE task[x] IN
                  IF x \in given /\ r.status \in Ended /\ ~r.pend
                  THEN [r EXCEPT !.known = FALSE] ELSE r]
    /\ UNCHANGED <<held, foreground, manager, caller, op, pending, told>>

-----------------------------------------------------------------------------
(* reset, at the change of the session, and close *)

\* Every active task is asked to end; _cancel_many then waits for the drivers as well.
Shut(how) ==
    /\ manager = "open"
    /\ manager' = how
    /\ task' = [t \in Tasks |-> IF CanCancel(t) THEN CancelRecord(task[t]) ELSE task[t]]
    /\ caller' = [t \in Tasks |-> IF CanCancel(t) THEN "waits" ELSE caller[t]]
    /\ UNCHANGED <<held, foreground, op, reports>>

\* A driver that another call or its deadline is ending gets five seconds too.
ShutKills(t) ==
    /\ manager \in {"resetting", "closing"} /\ caller[t] # "waits"
    /\ task[t].drive \notin {"none", "over"} /\ ~task[t].shut
    /\ task' = [task EXCEPT ![t] = [Killed(@) EXCEPT !.shut = TRUE]]
    /\ OnlyTask

\* Calls of others that wait for the same driver are woken before the reset is.
AllOver == \A t \in Tasks : task[t].drive \in {"none", "over"} /\ caller[t] = "none"

ResetEnds ==
    /\ manager = "resetting" /\ AllOver
    /\ manager' = "open"
    /\ task' = [t \in Tasks |-> [task[t] EXCEPT !.known = FALSE]]
    /\ foreground' = NoTask /\ retired' = <<>> /\ pending' = <<>>
    /\ UNCHANGED <<held, caller, op, marking, told>>

CloseEnds ==
    /\ manager = "closing" /\ AllOver
    /\ manager' = "closed"
    /\ pending' = <<>>
    /\ UNCHANGED <<task, held, foreground, caller, op, marking, retired, told>>

-----------------------------------------------------------------------------
DriveStep(t) ==
    \/ DriveBegins(t) \/ DriverCreated(t) \/ ExecStops(t) \/ DriveWakes(t) \/ Deadline(t)
    \/ DriveUnwound(t) \/ DriverCloses(t) \/ DriveCommits(t) \/ CallerCommits(t)

TasksNext ==
    \/ \E t \in Tasks, place \in {"foreground", "background"} : Start(t, place)
    \/ \E t \in Tasks :
          \/ DriveStep(t) \/ ExecEnds(t) \/ Cancel(t) \/ CallerKills(t) \/ ShutKills(t)
          \/ Detach(t) \/ Answer(t) \/ MarkDelivered(t)
    \/ ConsumeBatch \/ Shut("resetting") \/ Shut("closing") \/ ResetEnds \/ CloseEnds

TasksSpec == TasksInit /\ [][TasksNext]_tvars

\* The event loop runs what is ready, time passes, a cancelled execution ends.
TasksFairness == \A t \in Tasks : WF_tvars(DriveStep(t))

-----------------------------------------------------------------------------
\* Whatever the order of end, detachment, timeout and cancellation: the model is told of
\* the result of a task once at most, by the tool call or by a notification.
ToldOnce == \A t \in Tasks : Len(told[t]) <= 1

\* The result of a task that ended in the background waits in the queue or was told, and
\* its record is not given up before: only a reset drops it.
BackgroundIsAnnounced ==
    \A t \in Tasks :
        /\ (/\ task[t].known /\ task[t].status \in Ended
            /\ task[t].place = "background" /\ manager = "open")
           => t \in Range(pending) \/ told[t] # <<>>
        /\ t \in Range(pending) => task[t].known

\* A capacity slot is held exactly as long as a task is active, and never given back
\* while its agent still works.
SlotsCoverWork ==
    \A t \in Tasks : /\ t \in held <=> IsActive(t)
                     /\ task[t].exec \in {"starts", "works", "stops"} => t \in held

\* The foreground is bound to the one task that runs there, and free otherwise.
ForegroundIsBound ==
    \A t \in Tasks : foreground = t <=> (IsActive(t) /\ task[t].place = "foreground")

\* A task that outlived its deadline fails: no cancellation that comes later turns that
\* into a cancellation or a success, unless a reset or a close lost its patience with the
\* task and killed it (docs/phase-12-subagent-liveness/spec.md, F4 and N3).
LateEndsOnce ==
    \A t \in Tasks :
        task[t].late /\ task[t].status \in Ended =>
            \/ task[t].status = "failed"
            \/ task[t].status = "cancelled" /\ task[t].shut

\* F4 as it stands: a task that outlived its deadline has failed.
LateMeansFailed ==
    \A t \in Tasks : task[t].late /\ task[t].status \in Ended => task[t].status = "failed"

\* The model is told the end of a task once; a background task is announced; whatever
\* does work has a slot; what is not shown in the foreground was moved to the
\* background; and a task that ended late failed, or was killed by a reset or close.
TasksAreAccounted ==
    ToldOnce /\ BackgroundIsAnnounced /\ SlotsCoverWork /\ ForegroundIsBound /\ LateEndsOnce

\* Every task ends, whoever cancels it and however often: each is started once, so in the
\* end none is active.
TasksEnd == []<>(\A t \in Tasks : ~IsActive(t))

=============================================================================
