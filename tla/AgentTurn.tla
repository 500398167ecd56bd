----------------------------- MODULE AgentTurn -----------------------------
(***************************************************************************)
(* One turn of an agent: AgentRun (agent/runner.py), the schedule of the   *)
(* tool calls of a response (agent/scheduler.py), and Conversation._run.   *)
(*                                                                         *)
(* The runner asks the model, runs the calls of its response, commits the  *)
(* response with the results as one group of the history, and goes on.     *)
(* Consecutive calls that only read form a batch and run side by side; a   *)
(* control tool (a team or agent tool) runs while its batch is prepared.   *)
(* A step ends where the code waits.  The user may cancel at any time: by  *)
(* AgentRun.cancel, or by cancelling the task that consumes the events;    *)
(* that finds the generator of the run where it waits, or, when it is the  *)
(* consumer that waits, suspended at a yield.                              *)
(***************************************************************************)
EXTENDS Naturals, FiniteSets, Sequences

CONSTANTS NCalls,       \* bound: calls in a response
          Iterations,   \* max_iterations; of a plan, plan_max_investigation_iterations
          Limit,        \* unknown_tool_limit, tool_denial_limit
          MaxInbound    \* bound: team messages that arrive during the turn

ASSUME AgentAssumption == NCalls \in Nat /\ Iterations \in Nat \ {0}
                          /\ Limit \in Nat \ {0} /\ MaxInbound \in Nat

VARIABLES
    mode,       \* "direct" or "plan"
    turnAt,     \* where the runner is; "cut", then "left", when it was closed at a yield
    stop,       \* why the run is over
    iter,       \* the iteration
    asked,      \* _cancel_requested
    working,    \* working_messages: what the model is asked with
    extra,      \* plan_investigation_messages
    committed,  \* the history in the session
    userIn,     \* user_committed
    refused,    \* consecutive responses of which every call was denied
    callKind,   \* of each call of the response: "read", "write", "control"
    call,       \* the state of each call
    result,     \* its result
    yielded,    \* how many results of a call the schedule has yielded
    inbox       \* [waiting, left]: team messages for this agent

agentvars == <<mode, turnAt, stop, iter, asked, working, extra, committed, userIn, refused,
               callKind, call, result, yielded, inbox>>
history == <<working, extra, committed, userIn>>
schedule == <<callKind, call, result, yielded>>

CallIds == 1..NCalls
Item(what) == [what |-> what, calls |-> {}, answered |-> {}]
User == Item("user")

AgentTypeOK ==
    /\ turnAt \in {"poll", "model", "tools", "launched", "collect", "over", "cut", "left"}
    /\ mode \in {"direct", "plan"}
    /\ iter \in 1..(Iterations + 1) /\ refused \in 0..Limit
    /\ call \in [CallIds -> {"none", "due", "before", "prepared", "queued", "running", "after",
                             "ended", "lost", "gone", "done"}]
    /\ result \in [CallIds -> {"none", "ok", "denied", "cancelled", "pause"}]
    /\ yielded \in [CallIds -> 0..2]
    /\ inbox \in [waiting : 0..MaxInbound, left : 0..MaxInbound]

NoSchedule == /\ callKind = [c \in CallIds |-> "read"] /\ call = [c \in CallIds |-> "none"]
              /\ result = [c \in CallIds |-> "none"] /\ yielded = [c \in CallIds |-> 0]

AgentInit ==
    /\ mode \in {"direct", "plan"} /\ turnAt = "poll" /\ stop = "none" /\ iter = 1 /\ asked = FALSE
    /\ working = <<User>> /\ extra = <<>> /\ committed = <<>> /\ userIn = FALSE
    /\ refused = 0 /\ NoSchedule /\ inbox = [waiting |-> 0, left |-> MaxInbound]

Finish(reason) == turnAt' = "over" /\ stop' = reason
Finalizing == mode = "plan" /\ (extra # <<>> \/ iter > Iterations)

\* _commit_history: the session takes the candidate, or the run ends.
Commit(candidate, next) ==
    \/ committed' = candidate /\ next
    \/ Finish("session") /\ UNCHANGED <<committed, working, extra, userIn, iter, refused, schedule>>

-----------------------------------------------------------------------------
(* the loop: cancelled?  messages of the team?  then the model *)

Arrives ==
    /\ inbox.left > 0 /\ turnAt # "over"
    /\ inbox' = [waiting |-> inbox.waiting + 1, left |-> inbox.left - 1]
    /\ UNCHANGED <<mode, turnAt, stop, iter, asked, history, refused, schedule>>

\* The user's message is committed before the team's; these must extend what is committed,
\* and are acknowledged when they are.
Poll ==
    /\ turnAt = "poll"
    /\ IF asked THEN Finish("cancelled") /\ UNCHANGED <<history, inbox>>
       ELSE IF inbox.waiting = 0 THEN turnAt' = "model" /\ UNCHANGED <<stop, history, inbox>>
       ELSE LET base == IF userIn THEN committed ELSE working
                batch == [i \in 1..inbox.waiting |-> Item("inbound")] IN
            /\ UNCHANGED extra
            /\ \/ /\ base = working
                  /\ committed' = working \o batch /\ working' = working \o batch /\ userIn' = TRUE
                  /\ turnAt' = "model" /\ inbox' = [inbox EXCEPT !.waiting = 0] /\ UNCHANGED stop
               \/ Finish("session") /\ committed' = base /\ userIn' = TRUE
                  /\ UNCHANGED <<working, inbox>>
               \/ Finish("session") /\ UNCHANGED <<working, committed, userIn, inbox>>
    /\ UNCHANGED <<mode, iter, asked, refused, schedule>>

\* ContextManager.prepare replaces the messages by a summary; the user's message is not
\* committed by that.
Compact ==
    /\ turnAt = "model" /\ ~asked
    /\ LET base == <<Item("summary")>> IN
       /\ working # base \o <<User>> /\ working # base
       /\ Commit(base \o extra, /\ working' = IF userIn THEN base ELSE base \o <<User>>
                                /\ UNCHANGED <<turnAt, stop, extra, userIn, iter, refused, schedule>>)
    /\ UNCHANGED <<mode, asked, inbox>>

\* The provider fails, the context does not fit, the output is cut off or empty.
ModelFails ==
    /\ turnAt = "model" /\ Finish("failed")
    /\ UNCHANGED <<mode, iter, asked, history, refused, schedule, inbox>>

Answer == <<Item(IF Finalizing THEN "final" ELSE "answer")>>

BugAnswers ==  \* the final text of a plan is committed without what led to it
    /\ turnAt = "model" /\ ~asked
    /\ Commit(working \o Answer,
              /\ IF mode = "plan" /\ ~Finalizing
                 THEN /\ extra' = extra \o Answer /\ turnAt' = "poll" /\ iter' = iter + 1
                      /\ UNCHANGED <<stop, working>>
                 ELSE Finish("completed") /\ UNCHANGED <<extra, iter, working>>
              /\ userIn' = TRUE /\ UNCHANGED <<refused, schedule>>)
    /\ UNCHANGED <<mode, asked, inbox>>

\* A response without calls: it ends the turn; of a plan it is kept beside, and the plan is
\* finalized.
Answers ==
    /\ turnAt = "model" /\ ~asked
    /\ Commit(working \o extra \o Answer,
              /\ IF mode = "plan" /\ ~Finalizing
                 THEN /\ extra' = extra \o Answer /\ turnAt' = "poll" /\ iter' = iter + 1
                      /\ UNCHANGED <<stop, working>>
                 ELSE Finish("completed") /\ UNCHANGED <<extra, iter, working>>
              /\ userIn' = TRUE /\ UNCHANGED <<refused, schedule>>)
    /\ UNCHANGED <<mode, asked, inbox>>

\* A response with calls: not in the last iteration, nor of a plan that is finalized.
Requests(kinds) ==
    /\ turnAt = "model" /\ ~asked /\ ~Finalizing
    /\ IF mode = "direct" /\ iter = Iterations THEN Finish("iteration_limit") /\ UNCHANGED schedule
       ELSE /\ turnAt' = "tools" /\ callKind' = kinds /\ call' = [c \in CallIds |-> "due"]
            /\ result' = [c \in CallIds |-> "none"] /\ yielded' = [c \in CallIds |-> 0] /\ UNCHANGED stop
    /\ UNCHANGED <<mode, iter, asked, history, refused, inbox>>

-----------------------------------------------------------------------------
(* ToolSchedule: a batch is prepared call by call *)

\* _partition: c opens a batch if it does not read, or follows a call that does not.
Reads(c) == callKind[c] # "write"
OpensBatch(c) == c = 1 \/ ~Reads(c) \/ ~Reads(c - 1)
FirstDue(c) == call[c] = "due" /\ \A d \in CallIds : d < c => call[d] # "due"
Busy(c) == call[c] \in {"before", "running", "after", "ended", "queued", "lost"}
Idle == \A c \in CallIds : ~Busy(c)
Prepared == {c \in CallIds : call[c] = "prepared"}
MayPrepare(c) == FirstDue(c) /\ Idle /\ (OpensBatch(c) => Prepared = {})

Tell(c, r) == /\ call' = [call EXCEPT ![c] = "done"] /\ result' = [result EXCEPT ![c] = r]
              /\ yielded' = [yielded EXCEPT ![c] = @ + 1]

\* A call that comes after the cancellation, or is refused by policy or permissions.
Prepares(c) ==
    /\ turnAt = "tools" /\ MayPrepare(c)
    /\ \/ asked /\ Tell(c, "cancelled")
       \/ ~asked /\ Tell(c, "denied")
       \/ ~asked /\ call' = [call EXCEPT ![c] = "before"] /\ UNCHANGED <<result, yielded>>
    /\ UNCHANGED <<mode, turnAt, stop, iter, asked, history, refused, callKind, inbox>>

\* The tool.before hook returns, then the user has answered what permissions ask; a control
\* tool runs at once.
Passes(c) ==
    /\ turnAt = "tools" /\ call[c] = "before"
    /\ \/ Tell(c, "denied")
       \/ asked /\ callKind[c] # "control" /\ Tell(c, "cancelled")
       \/ /\ call' = [call EXCEPT ![c] = IF callKind[c] = "control" THEN "running" ELSE "prepared"]
          /\ UNCHANGED <<result, yielded>>
    /\ UNCHANGED <<mode, turnAt, stop, iter, asked, history, refused, callKind, inbox>>

ControlEnds(c) ==
    /\ turnAt = "tools" /\ call[c] = "running"
    /\ \/ \E r \in {"ok", "pause"} : Tell(c, r)
       \/ asked /\ Tell(c, "cancelled")
    /\ UNCHANGED <<mode, turnAt, stop, iter, asked, history, refused, callKind, inbox>>

\* The batch is prepared: its calls become tasks.
Launch ==
    /\ turnAt = "tools" /\ Idle /\ Prepared # {}
    /\ \A c \in CallIds : FirstDue(c) => OpensBatch(c)
    /\ turnAt' = "launched"
    /\ call' = [c \in CallIds |-> IF c \in Prepared THEN "queued" ELSE call[c]]
    /\ UNCHANGED <<mode, stop, iter, asked, history, refused, callKind, result, yielded, inbox>>

-----------------------------------------------------------------------------
(* ToolSchedule: the tasks of a batch, and who takes their results *)

Tasks == {c \in CallIds : call[c] \in {"queued", "running", "after", "ended", "lost"}}

Lost == \E c \in Tasks : call[c] = "lost"
Single == \E c \in Tasks : ~Reads(c)

BugStarts(c) ==  \* _run_one does not look whether the run was cancelled
    /\ turnAt \in {"launched", "collect", "cut"} /\ call[c] = "queued"
    /\ call' = [call EXCEPT ![c] = "running"] /\ UNCHANGED <<asked, result>>
    /\ UNCHANGED <<mode, turnAt, stop, iter, history, refused, callKind, yielded, inbox>>

\* _run_one: the tool runs, then the tool.after hook, then the task has its result.
Starts(c) ==
    /\ turnAt \in {"launched", "collect", "cut"} /\ call[c] = "queued"
    /\ IF asked THEN call' = [call EXCEPT ![c] = "after"] /\ result' = [result EXCEPT ![c] = "cancelled"]
       ELSE call' = [call EXCEPT ![c] = "running"] /\ UNCHANGED result
    /\ UNCHANGED <<mode, turnAt, stop, iter, asked, history, refused, callKind, yielded, inbox>>
Returns(c) ==
    /\ turnAt \in {"launched", "collect", "cut"}
    /\ \/ /\ call[c] = "running" /\ call' = [call EXCEPT ![c] = "after"]
          /\ result' = [result EXCEPT ![c] = "ok"]
       \/ call[c] = "after" /\ call' = [call EXCEPT ![c] = "ended"] /\ UNCHANGED result
    /\ UNCHANGED <<mode, turnAt, stop, iter, asked, history, refused, callKind, yielded, inbox>>

\* A task that is cancelled: before its first step, or in the hook, it has no result; a tool
\* that runs is interrupted, and its hook is told.
AfterCancel(c) == CASE call[c] \in {"queued", "after"} -> "lost"
                    [] call[c] = "running" -> "after"
                    [] OTHER -> call[c]
CancelTasks(but) == [c \in CallIds |-> IF c \in but THEN "done" ELSE AfterCancel(c)]
Interrupted == [c \in CallIds |-> IF call[c] = "running" THEN "cancelled" ELSE result[c]]

BugTakes(c) ==  \* a result that was yielded is yielded again with the rest
    /\ turnAt = "launched" /\ call[c] = "ended" /\ ~Lost
    /\ yielded' = [yielded EXCEPT ![c] = @ + 1]
    /\ call' = IF asked THEN [CancelTasks({}) EXCEPT ![c] = "ended"] ELSE [call EXCEPT ![c] = "done"]
    /\ result' = IF asked THEN Interrupted ELSE result
    /\ UNCHANGED <<mode, turnAt, stop, iter, asked, history, refused, callKind, inbox>>

\* A result is yielded as soon as it is there; after a cancellation the others are
\* cancelled once more.
Takes(c) ==
    /\ turnAt = "launched" /\ call[c] = "ended" /\ ~Lost
    /\ yielded' = [yielded EXCEPT ![c] = @ + 1]
    /\ call' = IF asked THEN CancelTasks({c}) ELSE [call EXCEPT ![c] = "done"]
    /\ result' = IF asked THEN Interrupted ELSE result
    /\ UNCHANGED <<mode, turnAt, stop, iter, asked, history, refused, callKind, inbox>>

BugNotices ==  \* the batch goes on waiting for as many results as it has calls
    /\ turnAt = "launched" /\ Lost /\ asked' = TRUE
    /\ IF Single THEN Finish("cancelled") ELSE UNCHANGED <<turnAt, stop>>
    /\ call' = CancelTasks({}) /\ result' = Interrupted
    /\ UNCHANGED <<mode, iter, history, refused, callKind, yielded, inbox>>

\* A task ended without a result, or the consumer is cancelled: all tasks are cancelled, and
\* what has a result then is yielded.  Of a single call it ends the run.
Notices ==
    /\ turnAt = "launched" /\ Lost /\ asked' = TRUE
    /\ IF Single THEN Finish("cancelled") /\ UNCHANGED <<call, result>>
       ELSE turnAt' = "collect" /\ call' = CancelTasks({}) /\ result' = Interrupted /\ UNCHANGED stop
    /\ UNCHANGED <<mode, iter, history, refused, callKind, yielded, inbox>>
TakesTheRest ==
    /\ turnAt = "collect" /\ \A c \in Tasks : call[c] \in {"ended", "lost"}
    /\ turnAt' = "tools"
    /\ yielded' = [c \in CallIds |-> IF call[c] = "ended" THEN yielded[c] + 1 ELSE yielded[c]]
    /\ call' = [c \in CallIds |-> CASE call[c] = "ended" -> "done"
                                  [] call[c] = "lost" -> "gone"
                                  [] OTHER -> call[c]]
    /\ UNCHANGED <<mode, stop, iter, asked, history, refused, callKind, result, inbox>>

BatchEnds ==
    /\ turnAt = "launched" /\ Tasks = {} /\ turnAt' = "tools"
    /\ UNCHANGED <<mode, stop, iter, asked, history, refused, schedule, inbox>>

-----------------------------------------------------------------------------
(* the runner commits the response with its results *)

Group == [what |-> "group", calls |-> CallIds, answered |-> {c \in CallIds : call[c] = "done"}]

GroupEnds ==
    LET denied == \A c \in CallIds : call[c] = "done" => result[c] = "denied"
        count == IF denied /\ Group.answered # {} THEN refused + 1 ELSE 0 IN
    /\ turnAt = "tools" /\ \A c \in CallIds : call[c] \in {"done", "gone"}
    /\ Commit(working \o <<Group>>,
              /\ working' = working \o <<Group>> /\ userIn' = TRUE /\ refused' = count
              /\ UNCHANGED <<extra, schedule>>
              /\ \/ /\ \E c \in CallIds : call[c] = "done" /\ result[c] = "pause"
                    /\ Finish("safe_pause") /\ UNCHANGED iter
                 \/ /\ \A c \in CallIds : call[c] = "done" => result[c] # "pause"
                    /\ IF asked THEN Finish("cancelled") /\ UNCHANGED iter
                       ELSE IF count >= Limit THEN Finish("tool_limit") /\ UNCHANGED iter
                       ELSE turnAt' = "poll" /\ iter' = iter + 1 /\ UNCHANGED stop)
    /\ UNCHANGED <<mode, asked, inbox>>

-----------------------------------------------------------------------------
(* cancellation *)

\* AgentRun.cancel: the schedule is told, or, without one, the consumer is interrupted.
Cancel ==
    /\ turnAt # "over" /\ ~asked /\ asked' = TRUE
    /\ IF turnAt \in {"launched", "collect", "cut"} THEN call' = CancelTasks({}) /\ result' = Interrupted
       ELSE UNCHANGED <<call, result>>
    /\ IF turnAt = "model" THEN Finish("cancelled") ELSE UNCHANGED <<turnAt, stop>>
    /\ UNCHANGED <<mode, iter, history, refused, callKind, yielded, inbox>>

\* The task that consumes the events is cancelled where it waits: in a hook the run ends; a
\* control tool, or a question to the user, is cancelled; a batch that reads is collected;
\* a single call is cancelled in its stead.
Interrupt ==
    /\ ~asked /\ asked' = TRUE
    /\ \/ /\ turnAt \in {"poll", "model"} \/ (turnAt = "tools" /\ \E c \in CallIds : call[c] = "before")
          /\ Finish("cancelled") /\ UNCHANGED <<call, result>>
       \/ /\ turnAt = "tools"
          /\ \E c \in CallIds : call[c] = IF callKind[c] = "control" THEN "running" ELSE "before"
          /\ UNCHANGED <<turnAt, stop, call, result>>
       \/ /\ turnAt = "launched" /\ call' = CancelTasks({}) /\ result' = Interrupted
          /\ turnAt' = IF Single THEN turnAt ELSE "collect"
          /\ UNCHANGED stop
    /\ UNCHANGED <<mode, iter, history, refused, callKind, yielded, inbox>>

\* The consumer was cancelled, or failed, while it held an event: the generators are closed
\* where they yielded it.  None does so while a single call runs, or a batch is collected.
Close ==
    /\ turnAt \in {"poll", "model", "tools", "launched"}
    /\ turnAt = "poll" => iter = 1
    /\ turnAt = "launched" => ~Single
    /\ turnAt' = IF turnAt = "launched" THEN "cut" ELSE "left"
    /\ UNCHANGED <<mode, stop, iter, asked, history, refused, schedule, inbox>>

\* The generators are finalized in another task: that of the schedule cancels what runs; in
\* that of the run, to leave the scope raises before the run is done.
Unwinds ==
    /\ turnAt = "cut" /\ turnAt' = "left"
    /\ call' = CancelTasks({}) /\ result' = Interrupted
    /\ UNCHANGED <<mode, stop, iter, asked, history, refused, callKind, yielded, inbox>>

ScheduleSteps ==
    \/ Launch \/ Notices \/ Unwinds \/ TakesTheRest \/ BatchEnds
    \/ \E c \in CallIds : \/ Prepares(c) \/ Passes(c) \/ ControlEnds(c)
                        \/ Starts(c) \/ Returns(c) \/ Takes(c)
RunnerSteps ==
    \/ Poll \/ Compact \/ ModelFails \/ Answers \/ GroupEnds
    \/ \E kinds \in [CallIds -> {"read", "write", "control"}] : Requests(kinds)

AgentNext == Arrives \/ RunnerSteps \/ ScheduleSteps \/ Cancel \/ Interrupt \/ Close

TurnSpec == AgentInit /\ [][AgentNext]_agentvars

\* The model answers and tools return, in the end: what is under way is timed out.
AgentFairness == WF_agentvars(RunnerSteps) /\ WF_agentvars(ScheduleSteps)

FairTurnSpec == TurnSpec /\ AgentFairness

-----------------------------------------------------------------------------
\* Whatever the order in which parallel calls end, are cancelled, and are collected, no
\* result is yielded twice, and none of a call that is not over.
AnsweredOnce == \A c \in CallIds : yielded[c] <= 1 /\ (yielded[c] = 1 => call[c] = "done")

\* Once the run is cancelled no ordinary tool starts, whichever of the two ways it was
\* cancelled in and wherever the call was then.
CancelledMeansNoStart ==
    [][\A c \in CallIds :
         asked /\ callKind[c] # "control" /\ call'[c] = "running" => call[c] = "running"]_agentvars

\* What is committed stays in the history: a commit adds to it, or replaces it by a summary.
HistoryOnlyGrows ==
    [][\/ Len(committed) <= Len(committed') /\ SubSeq(committed', 1, Len(committed)) = committed
       \/ committed' # <<>> /\ committed'[1] = Item("summary")]_agentvars

\* The three together.
TurnsAreWhole == []AnsweredOnce /\ CancelledMeansNoStart /\ HistoryOnlyGrows

\* A run that is cancelled ends, and AgentRun.cancel, which waits for that, returns, unless the
\* consumer closed the run at a yield: its tasks are then cancelled all the same.
CancelEnds ==
    []<>(asked => \/ turnAt = "over"
                  \/ /\ turnAt = "left"
                     /\ \A c \in CallIds : callKind[c] = "read" => call[c] \notin {"queued", "running"})

\* docs/phase-3-agent-loop/plan.md:767: a cancellation ends in AgentStopped(CANCELLED), after
\* the active tasks were cleaned up.
CancelStops == asked ~> turnAt = "over"

\* docs/phase-3-agent-loop/checklist.md:57: each tool response is in the history with all
\* its results, also when it was cancelled.
NoDanglingCalls == \A i \in 1..Len(committed) : committed[i].answered = committed[i].calls

=============================================================================
