------------------------------ MODULE ReplTurn ------------------------------
(***************************************************************************)
(* The interactive loop (repl.py), the conversation it talks to            *)
(* (conversation.py), and the update of the memory that a turn leaves      *)
(* behind (continuity/memory_manager.py).                                  *)
(*                                                                         *)
(* Per message three tasks work: the loop waits for events and keys; a     *)
(* pump takes the events of the conversation's generator and puts them     *)
(* into a queue of one; the memory update of the turn before may still     *)
(* run, and the generator waits for it first.  Ctrl-C cancels the loop     *)
(* where it waits; the loop then cancels the pump and waits for its end.   *)
(* The run of the agent itself is AgentTurn: here it emits events, commits *)
(* once, and stops.  A second Ctrl-C ends the program and is left out.     *)
(***************************************************************************)
EXTENDS Naturals, Sequences

CONSTANTS MaxTurns,     \* bound: messages of the user
          MaxEvents,    \* bound: events of a turn before its last
          MaxReplFaults     \* bound: failures of the terminal, of a commit, of the model

ASSUME ReplAssumption == {MaxTurns, MaxEvents, MaxReplFaults} \subseteq Nat

VARIABLES
    repl,       \* where the loop waits
    ending,     \* how _consume ends
    pump,       \* the task that runs _pump_agent_events
    held,       \* what the pump waits to put
    queue,      \* event_queue, of size one
    listening,  \* there is an event_task
    got,        \* what it got
    gen,        \* where the generator of the conversation is
    op,         \* "send" or "compact"
    run,        \* _active_run, or the context operation: "none", "on", "cancelled", and, when
                \* only the outer generator was closed, "stale" (it is complete) or "lost"
    ended,    \* of the run
    ask,        \* the permission challenge
    made,       \* events made in this turn
    shown,      \* events rendered in this turn
    turn,       \* the number of the turn
    messages,   \* the history in memory
    stored,     \* the history in the session
    memory,     \* MemoryManager._pending: "none", "runs", "over", "cancelled"
    session,    \* "open" or "closed"
    interrupted, replFaults

pumpvars == <<pump, held, queue>>
turnvars == <<op, turn>>
genvars == <<gen, run, ended, ask, made, messages, stored, memory>>
replvars == <<repl, ending, pump, held, queue, listening, got, gen, op, run, ended, ask, made,
              shown, turn, messages, stored, memory, session, interrupted, replFaults>>

QueueItem(what, n) == [kind |-> what, n |-> n]
End == QueueItem("end", 0)
Error == QueueItem("error", 0)
Items == [kind : {"event", "ask", "end", "error"}, n : 0..(MaxEvents + 2)]

ReplTypeOK ==
    /\ repl \in {"prompt", "wait", "asking", "cleanup", "resets", "closing", "over"}
    /\ ending \in {"done", "raised", "failed", "cancelled"} /\ pump \in {"next", "held", "done"}
    /\ held \in Items /\ queue \in {<<>>} \cup {<<i>> : i \in Items}
    /\ got \in {<<>>} \cup {<<i>> : i \in Items} /\ listening \in BOOLEAN
    /\ gen \in {"waits", "begins", "runs", "last", "ends", "over"}
    /\ run \in {"none", "on", "cancelled", "stale", "lost"} /\ ask \in {"none", "open"}
    /\ memory \in {"none", "runs", "over", "cancelled"} /\ replFaults \in 0..MaxReplFaults

ReplInit ==
    /\ repl = "prompt" /\ ending = "done" /\ pump = "done" /\ held = End /\ queue = <<>>
    /\ listening = FALSE /\ got = <<>> /\ gen = "over" /\ op = "send" /\ run = "none"
    /\ ended = "none" /\ ask = "none" /\ made = 0 /\ shown = <<>> /\ turn = 0
    /\ messages = <<>> /\ stored = <<>> /\ memory = "none" /\ session = "open"
    /\ interrupted = FALSE /\ replFaults = 0

ReplFault == replFaults < MaxReplFaults /\ replFaults' = replFaults + 1

-----------------------------------------------------------------------------
(* the user *)

\* A message, or /compact: the pump is started, and listened to.
SendsMessage ==
    /\ repl = "prompt" /\ turn < MaxTurns /\ turn' = turn + 1
    /\ op' \in {"send", "compact"}
    /\ repl' = "wait" /\ pump' = "next" /\ queue' = <<>> /\ listening' = TRUE /\ got' = <<>>
    /\ gen' = "waits" /\ ended' = "none" /\ ask' = "none" /\ made' = 0 /\ shown' = <<>>
    /\ UNCHANGED <<ending, held, run, messages, stored, memory, session, interrupted, replFaults>>

\* /clear: the memory update is awaited, then the session is emptied.
Clears ==
    /\ repl = "prompt" /\ messages # <<>> /\ run = "none" /\ repl' = "resets"
    /\ UNCHANGED <<ending, pumpvars, listening, got, genvars, turnvars, shown,
                   session, interrupted, replFaults>>
Cleared ==
    /\ repl = "resets" /\ memory # "runs" /\ repl' = "prompt"
    /\ IF memory = "cancelled" THEN UNCHANGED <<messages, stored, memory, replFaults>>
       ELSE /\ memory' = "none"
            /\ \/ stored' = <<>> /\ messages' = <<>> /\ UNCHANGED replFaults
               \/ ReplFault /\ UNCHANGED <<stored, messages>>
    /\ UNCHANGED <<ending, pumpvars, listening, got, gen, run, ended, ask, made, turnvars, shown,
                   session, interrupted>>

\* /exit, or the end of the input: the conversation is closed, and first cancels its run: a
\* lost one is waited for without end.
Quits ==
    /\ repl = "prompt" /\ repl' = "closing"
    /\ UNCHANGED <<ending, pumpvars, listening, got, genvars, turnvars, shown,
                   session, interrupted, replFaults>>
IsClosed ==
    /\ repl = "closing" /\ memory # "runs" /\ run # "lost" /\ repl' = "over"
    /\ session' = IF memory = "cancelled" THEN session ELSE "closed"
    /\ memory' = IF memory = "cancelled" THEN memory ELSE "none"
    /\ UNCHANGED <<ending, pumpvars, listening, got, gen, run, ended, ask, made, messages, stored,
                   turnvars, shown, interrupted, replFaults>>

-----------------------------------------------------------------------------
(* _consume *)

\* _active_run when the pump is cancelled in put.  It closes the outer generator, compact or
\* send; within send, _run and the events of the agent's run are finalized by a task of their
\* own, in whose context the scope cannot be left: that raises before _active_run is reset,
\* and before the run, unless that was its last event, is done.
Left == CASE op = "send" /\ gen = "runs" -> "lost"
          [] op = "send" /\ gen = "last" -> "stale"
          [] OTHER -> IF run \in {"lost", "stale"} THEN run ELSE "none"

\* What the cancelled pump does: in the generator it is the generator that is interrupted.
\* An agent's run takes that as its cancellation and goes on to say that it stopped.
CancelPump ==
    IF pump = "next" /\ gen = "runs" /\ op = "send"
    THEN /\ run' = "cancelled" /\ ask' = "none"
         /\ UNCHANGED <<pumpvars, gen, memory>>
    ELSE /\ pump' = "done" /\ gen' = "over"
         /\ run' = IF pump = "held" \/ run \in {"lost", "stale"} THEN Left ELSE "none"
         /\ memory' = IF pump = "next" /\ gen = "waits" /\ memory = "runs" THEN "cancelled" ELSE memory
         /\ UNCHANGED <<held, queue, ask>>

Cleanup(how) ==
    /\ pump = "next" => gen # "last"      \* there the pump goes on without waiting
    /\ repl' = "cleanup" /\ ending' = how /\ listening' = FALSE /\ got' = <<>>
    /\ IF pump = "done" THEN UNCHANGED <<pumpvars, gen, run, ask, memory>> ELSE CancelPump

BugCleanedUp ==  \* the loop does not wait for the tasks that it cancelled
    /\ repl = "cleanup" /\ repl' = "prompt"
    /\ UNCHANGED <<ending, pumpvars, listening, got, genvars, turnvars, shown,
                   session, interrupted, replFaults>>

\* Unless it was a ConversationError that ended the turn, what is active is cancelled before
\* the prompt returns: a lost run is waited for without end.
CleanedUp ==
    /\ repl = "cleanup" /\ pump = "done" /\ repl' = "prompt"
    /\ ending \in {"failed", "cancelled"} => run # "lost"
    /\ UNCHANGED <<ending, pumpvars, listening, got, genvars, turnvars, shown,
                   session, interrupted, replFaults>>

Gets ==
    /\ listening /\ got = <<>> /\ queue # <<>>
    /\ got' = queue /\ queue' = <<>>
    /\ UNCHANGED <<repl, ending, pump, held, listening, genvars, turnvars, shown,
                   session, interrupted, replFaults>>

\* The event_task is done: the end, an error, a question, or an event, that is rendered.
TakesEvent ==
    /\ repl = "wait" /\ got # <<>>
    /\ LET what == got[1].kind IN
       \/ /\ what \in {"end", "error"}
          /\ Cleanup(IF what = "end" THEN "done" ELSE "raised") /\ UNCHANGED <<shown, replFaults>>
       \/ /\ what = "ask" /\ repl' = "asking" /\ listening' = FALSE /\ got' = <<>>
          /\ shown' = Append(shown, got[1].n)
          /\ UNCHANGED <<ending, pumpvars, gen, run, ask, memory, replFaults>>
       \/ /\ what = "event" /\ shown' = Append(shown, got[1].n) /\ got' = <<>>
          /\ UNCHANGED <<repl, ending, pumpvars, listening, gen, run, ask, memory, replFaults>>
       \/ what = "event" /\ ReplFault /\ Cleanup("failed") /\ UNCHANGED shown
    /\ UNCHANGED <<ended, made, messages, stored, turnvars, session, interrupted>>

BugPresses ==  \* a key starts to wait for events anew, whatever had arrived
    /\ repl = "wait"
    /\ \/ got' = <<>> /\ UNCHANGED <<repl, ending, pumpvars, listening, gen, run, ask, memory, replFaults>>
       \/ ReplFault /\ \E how \in {"raised", "failed"} : Cleanup(how)
    /\ UNCHANGED <<ended, made, messages, stored, turnvars, shown, session, interrupted>>

\* Ctrl-B: the sub-agent in the foreground is detached (SubagentTasks); that may raise a
\* ConversationError, and the reading of the key may fail.
Presses ==
    /\ repl = "wait" /\ got = <<>> /\ ReplFault /\ \E how \in {"raised", "failed"} : Cleanup(how)
    /\ UNCHANGED <<ended, made, messages, stored, turnvars, shown, session, interrupted>>

BugUserAnswers ==  \* nobody listens to events after a question
    /\ repl = "asking" /\ repl' = "wait" /\ ask' = "none" /\ UNCHANGED listening
    /\ UNCHANGED <<ending, pumpvars, got, gen, run, ended, made, messages, stored, memory,
                   turnvars, shown,
                   session, interrupted, replFaults>>

\* _handle_permission_request: the answer is given, and events are listened to again.
UserAnswers ==
    /\ repl = "asking" /\ repl' = "wait" /\ ask' = "none" /\ listening' = TRUE
    /\ UNCHANGED <<ending, pumpvars, got, gen, run, ended, made, messages, stored, memory,
                   turnvars, shown,
                   session, interrupted, replFaults>>

\* Someone waits for the end of a lost run.
Hangs == /\ run = "lost"
         /\ \/ repl = "closing"
            \/ repl = "cleanup" /\ pump = "done" /\ ending \in {"failed", "cancelled"}

\* Ctrl-C.
Interrupts ==
    /\ ~interrupted /\ interrupted' = TRUE
    /\ \/ /\ repl \in {"wait", "asking", "cleanup"} /\ ~Hangs /\ Cleanup("cancelled")
       \/ /\ repl \in {"resets", "closing"} /\ ~Hangs /\ memory = "runs" /\ memory' = "cancelled"
          /\ repl' = IF repl = "resets" THEN "prompt" ELSE "over"
          /\ UNCHANGED <<ending, pumpvars, listening, got, gen, run, ask>>
       \/ /\ repl = "prompt" \/ Hangs
          /\ repl' = IF repl = "closing" THEN "over" ELSE "closing"
          /\ UNCHANGED <<ending, pumpvars, listening, got, gen, run, ask, memory>>
    /\ UNCHANGED <<ended, made, messages, stored, turnvars, shown, session, replFaults>>

-----------------------------------------------------------------------------
(* the pump and the generator *)

BugPut(item) ==  \* a queue without a bound
    /\ queue' = Append(queue, item) /\ UNCHANGED held
    /\ pump' = IF item.kind \in {"end", "error"} THEN "done" ELSE "next"

Put(item) ==
    IF queue = <<>>
    THEN /\ queue' = <<item>> /\ UNCHANGED held
         /\ pump' = IF item.kind \in {"end", "error"} THEN "done" ELSE "next"
    ELSE held' = item /\ pump' = "held" /\ UNCHANGED queue
Unblocks ==
    /\ pump = "held" /\ queue = <<>> /\ queue' = <<held>>
    /\ pump' = IF held.kind \in {"end", "error"} THEN "done" ELSE "next"
    /\ UNCHANGED <<repl, ending, held, listening, got, genvars, turnvars, shown,
                   session, interrupted, replFaults>>

Emits(what) == made' = made + 1 /\ Put(QueueItem(what, made + 1))
Stays == UNCHANGED <<repl, ending, listening, got, turnvars, shown, session, interrupted>>

BugPreflight ==  \* the update that was awaited is not forgotten
    /\ pump = "next" /\ gen = "waits" /\ memory # "runs"
    /\ IF memory = "cancelled" THEN gen' = "over" /\ pump' = "done" /\ UNCHANGED <<held, queue, made>>
       ELSE /\ gen' = "begins"
            /\ \/ UNCHANGED <<pumpvars, made>>
               \/ Emits("event")
    /\ UNCHANGED <<run, ended, ask, messages, stored, memory, replFaults>> /\ Stays

\* _preflight: the update of the memory is awaited, then the session is maintained, which
\* may tell something.  An update that was cancelled cancels who awaits it.
Preflight ==
    /\ pump = "next" /\ gen = "waits" /\ memory # "runs" /\ (op = "compact" => run = "none")
    /\ IF memory = "cancelled"
       THEN gen' = "over" /\ pump' = "done" /\ UNCHANGED <<held, queue, made, memory>>
       ELSE /\ gen' = "begins" /\ memory' = "none"
            /\ \/ UNCHANGED <<pumpvars, made>>
               \/ Emits("event")
    /\ UNCHANGED <<run, ended, ask, messages, stored, replFaults>> /\ Stays

\* A run that was left behind counts as active: whatever is asked next is refused.
Refused ==
    /\ pump = "next" /\ run # "none"
    /\ gen = (IF op = "send" THEN "begins" ELSE "waits") /\ gen' = "over" /\ Put(Error)
    /\ UNCHANGED <<run, ended, ask, made, messages, stored, memory, replFaults>> /\ Stays

\* The turn.start hook returned; the run, or the compaction, is the active operation.
Begins ==
    /\ pump = "next" /\ gen = "begins" /\ run = "none" /\ gen' = "runs" /\ run' = "on"
    /\ UNCHANGED <<pumpvars, ended, ask, made, messages, stored, memory, replFaults>> /\ Stays

\* The run has events: text, tool results, questions.
RunEmits ==
    /\ pump = "next" /\ gen = "runs" /\ ask = "none" /\ made < MaxEvents
    /\ \/ Emits("event") /\ UNCHANGED ask
       \/ op = "send" /\ run = "on" /\ Emits("ask") /\ ask' = "open"
    /\ UNCHANGED <<gen, run, ended, messages, stored, memory, replFaults>> /\ Stays

\* The run commits the turn, on top of the messages it was started with.
RunCommits ==
    /\ pump = "next" /\ gen = "runs" /\ op = "send" /\ ask = "none" /\ ended = "none"
    /\ \/ stored' = Append(messages, turn) /\ ended' = "committed" /\ UNCHANGED replFaults
       \/ ReplFault /\ ended' = "failed" /\ UNCHANGED stored
    /\ UNCHANGED <<pumpvars, gen, run, ask, made, messages, memory>> /\ Stays

\* The last event of the run says why it stopped.
RunStops ==
    /\ pump = "next" /\ gen = "runs" /\ op = "send" /\ ask = "none"
    /\ ended # "none" \/ run = "cancelled"
    /\ gen' = "last" /\ Emits("event")
    /\ ended' \in {ended} \cup IF ended = "committed" /\ run = "on" THEN {"completed"} ELSE {}
    /\ UNCHANGED <<run, ask, messages, stored, memory, replFaults>> /\ Stays

Committed == ended \in {"committed", "completed"}

\* The run is over: its history is that of the conversation; the turn.end hook is told.
RunOver ==
    /\ pump = "next" /\ gen = "last" /\ gen' = "ends"
    /\ messages' = IF Committed THEN Append(messages, turn) ELSE messages
    /\ UNCHANGED <<pumpvars, run, ended, ask, made, stored, memory, replFaults>> /\ Stays

\* The turn ends, and leaves an update of the memory.
TurnEnds ==
    /\ pump = "next" /\ gen = "ends" /\ gen' = "over" /\ run' = "none"
    /\ IF ended # "completed" THEN Put(End) /\ UNCHANGED memory
       ELSE IF memory # "none" THEN Put(Error) /\ UNCHANGED memory
       ELSE memory' = "runs" /\ Put(End)
    /\ UNCHANGED <<ended, ask, made, messages, stored, replFaults>> /\ Stays

BugCompacts ==  \* the history in memory is replaced first
    /\ pump = "next" /\ gen = "runs" /\ op = "compact" /\ gen' = "over" /\ run' = "none"
    /\ \/ UNCHANGED <<messages, stored, replFaults>> /\ Put(End)
       \/ stored' = <<turn>> /\ messages' = <<turn>> /\ UNCHANGED replFaults /\ Put(End)
       \/ ReplFault /\ Put(Error) /\ messages' = <<turn>> /\ UNCHANGED stored
    /\ UNCHANGED <<ended, ask, made, memory>> /\ Stays

\* compact: nothing to do, the history is replaced by its summary, or it could not be.
Compacts ==
    /\ pump = "next" /\ gen = "runs" /\ op = "compact" /\ gen' = "over" /\ run' = "none"
    /\ \/ UNCHANGED <<messages, stored, replFaults>> /\ Put(End)
       \/ stored' = <<turn>> /\ messages' = <<turn>> /\ UNCHANGED replFaults /\ Put(End)
       \/ ReplFault /\ Put(Error) /\ UNCHANGED <<messages, stored>>
    /\ UNCHANGED <<ended, ask, made, memory>> /\ Stays

MemoryUpdated ==
    /\ memory = "runs" /\ memory' = "over"
    /\ UNCHANGED <<repl, ending, pumpvars, listening, got, gen, run, ended, ask, made, messages,
                   stored, turnvars, shown,
                   session, interrupted, replFaults>>

-----------------------------------------------------------------------------
Loop == Gets \/ TakesEvent \/ UserAnswers \/ CleanedUp \/ Cleared \/ IsClosed
Generator == \/ Unblocks \/ Preflight \/ Refused \/ Begins \/ RunEmits \/ RunCommits
             \/ RunStops \/ RunOver \/ TurnEnds \/ Compacts
ReplNext == \/ SendsMessage \/ Clears \/ Quits \/ Presses \/ Interrupts
            \/ Loop \/ Generator \/ MemoryUpdated

\* The event loop runs every task that can go on; an update of the memory is bounded by the
\* timeout of its request; a user who is asked answers.
ReplFairness == WF_replvars(Loop) /\ WF_replvars(Generator) /\ WF_replvars(MemoryUpdated)

ReplSpec == ReplInit /\ [][ReplNext]_replvars /\ ReplFairness

-----------------------------------------------------------------------------
\* Between the pump, its queue of one, the event_task, questions and keys, no event is lost,
\* repeated or overtaken; a turn that ended normally has shown all.
ShownInOrder ==
    /\ \A i \in 1..Len(shown) : shown[i] = i
    /\ repl = "cleanup" /\ ending = "done" => Len(shown) = made

\* At the prompt nothing of an earlier turn is still under way, however that ended: the next
\* turn does not run beside it.  Only an interruption or a failure leaves a run behind that
\* makes the next turn be refused, and only a failure one that cannot even be cancelled.
PromptIsIdle ==
    repl = "prompt" =>
        /\ pump = "done" /\ gen = "over" /\ run \notin {"on", "cancelled"}
        /\ run = "stale" => interrupted \/ replFaults > 0
        /\ run = "lost" => replFaults > 0

\* What the conversation remembers is in the session; if nothing was interrupted, all that
\* is in the session is remembered.
HistoryIsStored ==
    /\ Len(messages) <= Len(stored) /\ messages = SubSeq(stored, 1, Len(messages))
    /\ repl = "prompt" /\ ~interrupted /\ replFaults = 0 => messages = stored

\* When a turn leaves its update of the memory, that of the turn before is over and was
\* forgotten: schedule never refuses one, which would fail a turn that had completed.
OneUpdateAtATime == gen = "ends" => memory = "none"

\* The four together: events are shown in order, and the prompt comes back to an idle program
\* whose history is stored, with one memory update at a time.
PromptsAreWhole == ShownInOrder /\ PromptIsIdle /\ HistoryIsStored /\ OneUpdateAtATime

\* A turn comes back to the prompt, unless it is interrupted or the terminal fails.
TurnsEnd == []<>(repl \in {"prompt", "over"} \/ interrupted \/ replFaults > 0)

\* docs/phase-3-agent-loop/spec.md:99: after Ctrl-C the process can still take the next
\* message.
NextIsTaken == repl = "prompt" => run = "none"

\* docs/phase-3-agent-loop/spec.md:99: after Ctrl-C during a run the REPL comes back to the
\* prompt.
CtrlCReturns == repl = "cleanup" /\ interrupted ~> repl = "prompt"

=============================================================================
