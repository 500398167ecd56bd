------------------------- MODULE ProgramLifecycle -------------------------
(***************************************************************************)
(* The life of the whole program: cli.main opens the parts one after the   *)
(* other, Repl.run starts the conversation and serves it, Conversation     *)
(* closes it, and main's finally clause closes what is then still open.    *)
(* A step of the start may raise, the close of a part may raise, and       *)
(* Ctrl-C may be pressed anywhere: an interrupted close does not come      *)
(* back, and most parts refuse to be closed a second time.                 *)
(*                                                                         *)
(* What the parts do is in the other modules.  Here a part is open or not, *)
(* and has work under way or not.  The tasks of the event loop end with    *)
(* the loop (asyncio.Runner cancels them), which is before the finally.    *)
(***************************************************************************)
EXTENDS Naturals, Sequences, SequencesExt

CONSTANTS
    MaxMishaps       \* bound: the exceptions, and the interrupts

ASSUME ProgramAssumption == MaxMishaps \in Nat

VARIABLES
    at,             \* where the program is
    next,           \* the next step of the start, or of the close
    part,           \* what became of each part
    work,           \* the parts with work under way
    told,           \* the events of the session: "none", "started", "ended"
    stranded,       \* the update of the memory is a cancelled task that nobody forgot
    abandoned,      \* Ctrl-C in the finally clause
    mishaps

programvars == <<at, next, part, work, told, stranded, abandoned, mishaps>>

\* The order of main.  The worktree janitor has nothing to close before it is started.
Configuration == <<"pool", "janitor", "session">>
Runtimes == <<"hooks", "memory", "archive", "mcp">>
Agents == <<"skills", "tasks">>
Teams == <<"team">>
Assembly == Configuration \o Runtimes \o Agents \o Teams

Parts == ToSet(Assembly)
Workers == {"team", "tasks", "memory", "hooks"}

\* A close that marks its part closed, and then waits: interrupted, it is not resumed.
MarkedFirst == {"team", "tasks", "janitor", "hooks"}

\* Who calls on a part while it works: members and sub-agents draw their slots from the
\* pool and call MCP tools; they, and the update of the memory, pass through the hooks.
UsersOf(p) == CASE p \in {"pool", "mcp"} -> {"team", "tasks"}
                [] p = "hooks" -> {"team", "tasks", "memory"}
                [] OTHER -> {}

ProgramTypeOK ==
    /\ at \in {"assemble", "trust", "greet", "prompt", "close", "finally", "over"}
    /\ next \in 1..Len(Assembly) + 1
    /\ part \in [Parts -> {"none", "open", "cut", "closed"}]
    /\ work \subseteq Workers \cup {"janitor"}
    /\ told \in {"none", "started", "ended"}
    /\ stranded \in BOOLEAN /\ abandoned \in BOOLEAN /\ mishaps \in 0..MaxMishaps

ProgramInit ==
    /\ at = "assemble" /\ next = 1 /\ part = [p \in Parts |-> "none"] /\ work = {}
    /\ told = "none" /\ stranded = FALSE /\ abandoned = FALSE /\ mishaps = 0

Mishap == mishaps < MaxMishaps /\ mishaps' = mishaps + 1

-----------------------------------------------------------------------------
(* main, up to Repl.run *)

\* The next part is made; without servers there is no MCP runtime.
Opens ==
    /\ at = "assemble" /\ next <= Len(Assembly) /\ next' = next + 1
    /\ \/ part' = [part EXCEPT ![Assembly[next]] = "open"]
       \/ Assembly[next] = "mcp" /\ UNCHANGED part
    /\ UNCHANGED <<at, work, told, stranded, abandoned, mishaps>>

\* A configuration is refused, a store cannot be read, or Ctrl-C is pressed.
StartFails ==
    /\ at = "assemble" /\ Mishap /\ at' = "finally" /\ next' = 1
    /\ UNCHANGED <<part, work, told, stranded, abandoned>>

Assembled ==
    /\ at = "assemble" /\ next = Len(Assembly) + 1 /\ at' = "trust"
    /\ UNCHANGED <<next, part, work, told, stranded, abandoned, mishaps>>

-----------------------------------------------------------------------------
(* Repl.run *)

\* The loop is left: what runs in it is cancelled, and an update of the memory that is
\* cancelled stays the pending one.
LoopEnds ==
    /\ at' = "finally" /\ next' = 1 /\ work' = {}
    /\ stranded' = (stranded \/ "memory" \in work)

\* The question whether to trust the hooks is answered; then Conversation.start runs the
\* janitor, and has the session.start hooks run.
Trusted ==
    /\ at = "trust" /\ at' = "greet" /\ work' = {"janitor"}
    /\ UNCHANGED <<next, part, told, stranded, abandoned, mishaps>>
Greeted ==
    /\ at = "greet" /\ at' = "prompt" /\ told' = "started"
    /\ \E hooks \in {{}, {"hooks"}} : work' = work \cup hooks
    /\ UNCHANGED <<next, part, stranded, abandoned, mishaps>>

\* That is before the try: the conversation is not closed.
GreetingFails ==
    /\ at \in {"trust", "greet"} /\ Mishap /\ LoopEnds
    /\ told' \in {told} \cup IF at = "greet" THEN {"started"} ELSE {}
    /\ UNCHANGED <<part, abandoned>>

\* The turns of the conversation: work begins in the parts, and ends.
Works ==
    /\ at = "prompt"
    /\ \E p \in Workers : (p = "memory" => ~stranded) /\ work' = work \cup {p}
    /\ UNCHANGED <<at, next, part, told, stranded, abandoned, mishaps>>
WorkEnds ==
    /\ \E p \in work \ {"janitor"} : work' = work \ {p}
    /\ UNCHANGED <<at, next, part, told, stranded, abandoned, mishaps>>

\* Ctrl-C while a message waits for the update of the memory (ReplTurn).
Strands ==
    /\ at = "prompt" /\ "memory" \in work /\ Mishap
    /\ work' = work \ {"memory"} /\ stranded' = TRUE
    /\ UNCHANGED <<at, next, part, told, abandoned>>

\* /exit, the end of the input, or Ctrl-C at the prompt.
Exits ==
    /\ at = "prompt" /\ at' = "close" /\ next' = 1
    /\ UNCHANGED <<part, work, told, stranded, abandoned, mishaps>>

-----------------------------------------------------------------------------
(* Conversation.close *)

BugTeardown ==  \* the hooks are closed before the memory is waited for
    <<"team", "tasks", "janitor", "hooks", "memory", "session.end", "session", "skills", "archive">>

Teardown ==
    <<"team", "tasks", "janitor", "memory", "session.end", "session", "skills", "archive", "hooks">>

Finishes(p) == part' = [part EXCEPT ![p] = "closed"] /\ work' = work \ {p}

\* The next close.  The pending update is awaited; one that was cancelled cancels the
\* close.  That of the team may raise, with members still running; that is noted only.
CloseStep ==
    /\ at = "close" /\ next <= Len(Teardown)
    /\ LET p == Teardown[next] IN
       \/ /\ p = "session.end" /\ told' = "ended" /\ next' = next + 1
          /\ UNCHANGED <<at, part, work, stranded, mishaps>>
       \/ /\ p = "memory" /\ stranded /\ LoopEnds /\ UNCHANGED <<part, told, mishaps>>
       \/ /\ p = "team" /\ Mishap /\ part' = [part EXCEPT ![p] = "cut"] /\ next' = next + 1
          /\ UNCHANGED <<at, work, told, stranded>>
       \/ /\ p # "session.end" /\ (p = "memory" => ~stranded /\ p \notin work)
          /\ Finishes(p) /\ next' = next + 1 /\ UNCHANGED <<at, told, stranded, mishaps>>
    /\ UNCHANGED abandoned

Closed ==
    /\ at = "close" /\ next = Len(Teardown) + 1 /\ LoopEnds
    /\ UNCHANGED <<part, told, abandoned, mishaps>>

\* Ctrl-C while a close waits: the rest of Conversation.close is skipped.
CloseInterrupted ==
    /\ at = "close" /\ next <= Len(Teardown)
    /\ Teardown[next] \in MarkedFirst \cup {"memory", "session.end"}
    /\ Mishap /\ LoopEnds
    /\ part' = [p \in Parts |-> IF p = Teardown[next] /\ p \in MarkedFirst THEN "cut" ELSE part[p]]
    /\ UNCHANGED <<told, abandoned>>

-----------------------------------------------------------------------------
(* the finally clause of main *)

BugFinally ==  \* the conversation is relied on for the archive
    <<"team", "memory", "tasks", "pool", "janitor", "session", "mcp", "hooks">>

Finally == <<"team", "memory", "tasks", "pool", "janitor", "session", "archive", "mcp", "hooks">>

\* What was made is closed, in its own event loop where it has to; a close that was begun
\* returns at once.  The update that was cancelled raises CancelledError, which no handler
\* of the clause catches.
FinalStep ==
    /\ at = "finally" /\ next <= Len(Finally)
    /\ LET p == Finally[next] IN
       IF p = "memory" /\ part[p] # "none" /\ stranded
       THEN at' = "over" /\ UNCHANGED <<next, part>>
       ELSE /\ next' = next + 1 /\ UNCHANGED at
            /\ part' = [part EXCEPT ![p] = IF @ = "open" THEN "closed" ELSE @]
    /\ UNCHANGED <<work, told, stranded, abandoned, mishaps>>

FinalInterrupted ==
    /\ at = "finally" /\ Mishap /\ at' = "over" /\ abandoned' = TRUE
    /\ UNCHANGED <<next, part, work, told, stranded>>

MainEnds ==
    /\ at = "finally" /\ next = Len(Finally) + 1 /\ at' = "over"
    /\ UNCHANGED <<next, part, work, told, stranded, abandoned, mishaps>>

-----------------------------------------------------------------------------
ProgramNext ==
    \/ Opens \/ StartFails \/ Assembled
    \/ Trusted \/ Greeted \/ GreetingFails \/ Works \/ WorkEnds \/ Strands \/ Exits
    \/ CloseStep \/ Closed \/ CloseInterrupted
    \/ FinalStep \/ FinalInterrupted \/ MainEnds

ProgramSpec == ProgramInit /\ [][ProgramNext]_programvars

-----------------------------------------------------------------------------
\* Nothing is closed while a part that calls on it is still at work, and the session is
\* said to end when its members, sub-agents and memory are done.
UsersStopFirst ==
    mishaps = 0 =>
        /\ \A p \in Parts : part[p] = "closed" => work \cap UsersOf(p) = {}
        /\ told = "ended" => work \subseteq {"hooks"}

\* Wherever the start failed or the conversation's close was cut short, the finally clause
\* picks up the rest.  Left open are the copies of skills, which it does not know of, and
\* what a stranded update of the memory, or Ctrl-C in the clause itself, keeps it from.
FinallyPicksUp ==
    at = "over" /\ ~stranded /\ ~abandoned => \A p \in Parts \ {"skills"} : part[p] # "open"

\* Users are stopped before what they use, and what the conversation left open is closed at
\* the end.
ExitIsOrderly == UsersStopFirst /\ FinallyPicksUp

\* docs/phase-6-mcp-client/spec.md:71: at a normal exit, when the start is given up and when
\* the user cancels, the clients of the MCP servers are cleaned up.
ExitCleansUp == at = "over" /\ ~abandoned => part["mcp"] # "open"

=============================================================================
