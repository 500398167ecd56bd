---------------------------- MODULE IsolatedRun ----------------------------
(***************************************************************************)
(* One sub-agent in its own worktree: WorktreeSubagentDriver takes the     *)
(* worktree, WorkspaceRuntimeBundle adds hooks, MCP servers and the run,   *)
(* and all of it is given back when the run is over, could not be made, or *)
(* fails while it is closed.                                               *)
(*                                                                         *)
(* The MCP servers of the run live in a thread with its own event loop     *)
(* (McpRuntime, McpManager).  Starting and closing them blocks the thread  *)
(* of the program: while stage is not "none", none of its tasks moves, and *)
(* only a deadline or the other thread ends that.  One session with its    *)
(* requests is McpSession; here a session is started, ready, or not.       *)
(***************************************************************************)
EXTENDS Naturals, Sequences, FiniteSets, SequencesExt

CONSTANTS
    Servers,        \* the configured servers of the run, in their order: a sequence
    Names,          \* public names of tools: two servers may come to the same one
    Reserved,       \* those of the built-in tools
    MaxFaults       \* bound: the exceptions in the program's own steps

ASSUME IsolatedAssumption == Servers \in Seq(ToSet(Servers)) /\ MaxFaults \in Nat

Offers == {<<n>> : n \in Names} \cup {<<n, n>> : n \in Names}    \* twice: no tool
Listed == Offers \cup {<<>>}    \* nothing before it answers
Ids == ToSet(Servers)

VARIABLES
    driver,         \* where the sub-agent's driver is
    lease,          \* it holds the worktree
    hooks, runtime, \* "none", "open", "closed"
    call,           \* the session that a tool call is waiting for, or "none"
    stage,          \* what the program's thread is blocked in: "none", "start", "close", "join"
    mcpClosed,      \* McpRuntime._closed
    thread,         \* the MCP thread: "none", "runs", "stops", "dead"
    job,            \* what the manager was last asked for: "none", "start", "close"
    answer,         \* and its answer: "none", "ok", "raised"
    session,        \* each server's session
    offer,          \* the tools it listed
    tools,          \* the tools of the run: <<name, server>>
    late,           \* a deadline was missed
    failures,       \* the parts whose close raised
    faults

drivervars == <<driver, lease, hooks, runtime, call, failures, faults>>
facadevars == <<stage, mcpClosed>>
loopvars == <<thread, job, answer, session, offer, tools>>
isolatedvars == <<drivervars, facadevars, loopvars, late>>

IsolatedTypeOK ==
    /\ driver \in {"new", "builds", "starts", "binds", "undoes", "backs_out", "runs",
                   "closes", "closes_hooks", "closes_run", "exits", "over"}
    /\ lease \in BOOLEAN /\ mcpClosed \in BOOLEAN /\ late \in BOOLEAN
    /\ hooks \in {"none", "open", "closed"} /\ runtime \in {"none", "open", "closed"}
    /\ stage \in {"none", "start", "close", "join"}
    /\ thread \in {"none", "runs", "stops", "dead"} /\ job \in {"none", "start", "close"}
    /\ answer \in {"none", "ok", "raised"} /\ call \in Ids \cup {"none"}
    /\ session \in [Ids -> {"none", "starting", "ready", "failed", "closed", "broken", "dropped"}]
    /\ offer \in [Ids -> Listed] /\ tools \subseteq Names \X Ids
    /\ failures \subseteq {"hooks", "run", "exit"} /\ faults \in 0..MaxFaults

IsolatedInit ==
    /\ driver = "new" /\ lease = FALSE /\ hooks = "none" /\ runtime = "none" /\ call = "none"
    /\ stage = "none" /\ mcpClosed = FALSE /\ thread = "none" /\ job = "none" /\ answer = "none"
    /\ session = [s \in Ids |-> "none"] /\ offer = [s \in Ids |-> <<>>] /\ tools = {}
    /\ late = FALSE /\ failures = {} /\ faults = 0

Fault == faults < MaxFaults /\ faults' = faults + 1
Free == stage = "none"          \* the tasks of the program may run
Alive(s) == session[s] \in {"starting", "ready", "failed"}

-----------------------------------------------------------------------------
(* the manager, in the MCP thread *)

SessionStarts(s) ==
    /\ thread = "runs" /\ session[s] = "starting"
    /\ \/ \E o \in Offers : offer' = [offer EXCEPT ![s] = o] /\ session' = [session EXCEPT ![s] = "ready"]
       \/ session' = [session EXCEPT ![s] = "failed"] /\ UNCHANGED offer
    /\ UNCHANGED <<drivervars, facadevars, thread, job, answer, tools, late>>

\* A server offers a tool if it is ready and lists one under a name that is not reserved, and
\* not under a name that it lists twice.
Offering(s) == session[s] = "ready" /\ Len(offer[s]) = 1 /\ offer[s][1] \notin Reserved
ToolOf(s) == <<offer[s][1], s>>

BugCatalog ==  \* what the servers before it offer is not looked at
    {ToolOf(s) : s \in {s \in Ids : Offering(s)}}

\* The tools that are accepted, in the order of the servers: a name that is taken by a
\* server before it is skipped.
Catalog ==
    LET first(i) == \A j \in 1..(i - 1) : Offering(Servers[j]) =>
                        offer[Servers[j]][1] # offer[Servers[i]][1] IN
    {ToolOf(Servers[i]) : i \in {i \in DOMAIN Servers : Offering(Servers[i]) /\ first(i)}}

\* start: when all sessions answered, the catalog is made, and the sessions without a tool
\* in it are closed.  If one cannot be, the whole start raises.
Gathered ==
    /\ thread = "runs" /\ job = "start" /\ answer = "none"
    /\ \A s \in Ids : session[s] # "starting"
    /\ LET kept == {t[2] : t \in Catalog} IN
       \/ /\ session' = [s \in Ids |-> IF s \in kept THEN session[s] ELSE "closed"]
          /\ tools' = Catalog /\ answer' = "ok" /\ UNCHANGED faults
       \/ /\ Fault /\ answer' = "raised" /\ UNCHANGED tools
          /\ \E s \in Ids \ kept : session' = [session EXCEPT ![s] = "broken"]
    /\ UNCHANGED <<driver, lease, hooks, runtime, call, failures, facadevars, thread, job, offer, late>>

\* close: of each session, at the same time; one may raise.
SessionCloses(s) ==
    /\ thread = "runs" /\ job = "close" /\ answer = "none" /\ Alive(s)
    /\ \/ session' = [session EXCEPT ![s] = "closed"] /\ UNCHANGED faults
       \/ Fault /\ session' = [session EXCEPT ![s] = "broken"]
    /\ UNCHANGED <<driver, lease, hooks, runtime, call, failures, facadevars, thread, job, answer,
                   offer, tools, late>>

BugAllClosed ==  \* the first exception is passed on
    /\ thread = "runs" /\ job = "close" /\ answer = "none"
    /\ \/ \A s \in Ids : ~Alive(s)
       \/ \E s \in Ids : session[s] = "broken"
    /\ answer' = "ok"
    /\ UNCHANGED <<drivervars, facadevars, thread, job, session, offer, tools, late>>

AllClosed ==
    /\ thread = "runs" /\ job = "close" /\ answer = "none" /\ \A s \in Ids : ~Alive(s)
    /\ answer' = "ok"
    /\ UNCHANGED <<drivervars, facadevars, thread, job, session, offer, tools, late>>

\* _run_loop, stopped: what is pending in the loop is cancelled.
LoopStops ==
    /\ thread = "stops" /\ thread' = "dead"
    /\ session' = [s \in Ids |-> IF Alive(s) THEN "dropped" ELSE session[s]]
    /\ UNCHANGED <<drivervars, facadevars, job, answer, offer, tools, late>>

\* A call returns, or its session fails.
CallEnds ==
    /\ call # "none" /\ thread = "runs" /\ call' = "none"
    /\ \/ UNCHANGED session
       \/ session[call] = "ready" /\ session' = [session EXCEPT ![call] = "failed"]
    /\ UNCHANGED <<driver, lease, hooks, runtime, failures, faults, facadevars, thread, job, answer,
                   offer, tools, late>>

-----------------------------------------------------------------------------
(* the facade, in the thread of the program *)

\* start: the thread is made, and the manager asked to start.
AsksForStart ==
    /\ driver = "starts" /\ Free /\ thread = "none"
    /\ thread' = "runs" /\ job' = "start" /\ stage' = "start"
    /\ session' = [s \in Ids |-> "starting"]
    /\ UNCHANGED <<drivervars, mcpClosed, answer, offer, tools, late>>

AsksForClose ==
    /\ ~mcpClosed /\ mcpClosed' = TRUE /\ stage' = "close" /\ job' = "close" /\ answer' = "none"
    /\ UNCHANGED <<thread, session, offer, tools>>

\* The start was answered, or its deadline passed: then it is closed again.
StartReturns ==
    /\ stage = "start"
    /\ \/ /\ answer = "ok" /\ stage' = "none" /\ driver' = "binds"
          /\ UNCHANGED <<mcpClosed, loopvars, late>>
       \/ /\ AsksForClose /\ UNCHANGED driver
          /\ \/ answer = "raised" /\ UNCHANGED late
             \/ answer = "none" /\ late' = TRUE
    /\ UNCHANGED <<lease, hooks, runtime, call, failures, faults>>

\* close: when the manager is done, or late, the loop is stopped and its thread joined.
CloseReturns ==
    /\ stage = "close" /\ stage' = "join" /\ thread' = "stops"
    /\ late' = (late \/ answer = "none")
    /\ UNCHANGED <<drivervars, mcpClosed, job, answer, session, offer, tools>>

BugJoined ==  \* the thread is joined without a deadline
    /\ stage = "join" /\ thread = "dead" /\ stage' = "none"
    /\ driver' = CASE driver = "starts" -> "backs_out"
                   [] OTHER -> driver
    /\ UNCHANGED <<lease, hooks, runtime, call, failures, faults, mcpClosed, loopvars, late>>

Joined ==
    /\ stage = "join" /\ stage' = "none"
    /\ late' = (late \/ thread # "dead")
    /\ driver' = CASE driver = "starts" -> "backs_out"
                   [] OTHER -> driver
    /\ UNCHANGED <<lease, hooks, runtime, call, failures, faults, mcpClosed, loopvars>>

-----------------------------------------------------------------------------
(* the driver *)

\* prepare: the worktree is made, or recovered, and entered (WorktreeLifecycle).
Prepares ==
    /\ driver = "new"
    /\ \/ driver' = "builds" /\ lease' = TRUE /\ UNCHANGED faults
       \/ driver' = "over" /\ Fault /\ UNCHANGED lease
    /\ UNCHANGED <<hooks, runtime, call, failures, facadevars, loopvars, late>>

\* create: the hooks; then the servers whose tools the task was given, if any.
OpensHooks ==
    /\ driver = "builds"
    /\ \/ driver' \in {"starts", "binds"} /\ hooks' = "open" /\ UNCHANGED faults
       \/ driver' = "backs_out" /\ Fault /\ UNCHANGED hooks
    /\ UNCHANGED <<lease, runtime, call, failures, facadevars, loopvars, late>>

\* create_bound: the run is made, or what was opened for it is closed.
Binds ==
    /\ driver = "binds" /\ Free
    /\ \/ driver' = "runs" /\ runtime' = "open" /\ UNCHANGED faults
       \/ driver' = "undoes" /\ Fault /\ UNCHANGED runtime
    /\ UNCHANGED <<lease, hooks, call, failures, facadevars, loopvars, late>>

Calls ==
    /\ driver = "runs" /\ call = "none" /\ ~mcpClosed
    /\ \E t \in tools : session[t[2]] = "ready" /\ call' = t[2]
    /\ UNCHANGED <<driver, lease, hooks, runtime, failures, faults, facadevars, loopvars, late>>

\* The run ended, or was cancelled, and with it its call; the driver is closed.
RunEnds ==
    /\ driver = "runs" /\ driver' = "closes" /\ call' = "none"
    /\ UNCHANGED <<lease, hooks, runtime, failures, faults, facadevars, loopvars, late>>

\* First the servers, blocking.
ClosesServers ==
    /\ driver \in {"undoes", "closes"} /\ Free
    /\ IF thread = "runs" /\ ~mcpClosed
       THEN AsksForClose /\ UNCHANGED drivervars
       ELSE /\ driver' = "closes_hooks" /\ UNCHANGED <<facadevars, loopvars>>
            /\ UNCHANGED <<lease, hooks, runtime, call, failures, faults>>
    /\ UNCHANGED late

\* Then the hooks and the run; what raises is noted.  A bundle that was never made has no
\* run, and its undoing stops where it raises.
ClosesHooks ==
    /\ driver = "closes_hooks"
    /\ driver' = IF runtime = "none" THEN "backs_out" ELSE "closes_run"
    /\ \/ hooks' = "closed" /\ UNCHANGED <<failures, faults>>
       \/ Fault /\ failures' = failures \cup {"hooks"} /\ UNCHANGED hooks
    /\ UNCHANGED <<lease, runtime, call, facadevars, loopvars, late>>
BugClosesRun ==  \* what could not be closed ends the close of the driver
    /\ driver = "closes_run"
    /\ \/ runtime' = "closed" /\ driver' = "exits" /\ UNCHANGED <<failures, faults>>
       \/ Fault /\ failures' = failures \cup {"run"} /\ driver' = "over" /\ UNCHANGED runtime
    /\ UNCHANGED <<lease, hooks, call, facadevars, loopvars, late>>
ClosesRun ==
    /\ driver = "closes_run" /\ driver' = "exits"
    /\ \/ runtime' = "closed" /\ UNCHANGED <<failures, faults>>
       \/ Fault /\ failures' = failures \cup {"run"} /\ UNCHANGED runtime
    /\ UNCHANGED <<lease, hooks, call, facadevars, loopvars, late>>

\* The worktree is left.  prepare does that when it gives up, and the driver's close again
\* when that failed; if close cannot either, the summary says that the worktree is kept.
Leaves ==
    /\ driver \in {"backs_out", "exits"}
    /\ \/ lease' = FALSE /\ driver' = "over" /\ UNCHANGED <<failures, faults>>
       \/ /\ Fault /\ UNCHANGED lease
          /\ IF driver = "exits" THEN driver' = "over" /\ failures' = failures \cup {"exit"}
             ELSE driver' = "exits" /\ UNCHANGED failures
    /\ UNCHANGED <<hooks, runtime, call, facadevars, loopvars, late>>

-----------------------------------------------------------------------------
Loop == \/ \E s \in Ids : SessionStarts(s) \/ SessionCloses(s)
        \/ Gathered \/ AllClosed \/ LoopStops \/ CallEnds
Facade == AsksForStart \/ StartReturns \/ CloseReturns \/ Joined
Driver == \/ Prepares \/ OpensHooks \/ Binds \/ Calls \/ RunEnds
          \/ ClosesServers \/ ClosesHooks \/ ClosesRun \/ Leaves
IsolatedNext == Loop \/ Facade \/ Driver
IsolatedSpec == IsolatedInit /\ [][IsolatedNext]_isolatedvars

\* A deadline passes, whatever the servers do: nothing is assumed of them.
IsolatedFairness == WF_isolatedvars(Facade)

-----------------------------------------------------------------------------
\* Whatever failed on the way in or on the way out, a driver that is over left its worktree,
\* unless leaving it is what failed, and its servers' thread was told to stop.
AllIsGivenBack ==
    driver = "over" =>
        /\ lease => "exit" \in failures
        /\ thread # "runs" /\ Free
        /\ runtime = "open" => "run" \in failures

\* docs/phase-6-mcp-client/spec.md:71: one session that cannot be closed does not keep the
\* others from it.  Only a missed deadline does.
OneFailureIsAlone == thread = "dead" /\ ~late => \A s \in Ids : session[s] \in {"closed", "broken"}

\* docs/phase-6-mcp-client/spec.md:47: the tools of a run have distinct names, none of them
\* reserved, and while the run is made each comes from a session that is open.
ToolsAreServed ==
    /\ \A t, u \in tools : t[1] = u[1] => t = u
    /\ \A t \in tools : t[1] \notin Reserved
    /\ driver = "binds" /\ thread = "runs" => \A s \in Ids :
           session[s] = "ready" <=> \E t \in tools : t[2] = s

\* Whatever fails while an isolated run starts, works or closes: all it holds is given
\* back, one server's failure is not another's, and its tools are those of live servers.
RunsAreGivenBack == AllIsGivenBack /\ OneFailureIsAlone /\ ToolsAreServed

\* The thread of the program is not held for ever, with every other task in it.
ProgramIsFreed == []<>Free

=============================================================================
