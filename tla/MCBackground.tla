---------------------------- MODULE MCBackground ----------------------------
(* What runs beside the conversation: the pool that limits it               *)
(* (CapacityPool), sub-agent tasks (SubagentTasks), hooks (HookDispatch) and *)
(* the run of an isolated sub-agent (IsolatedRun).  A behaviour is one of a  *)
(* single part, the others stay as they began: the state spaces add up.      *)
(*                                                                           *)
(* Pool: five callers, two of them for one owner, and two slots, so that the *)
(* order of grants is visible.  Tasks: one started in the foreground, one    *)
(* fork.  Hooks: the conversation, the memory updater (which forks its       *)
(* request), a tool, and a sub-agent with a runtime of its own.  Isolated    *)
(* run: two servers that may offer tools of one name, or of a built-in's.    *)
EXTENDS CapacityPool, SubagentTasks, HookDispatch, IsolatedRun

CONSTANTS Searched,       \* of "pool", "tasks", "hooks", "isolated"
          c1, c2, c3, c4, c5, fore, fork

MCOwnerOf == [c \in {c1, c2, c3, c4, c5} |->
                IF c \in {c1, c2} THEN "team_member:a"
                ELSE IF c = c3 THEN "team_member:b"
                ELSE IF c = c4 THEN "subagent:c" ELSE "subagent:d"]

VARIABLE part

poolvars == <<active, waiters, future, pc, closed>>
allvars == <<part, poolvars, tvars, hookvars, isolatedvars>>

MCHome == [c \in Dispatchers |-> IF c = "sub" THEN "task" ELSE "root"]
MCEvent == [c \in Dispatchers |-> IF c \in {"main", "memory"} THEN "message" ELSE "tool"]
MCRule(kind, o, project) == [kind |-> kind, once |-> o, project |-> project]
MCRules ==
    [message |-> <<MCRule("prompt", FALSE, FALSE), MCRule("sync", FALSE, TRUE),
                   MCRule("prompt", FALSE, FALSE)>>,
     tool |-> <<MCRule("sync", TRUE, FALSE), MCRule("background", FALSE, FALSE)>>]

MCServers == <<"s1", "s2">>

BackgroundInit ==
    /\ part \in Searched
    /\ Init /\ TasksInit /\ HookInit /\ IsolatedInit
    /\ part # "hooks" => trusted

BackgroundNext ==
    \/ part = "pool" /\ Next /\ UNCHANGED <<part, tvars, hookvars, isolatedvars>>
    \/ part = "tasks" /\ TasksNext /\ UNCHANGED <<part, poolvars, hookvars, isolatedvars>>
    \/ part = "hooks" /\ HookNext /\ UNCHANGED <<part, poolvars, tvars, isolatedvars>>
    \/ part = "isolated" /\ IsolatedNext /\ UNCHANGED <<part, poolvars, tvars, hookvars>>

\* Nothing that is fair is enabled where a part begins, so the fairness of the parts
\* that do not act demands nothing.
BackgroundSpec ==
    /\ BackgroundInit /\ [][BackgroundNext]_allvars
    /\ Fairness /\ TasksFairness /\ HookFairness /\ IsolatedFairness

-----------------------------------------------------------------------------
\* Every variable of the four models keeps its type.
WellTyped == TypeOK /\ TasksTypeOK /\ HookTypeOK /\ IsolatedTypeOK

\* Nobody waits for ever: each request for a slot is answered, a task that was started
\* ends, a dispatch returns, and a wait for the MCP thread ends.
EverythingEnds ==
    EveryWaiterAnswered /\ TasksEnd /\ DispatchesReturn /\ ProgramIsFreed
=============================================================================
