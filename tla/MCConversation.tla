--------------------------- MODULE MCConversation ---------------------------
(* A conversation and the servers it uses: the agent's turn (AgentTurn), the *)
(* reply of the model (ReplyStream), the REPL around them (ReplTurn), the    *)
(* program from its start to its end (ProgramLifecycle), and an MCP session  *)
(* (McpSession).  A behaviour is one of a single part, the others stay as    *)
(* they began: the state spaces add up.  Two callers use the MCP session,    *)
(* boot is the request of its start.                                         *)
EXTENDS AgentTurn, ReplyStream, ReplTurn, McpSession, ProgramLifecycle

CONSTANTS Searched,     \* of "agent", "reply", "repl", "program", "mcp"
          boot, c1, c2

VARIABLE searched

allvars == <<searched, agentvars, replyvars, replvars, programvars, mcpvars>>

\* A run that is over: what the agent is in a behaviour of another part.
IdleAgent ==
    /\ mode = "direct" /\ turnAt = "over" /\ stop = "final" /\ iter = 1 /\ asked = FALSE
    /\ working = <<>> /\ extra = <<>> /\ committed = <<>> /\ userIn = FALSE /\ refused = 0
    /\ NoSchedule /\ inbox = [waiting |-> 0, left |-> 0]

ConversationInit ==
    /\ searched \in Searched
    /\ IF searched = "agent" THEN AgentInit ELSE IdleAgent
    /\ ReplyInit /\ ReplInit /\ ProgramInit /\ McpInit
    /\ searched # "reply" => protocol = "openai" /\ thinking = "disabled"
    /\ searched # "mcp" => kind = "stdio"

ConversationNext ==
    \/ searched = "agent" /\ AgentNext
       /\ UNCHANGED <<searched, replyvars, replvars, programvars, mcpvars>>
    \/ searched = "reply" /\ ReplyNext
       /\ UNCHANGED <<searched, agentvars, replvars, programvars, mcpvars>>
    \/ searched = "repl" /\ ReplNext
       /\ UNCHANGED <<searched, agentvars, replyvars, programvars, mcpvars>>
    \/ searched = "program" /\ ProgramNext
       /\ UNCHANGED <<searched, agentvars, replyvars, replvars, mcpvars>>
    \/ searched = "mcp" /\ McpNext
       /\ UNCHANGED <<searched, agentvars, replyvars, replvars, programvars>>

\* Nothing that has to happen can in the initial states, the idle agent's among them, so that
\* the fairness binds the part that acts and no other.
ConversationSpec ==
    /\ ConversationInit /\ [][ConversationNext]_allvars
    /\ AgentFairness /\ ReplFairness /\ McpFairness

-----------------------------------------------------------------------------
\* Every variable of the five models keeps its type.
WellTyped ==
    /\ AgentTypeOK /\ ReplyTypeOK /\ ReplTypeOK
    /\ ProgramTypeOK /\ McpTypeOK

\* What was begun ends: a run that is cancelled, a turn of the REPL unless the user pressed
\* Ctrl-C or something failed, a call of an MCP server (AgentTurn, ReplTurn, McpSession).
EverythingReturns == CancelEnds /\ TurnsEnd /\ CallsReturn
=============================================================================
