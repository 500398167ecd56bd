------------------------- MODULE ConversationProofs -------------------------
(* What a conversation rests on, for every value of the constants: a turn    *)
(* answers each call at most once, starts nothing once it is cancelled, and  *)
(* only adds to the history (AgentTurn); the agent gets the calls of the     *)
(* reply (ReplyStream); the REPL shows the events in order and stores what   *)
(* was committed (ReplTurn); each request to an MCP server is served or told *)
(* (McpSession); and the program is left in order (ProgramLifecycle).        *)
EXTENDS MCConversation, SequenceTheorems, TLAPS

-----------------------------------------------------------------------------
(* McpSession *)

\* A future that somebody waits for is registered, so that whoever fails the session finds
\* it; one that is done is not registered any more; and a session that is being closed is
\* one that has failed.
WaitersAreRegistered ==
    \A c \in Callers : pc[c] \in {"sending", "waiting"} /\ fut[c] = "pending" => c \in pending
DoneIsForgotten == \A c \in Callers : fut[c] \in {"result", "error", "failed"} => c \notin pending
ClosedIsFailed == closer => failure

CallsInv == McpTypeOK /\ CallsAreServed /\ WaitersAreRegistered /\ DoneIsForgotten /\ ClosedIsFailed

\* The request that ends is the only one that moves, and the session stays in a known state.
LEMMA EndsTypes ==
    ASSUME McpTypeOK, NEW c \in Callers,
           NEW what \in {"result", "error", "failed", "timeout", "cancelled"}, Ends(c, what)
    PROVE  /\ pc' \in [Callers -> {"idle", "sending", "waiting", "expired", "notifying", "done"}]
           /\ outcome' \in [Callers -> {"none", "result", "error", "failed", "timeout",
                                      "cancelled"}]
           /\ state' \in {"new", "starting", "ready", "failed", "closed"}
           /\ pc'[c] = "done" /\ \A d \in Callers \ {c} : pc'[d] = pc[d]
BY DEF McpTypeOK, Ends

\* Failing the session tells all who wait, but for those who have left.
LEMMA FailTells ==
    ASSUME McpTypeOK, NEW but \in SUBSET Callers, Fail(but)
    PROVE  /\ failure' = TRUE /\ pending' = {}
           /\ fut' \in [Callers -> {"none", "pending", "cancelled", "result", "error", "failed"}]
           /\ \A c \in Callers \ but : c \in pending => fut'[c] # "pending"
           /\ \A c \in Callers : fut'[c] = "pending" => fut[c] = "pending"
BY DEF McpTypeOK, Fail

\* One fault more, within the bound.
LEMMA FaultTypes ==
    ASSUME McpTypeOK, Fault
    PROVE  faults' \in 0..MaxFaults
BY McpAssumption DEF McpTypeOK, Fault

\* The parts of the invariant, once the types are known.
LEMMA CallsInvParts ==
    ASSUME McpTypeOK', WaitersAreRegistered', DoneIsForgotten', ClosedIsFailed', PendingIsOwned',
           failure' \/ closer' => pending' = {}
    PROVE  CallsInv'
<1>1. NobodyWaitsInVain'
  BY DEF NobodyWaitsInVain, WaitersAreRegistered
<1>2. QED
  BY <1>1 DEF CallsInv, CallsAreServed

\* A request begins with the future registered, or is refused.
LEMMA CallsStep ==
    ASSUME CallsInv, NEW c \in Callers, Calls(c)
    PROVE  CallsInv'
<1> USE DEF CallsInv, CallsAreServed
<1>1. CASE failure \/ closer
  <2>1. Ends(c, "failed") /\ UNCHANGED <<fut, pending>>
    BY <1>1 DEF Calls
  <2>2. McpTypeOK'
    BY <2>1, EndsTypes DEF Calls, McpTypeOK, server
  <2>3. QED
    BY <2>1, <2>2, EndsTypes, CallsInvParts DEF Calls, NobodyWaitsInVain, PendingIsOwned,
         WaitersAreRegistered, DoneIsForgotten, ClosedIsFailed, McpTypeOK
<1>2. CASE ~(failure \/ closer)
  <2>1. McpTypeOK'
    BY <1>2 DEF Calls, McpTypeOK, server
  <2>2. QED
    BY <1>2, <2>1, CallsInvParts DEF Calls, NobodyWaitsInVain, PendingIsOwned,
         WaitersAreRegistered, DoneIsForgotten, ClosedIsFailed, McpTypeOK
<1>3. QED
  BY <1>1, <1>2

\* What goes on by itself: the message is written, the answer taken, the wait over.
LEMMA ProceedsStep ==
    ASSUME CallsInv, NEW c \in Callers, Proceeds(c)
    PROVE  CallsInv'
<1> USE DEF CallsInv, CallsAreServed, NobodyWaitsInVain, PendingIsOwned,
            WaitersAreRegistered, DoneIsForgotten, ClosedIsFailed
<1>1. CASE Delivered(c)
  <2>1. McpTypeOK'
    BY <1>1 DEF Delivered, McpTypeOK
  <2>2. QED
    BY <1>1, <2>1, CallsInvParts DEF Delivered, McpTypeOK
<1>2. CASE Sent(c)
  <2>1. McpTypeOK'
    BY <1>2 DEF Sent, McpTypeOK, server
  <2>2. QED
    BY <1>2, <2>1, CallsInvParts DEF Sent, McpTypeOK
<1>3. CASE Wakes(c)
  <2>1. fut[c] \in {"result", "error", "failed"} /\ Ends(c, fut[c])
    BY <1>3 DEF Wakes
  <2>2. CASE fut[c] = "failed"
    <3>1. Ends(c, "failed") /\ Fail({c}) /\ {c} \in SUBSET Callers
      BY <1>3, <2>1, <2>2 DEF Wakes
    <3>2. /\ failure' = TRUE /\ pending' = {}
          /\ fut' \in [Callers -> {"none", "pending", "cancelled", "result", "error", "failed"}]
      BY <3>1, FailTells
    <3>3. McpTypeOK'
      BY <1>3, <3>1, <3>2, EndsTypes DEF Wakes, McpTypeOK, server
    <3>4. WaitersAreRegistered'
      BY <3>1, <3>2, EndsTypes, FailTells
    <3>5. QED
      BY <3>2, <3>3, <3>4, CallsInvParts
  <2>3. CASE fut[c] # "failed"
    <3>1. UNCHANGED <<failure, pending, fut>>
      BY <1>3, <2>3 DEF Wakes
    <3>2. McpTypeOK'
      BY <1>3, <2>1, <3>1, EndsTypes DEF Wakes, McpTypeOK, server
    <3>3. QED
      BY <1>3, <2>1, <3>1, <3>2, EndsTypes, CallsInvParts DEF Wakes, McpTypeOK
  <2>4. QED
    BY <2>2, <2>3
<1>4. CASE Leaves(c)
  <2>1. McpTypeOK'
    <3>1. CASE failure \/ closer
      <4>1. CASE why[c] = "none"
        BY <1>4, <3>1, <4>1 DEF Leaves, McpTypeOK, server, Ends
      <4>2. CASE why[c] # "none"
        BY <1>4, <3>1, <4>2, EndsTypes DEF Leaves, McpTypeOK, server
      <4>3. QED
        BY <4>1, <4>2
    <3>2. CASE ~(failure \/ closer)
      BY <1>4, <3>2 DEF Leaves, McpTypeOK, server
    <3>3. QED
      BY <3>1, <3>2
  <2>2. QED
    BY <1>4, <2>1, CallsInvParts DEF Leaves, McpTypeOK, Ends
<1>5. CASE Notified(c)
  <2>1. McpTypeOK'
    BY <1>5 DEF Notified, McpTypeOK, server, Ends
  <2>2. QED
    BY <1>5, <2>1, CallsInvParts DEF Notified, McpTypeOK, Ends
<1>6. QED
  BY <1>1, <1>2, <1>3, <1>4, <1>5 DEF Proceeds

\* A message that the transport refuses ends its request, and over a pipe the session.
LEMMA SendFailsStep ==
    ASSUME CallsInv, NEW c \in Callers, SendFails(c)
    PROVE  CallsInv'
<1> USE DEF CallsInv, CallsAreServed, NobodyWaitsInVain, PendingIsOwned,
            WaitersAreRegistered, DoneIsForgotten, ClosedIsFailed
<1>1. faults' \in 0..MaxFaults
  BY FaultTypes DEF SendFails, McpTypeOK
<1>2. CASE Fail({c}) /\ Ends(c, "failed")
  <2>1. {c} \in SUBSET Callers
    OBVIOUS
  <2>2. /\ failure' = TRUE /\ pending' = {}
        /\ fut' \in [Callers -> {"none", "pending", "cancelled", "result", "error", "failed"}]
    BY <1>2, <2>1, FailTells
  <2>3. McpTypeOK'
    BY <1>1, <1>2, <2>2, EndsTypes DEF SendFails, McpTypeOK, server
  <2>4. WaitersAreRegistered'
    BY <1>2, <2>1, <2>2, EndsTypes, FailTells
  <2>5. QED
    BY <2>2, <2>3, <2>4, CallsInvParts
<1>3. CASE Ends(c, "error") /\ pending' = pending \ {c} /\ UNCHANGED <<failure, fut>>
  <2>1. McpTypeOK'
    BY <1>1, <1>3, EndsTypes DEF SendFails, McpTypeOK, server
  <2>2. QED
    BY <1>3, <2>1, EndsTypes, CallsInvParts DEF SendFails, McpTypeOK
<1>4. QED
  BY <1>2, <1>3 DEF SendFails

\* An expiry cancels the future that is waited for; the server answers what it owes.
LEMMA ExpiresStep ==
    ASSUME CallsInv, NEW c \in Callers,
           ServerAnswers(c) \/ \E cause \in {"timeout", "cancelled"} : Expires(c, cause)
    PROVE  CallsInv'
<1> USE DEF CallsInv, CallsAreServed, NobodyWaitsInVain, PendingIsOwned,
            WaitersAreRegistered, DoneIsForgotten, ClosedIsFailed
<1>1. CASE ServerAnswers(c)
  <2>1. McpTypeOK'
    BY <1>1 DEF ServerAnswers, McpTypeOK, requests
  <2>2. QED
    BY <1>1, <2>1, CallsInvParts DEF ServerAnswers, requests
<1>2. ASSUME NEW cause \in {"timeout", "cancelled"}, Expires(c, cause)
      PROVE  CallsInv'
  <2>1. McpTypeOK'
    BY <1>2 DEF Expires, McpTypeOK, server
  <2>2. QED
    BY <1>2, <2>1, CallsInvParts DEF Expires, McpTypeOK
<1>3. QED
  BY <1>1, <1>2

\* An answer completes the future of its request, is ignored, or, when the future was
\* cancelled, fails the session: for the reader and for the POST alike.
LEMMA ReceivesStep ==
    ASSUME CallsInv, NEW c \in Callers, NEW d \in Callers, Receives(c, d)
    PROVE  CallsInv'
<1> USE DEF CallsInv, CallsAreServed, NobodyWaitsInVain, PendingIsOwned,
            WaitersAreRegistered, DoneIsForgotten, ClosedIsFailed
<1>1. /\ wire' \in [Callers -> 0..1]
      /\ UNCHANGED <<kind, transport, owed, closer, faults>>
  BY DEF Receives, McpTypeOK
<1>2. CASE c \notin pending /\ UNCHANGED <<state, failure, reader, requests>>
  <2>1. McpTypeOK'
    BY <1>1, <1>2 DEF McpTypeOK, requests
  <2>2. QED
    BY <1>1, <1>2, <2>1, CallsInvParts DEF requests
<1>3. ASSUME c \in pending, fut[c] = "pending", pending' = pending \ {c},
             NEW r \in {"result", "error"}, fut' = [fut EXCEPT ![c] = r],
             UNCHANGED <<state, failure, reader, pc, why, outcome>>
      PROVE  CallsInv'
  <2>1. McpTypeOK'
    BY <1>1, <1>3 DEF McpTypeOK
  <2>2. QED
    BY <1>1, <1>3, <2>1, CallsInvParts DEF McpTypeOK
<1>4. CASE /\ c \in pending /\ fut[c] = "cancelled" /\ Fail({c}) /\ UNCHANGED why
           /\ IF kind = "stdio" THEN reader' = FALSE /\ UNCHANGED <<state, pc, outcome>>
              ELSE Ends(d, "failed") /\ UNCHANGED reader
  <2>1. {c} \in SUBSET Callers
    OBVIOUS
  <2>2. /\ failure' = TRUE /\ pending' = {}
        /\ fut' \in [Callers -> {"none", "pending", "cancelled", "result", "error", "failed"}]
    BY <1>4, <2>1, FailTells
  <2>3. /\ \A e \in Callers \ {c} : e \in pending => fut'[e] # "pending"
        /\ \A e \in Callers : fut'[e] = "pending" => fut[e] = "pending"
    BY <1>4, <2>1, FailTells
  <2>4. CASE kind = "stdio"
    <3>1. McpTypeOK'
      BY <1>1, <1>4, <2>2, <2>4 DEF McpTypeOK
    <3>2. WaitersAreRegistered'
      BY <1>4, <2>2, <2>3, <2>4
    <3>3. QED
      BY <2>2, <3>1, <3>2, CallsInvParts
  <2>5. CASE kind # "stdio"
    <3>1. McpTypeOK'
      BY <1>1, <1>4, <2>2, <2>5, EndsTypes DEF McpTypeOK
    <3>2. WaitersAreRegistered'
      BY <1>4, <2>2, <2>3, <2>5, EndsTypes
    <3>3. QED
      BY <2>2, <3>1, <3>2, CallsInvParts
  <2>6. QED
    BY <2>4, <2>5
<1>5. QED
  BY <1>2, <1>3, <1>4 DEF Receives

\* The server breaks, or the session is closed: everybody is told.
LEMMA SessionStep ==
    ASSUME CallsInv, ServerBreaks \/ Closes \/ TransportCloses
    PROVE  CallsInv'
<1> USE DEF CallsInv, CallsAreServed, NobodyWaitsInVain, PendingIsOwned,
            WaitersAreRegistered, DoneIsForgotten, ClosedIsFailed
<1>1. ASSUME Fail({}), McpTypeOK', UNCHANGED pc
      PROVE  CallsInv'
  <2>1. {} \in SUBSET Callers
    OBVIOUS
  <2>2. failure' = TRUE /\ pending' = {}
    BY <1>1, <2>1, FailTells
  <2>3. WaitersAreRegistered'
    BY <1>1, <2>1, FailTells
  <2>4. QED
    BY <1>1, <2>2, <2>3, CallsInvParts
<1>2. ASSUME Fail({})
      PROVE  /\ failure' = TRUE /\ pending' = {}
             /\ fut' \in [Callers -> {"none", "pending", "cancelled", "result", "error", "failed"}]
  BY <1>2, FailTells
<1>3. CASE ServerBreaks
  <2>1. faults' \in 0..MaxFaults
    BY <1>3, FaultTypes DEF ServerBreaks
  <2>2. McpTypeOK'
    BY <1>2, <1>3, <2>1 DEF ServerBreaks, McpTypeOK, server
  <2>3. QED
    BY <1>1, <1>3, <2>2 DEF ServerBreaks
<1>4. CASE Closes
  <2>1. McpTypeOK'
    BY <1>2, <1>4 DEF Closes, McpTypeOK, server
  <2>2. QED
    BY <1>1, <1>4, <2>1 DEF Closes
<1>5. CASE TransportCloses
  <2>1. McpTypeOK'
    BY <1>5 DEF TransportCloses, McpTypeOK, server, requests
  <2>2. QED
    BY <1>5, <2>1, CallsInvParts DEF TransportCloses, requests
<1>6. QED
  BY <1>3, <1>4, <1>5

\* Every step of a session keeps the invariant.
LEMMA CallsInvStep == CallsInv /\ [McpNext]_mcpvars => CallsInv'
<1> SUFFICES ASSUME CallsInv, [McpNext]_mcpvars
             PROVE  CallsInv'
  OBVIOUS
<1>1. CASE McpNext
  BY <1>1, CallsStep, ProceedsStep, SendFailsStep, ExpiresStep, ReceivesStep, SessionStep
     DEF McpNext
<1>2. CASE UNCHANGED mcpvars
  BY <1>2 DEF mcpvars, CallsInv, McpTypeOK, CallsAreServed, NobodyWaitsInVain, PendingIsOwned,
       WaitersAreRegistered, DoneIsForgotten, ClosedIsFailed
<1>3. QED
  BY <1>1, <1>2

\* A session begins with nobody waiting.
LEMMA CallsInvInit == McpInit => CallsInv
<1> SUFFICES ASSUME McpInit
             PROVE  CallsInv
  OBVIOUS
<1>1. reader \in BOOLEAN
  BY DEF McpInit
<1>2. /\ kind \in {"stdio", "http"} /\ state = "new" /\ failure = FALSE /\ transport = "up"
      /\ pc = [c \in Callers |-> "idle"] /\ fut = [c \in Callers |-> "none"] /\ pending = {}
      /\ why = [c \in Callers |-> "none"] /\ outcome = [c \in Callers |-> "none"]
      /\ owed = [c \in Callers |-> 0] /\ wire = [c \in Callers |-> 0]
      /\ closer = FALSE /\ faults = 0
  BY DEF McpInit
<1>3. {failure, reader, closer} \subseteq BOOLEAN
  BY <1>1, <1>2, Zenon
<1>4. McpTypeOK
  BY <1>2, <1>3, McpAssumption, SMT DEF McpTypeOK
<1>5. QED
  BY <1>2, <1>4 DEF CallsInv, CallsAreServed, NobodyWaitsInVain, PendingIsOwned,
       WaitersAreRegistered, DoneIsForgotten, ClosedIsFailed

\* For any number of requests over either transport, however they expire, are cancelled,
\* refused or answered twice: none waits for an answer that cannot come, and none stays
\* registered after its caller has left.  (mcp/jsonrpc.py, mcp/session.py.)
THEOREM CallsStayServed == McpSpec => []CallsAreServed
<1>1. CallsInv => CallsAreServed
  BY DEF CallsInv
<1>2. QED
  BY <1>1, CallsInvInit, CallsInvStep, PTL DEF McpSpec

\* Every reachable state of a session is well typed.  (mcp/session.py.)
THEOREM McpTypes == McpSpec => []McpTypeOK
<1>1. CallsInv => McpTypeOK
  BY DEF CallsInv
<1>2. QED
  BY <1>1, CallsInvInit, CallsInvStep, PTL DEF McpSpec

-----------------------------------------------------------------------------
(* ProgramLifecycle *)

Names == {"pool", "janitor", "session", "hooks", "memory", "archive", "mcp", "skills", "tasks",
          "team"}

\* The parts that main assembles are these ten.
LEMMA AssemblyIs == Assembly \in Seq(Names) /\ Len(Assembly) = 10
<1>1. Configuration \in Seq(Names) /\ Len(Configuration) = 3
  BY DEF Configuration, Names
<1>2. Runtimes \in Seq(Names) /\ Len(Runtimes) = 4
  BY DEF Runtimes, Names
<1>3. Agents \in Seq(Names) /\ Len(Agents) = 2
  BY DEF Agents, Names
<1>4. Teams \in Seq(Names) /\ Len(Teams) = 1
  BY DEF Teams, Names
<1>5. /\ Configuration \o Runtimes \in Seq(Names)
      /\ Len(Configuration \o Runtimes) = Len(Configuration) + Len(Runtimes)
  BY <1>1, <1>2, ConcatProperties, Zenon
<1>6. /\ (Configuration \o Runtimes) \o Agents \in Seq(Names)
      /\ Len((Configuration \o Runtimes) \o Agents) = Len(Configuration \o Runtimes) + Len(Agents)
  BY <1>3, <1>5, ConcatProperties, Zenon
<1>7. /\ ((Configuration \o Runtimes) \o Agents) \o Teams \in Seq(Names)
      /\ Len(((Configuration \o Runtimes) \o Agents) \o Teams)
           = Len((Configuration \o Runtimes) \o Agents) + Len(Teams)
  BY <1>4, <1>6, ConcatProperties, Zenon
<1>8. Len(((Configuration \o Runtimes) \o Agents) \o Teams) = 10
  BY <1>1, <1>2, <1>3, <1>4, <1>5, <1>6, <1>7
<1>9. QED
  BY <1>7, <1>8 DEF Assembly

\* They are the parts, and every step of the assembly makes one.
LEMMA PartsAre == Parts = Names /\ \A i \in 1..10 : Assembly[i] \in Parts
<1>1. DOMAIN Assembly = 1..10
  BY AssemblyIs, LenProperties
<1>2. \A i \in 1..10 : Assembly[i] \in Names
  BY AssemblyIs, ElementOfSeq
<1>3. /\ Assembly[1] = "pool" /\ Assembly[2] = "janitor" /\ Assembly[3] = "session"
      /\ Assembly[4] = "hooks" /\ Assembly[5] = "memory" /\ Assembly[6] = "archive"
      /\ Assembly[7] = "mcp" /\ Assembly[8] = "skills" /\ Assembly[9] = "tasks"
      /\ Assembly[10] = "team"
  BY DEF Assembly, Configuration, Runtimes, Agents, Teams
<1>4. Names \subseteq Parts
  BY <1>1, <1>3 DEF Names, Parts, ToSet
<1>5. QED
  BY <1>1, <1>2, <1>4 DEF Parts, ToSet

\* The nine closes of the conversation: members, sub-agents, the janitor and the memory come
\* before the session is said to end, the hooks come last.
LEMMA TeardownIs ==
    /\ Len(Teardown) = 9
    /\ Teardown[1] = "team" /\ Teardown[2] = "tasks" /\ Teardown[3] = "janitor"
    /\ Teardown[4] = "memory" /\ Teardown[5] = "session.end" /\ Teardown[6] = "session"
    /\ Teardown[7] = "skills" /\ Teardown[8] = "archive" /\ Teardown[9] = "hooks"
BY DEF Teardown

\* The finally clause closes every part but the skills.
LEMMA FinallyIs ==
    /\ Len(Finally) = 9 /\ \A i \in 1..9 : Finally[i] \in Parts
    /\ \A p \in Parts \ {"skills"} : \E i \in 1..9 : Finally[i] = p
<1>1. /\ Len(Finally) = 9 /\ Finally[1] = "team" /\ Finally[2] = "memory" /\ Finally[3] = "tasks"
      /\ Finally[4] = "pool" /\ Finally[5] = "janitor" /\ Finally[6] = "session"
      /\ Finally[7] = "archive" /\ Finally[8] = "mcp" /\ Finally[9] = "hooks"
  BY DEF Finally
<1>2. QED
  BY <1>1, PartsAre DEF Names

\* Nothing is closed before the conversation is, and nothing works before it starts or after
\* the loop has ended.
NothingClosedEarly ==
    at \in {"assemble", "trust", "greet", "prompt"} =>
        told # "ended" /\ \A p \in Parts : part[p] \in {"none", "open"}
NothingWorksOutside == at \in {"assemble", "trust", "finally", "over"} => work = {}

\* As the conversation is closed, without a mishap, what was passed does not work any more;
\* only what was passed is closed; the session is said to end at its place.
PassedIsStopped ==
    at = "close" =>
        /\ next \in 1..10
        /\ mishaps = 0 => \A i \in 1..next - 1 : Teardown[i] \notin work
        /\ \A p \in Parts : part[p] = "closed" => \E i \in 1..next - 1 : Teardown[i] = p
        /\ told = "ended" => next > 5

\* What the finally clause has passed is not open.
PassedIsClosed ==
    at = "finally" => next \in 1..10 /\ \A i \in 1..next - 1 : part[Finally[i]] # "open"

ExitInv ==
    /\ ProgramTypeOK /\ NothingClosedEarly /\ NothingWorksOutside
    /\ PassedIsStopped /\ PassedIsClosed /\ FinallyPicksUp

\* The invariant gives the order in which users are stopped.
LEMMA ExitInvOrderly == ExitInv => ExitIsOrderly
<1> SUFFICES ASSUME ExitInv, mishaps = 0
             PROVE  UsersStopFirst
  BY DEF ExitInv, ExitIsOrderly, UsersStopFirst
<1>1. CASE at = "close"
  <2>1. ASSUME NEW p \in Parts, part[p] = "closed"
        PROVE  work \cap UsersOf(p) = {}
    <3>1. PICK i \in 1..next - 1 : Teardown[i] = p
      BY <1>1, <2>1 DEF ExitInv, PassedIsStopped
    <3>2. i \in 1..9 /\ next \in 1..10
      BY <1>1 DEF ExitInv, PassedIsStopped
    <3>3. CASE p = "hooks"
      <4>1. i = 9
        BY <3>1, <3>2, <3>3, TeardownIs
      <4>2. "team" \notin work /\ "tasks" \notin work /\ "memory" \notin work
        BY <1>1, <3>1, <3>2, <4>1, TeardownIs DEF ExitInv, PassedIsStopped
      <4>3. QED
        BY <3>3, <4>2 DEF UsersOf
    <3>4. CASE p # "hooks"
      <4>1. p \notin {"pool", "mcp"}
        BY <3>1, <3>2, TeardownIs
      <4>2. QED
        BY <3>4, <4>1 DEF UsersOf
    <3>5. QED
      BY <3>3, <3>4
  <2>2. ASSUME told = "ended"
        PROVE  work \subseteq {"hooks"}
    <3>1. next \in 1..10 /\ next > 5
      BY <1>1, <2>2 DEF ExitInv, PassedIsStopped
    <3>2. /\ "team" \notin work /\ "tasks" \notin work
          /\ "janitor" \notin work /\ "memory" \notin work
      BY <1>1, <3>1, TeardownIs DEF ExitInv, PassedIsStopped
    <3>3. QED
      BY <3>2 DEF ExitInv, ProgramTypeOK, Workers
  <2>3. QED
    BY <2>1, <2>2 DEF UsersStopFirst
<1>2. CASE at \in {"finally", "over"}
  BY <1>2 DEF ExitInv, NothingWorksOutside, UsersStopFirst
<1>3. CASE at \in {"assemble", "trust", "greet", "prompt"}
  BY <1>3 DEF ExitInv, NothingClosedEarly, UsersStopFirst
<1>4. QED
  BY <1>1, <1>2, <1>3 DEF ExitInv, ProgramTypeOK

\* The start, up to the prompt, and the turns.
LEMMA StartStep ==
    ASSUME ExitInv, \/ Opens \/ StartFails \/ Assembled \/ Trusted \/ Greeted \/ GreetingFails
                    \/ Works \/ WorkEnds \/ Strands \/ Exits
    PROVE  ExitInv'
<1> USE AssemblyIs, ProgramAssumption
    DEF ExitInv, ProgramTypeOK, NothingClosedEarly, NothingWorksOutside, PassedIsStopped,
        PassedIsClosed, FinallyPicksUp
<1>1. CASE Opens
  <2>1. next \in 1..10 /\ Assembly[next] \in Parts
    BY <1>1, PartsAre DEF Opens
  <2>2. /\ part' \in [Parts -> {"none", "open", "cut", "closed"}]
        /\ \A p \in Parts : part'[p] \in {"none", "open"}
    BY <1>1, <2>1 DEF Opens
  <2>3. QED
    BY <1>1, <2>1, <2>2 DEF Opens
<1>2. CASE StartFails
  BY <1>2 DEF StartFails, Mishap
<1>3. CASE Assembled
  BY <1>3 DEF Assembled
<1>4. CASE Trusted
  BY <1>4 DEF Trusted
<1>5. CASE Greeted
  BY <1>5 DEF Greeted, Workers
<1>6. CASE GreetingFails
  <2>1. stranded' \in BOOLEAN
    BY <1>6 DEF GreetingFails, LoopEnds
  <2>2. told' \in {"none", "started", "ended"}
    BY <1>6 DEF GreetingFails
  <2>3. QED
    BY <1>6, <2>1, <2>2 DEF GreetingFails, LoopEnds, Mishap
<1>7. CASE Works
  BY <1>7 DEF Works
<1>8. CASE WorkEnds
  BY <1>8 DEF WorkEnds
<1>9. CASE Strands
  BY <1>9 DEF Strands, Mishap
<1>10. CASE Exits
  BY <1>10 DEF Exits
<1>11. QED
  BY <1>1, <1>2, <1>3, <1>4, <1>5, <1>6, <1>7, <1>8, <1>9, <1>10

\* The close of the conversation, in its order, failing and interrupted.
LEMMA CloseStepKeeps ==
    ASSUME ExitInv, CloseStep \/ Closed \/ CloseInterrupted
    PROVE  ExitInv'
<1> USE AssemblyIs, TeardownIs, ProgramAssumption
    DEF ExitInv, ProgramTypeOK, NothingClosedEarly, NothingWorksOutside, PassedIsStopped,
        PassedIsClosed, FinallyPicksUp
<1>1. CASE CloseStep
  <2> DEFINE p == Teardown[next]
  <2>1. at = "close" /\ next \in 1..9 /\ abandoned' = abandoned
    BY <1>1 DEF CloseStep
  <2>2. CASE p = "session.end" /\ told' = "ended" /\ next' = next + 1
             /\ UNCHANGED <<at, part, work, stranded, mishaps>>
    <3>1. next = 5
      BY <2>1, <2>2
    <3>2. p \notin work
      BY <2>2 DEF Workers
    <3>3. QED
      BY <2>1, <2>2, <3>1, <3>2
  <2>3. CASE p = "memory" /\ stranded /\ LoopEnds /\ UNCHANGED <<part, told, mishaps>>
    BY <2>1, <2>3 DEF LoopEnds
  <2>4. CASE p = "team" /\ Mishap /\ part' = [part EXCEPT ![p] = "cut"] /\ next' = next + 1
             /\ UNCHANGED <<at, work, told, stranded>>
    <3>1. next = 1
      BY <2>1, <2>4
    <3>2. mishaps' # 0 /\ mishaps' \in 0..MaxMishaps
      BY <2>4 DEF Mishap
    <3>3. /\ part' \in [Parts -> {"none", "open", "cut", "closed"}]
          /\ \A q \in Parts : part'[q] = "closed" => part[q] = "closed"
      BY <2>4
    <3>4. next' = 2 /\ \A q \in Parts : part'[q] # "closed"
      BY <2>1, <2>4, <3>1, <3>3
    <3>5. told' # "ended"
      BY <2>1, <2>4, <3>1
    <3>6. QED
      BY <2>1, <2>4, <3>2, <3>3, <3>4, <3>5
  <2>5. CASE p # "session.end" /\ (p = "memory" => ~stranded /\ p \notin work)
             /\ Finishes(p) /\ next' = next + 1 /\ UNCHANGED <<at, told, stranded, mishaps>>
    <3>1. /\ part' \in [Parts -> {"none", "open", "cut", "closed"}] /\ work' = work \ {p}
          /\ \A q \in Parts : part'[q] = "closed" => q = p \/ part[q] = "closed"
      BY <2>5 DEF Finishes
    <3>2. next' \in 1..10 /\ 1..next' - 1 = (1..next - 1) \cup {next}
      BY <2>1, <2>5
    <3>3. QED
      BY <2>1, <2>5, <3>1, <3>2
  <2>6. QED
    BY <1>1, <2>2, <2>3, <2>4, <2>5 DEF CloseStep
<1>2. CASE Closed
  <2>1. stranded' \in BOOLEAN
    BY <1>2 DEF Closed, LoopEnds
  <2>2. QED
    BY <1>2, <2>1 DEF Closed, LoopEnds
<1>3. CASE CloseInterrupted
  <2>1. stranded' \in BOOLEAN
    BY <1>3 DEF CloseInterrupted, LoopEnds
  <2>2. part' \in [Parts -> {"none", "open", "cut", "closed"}]
    BY <1>3 DEF CloseInterrupted
  <2>3. QED
    BY <1>3, <2>1, <2>2 DEF CloseInterrupted, LoopEnds, Mishap
<1>4. QED
  BY <1>1, <1>2, <1>3

\* The finally clause, to its end or cut short.
LEMMA FinallyKeeps ==
    ASSUME ExitInv, FinalStep \/ FinalInterrupted \/ MainEnds
    PROVE  ExitInv'
<1> USE AssemblyIs, FinallyIs, ProgramAssumption
    DEF ExitInv, ProgramTypeOK, NothingClosedEarly, NothingWorksOutside, PassedIsStopped,
        PassedIsClosed, FinallyPicksUp
<1>1. CASE FinalStep
  <2>1. at = "finally" /\ next \in 1..9 /\ UNCHANGED <<work, told, stranded, abandoned, mishaps>>
    BY <1>1 DEF FinalStep
  <2>2. CASE Finally[next] = "memory" /\ part[Finally[next]] # "none" /\ stranded
    BY <1>1, <2>1, <2>2 DEF FinalStep
  <2>3. CASE ~(Finally[next] = "memory" /\ part[Finally[next]] # "none" /\ stranded)
    <3>1. /\ next' = next + 1 /\ at' = at
          /\ part' = [part EXCEPT ![Finally[next]] = IF @ = "open" THEN "closed" ELSE @]
      BY <1>1, <2>3 DEF FinalStep
    <3>2. /\ part' \in [Parts -> {"none", "open", "cut", "closed"}]
          /\ \A q \in Parts : part[q] # "open" => part'[q] # "open"
          /\ part'[Finally[next]] # "open"
      BY <2>1, <3>1
    <3>3. \A i \in 1..next' - 1 : part'[Finally[i]] # "open"
      <4>1. TAKE i \in 1..next' - 1
      <4>2. i \in 1..9 /\ (i \in 1..next - 1 \/ i = next)
        BY <2>1, <3>1
      <4>3. QED
        BY <2>1, <3>2, <4>2
    <3>4. QED
      BY <2>1, <3>1, <3>2, <3>3
  <2>4. QED
    BY <2>2, <2>3
<1>2. CASE FinalInterrupted
  BY <1>2 DEF FinalInterrupted, Mishap
<1>3. CASE MainEnds
  BY <1>3 DEF MainEnds
<1>4. QED
  BY <1>1, <1>2, <1>3

\* Every step of the program keeps the invariant.
LEMMA ExitInvStep == ExitInv /\ [ProgramNext]_programvars => ExitInv'
<1> SUFFICES ASSUME ExitInv, [ProgramNext]_programvars
             PROVE  ExitInv'
  OBVIOUS
<1>1. CASE ProgramNext
  BY <1>1, StartStep, CloseStepKeeps, FinallyKeeps DEF ProgramNext
<1>2. CASE UNCHANGED programvars
  BY <1>2 DEF programvars, ExitInv, ProgramTypeOK, NothingClosedEarly, NothingWorksOutside,
       PassedIsStopped, PassedIsClosed, FinallyPicksUp
<1>3. QED
  BY <1>1, <1>2

\* The program begins with nothing made.
LEMMA ExitInvInit == ProgramInit => ExitInv
<1> SUFFICES ASSUME ProgramInit
             PROVE  ExitInv
  OBVIOUS
<1>1. ProgramTypeOK
  <2>1. next \in 1..Len(Assembly) + 1 /\ mishaps \in 0..MaxMishaps
    BY AssemblyIs, ProgramAssumption DEF ProgramInit
  <2>2. QED
    BY <2>1, Zenon DEF ProgramInit, ProgramTypeOK
<1>2. QED
  BY <1>1 DEF ProgramInit, ExitInv, NothingClosedEarly, NothingWorksOutside,
       PassedIsStopped, PassedIsClosed, FinallyPicksUp

\* However many steps of the start and of the closes raise, and wherever Ctrl-C is pressed:
\* nothing is closed under its users as long as nothing fails, and the finally clause closes
\* what the conversation left open, unless it is itself cut short.  (cli.py, conversation.py.)
THEOREM ExitStaysOrderly == ProgramSpec => []ExitIsOrderly
BY ExitInvOrderly, ExitInvInit, ExitInvStep, PTL DEF ProgramSpec

\* Every reachable state of the program is well typed.  (cli.py.)
THEOREM ProgramTypes == ProgramSpec => []ProgramTypeOK
<1>1. ExitInv => ProgramTypeOK
  BY DEF ExitInv
<1>2. QED
  BY <1>1, ExitInvInit, ExitInvStep, PTL DEF ProgramSpec

-----------------------------------------------------------------------------
(* AgentTurn *)

\* What a history consists of.
Messages == [what : {"user", "inbound", "summary", "answer", "final", "group"},
             calls : SUBSET CallIds, answered : SUBSET CallIds]

\* The types, with the bounds an iteration and a series of refusals keep.
AgentTypes ==
    /\ AgentTypeOK /\ asked \in BOOLEAN /\ userIn \in BOOLEAN
    /\ callKind \in [CallIds -> {"read", "write", "control"}]
    /\ working \in Seq(Messages) /\ extra \in Seq(Messages) /\ committed \in Seq(Messages)
    /\ inbox.waiting + inbox.left <= MaxInbound
    /\ turnAt # "over" => refused < Limit
    /\ mode = "direct" => iter <= Iterations
    /\ turnAt \in {"tools", "launched", "collect"} =>
         iter <= Iterations /\ (mode = "direct" => iter < Iterations)

\* A result was yielded of the calls that are over, and of no other.
YieldedWhenDone == \A c \in CallIds : yielded[c] = IF call[c] = "done" THEN 1 ELSE 0

\* While the run goes on the session holds what the model is asked with, the investigation of
\* a plan included; or, before its first commit, all of that but the user's message.
CommittedIsWorking ==
    /\ mode = "direct" => extra = <<>>
    /\ turnAt \in {"tools", "launched", "collect"} => extra = <<>>
    /\ turnAt # "over" /\ userIn => committed = working \o extra
    /\ turnAt # "over" /\ ~userIn => extra = <<>> /\ working = committed \o <<User>>

AgentInv == AgentTypes /\ YieldedWhenDone /\ CommittedIsWorking

-----------------------------------------------------------------------------
\* The messages are what histories consist of.
LEMMA MessageTypes ==
    /\ User \in Messages /\ Item("summary") \in Messages /\ Item("inbound") \in Messages
    /\ Item("answer") \in Messages /\ Item("final") \in Messages /\ Group \in Messages
    /\ \A b \in 1..MaxInbound : [i \in 1..b |-> Item("inbound")] \in Seq(Messages)
<1>1. \A w \in {"user", "inbound", "summary", "answer", "final"} : Item(w) \in Messages
  BY DEF Item, Messages
<1>2. Group \in Messages
  BY DEF Group, Messages
<1>3. \A b \in 1..MaxInbound : [i \in 1..b |-> Item("inbound")] \in Seq(Messages)
  BY <1>1, AgentAssumption
<1> QED  BY <1>1, <1>2, <1>3 DEF User

\* A concatenation has its first part as its beginning.
LEMMA Extends ==
    ASSUME NEW s \in Seq(Messages), NEW t \in Seq(Messages)
    PROVE  /\ s \o t \in Seq(Messages) /\ Len(s) <= Len(s \o t)
           /\ SubSeq(s \o t, 1, Len(s)) = s
<1>1. /\ s \o t \in Seq(Messages) /\ Len(s \o t) = Len(s) + Len(t)
      /\ Len(s) \in Nat /\ Len(t) \in Nat
      /\ \A i \in 1..Len(s) : (s \o t)[i] = s[i]
  BY ConcatProperties, LenProperties
<1> DEFINE a == s \o t
           p == SubSeq(a, 1, Len(s))
<1>2. \A i \in 1..Len(s) : a[i] \in Messages
  BY <1>1, ElementOfSeq
<1>3. p \in Seq(Messages) /\ Len(p) = Len(s) /\ \A i \in 1..Len(s) : p[i] = a[i]
  BY <1>1, <1>2, SubSeqProperties
<1>4. p = s
  <2> HIDE DEF p
  <2> QED  BY <1>1, <1>3, SeqEqual
<1> QED  BY <1>1, <1>4

\* What a step may do to the history in the session.
Grows == \/ Len(committed) <= Len(committed') /\ SubSeq(committed', 1, Len(committed)) = committed
         \/ committed' # <<>> /\ committed'[1] = Item("summary")

\* The parts of the types a commit touches, and the rest.
HistoryTypes == working \in Seq(Messages) /\ extra \in Seq(Messages) /\ committed \in Seq(Messages)

\* A step that commits nothing.
LEMMA HistoryStays ==
    ASSUME AgentInv, UNCHANGED <<working, extra, committed, userIn, mode>>,
           turnAt' # "over" => turnAt # "over",
           turnAt' \in {"tools", "launched", "collect"} => extra = <<>>
    PROVE  HistoryTypes' /\ CommittedIsWorking' /\ Grows
<1>1. SubSeq(committed, 1, Len(committed)) = committed /\ Len(committed) <= Len(committed)
  <2>1. committed \in Seq(Messages) /\ <<>> \in Seq(Messages) /\ committed \o <<>> = committed
    BY ConcatEmptySeq DEF AgentInv, AgentTypes
  <2> QED  BY <2>1, Extends
<1> QED  BY <1>1 DEF AgentInv, AgentTypes, HistoryTypes, CommittedIsWorking, Grows

\* A commit of what the model was asked with and more, and what becomes of the rest.
LEMMA CommitsMore ==
    ASSUME HistoryTypes, CommittedIsWorking, turnAt # "over", NEW more \in Seq(Messages),
           committed' = (working \o extra) \o more
    PROVE  committed' \in Seq(Messages) /\ Grows
<1>1. working \o extra \in Seq(Messages)
  BY Extends DEF HistoryTypes
<1>2. committed' \in Seq(Messages)
  BY <1>1, Extends
<1>3. CASE userIn
  BY <1>1, <1>3, Extends DEF CommittedIsWorking, Grows
<1>4. CASE ~userIn
  <2> DEFINE u == <<User>>
  <2>1. u \in Seq(Messages)
    BY MessageTypes
  <2>2. working \o extra = committed \o u /\ u \o more \in Seq(Messages)
    <3>1. working \o extra = working
      BY <1>4, ConcatEmptySeq DEF CommittedIsWorking, HistoryTypes
    <3> QED  BY <1>4, <2>1, <3>1, Extends DEF CommittedIsWorking
  <2>3. committed' = committed \o (u \o more)
    <3> HIDE DEF u
    <3> QED  BY <2>1, <2>2, ConcatAssociative DEF HistoryTypes
  <2> QED  BY <1>2, <2>2, <2>3, Extends DEF HistoryTypes, Grows
<1> QED  BY <1>2, <1>3, <1>4

\* Poll: a batch of the team's messages follows what was committed.
LEMMA PollHistory == ASSUME AgentInv, Poll PROVE HistoryTypes' /\ CommittedIsWorking' /\ Grows
<1>0. HistoryTypes /\ CommittedIsWorking /\ turnAt = "poll" /\ mode' = mode
  BY DEF AgentInv, AgentTypes, HistoryTypes, Poll
<1>1. CASE UNCHANGED <<working, extra, committed, userIn>>
  BY <1>0, <1>1, HistoryStays DEF Poll, Finish
<1> DEFINE base == IF userIn THEN committed ELSE working
           batch == [i \in 1..inbox.waiting |-> Item("inbound")]
<1>2. CASE /\ base = working /\ extra' = extra /\ userIn' = TRUE
           /\ committed' = working \o batch /\ working' = working \o batch
           /\ inbox.waiting # 0 /\ turnAt' = "model"
  <2>1. batch \in Seq(Messages)
    <3>1. inbox.waiting \in 1..MaxInbound
      BY <1>2, AgentAssumption DEF AgentInv, AgentTypes, AgentTypeOK
    <3> QED  BY <3>1, MessageTypes
  <2>2. extra = <<>>
    <3>1. CASE userIn
      <4>1. working \o extra = working /\ working \in Seq(Messages) /\ extra \in Seq(Messages)
        BY <1>0, <1>2, <3>1 DEF CommittedIsWorking, HistoryTypes
      <4>2. Len(working) + Len(extra) = Len(working) /\ Len(extra) \in Nat /\ Len(working) \in Nat
        BY <4>1, ConcatProperties, LenProperties
      <4> QED  BY <4>1, <4>2, EmptySeq
    <3> QED  BY <1>0, <3>1 DEF CommittedIsWorking
  <2>3. working \o extra = working
    BY <1>0, <2>2, ConcatEmptySeq DEF HistoryTypes
  <2> HIDE DEF batch
  <2>4. committed' \in Seq(Messages) /\ Grows
    BY <1>0, <1>2, <2>1, <2>3, CommitsMore
  <2>5. working' \o extra' = committed'
    BY <1>2, <2>2, <2>4, ConcatEmptySeq
  <2> QED  BY <1>0, <1>2, <2>2, <2>4, <2>5 DEF HistoryTypes, CommittedIsWorking
<1>3. CASE committed' = base /\ userIn' = TRUE /\ UNCHANGED <<working, extra>> /\ turnAt' = "over"
  <2>1. CASE userIn
    BY <1>0, <1>3, <2>1, HistoryStays
  <2>2. CASE ~userIn
    <3>1. committed' = committed \o <<User>> /\ <<User>> \in Seq(Messages)
      BY <1>0, <1>3, <2>2, MessageTypes DEF CommittedIsWorking
    <3>2. committed' \in Seq(Messages) /\ Grows
      BY <1>0, <3>1, Extends DEF HistoryTypes, Grows
    <3> QED  BY <1>0, <1>3, <3>2 DEF HistoryTypes, CommittedIsWorking
  <2> QED  BY <2>1, <2>2
<1> QED  BY <1>1, <1>2, <1>3 DEF Poll, Finish, history

\* Compact: the messages are replaced by their summary.
LEMMA CompactHistory == ASSUME AgentInv, Compact PROVE HistoryTypes' /\ CommittedIsWorking' /\ Grows
<1>0. HistoryTypes /\ CommittedIsWorking /\ turnAt = "model" /\ mode' = mode
  BY DEF AgentInv, AgentTypes, HistoryTypes, Compact
<1> DEFINE base == <<Item("summary")>>
<1>1. CASE UNCHANGED <<working, extra, committed, userIn>> /\ turnAt' = "over"
  BY <1>0, <1>1, HistoryStays
<1>2. CASE /\ committed' = base \o extra /\ working' = (IF userIn THEN base ELSE base \o <<User>>)
           /\ UNCHANGED <<turnAt, extra, userIn>>
  <2>1. /\ base \in Seq(Messages) /\ <<User>> \in Seq(Messages)
        /\ Len(base) = 1 /\ base[1] = Item("summary")
    BY MessageTypes
  <2> HIDE DEF base
  <2>2. base \o extra \in Seq(Messages) /\ base \o <<User>> \in Seq(Messages)
    BY <1>0, <2>1, Extends DEF HistoryTypes
  <2>3. Grows
    <3>1. Len(committed') = 1 + Len(extra) /\ committed'[1] = Item("summary") /\ Len(extra) \in Nat
      <4>1. /\ Len(base \o extra) = Len(base) + Len(extra) /\ Len(extra) \in Nat
            /\ \A i \in 1..(Len(base) + Len(extra)) :
                 (base \o extra)[i] = IF i <= Len(base) THEN base[i] ELSE extra[i - Len(base)]
        BY <1>0, <2>1, ConcatProperties, LenProperties DEF HistoryTypes
      <4>2. 1 \in 1..(Len(base) + Len(extra)) /\ 1 <= Len(base)
        BY <2>1, <4>1
      <4>3. (base \o extra)[1] = base[1]
        BY <4>1, <4>2
      <4> QED  BY <1>2, <2>1, <4>1, <4>3
    <3>2. committed' # <<>>
      BY <1>2, <2>2, <3>1, EmptySeq
    <3> QED  BY <3>1, <3>2 DEF Grows
  <2>4. extra = <<>> => base \o extra = base
    BY <2>1, ConcatEmptySeq
  <2> QED  BY <1>0, <1>2, <2>1, <2>2, <2>3, <2>4 DEF HistoryTypes, CommittedIsWorking
<1> QED  BY <1>1, <1>2 DEF Compact, Commit, Finish

\* Answers: the answer is committed, and of a plan it is kept as investigation.
LEMMA AnswersHistory == ASSUME AgentInv, Answers PROVE HistoryTypes' /\ CommittedIsWorking' /\ Grows
<1>0. HistoryTypes /\ CommittedIsWorking /\ turnAt = "model" /\ mode' = mode
  BY DEF AgentInv, AgentTypes, HistoryTypes, Answers
<1>1. CASE UNCHANGED <<working, extra, committed, userIn>> /\ turnAt' = "over"
  BY <1>0, <1>1, HistoryStays
<1>2. CASE /\ committed' = working \o extra \o Answer /\ userIn' = TRUE /\ working' = working
           /\ \/ mode = "plan" /\ extra' = extra \o Answer /\ turnAt' = "poll"
              \/ extra' = extra /\ turnAt' = "over"
  <2>1. Answer \in Seq(Messages)
    BY MessageTypes DEF Answer
  <2>2. committed' = (working \o extra) \o Answer
    BY <1>2
  <2>3. committed' \in Seq(Messages) /\ Grows
    BY <1>0, <2>1, <2>2, CommitsMore
  <2>4. extra \o Answer \in Seq(Messages)
    BY <1>0, <2>1, Extends DEF HistoryTypes
  <2>5. (working \o extra) \o Answer = working \o (extra \o Answer)
    BY <1>0, <2>1, ConcatAssociative DEF HistoryTypes
  <2> QED  BY <1>0, <1>2, <2>2, <2>3, <2>4, <2>5 DEF HistoryTypes, CommittedIsWorking
<1> QED  BY <1>1, <1>2 DEF Answers, Commit, Finish

\* GroupEnds: the group is committed, and the model is asked with it.
LEMMA GroupHistory == ASSUME AgentInv, GroupEnds PROVE HistoryTypes' /\ CommittedIsWorking' /\ Grows
<1>0. HistoryTypes /\ CommittedIsWorking /\ turnAt = "tools" /\ mode' = mode /\ extra = <<>>
  BY DEF AgentInv, AgentTypes, HistoryTypes, GroupEnds, CommittedIsWorking
<1>1. CASE UNCHANGED <<working, extra, committed, userIn>> /\ turnAt' = "over"
  BY <1>0, <1>1, HistoryStays
<1>2. CASE /\ committed' = working \o <<Group>> /\ working' = working \o <<Group>>
           /\ userIn' = TRUE /\ extra' = extra /\ turnAt' \in {"over", "poll"}
  <2> DEFINE g == <<Group>>
  <2>1. g \in Seq(Messages)
    BY MessageTypes
  <2> HIDE DEF g
  <2>2. committed' = (working \o extra) \o g /\ working' = working \o g
    BY <1>0, <1>2, ConcatEmptySeq DEF HistoryTypes, g
  <2>3. committed' \in Seq(Messages) /\ Grows
    BY <1>0, <2>1, <2>2, CommitsMore
  <2>4. working' \o extra' = committed'
    BY <1>0, <1>2, <2>3, ConcatEmptySeq
  <2> QED  BY <1>0, <1>2, <2>3, <2>4 DEF HistoryTypes, CommittedIsWorking
<1> QED  BY <1>1, <1>2 DEF GroupEnds, Commit, Finish

\* No other step touches a history.
LEMMA HistoryStep ==
    AgentInv /\ [AgentNext]_agentvars => HistoryTypes' /\ CommittedIsWorking' /\ Grows
<1> SUFFICES ASSUME AgentInv, [AgentNext]_agentvars
             PROVE  HistoryTypes' /\ CommittedIsWorking' /\ Grows
  OBVIOUS
<1>1. CASE Poll \/ Compact \/ Answers \/ GroupEnds
  BY <1>1, PollHistory, CompactHistory, AnswersHistory, GroupHistory
<1>2. CASE UNCHANGED agentvars
  BY <1>2, HistoryStays DEF agentvars, AgentInv, CommittedIsWorking
<1>3. CASE Arrives \/ ModelFails
  BY <1>3, HistoryStays DEF Arrives, ModelFails, history, Finish, AgentInv, CommittedIsWorking
<1>4. ASSUME NEW kinds \in [CallIds -> {"read", "write", "control"}], Requests(kinds)
      PROVE  HistoryTypes' /\ CommittedIsWorking' /\ Grows
  <2>1. extra = <<>>
    BY <1>4 DEF Requests, Finalizing, AgentInv, AgentTypes, AgentTypeOK, CommittedIsWorking
  <2> QED  BY <1>4, <2>1, HistoryStays DEF Requests, history, Finish
<1>5. CASE ScheduleSteps
  <2>1. UNCHANGED <<working, extra, committed, userIn, mode>>
    BY <1>5 DEF ScheduleSteps, Launch, Notices, Unwinds, TakesTheRest, BatchEnds, Prepares, Passes,
                ControlEnds, Starts, Returns, Takes, history
  <2>2. turnAt \in {"tools", "launched", "collect"} \/ (turnAt = "cut" /\ turnAt' \in {"cut", "left"})
    BY <1>5 DEF ScheduleSteps, Launch, Notices, Unwinds, TakesTheRest, BatchEnds, Prepares, Passes,
                ControlEnds, Starts, Returns, Takes
  <2> QED  BY <2>1, <2>2, HistoryStays DEF AgentInv, CommittedIsWorking
<1>6. CASE Cancel \/ Interrupt \/ Close
  <2>1. UNCHANGED <<working, extra, committed, userIn, mode>> /\ turnAt # "over"
    BY <1>6 DEF Cancel, Interrupt, Close, history
  <2>2. \/ turnAt' \in {turnAt, "over", "cut", "left"}
        \/ turnAt = "launched" /\ turnAt' = "collect"
    BY <1>6 DEF Cancel, Interrupt, Close, Finish
  <2> QED  BY <2>1, <2>2, HistoryStays DEF AgentInv, CommittedIsWorking
<1> QED  BY <1>1, <1>2, <1>3, <1>4, <1>5, <1>6 DEF AgentNext, RunnerSteps

-----------------------------------------------------------------------------
(* the schedule *)

\* The states of a call and its results.
States == {"none", "due", "before", "prepared", "queued", "running", "after", "ended", "lost",
           "gone", "done"}
Results == {"none", "ok", "denied", "cancelled", "pause"}
ScheduleTypes == /\ call \in [CallIds -> States] /\ result \in [CallIds -> Results]
                 /\ yielded \in [CallIds -> 0..2] /\ YieldedWhenDone

\* A call that is answered.
LEMMA TellOnce ==
    ASSUME ScheduleTypes, NEW c \in CallIds, NEW r \in Results, Tell(c, r), call[c] # "done"
    PROVE  ScheduleTypes' /\ call' = [call EXCEPT ![c] = "done"]
<1>1. yielded[c] = 0
  BY DEF ScheduleTypes, YieldedWhenDone
<1>2. yielded' = [yielded EXCEPT ![c] = 1]
  BY <1>1 DEF Tell, ScheduleTypes
<1> QED  BY <1>2 DEF Tell, ScheduleTypes, YieldedWhenDone, States, Results

\* A call that moves and is not over.
LEMMA MovesOn ==
    ASSUME ScheduleTypes, NEW c \in CallIds, NEW s \in States \ {"done"}, call[c] # "done",
           call' = [call EXCEPT ![c] = s], yielded' = yielded, result' \in [CallIds -> Results]
    PROVE  ScheduleTypes'
  BY DEF ScheduleTypes, YieldedWhenDone, States

\* Tasks that are cancelled.
LEMMA CancelTypes ==
    ASSUME ScheduleTypes
    PROVE  /\ Interrupted \in [CallIds -> Results]
           /\ \A but \in SUBSET CallIds :
                /\ CancelTasks(but) \in [CallIds -> States]
                /\ \A c \in CallIds : CancelTasks(but)[c] = "done" <=> c \in but \/ call[c] = "done"
                /\ \A c \in CallIds : CancelTasks(but)[c] = "running" => call[c] = "running"
<1>1. Interrupted \in [CallIds -> Results]
  BY DEF Interrupted, ScheduleTypes, Results
<1>2. \A c \in CallIds : /\ AfterCancel(c) \in States
                         /\ AfterCancel(c) = "done" <=> call[c] = "done"
                         /\ AfterCancel(c) # "running"
  BY DEF AfterCancel, ScheduleTypes, States
<1> QED  BY <1>1, <1>2 DEF CancelTasks, States

\* No ordinary tool starts.
NoStart == \A c \in CallIds :
              asked /\ callKind[c] # "control" /\ call'[c] = "running" => call[c] = "running"

\* A step that leaves the calls alone, or moves one of them, or cancels the tasks.
LEMMA OneCallStarts ==
    ASSUME ScheduleTypes, NEW c \in CallIds, NEW s, call' = [call EXCEPT ![c] = s],
           s # "running" \/ ~asked \/ callKind[c] = "control"
    PROVE  NoStart
  BY DEF NoStart, ScheduleTypes

\* The steps of a call.
LEMMA CallStep ==
    ASSUME ScheduleTypes, NEW c \in CallIds,
           \/ Prepares(c) \/ Passes(c) \/ ControlEnds(c) \/ Starts(c) \/ Returns(c) \/ Takes(c)
    PROVE  ScheduleTypes' /\ NoStart
<1>1. CASE Prepares(c)
  <2>1. call[c] # "done"
    BY <1>1 DEF Prepares, MayPrepare, FirstDue
  <2>2. CASE \E r \in {"cancelled", "denied"} : Tell(c, r)
    BY <2>1, <2>2, TellOnce, OneCallStarts DEF Results
  <2>3. CASE call' = [call EXCEPT ![c] = "before"] /\ UNCHANGED <<result, yielded>>
    <3>1. result \in [CallIds -> Results] /\ "before" \in States \ {"done"}
      BY DEF ScheduleTypes, States
    <3> QED  BY <2>1, <2>3, <3>1, MovesOn, OneCallStarts
  <2> QED  BY <1>1, <2>2, <2>3 DEF Prepares
<1>2. CASE Passes(c)
  <2>1. call[c] # "done"
    BY <1>2 DEF Passes
  <2>2. CASE \E r \in {"cancelled", "denied"} : Tell(c, r)
    BY <2>1, <2>2, TellOnce, OneCallStarts DEF Results
  <2>3. CASE /\ call' = [call EXCEPT ![c] =
                          IF callKind[c] = "control" THEN "running" ELSE "prepared"]
             /\ UNCHANGED <<result, yielded>>
    <3> DEFINE s == IF callKind[c] = "control" THEN "running" ELSE "prepared"
    <3>1. /\ result \in [CallIds -> Results] /\ s \in States \ {"done"}
          /\ s # "running" \/ callKind[c] = "control"
      BY DEF ScheduleTypes, States
    <3> HIDE DEF s
    <3>2. call' = [call EXCEPT ![c] = s] /\ result' = result /\ yielded' = yielded
      BY <2>3 DEF s
    <3> QED  BY <2>1, <3>1, <3>2, MovesOn, OneCallStarts
  <2> QED  BY <1>2, <2>2, <2>3 DEF Passes
<1>3. CASE ControlEnds(c)
  <2>1. call[c] # "done" /\ \E r \in {"ok", "pause", "cancelled"} : Tell(c, r)
    BY <1>3 DEF ControlEnds
  <2> QED  BY <2>1, TellOnce, OneCallStarts DEF Results
<1>4. CASE Starts(c)
  <2>1. call[c] # "done" /\ yielded' = yielded
    BY <1>4 DEF Starts
  <2>2. CASE asked
    <3>1. call' = [call EXCEPT ![c] = "after"] /\ result' \in [CallIds -> Results]
      BY <1>4, <2>2 DEF Starts, ScheduleTypes, Results
    <3>2. "after" \in States \ {"done"}
      BY DEF States
    <3> QED  BY <2>1, <3>1, <3>2, MovesOn, OneCallStarts
  <2>3. CASE ~asked
    <3>1. call' = [call EXCEPT ![c] = "running"] /\ result' \in [CallIds -> Results]
      BY <1>4, <2>3 DEF Starts, ScheduleTypes
    <3>2. "running" \in States \ {"done"}
      BY DEF States
    <3> QED  BY <2>1, <2>3, <3>1, <3>2, MovesOn, OneCallStarts
  <2> QED  BY <2>2, <2>3
<1>5. CASE Returns(c)
  <2>1. /\ call[c] # "done" /\ yielded' = yielded /\ result' \in [CallIds -> Results]
        /\ \E s \in {"after", "ended"} : call' = [call EXCEPT ![c] = s]
    BY <1>5 DEF Returns, ScheduleTypes, Results
  <2>2. {"after", "ended"} \subseteq States \ {"done", "running"}
    BY DEF States
  <2> QED  BY <2>1, <2>2, MovesOn, OneCallStarts
<1>6. CASE Takes(c)
  <2>0. call[c] = "ended" /\ yielded[c] = 0
    BY <1>6 DEF Takes, ScheduleTypes, YieldedWhenDone
  <2>1. yielded' = [yielded EXCEPT ![c] = 1]
    BY <1>6, <2>0 DEF Takes
  <2>2. /\ yielded' \in [CallIds -> 0..2]
        /\ \A d \in CallIds : yielded'[d] = IF d = c THEN 1 ELSE yielded[d]
    BY <2>1 DEF ScheduleTypes
  <2>3. /\ call' \in [CallIds -> States] /\ result' \in [CallIds -> Results]
        /\ \A d \in CallIds : call'[d] = "done" <=> d = c \/ call[d] = "done"
        /\ \A d \in CallIds : call'[d] = "running" => call[d] = "running"
    <3>1. CASE asked
      <4>1. call' = CancelTasks({c}) /\ result' = Interrupted
        BY <1>6, <3>1 DEF Takes
      <4> QED  BY <4>1, CancelTypes
    <3>2. CASE ~asked
      <4>1. call' = [call EXCEPT ![c] = "done"] /\ result' = result
        BY <1>6, <3>2 DEF Takes
      <4> QED  BY <4>1 DEF ScheduleTypes, States
    <3> QED  BY <3>1, <3>2
  <2>4. YieldedWhenDone'
    BY <2>2, <2>3 DEF ScheduleTypes, YieldedWhenDone
  <2> QED  BY <2>2, <2>3, <2>4 DEF ScheduleTypes, NoStart
<1> QED  BY <1>1, <1>2, <1>3, <1>4, <1>5, <1>6

\* All tasks are cancelled, or the calls are left alone.
LEMMA TasksCancelled ==
    ASSUME ScheduleTypes, yielded' = yielded,
           \/ call' = call /\ result' = result
           \/ call' = CancelTasks({}) /\ result' = Interrupted
    PROVE  ScheduleTypes' /\ NoStart
<1>1. /\ call' \in [CallIds -> States] /\ result' \in [CallIds -> Results]
      /\ \A c \in CallIds : call'[c] = "done" <=> call[c] = "done"
      /\ \A c \in CallIds : call'[c] = "running" => call[c] = "running"
  BY CancelTypes DEF ScheduleTypes
<1> QED  BY <1>1 DEF ScheduleTypes, YieldedWhenDone, NoStart

\* The steps of the schedule, and all others.
LEMMA ScheduleStep == AgentInv /\ [AgentNext]_agentvars => ScheduleTypes' /\ NoStart
<1> SUFFICES ASSUME AgentInv, [AgentNext]_agentvars PROVE ScheduleTypes' /\ NoStart
  OBVIOUS
<1>0. ScheduleTypes
  BY DEF AgentInv, AgentTypes, AgentTypeOK, ScheduleTypes, States, Results
<1>1. CASE UNCHANGED <<call, result, yielded>>
  BY <1>0, <1>1, TasksCancelled
<1>2. ASSUME NEW kinds \in [CallIds -> {"read", "write", "control"}], Requests(kinds)
      PROVE  ScheduleTypes' /\ NoStart
  <2>1. CASE UNCHANGED schedule
    BY <1>1, <2>1 DEF schedule
  <2>2. CASE /\ call' = [c \in CallIds |-> "due"] /\ result' = [c \in CallIds |-> "none"]
             /\ yielded' = [c \in CallIds |-> 0]
    BY <2>2 DEF ScheduleTypes, YieldedWhenDone, NoStart, States, Results
  <2> QED  BY <1>2, <2>1, <2>2 DEF Requests
<1>3. ASSUME NEW c \in CallIds,
             Prepares(c) \/ Passes(c) \/ ControlEnds(c) \/ Starts(c) \/ Returns(c) \/ Takes(c)
      PROVE  ScheduleTypes' /\ NoStart
  BY <1>0, <1>3, CallStep
<1>4. CASE Launch
  BY <1>0, <1>4 DEF Launch, Prepared, ScheduleTypes, YieldedWhenDone, NoStart, States
<1>5. CASE Notices \/ Unwinds \/ Cancel \/ Interrupt
  <2>1. /\ yielded' = yielded
        /\ \/ call' = call /\ result' = result
           \/ call' = CancelTasks({}) /\ result' = Interrupted
    BY <1>5 DEF Notices, Unwinds, Cancel, Interrupt
  <2> QED  BY <1>0, <2>1, TasksCancelled
<1>6. CASE TakesTheRest
  <2>1. \A c \in CallIds : /\ call'[c] = "done" <=> call[c] \in {"ended", "done"}
                           /\ call'[c] = "running" => call[c] = "running"
                           /\ call'[c] \in States
                           /\ call[c] = "ended" => yielded[c] = 0
    BY <1>0, <1>6 DEF TakesTheRest, ScheduleTypes, YieldedWhenDone, States
  <2>2. call' \in [CallIds -> States] /\ result' = result
    <3>1. \A c \in CallIds : (CASE call[c] = "ended" -> "done"
                             [] call[c] = "lost" -> "gone"
                             [] OTHER -> call[c]) \in States
      BY <1>0 DEF ScheduleTypes, States
    <3> QED  BY <1>6, <3>1 DEF TakesTheRest
  <2>3. yielded' = [c \in CallIds |-> IF call[c] = "ended" THEN 1 ELSE yielded[c]]
    <3>1. yielded' = [c \in CallIds |-> IF call[c] = "ended" THEN yielded[c] + 1 ELSE yielded[c]]
      BY <1>6 DEF TakesTheRest
    <3>2. \A c \in CallIds : (IF call[c] = "ended" THEN yielded[c] + 1 ELSE yielded[c])
                             = IF call[c] = "ended" THEN 1 ELSE yielded[c]
      BY <2>1
    <3> QED  BY <3>1, <3>2
  <2>4. \A c \in CallIds : yielded[c] = IF call[c] = "done" THEN 1 ELSE 0
    BY <1>0 DEF ScheduleTypes, YieldedWhenDone
  <2>5. \A c \in CallIds : yielded'[c] = IF call'[c] = "done" THEN 1 ELSE 0
    <3> SUFFICES ASSUME NEW c \in CallIds
                 PROVE  yielded'[c] = IF call'[c] = "done" THEN 1 ELSE 0
      OBVIOUS
    <3>1. yielded'[c] = IF call[c] = "ended" THEN 1 ELSE yielded[c]
      BY <2>3
    <3>2. call'[c] = "done" <=> call[c] \in {"ended", "done"}
      BY <2>1
    <3> QED  BY <2>4, <3>1, <3>2
  <2>6. yielded' \in [CallIds -> 0..2]
    <3>1. \A c \in CallIds : yielded'[c] \in 0..2
      BY <2>5
    <3> QED  BY <2>3, <3>1
  <2> QED  BY <1>0, <2>1, <2>2, <2>5, <2>6 DEF ScheduleTypes, YieldedWhenDone, NoStart
<1>7. CASE Arrives \/ Poll \/ Compact \/ ModelFails \/ Answers \/ BatchEnds \/ GroupEnds \/ Close
  <2>1. UNCHANGED schedule
    BY <1>7 DEF Arrives, Poll, Compact, ModelFails, Answers, BatchEnds, GroupEnds, Commit, Close,
                schedule
  <2> QED  BY <1>1, <2>1 DEF schedule
<1>8. CASE UNCHANGED agentvars
  BY <1>1, <1>8 DEF agentvars
<1> QED  BY <1>2, <1>3, <1>4, <1>5, <1>6, <1>7, <1>8 DEF AgentNext, RunnerSteps, ScheduleSteps

-----------------------------------------------------------------------------
(* the loop *)

\* The types of the runner's own state, and the bounds of its counters.
LoopTypes ==
    /\ turnAt \in {"poll", "model", "tools", "launched", "collect", "over", "cut", "left"}
    /\ mode \in {"direct", "plan"} /\ asked \in BOOLEAN /\ userIn \in BOOLEAN
    /\ callKind \in [CallIds -> {"read", "write", "control"}]
    /\ iter \in 1..(Iterations + 1) /\ refused \in 0..Limit
    /\ turnAt # "over" => refused < Limit
    /\ mode = "direct" => iter <= Iterations
    /\ turnAt \in {"tools", "launched", "collect"} =>
         iter <= Iterations /\ (mode = "direct" => iter < Iterations)

\* The messages of the team, and those still to come.
InboxTypes == /\ inbox \in [waiting : 0..MaxInbound, left : 0..MaxInbound]
              /\ inbox.waiting + inbox.left <= MaxInbound

\* Only the arrival and the poll touch the inbox.
LEMMA InboxStep == InboxTypes /\ [AgentNext]_agentvars => InboxTypes'
<1> SUFFICES ASSUME InboxTypes, [AgentNext]_agentvars PROVE InboxTypes'
  OBVIOUS
<1>1. CASE inbox' = inbox
  BY <1>1 DEF InboxTypes
<1>2. CASE Arrives
  BY <1>2, AgentAssumption DEF Arrives, InboxTypes
<1>3. CASE Poll
  <2>1. inbox' = inbox \/ inbox' = [inbox EXCEPT !.waiting = 0]
    BY <1>3 DEF Poll
  <2> QED  BY <2>1, AgentAssumption DEF InboxTypes
<1>4. CASE ScheduleSteps \/ Cancel \/ Interrupt \/ Close
  BY <1>1, <1>4 DEF ScheduleSteps, Launch, Notices, Unwinds, TakesTheRest, BatchEnds, Prepares, Passes,
                    ControlEnds, Starts, Returns, Takes, Cancel, Interrupt, Close
<1>5. CASE RunnerSteps /\ ~Poll
  BY <1>1, <1>5 DEF RunnerSteps, Compact, ModelFails, Answers, GroupEnds, Requests
<1>6. CASE UNCHANGED agentvars
  BY <1>1, <1>6 DEF agentvars
<1> QED  BY <1>2, <1>3, <1>4, <1>5, <1>6 DEF AgentNext

\* A step that counts nothing, and leaves the runner where its counters allow.
LEMMA LoopStays ==
    ASSUME LoopTypes, UNCHANGED <<mode, iter, refused>>, asked' \in BOOLEAN, userIn' \in BOOLEAN,
           callKind' \in [CallIds -> {"read", "write", "control"}],
           \/ turnAt' \in {turnAt, "over"}
           \/ turnAt # "over" /\ turnAt' \in {"poll", "model", "cut", "left"}
           \/ /\ turnAt \in {"tools", "launched", "collect"}
              /\ turnAt' \in {"tools", "launched", "collect"}
    PROVE  LoopTypes'
  BY DEF LoopTypes

\* An iteration is counted only where one is left, a refusal only below the limit.
LEMMA LoopStep == LoopTypes /\ [AgentNext]_agentvars => LoopTypes'
<1> SUFFICES ASSUME LoopTypes, [AgentNext]_agentvars PROVE LoopTypes'
  OBVIOUS
<1>0. /\ asked \in BOOLEAN /\ userIn \in BOOLEAN
      /\ callKind \in [CallIds -> {"read", "write", "control"}]
  BY DEF LoopTypes
<1>1. CASE Arrives \/ ModelFails \/ UNCHANGED agentvars
  BY <1>0, <1>1, LoopStays DEF Arrives, ModelFails, Finish, agentvars, history, schedule
<1>2. CASE Poll
  <2>1. /\ UNCHANGED <<mode, iter, refused, asked, callKind>> /\ userIn' \in BOOLEAN
        /\ turnAt = "poll" /\ turnAt' \in {"over", "model"}
    BY <1>0, <1>2 DEF Poll, Finish, history, schedule
  <2> QED  BY <1>0, <2>1, LoopStays
<1>3. CASE Compact
  <2>1. /\ UNCHANGED <<mode, iter, refused, asked, callKind, userIn>>
        /\ turnAt' \in {turnAt, "over"}
    BY <1>3 DEF Compact, Commit, Finish, schedule
  <2> QED  BY <1>0, <2>1, LoopStays
<1>4. CASE Answers
  <2>1. /\ UNCHANGED <<mode, asked, callKind, refused>> /\ userIn' \in BOOLEAN /\ turnAt = "model"
        /\ \/ turnAt' = "over" /\ iter' = iter
           \/ mode = "plan" /\ ~Finalizing /\ turnAt' = "poll" /\ iter' = iter + 1
    BY <1>0, <1>4 DEF Answers, Commit, Finish, schedule
  <2>2. CASE turnAt' = "over" /\ iter' = iter
    BY <1>0, <2>1, <2>2, LoopStays
  <2>3. CASE mode = "plan" /\ ~Finalizing /\ turnAt' = "poll" /\ iter' = iter + 1
    <3>1. iter \in 1..(Iterations + 1) /\ ~(iter > Iterations)
      BY <2>3 DEF Finalizing, LoopTypes
    <3>2. iter' \in 1..(Iterations + 1)
      BY <2>3, <3>1, AgentAssumption
    <3> QED  BY <1>0, <2>1, <2>3, <3>2 DEF LoopTypes
  <2> QED  BY <2>1, <2>2, <2>3
<1>5. ASSUME NEW kinds \in [CallIds -> {"read", "write", "control"}], Requests(kinds)
      PROVE  LoopTypes'
  <2>1. /\ UNCHANGED <<mode, iter, asked, refused, userIn>> /\ turnAt = "model" /\ ~Finalizing
        /\ \/ turnAt' = "over" /\ callKind' = callKind
           \/ /\ ~(mode = "direct" /\ iter = Iterations)
              /\ turnAt' = "tools" /\ callKind' = kinds
    BY <1>5 DEF Requests, Finish, history, schedule
  <2>2. CASE turnAt' = "over" /\ callKind' = callKind
    BY <1>0, <2>1, <2>2, LoopStays
  <2>3. CASE /\ ~(mode = "direct" /\ iter = Iterations)
             /\ turnAt' = "tools" /\ callKind' = kinds
    <3>1. iter <= Iterations /\ (mode = "direct" => iter < Iterations)
      BY <2>1, <2>3, AgentAssumption DEF Finalizing, LoopTypes
    <3> QED  BY <1>0, <1>5, <2>1, <2>3, <3>1 DEF LoopTypes
  <2> QED  BY <2>1, <2>2, <2>3
<1>6. CASE GroupEnds
  <2>1. /\ UNCHANGED <<mode, asked, callKind>> /\ userIn' \in BOOLEAN /\ turnAt = "tools"
        /\ \/ turnAt' = "over" /\ iter' = iter /\ refused' = refused
           \/ /\ turnAt' = "over" /\ iter' = iter /\ refused' \in {refused + 1, 0}
           \/ /\ turnAt' = "poll" /\ iter' = iter + 1 /\ refused' \in {refused + 1, 0}
              /\ ~(refused' >= Limit)
    BY <1>0, <1>6 DEF GroupEnds, Commit, Finish, schedule
  <2>2. /\ iter \in 1..Iterations /\ (mode = "direct" => iter < Iterations)
        /\ refused + 1 \in 0..Limit /\ 0 \in 0..Limit
    BY <2>1, AgentAssumption DEF LoopTypes
  <2>3. CASE turnAt' = "over" /\ iter' = iter
    <3>1. refused' \in 0..Limit
      BY <2>1, <2>2, <2>3 DEF LoopTypes
    <3> QED  BY <1>0, <2>1, <2>3, <3>1 DEF LoopTypes
  <2>4. CASE /\ turnAt' = "poll" /\ iter' = iter + 1 /\ refused' \in {refused + 1, 0}
             /\ ~(refused' >= Limit)
    <3>1. refused' \in 0..Limit /\ refused' < Limit
      BY <2>2, <2>4, AgentAssumption
    <3>2. iter' \in 1..(Iterations + 1) /\ (mode = "direct" => iter' <= Iterations)
      BY <2>2, <2>4, AgentAssumption
    <3> QED  BY <1>0, <2>1, <2>4, <3>1, <3>2 DEF LoopTypes
  <2> QED  BY <2>1, <2>3, <2>4
<1>7. CASE ScheduleSteps
  <2>1. /\ UNCHANGED <<mode, iter, refused, userIn, callKind>> /\ asked' \in BOOLEAN
        /\ \/ /\ turnAt \in {"tools", "launched", "collect"}
              /\ turnAt' \in {"tools", "launched", "collect", "over"}
           \/ turnAt = "cut" /\ turnAt' \in {"cut", "left"}
    BY <1>0, <1>7 DEF ScheduleSteps, Launch, Notices, Unwinds, TakesTheRest, BatchEnds, Prepares, Passes,
                      ControlEnds, Starts, Returns, Takes, Finish, history, schedule
  <2> QED  BY <1>0, <2>1, LoopStays
<1>8. CASE Cancel \/ Interrupt \/ Close
  <2>1. /\ UNCHANGED <<mode, iter, refused, userIn, callKind>> /\ asked' \in BOOLEAN
        /\ \/ turnAt' \in {turnAt, "over"}
           \/ turnAt = "launched" /\ turnAt' = "collect"
           \/ turnAt # "over" /\ turnAt' \in {"cut", "left"}
    BY <1>0, <1>8 DEF Cancel, Interrupt, Close, Finish, history, schedule
  <2> QED  BY <1>0, <2>1, LoopStays
<1> QED  BY <1>1, <1>2, <1>3, <1>4, <1>5, <1>6, <1>7, <1>8 DEF AgentNext, RunnerSteps

-----------------------------------------------------------------------------
\* The invariant is that of its parts.
LEMMA AgentParts ==
    /\ AgentInv <=> HistoryTypes /\ CommittedIsWorking /\ ScheduleTypes /\ LoopTypes /\ InboxTypes
    /\ AgentInv' <=> HistoryTypes' /\ CommittedIsWorking' /\ ScheduleTypes' /\ LoopTypes'
                     /\ InboxTypes'
  BY DEF AgentInv, AgentTypes, AgentTypeOK, HistoryTypes, ScheduleTypes, LoopTypes, InboxTypes,
         States, Results

\* It holds of a turn that begins.
LEMMA AgentBegins == AgentInit => AgentInv
<1> SUFFICES ASSUME AgentInit PROVE AgentInv
  OBVIOUS
<1>1. /\ <<User>> \in Seq(Messages) /\ <<>> \in Seq(Messages)
      /\ <<>> \o <<User>> = <<User>>
  <2> DEFINE u == <<User>>
  <2>1. u \in Seq(Messages) /\ <<>> \in Seq(Messages)
    BY MessageTypes
  <2> HIDE DEF u
  <2>2. <<>> \o u = u
    BY <2>1, ConcatEmptySeq
  <2> QED  BY <2>1, <2>2 DEF u
<1>2. HistoryTypes /\ CommittedIsWorking
  BY <1>1 DEF AgentInit, HistoryTypes, CommittedIsWorking
<1>3. ScheduleTypes
  BY DEF AgentInit, NoSchedule, ScheduleTypes, YieldedWhenDone, States, Results
<1>4. LoopTypes
  <2>1. callKind \in [CallIds -> {"read", "write", "control"}]
    BY DEF AgentInit, NoSchedule
  <2>2. /\ iter \in 1..(Iterations + 1) /\ iter <= Iterations
        /\ refused \in 0..Limit /\ refused < Limit
    BY AgentAssumption DEF AgentInit
  <2> QED  BY <2>1, <2>2 DEF AgentInit, LoopTypes
<1>5. InboxTypes
  BY AgentAssumption DEF AgentInit, InboxTypes
<1> QED  BY <1>2, <1>3, <1>4, <1>5, AgentParts

\* Every reachable state of a turn satisfies the invariant.
THEOREM AgentInvariant == TurnSpec => []AgentInv
<1>1. AgentInv /\ [AgentNext]_agentvars => AgentInv'
  BY HistoryStep, ScheduleStep, LoopStep, InboxStep, AgentParts
<1> QED  BY <1>1, AgentBegins, PTL DEF TurnSpec

\* Every variable of a turn keeps its type (agent/runner.py, agent/scheduler.py).
THEOREM TurnTypes == TurnSpec => []AgentTypeOK
<1>1. AgentInv => AgentTypeOK
  BY DEF AgentInv, AgentTypes
<1> QED  BY <1>1, AgentInvariant, PTL

\* However the calls of a response end, are cancelled and are collected, each is answered at
\* most once; no ordinary tool starts after a cancellation; and the history only grows or is
\* replaced by its summary (ToolSchedule, AgentRun.cancel, AgentRun._commit_history).
THEOREM TurnsStayWhole == TurnSpec => TurnsAreWhole
<1>1. AgentInv => AnsweredOnce
  BY DEF AgentInv, YieldedWhenDone, AnsweredOnce
<1>2. AgentInv /\ [AgentNext]_agentvars => [NoStart]_agentvars /\ [Grows]_agentvars
  BY HistoryStep, ScheduleStep
<1>3. CancelledMeansNoStart <=> [][NoStart]_agentvars
  BY DEF CancelledMeansNoStart, NoStart
<1>4. HistoryOnlyGrows <=> [][Grows]_agentvars
  BY DEF HistoryOnlyGrows, Grows
<1>5. TurnSpec => []AnsweredOnce
  BY <1>1, AgentInvariant, PTL
<1>6. TurnSpec => [][NoStart]_agentvars /\ [][Grows]_agentvars
  BY <1>2, AgentInvariant, PTL DEF TurnSpec
<1> QED  BY <1>3, <1>4, <1>5, <1>6 DEF TurnsAreWhole

-----------------------------------------------------------------------------
(* ReplyStream *)

\* The types, with what a server sends of a block.
ReplyTypes ==
    /\ ReplyTypeOK
    /\ \A b \in DOMAIN blocks : blocks[b].pieces <= blocks[b].size
    /\ \A b \in DOMAIN blocks : blocks[b].kind = "text" => blocks[b].size = 0

\* The parser keeps the calls that are open, with the pieces that came, and has handed on the
\* others.
OpenIsKept ==
    /\ DOMAIN calls = {b \in DOMAIN blocks : blocks[b].kind = "call" /\ blocks[b].open}
    /\ done = {b \in DOMAIN blocks : blocks[b].kind = "call" /\ ~blocks[b].open}
    /\ \A b \in DOMAIN calls : calls[b] = blocks[b].pieces

\* What it has handed on is what the collector has, each call once unless the end of its
\* arguments was told after it.
ClosedIsCollected ==
    /\ {tools[k].id : k \in DOMAIN tools} = done
    /\ \A k \in DOMAIN tools : tools[k].pieces = blocks[tools[k].id].pieces
    /\ \A k, l \in DOMAIN tools :
         tools[k].id = tools[l].id /\ argued[tools[k].id] # "late" => k = l

\* Text is that of a block of this attempt.
TextIsOfBlocks == \A k \in DOMAIN text : text[k].attempt = attempt /\ text[k].id \in DOMAIN blocks

\* What the server told of the end, and what the parser and the agent made of it.
EndIsTold ==
    /\ over \in {"natural", "tool_calls"} =>
         /\ \A b \in DOMAIN blocks : ~blocks[b].open /\ Whole(b)
         /\ over = "tool_calls" <=> HasCalls
    /\ reason = "tool_calls" => over = "tool_calls"
    /\ over # "no" /\ reply = "none" => reason # "none"
    /\ reply = "tool_calls" => over \in {"no", "tool_calls"}

ReplyInv == ReplyTypes /\ OpenIsKept /\ ClosedIsCollected /\ TextIsOfBlocks /\ EndIsTold

-----------------------------------------------------------------------------
\* What Append makes of a sequence.
LEMMA Appended ==
    ASSUME NEW S, NEW s \in Seq(S), NEW e \in S
    PROVE  /\ Append(s, e) \in Seq(S) /\ Len(s) \in Nat /\ Len(Append(s, e)) = Len(s) + 1
           /\ DOMAIN Append(s, e) = DOMAIN s \cup {Len(s) + 1} /\ Len(s) + 1 \notin DOMAIN s
           /\ DOMAIN s = 1..Len(s) /\ \A i \in DOMAIN s : s[i] \in S
           /\ \A i \in DOMAIN s : Append(s, e)[i] = s[i]
           /\ Append(s, e)[Len(s) + 1] = e
<1>1. /\ Append(s, e) \in Seq(S) /\ Len(s) \in Nat /\ Len(Append(s, e)) = Len(s) + 1
      /\ \A i \in 1..Len(s) : Append(s, e)[i] = s[i]
      /\ Append(s, e)[Len(s) + 1] = e
  BY AppendProperties
<1>2. DOMAIN s = 1..Len(s) /\ \A i \in 1..Len(s) : s[i] \in S
  BY ElementOfSeq
<1>3. DOMAIN Append(s, e) = 1..(Len(s) + 1)
  BY <1>1
<1> QED  BY <1>1, <1>2, <1>3

\* The blocks that are there, the calls and the tools.
LEMMA ReplyDomains ==
    ASSUME ReplyTypes
    PROVE  /\ DOMAIN blocks = 1..Len(blocks) /\ Len(blocks) \in 0..MaxBlocks
           /\ DOMAIN blocks \subseteq BlockIds
           /\ \A b \in DOMAIN blocks :
                /\ blocks[b] \in Block /\ blocks[b].kind \in {"text", "call"}
                /\ blocks[b].open \in BOOLEAN /\ blocks[b].pieces \in 0..MaxPieces
                /\ blocks[b].size \in 0..MaxPieces
           /\ DOMAIN tools = 1..Len(tools)
           /\ \A k \in DOMAIN tools : tools[k].id \in BlockIds /\ tools[k].pieces \in 0..MaxPieces
<1>1. /\ blocks \in Seq(Block) /\ Len(blocks) <= MaxBlocks /\ tools \in Seq(Call)
      /\ MaxBlocks \in Nat
  BY ReplyAssumption DEF ReplyTypes, ReplyTypeOK
<1>2. /\ DOMAIN blocks = 1..Len(blocks) /\ Len(blocks) \in Nat /\ DOMAIN tools = 1..Len(tools)
      /\ \A b \in 1..Len(blocks) : blocks[b] \in Block
      /\ \A k \in 1..Len(tools) : tools[k] \in Call
  BY <1>1, ElementOfSeq, LenProperties
<1>3. DOMAIN blocks \subseteq BlockIds
  BY <1>1, <1>2 DEF BlockIds
<1> QED  BY <1>1, <1>2, <1>3 DEF Block, Call

\* A block that is closed, and one of which a piece came.
LEMMA OneIsClosed ==
    ASSUME ReplyTypes, NEW b \in DOMAIN blocks, blocks' = [blocks EXCEPT ![b].open = FALSE]
    PROVE  /\ blocks' \in Seq(Block) /\ Len(blocks') = Len(blocks) /\ DOMAIN blocks' = DOMAIN blocks
           /\ \A x \in DOMAIN blocks :
                /\ blocks'[x].kind = blocks[x].kind /\ blocks'[x].size = blocks[x].size
                /\ blocks'[x].pieces = blocks[x].pieces
                /\ blocks'[x].open <=> blocks[x].open /\ x # b
<1>1. blocks \in Seq(Block)
  BY DEF ReplyTypes, ReplyTypeOK
<1>2. [blocks[b] EXCEPT !.open = FALSE] \in Block
  BY ReplyDomains DEF Block
<1>3. blocks' = [blocks EXCEPT ![b] = [blocks[b] EXCEPT !.open = FALSE]]
  OBVIOUS
<1>4. blocks' \in Seq(Block) /\ Len(blocks') = Len(blocks) /\ DOMAIN blocks' = DOMAIN blocks
  BY <1>1, <1>2, <1>3, ExceptSeq
<1>5. \A x \in DOMAIN blocks : blocks'[x] = IF x = b THEN [blocks[b] EXCEPT !.open = FALSE]
                                            ELSE blocks[x]
  BY <1>3
<1> QED  BY <1>4, <1>5, ReplyDomains DEF Block

LEMMA OnePieceMore ==
    ASSUME ReplyTypes, NEW b \in DOMAIN blocks, blocks[b].pieces < blocks[b].size,
           blocks' = [blocks EXCEPT ![b].pieces = @ + 1]
    PROVE  /\ blocks' \in Seq(Block) /\ Len(blocks') = Len(blocks) /\ DOMAIN blocks' = DOMAIN blocks
           /\ \A x \in DOMAIN blocks :
                /\ blocks'[x].kind = blocks[x].kind /\ blocks'[x].size = blocks[x].size
                /\ blocks'[x].open = blocks[x].open
                /\ blocks'[x].pieces = IF x = b THEN blocks[b].pieces + 1 ELSE blocks[x].pieces
<1>1. blocks \in Seq(Block)
  BY DEF ReplyTypes, ReplyTypeOK
<1> DEFINE n == blocks[b].pieces + 1
<1>2. n \in 0..MaxPieces
  BY ReplyDomains, ReplyAssumption
<1>3. blocks' = [blocks EXCEPT ![b] = [blocks[b] EXCEPT !.pieces = n]]
  OBVIOUS
<1> HIDE DEF n
<1>4. [blocks[b] EXCEPT !.pieces = n] \in Block
  BY <1>2, ReplyDomains DEF Block
<1>5. blocks' \in Seq(Block) /\ Len(blocks') = Len(blocks) /\ DOMAIN blocks' = DOMAIN blocks
  BY <1>1, <1>3, <1>4, ExceptSeq
<1>6. \A x \in DOMAIN blocks : blocks'[x] = IF x = b THEN [blocks[b] EXCEPT !.pieces = n]
                                            ELSE blocks[x]
  BY <1>3
<1>7. blocks[b] \in Block
  BY ReplyDomains
<1>8. \A x \in DOMAIN blocks :
        /\ blocks'[x].kind = blocks[x].kind /\ blocks'[x].size = blocks[x].size
        /\ blocks'[x].open = blocks[x].open
        /\ blocks'[x].pieces = IF x = b THEN n ELSE blocks[x].pieces
  BY <1>6, <1>7 DEF Block
<1> QED  BY <1>5, <1>8 DEF n


\* The blocks, the calls and the tools keep what relates them.
DataInv == ReplyTypes /\ OpenIsKept /\ ClosedIsCollected

\* A step of the control alone.
LEMMA DataStays ==
    ASSUME DataInv, UNCHANGED <<blocks, calls, done, tools, argued>>, ReplyTypeOK'
    PROVE  DataInv'
  BY DEF DataInv, ReplyTypes, OpenIsKept, ClosedIsCollected

\* A block begins.
LEMMA StartsData ==
    ASSUME DataInv, NEW what \in {"text", "call"}, NEW size \in 0..MaxPieces,
           BlockStarts(what, size)
    PROVE  DataInv' /\ Len(blocks') <= MaxBlocks /\ DOMAIN blocks \subseteq DOMAIN blocks'
<1> DEFINE b == Len(blocks) + 1
           new == [kind |-> what, pieces |-> 0, size |-> size, open |-> TRUE]
<1>1. /\ ReplyTypes /\ blocks \in Seq(Block) /\ b <= MaxBlocks /\ blocks' = Append(blocks, new)
      /\ what = "text" => size = 0
      /\ calls' = [x \in DOMAIN calls \cup (IF what = "call" THEN {b} ELSE {}) |->
                     IF x = b THEN 0 ELSE calls[x]]
      /\ UNCHANGED <<protocol, thinking, attempt, stream, over, argued, done, reason, collector,
                     text, tools, reply>>
  BY DEF DataInv, ReplyTypes, ReplyTypeOK, BlockStarts, collectorvars
<1>2. new \in Block
  BY ReplyAssumption DEF Block
<1>3. /\ new.kind = what /\ new.pieces = 0 /\ new.size = size /\ new.open = TRUE
  OBVIOUS
<1> HIDE DEF new
<1>4. /\ blocks' \in Seq(Block) /\ Len(blocks') = b /\ Len(blocks) \in Nat
      /\ DOMAIN blocks' = DOMAIN blocks \cup {b} /\ b \notin DOMAIN blocks
      /\ \A x \in DOMAIN blocks : blocks'[x] = blocks[x]
      /\ blocks'[b] = new
  BY <1>1, <1>2, Appended
<1>5. b \in BlockIds /\ 0 \in 0..MaxPieces
  BY <1>1, <1>4, ReplyAssumption DEF BlockIds
<1> HIDE DEF b
<1>6. /\ DOMAIN calls' = DOMAIN calls \cup (IF what = "call" THEN {b} ELSE {})
      /\ \A x \in DOMAIN calls' : calls'[x] = IF x = b THEN 0 ELSE calls[x]
  BY <1>1
<1>7. DOMAIN calls \subseteq DOMAIN blocks /\ done \subseteq DOMAIN blocks
  BY DEF DataInv, OpenIsKept
<1>8. ReplyTypeOK'
  <2>1. \A x \in DOMAIN calls' : x \in BlockIds /\ calls'[x] \in 0..MaxPieces
    BY <1>5, <1>6 DEF DataInv, ReplyTypes, ReplyTypeOK
  <2> QED  BY <1>1, <1>4, <2>1 DEF ReplyTypes, ReplyTypeOK
<1>9. ReplyTypes'
  <2>1. \A x \in DOMAIN blocks' : /\ blocks'[x].pieces <= blocks'[x].size
                                  /\ blocks'[x].kind = "text" => blocks'[x].size = 0
    BY <1>1, <1>3, <1>4 DEF ReplyTypes
  <2> QED  BY <1>8, <2>1 DEF ReplyTypes
<1>10. OpenIsKept'
  <2>1. \A x \in DOMAIN blocks' :
          /\ x \in DOMAIN calls' <=> blocks'[x].kind = "call" /\ blocks'[x].open
          /\ x \in done <=> blocks'[x].kind = "call" /\ ~blocks'[x].open
    BY <1>3, <1>4, <1>6, <1>7 DEF DataInv, OpenIsKept
  <2>2. DOMAIN calls' \subseteq DOMAIN blocks' /\ done \subseteq DOMAIN blocks'
    BY <1>1, <1>3, <1>4, <1>6, <1>7
  <2>3. \A x \in DOMAIN calls' : calls'[x] = blocks'[x].pieces
    BY <1>3, <1>4, <1>6, <1>7 DEF DataInv, OpenIsKept
  <2> QED  BY <1>1, <2>1, <2>2, <2>3 DEF OpenIsKept
<1>11. ClosedIsCollected'
  <2>1. \A k \in DOMAIN tools : tools[k].id \in DOMAIN blocks
    BY <1>7 DEF DataInv, ClosedIsCollected
  <2> QED  BY <1>1, <1>4, <2>1 DEF DataInv, ClosedIsCollected
<1> QED  BY <1>1, <1>4, <1>9, <1>10, <1>11 DEF DataInv

\* A piece of a call's arguments.
LEMMA PieceData ==
    ASSUME DataInv, NEW b \in BlockIds, PieceArrives(b)
    PROVE  DataInv' /\ DOMAIN blocks' = DOMAIN blocks
<1>1. /\ ReplyTypes /\ b \in DOMAIN blocks /\ blocks[b].open
      /\ blocks[b].pieces < blocks[b].size /\ blocks' = [blocks EXCEPT ![b].pieces = @ + 1]
      /\ UNCHANGED <<protocol, thinking, attempt, stream, over, argued, done, reason, collector,
                     text, tools, reply>>
  BY DEF DataInv, PieceArrives, collectorvars
<1>2. /\ blocks' \in Seq(Block) /\ Len(blocks') = Len(blocks) /\ DOMAIN blocks' = DOMAIN blocks
      /\ \A x \in DOMAIN blocks :
           /\ blocks'[x].kind = blocks[x].kind /\ blocks'[x].size = blocks[x].size
           /\ blocks'[x].open = blocks[x].open
           /\ blocks'[x].pieces = IF x = b THEN blocks[b].pieces + 1 ELSE blocks[x].pieces
  BY <1>1, OnePieceMore
<1>3. b \in DOMAIN calls /\ calls[b] = blocks[b].pieces
  <2>1. blocks[b].kind = "call"
    BY <1>1, ReplyDomains DEF ReplyTypes
  <2> QED  BY <1>1, <2>1 DEF DataInv, OpenIsKept
<1>4. /\ DOMAIN calls' = DOMAIN calls
      /\ \A x \in DOMAIN calls : calls'[x] = IF x = b THEN blocks[b].pieces + 1 ELSE calls[x]
  <2> DEFINE n == calls[b] + 1
  <2>1. calls' = [calls EXCEPT ![b] = n]
    BY DEF PieceArrives
  <2> HIDE DEF n
  <2>2. /\ DOMAIN calls' = DOMAIN calls
        /\ \A x \in DOMAIN calls : calls'[x] = IF x = b THEN n ELSE calls[x]
    BY <2>1
  <2> QED  BY <1>3, <2>2 DEF n
<1>5. /\ blocks[b].pieces + 1 \in 0..MaxPieces /\ blocks[b].pieces + 1 <= blocks[b].size
  BY <1>1, ReplyDomains, ReplyAssumption
<1>6. ReplyTypeOK'
  <2>1. \A x \in DOMAIN calls' : x \in BlockIds /\ calls'[x] \in 0..MaxPieces
    BY <1>4, <1>5 DEF DataInv, ReplyTypes, ReplyTypeOK
  <2> QED  BY <1>1, <1>2, <2>1 DEF ReplyTypes, ReplyTypeOK
<1>7. ReplyTypes'
  <2>1. \A x \in DOMAIN blocks' : /\ blocks'[x].pieces <= blocks'[x].size
                                  /\ blocks'[x].kind = "text" => blocks'[x].size = 0
    BY <1>1, <1>2, <1>5 DEF ReplyTypes
  <2> QED  BY <1>6, <2>1 DEF ReplyTypes
<1>8. OpenIsKept'
  <2>1. /\ DOMAIN calls' = {x \in DOMAIN blocks' : blocks'[x].kind = "call" /\ blocks'[x].open}
        /\ done' = {x \in DOMAIN blocks' : blocks'[x].kind = "call" /\ ~blocks'[x].open}
    BY <1>1, <1>2, <1>4 DEF DataInv, OpenIsKept
  <2>2. \A x \in DOMAIN calls' : calls'[x] = blocks'[x].pieces
    BY <1>2, <1>4 DEF DataInv, OpenIsKept
  <2> QED  BY <2>1, <2>2 DEF OpenIsKept
<1>9. ClosedIsCollected'
  <2>1. \A k \in DOMAIN tools : tools[k].id \in DOMAIN blocks /\ tools[k].id # b
    BY <1>1 DEF DataInv, OpenIsKept, ClosedIsCollected
  <2> QED  BY <1>1, <1>2, <2>1 DEF DataInv, ClosedIsCollected
<1> QED  BY <1>2, <1>7, <1>8, <1>9 DEF DataInv

\* A block ends, by one of the ways in which the two protocols tell it.
LEMMA ClosedData ==
    ASSUME DataInv, NEW b \in DOMAIN blocks, blocks' = [blocks EXCEPT ![b].open = FALSE],
           IF b \in DOMAIN calls THEN HandsOn(b) ELSE UNCHANGED <<tools, done, calls>>,
           argued' \in [BlockIds -> {"no", "first", "late"}],
           \A x \in BlockIds : argued'[x] = argued[x] \/ (x = b /\ b \in DOMAIN calls),
           UNCHANGED <<protocol, thinking, attempt, stream, over, reason, collector, text, reply>>
    PROVE  DataInv' /\ DOMAIN blocks' = DOMAIN blocks
<1>0. ReplyTypes
  BY DEF DataInv
<1>1. /\ blocks' \in Seq(Block) /\ Len(blocks') = Len(blocks) /\ DOMAIN blocks' = DOMAIN blocks
      /\ \A x \in DOMAIN blocks :
           /\ blocks'[x].kind = blocks[x].kind /\ blocks'[x].size = blocks[x].size
           /\ blocks'[x].pieces = blocks[x].pieces
           /\ blocks'[x].open <=> blocks[x].open /\ x # b
  BY <1>0, OneIsClosed
<1>2. \A x \in DOMAIN blocks' : /\ blocks'[x].pieces <= blocks'[x].size
                                /\ blocks'[x].kind = "text" => blocks'[x].size = 0
  BY <1>0, <1>1 DEF ReplyTypes
<1>3. DOMAIN calls \subseteq DOMAIN blocks /\ done \subseteq DOMAIN blocks
  BY DEF DataInv, OpenIsKept
<1>4. CASE b \notin DOMAIN calls
  <2>1. UNCHANGED <<tools, done, calls>>
    BY <1>4
  <2>2. ReplyTypes'
    BY <1>0, <1>1, <1>2, <2>1 DEF ReplyTypes, ReplyTypeOK
  <2>3. OpenIsKept'
    BY <1>1, <1>4, <2>1 DEF DataInv, OpenIsKept
  <2>4. ClosedIsCollected'
    <3>1. \A x \in BlockIds : argued'[x] = argued[x]
      BY <1>4
    <3>2. \A k \in DOMAIN tools : tools[k].id \in BlockIds /\ tools[k].id \in DOMAIN blocks
      BY <1>0, <1>3, ReplyDomains DEF DataInv, ClosedIsCollected
    <3> QED  BY <1>1, <2>1, <3>1, <3>2 DEF DataInv, ClosedIsCollected
  <2> QED  BY <1>1, <2>2, <2>3, <2>4 DEF DataInv
<1>5. CASE b \in DOMAIN calls
  <2> DEFINE t == [id |-> b, pieces |-> calls[b]]
  <2>1. /\ tools' = Append(tools, t) /\ done' = done \cup {b}
        /\ calls' = [x \in DOMAIN calls \ {b} |-> calls[x]]
    BY <1>5 DEF HandsOn
  <2>2. /\ b \notin done /\ calls[b] = blocks[b].pieces /\ b \in BlockIds
        /\ calls[b] \in 0..MaxPieces
    BY <1>0, <1>5, ReplyDomains DEF DataInv, OpenIsKept
  <2>3. t \in Call /\ t.id = b /\ t.pieces = blocks[b].pieces
    BY <2>2 DEF Call
  <2> HIDE DEF t
  <2>4. /\ tools' \in Seq(Call) /\ DOMAIN tools' = DOMAIN tools \cup {Len(tools) + 1}
        /\ Len(tools) + 1 \notin DOMAIN tools
        /\ \A k \in DOMAIN tools : tools'[k] = tools[k]
        /\ tools'[Len(tools) + 1] = t
    BY <1>0, <2>1, <2>3, Appended DEF ReplyTypes, ReplyTypeOK
  <2>5. DOMAIN calls' = DOMAIN calls \ {b} /\ \A x \in DOMAIN calls' : calls'[x] = calls[x]
    BY <2>1
  <2>6. ReplyTypeOK'
    <3>1. \A x \in DOMAIN calls' : x \in BlockIds /\ calls'[x] \in 0..MaxPieces
      BY <1>0, <2>5 DEF ReplyTypes, ReplyTypeOK
    <3>2. done' \in SUBSET BlockIds
      BY <1>0, <2>1, <2>2 DEF ReplyTypes, ReplyTypeOK
    <3> QED  BY <1>0, <1>1, <2>4, <3>1, <3>2 DEF ReplyTypes, ReplyTypeOK
  <2>7. OpenIsKept'
    <3>1. DOMAIN calls' = {x \in DOMAIN blocks' : blocks'[x].kind = "call" /\ blocks'[x].open}
      BY <1>1, <2>5 DEF DataInv, OpenIsKept
    <3>2. done' = {x \in DOMAIN blocks' : blocks'[x].kind = "call" /\ ~blocks'[x].open}
      BY <1>1, <1>5, <2>1 DEF DataInv, OpenIsKept
    <3>3. \A x \in DOMAIN calls' : calls'[x] = blocks'[x].pieces
      BY <1>1, <1>3, <2>5 DEF DataInv, OpenIsKept
    <3> QED  BY <3>1, <3>2, <3>3 DEF OpenIsKept
  <2>8. ClosedIsCollected'
    <3>1. {tools[k].id : k \in DOMAIN tools} = done
      BY DEF DataInv, ClosedIsCollected
    <3>2. {tools'[k].id : k \in DOMAIN tools'} = done'
      BY <2>1, <2>3, <2>4, <3>1
    <3>3. \A k \in DOMAIN tools : tools[k].id \in done
      BY <3>1
    <3>4. \A k \in DOMAIN tools' : tools'[k].pieces = blocks'[tools'[k].id].pieces
      BY <1>1, <1>3, <2>3, <2>4, <3>3 DEF DataInv, ClosedIsCollected
    <3>5. \A k \in DOMAIN tools : tools[k].id # b /\ argued'[tools[k].id] = argued[tools[k].id]
      BY <1>0, <2>2, <3>3, ReplyDomains
    <3>6. \A k, l \in DOMAIN tools' :
            tools'[k].id = tools'[l].id /\ argued'[tools'[k].id] # "late" => k = l
      BY <2>2, <2>3, <2>4, <3>5 DEF DataInv, ClosedIsCollected
    <3> QED  BY <3>2, <3>4, <3>6 DEF ClosedIsCollected
  <2> QED  BY <1>1, <1>2, <2>6, <2>7, <2>8 DEF DataInv, ReplyTypes
<1> QED  BY <1>4, <1>5

\* The end of the arguments of a call that was handed on: it is handed on again.
LEMMA LateArguments ==
    ASSUME DataInv, NEW b \in BlockIds, ArgumentsDone(b), b \in done
    PROVE  DataInv' /\ DOMAIN blocks' = DOMAIN blocks
<1>1. /\ ReplyTypes /\ OpenIsKept /\ ClosedIsCollected /\ b \in DOMAIN blocks /\ Whole(b)
      /\ blocks' = [blocks EXCEPT ![b].open = FALSE]
      /\ argued' = [argued EXCEPT ![b] = "late"] /\ HandsOn(b)
      /\ UNCHANGED <<protocol, thinking, attempt, stream, over, reason, collector, text, reply>>
  BY DEF DataInv, ArgumentsDone, CallEnds
<1>2. ~blocks[b].open /\ blocks[b].kind = "call" /\ b \notin DOMAIN calls
  BY <1>1 DEF OpenIsKept
<1>3. /\ blocks' \in Seq(Block) /\ Len(blocks') = Len(blocks) /\ DOMAIN blocks' = DOMAIN blocks
      /\ \A x \in DOMAIN blocks :
           /\ blocks'[x].kind = blocks[x].kind /\ blocks'[x].size = blocks[x].size
           /\ blocks'[x].pieces = blocks[x].pieces
           /\ blocks'[x].open <=> blocks[x].open
  BY <1>1, <1>2, OneIsClosed
<1> DEFINE t == [id |-> b, pieces |-> blocks[b].size]
<1>4. /\ tools' = Append(tools, t) /\ done' = done /\ DOMAIN calls' = DOMAIN calls
      /\ \A x \in DOMAIN calls : calls'[x] = calls[x]
  BY <1>1, <1>2 DEF HandsOn
<1>5. t \in Call /\ t.id = b /\ t.pieces = blocks[b].pieces
  BY <1>1, ReplyDomains DEF Call, Whole
<1> HIDE DEF t
<1>6. /\ tools' \in Seq(Call) /\ DOMAIN tools' = DOMAIN tools \cup {Len(tools) + 1}
      /\ \A k \in DOMAIN tools : tools'[k] = tools[k]
      /\ tools'[Len(tools) + 1] = t
  BY <1>1, <1>4, <1>5, Appended DEF ReplyTypes, ReplyTypeOK
<1>7. /\ argued' \in [BlockIds -> {"no", "first", "late"}] /\ argued'[b] = "late"
      /\ \A x \in BlockIds : argued'[x] = IF x = b THEN "late" ELSE argued[x]
  BY <1>1 DEF ReplyTypes, ReplyTypeOK
<1>8. ReplyTypes'
  <2>1. \A x \in DOMAIN calls' : x \in BlockIds /\ calls'[x] \in 0..MaxPieces
    BY <1>1, <1>4 DEF ReplyTypes, ReplyTypeOK
  <2>2. ReplyTypeOK'
    BY <1>1, <1>3, <1>4, <1>6, <1>7, <2>1 DEF ReplyTypes, ReplyTypeOK
  <2>3. \A x \in DOMAIN blocks' : /\ blocks'[x].pieces <= blocks'[x].size
                                  /\ blocks'[x].kind = "text" => blocks'[x].size = 0
    BY <1>1, <1>3 DEF ReplyTypes
  <2> QED  BY <2>2, <2>3 DEF ReplyTypes
<1>9. OpenIsKept'
  <2>1. /\ DOMAIN calls' = {x \in DOMAIN blocks' : blocks'[x].kind = "call" /\ blocks'[x].open}
        /\ done' = {x \in DOMAIN blocks' : blocks'[x].kind = "call" /\ ~blocks'[x].open}
    BY <1>1, <1>3, <1>4 DEF OpenIsKept
  <2>2. \A x \in DOMAIN calls' : calls'[x] = blocks'[x].pieces
    BY <1>1, <1>3, <1>4 DEF OpenIsKept
  <2> QED  BY <2>1, <2>2 DEF OpenIsKept
<1>10. ClosedIsCollected'
  <2>1. {tools[k].id : k \in DOMAIN tools} = done
    BY <1>1 DEF ClosedIsCollected
  <2>2. {tools'[k].id : k \in DOMAIN tools'} = done'
    BY <1>4, <1>5, <1>6, <2>1
  <2>3. \A k \in DOMAIN tools : tools[k].id \in DOMAIN blocks /\ tools[k].id \in BlockIds
    BY <1>1, <2>1, ReplyDomains DEF OpenIsKept
  <2>4. \A k \in DOMAIN tools' : tools'[k].pieces = blocks'[tools'[k].id].pieces
    BY <1>1, <1>3, <1>5, <1>6, <2>3 DEF ClosedIsCollected
  <2>5. \A k, l \in DOMAIN tools' :
          tools'[k].id = tools'[l].id /\ argued'[tools'[k].id] # "late" => k = l
    BY <1>1, <1>5, <1>6, <1>7, <2>3 DEF ClosedIsCollected
  <2> QED  BY <2>2, <2>4, <2>5 DEF ClosedIsCollected
<1> QED  BY <1>3, <1>8, <1>9, <1>10 DEF DataInv


\* What a step of the control leaves alone.
Quiet == UNCHANGED <<blocks, calls, done, tools, text, argued>>

\* The end, as the server tells it: nothing of what was collected changes.
LEMMA StopStep ==
    ASSUME ReplyInv, NEW word \in {"natural", "tool_calls", "limit", "refused"},
           StopReason(word) \/ Completed(word)
    PROVE  ReplyInv'
<1>1. /\ ReplyTypes /\ OpenIsKept /\ ClosedIsCollected /\ TextIsOfBlocks
      /\ ServerStops(word) /\ over = "no" /\ over' = word /\ reply = "none"
      /\ Quiet /\ UNCHANGED <<protocol, thinking, attempt>>
  BY DEF ReplyInv, StopReason, Completed, ServerStops, Receiving, Quiet
<1>2. CASE word = "refused" /\ Failed /\ reason' = reason
  <2>1. ReplyTypeOK'
    BY <1>1, <1>2 DEF Failed, Quiet, ReplyTypes, ReplyTypeOK
  <2>2. DataInv'
    BY <1>1, <2>1, DataStays DEF DataInv, Quiet
  <2>3. TextIsOfBlocks' /\ EndIsTold'
    BY <1>1, <1>2 DEF Failed, Quiet, TextIsOfBlocks, EndIsTold, ReplyInv
  <2> QED  BY <2>2, <2>3 DEF DataInv, ReplyInv
<1>3. CASE /\ word # "refused" /\ UNCHANGED <<stream, collector, reply>>
           /\ reason' \in Reasons /\ (reason' = "tool_calls" => word = "tool_calls")
  <2>1. ReplyTypeOK'
    BY <1>1, <1>3 DEF Quiet, ReplyTypes, ReplyTypeOK, Reasons
  <2>2. DataInv'
    BY <1>1, <2>1, DataStays DEF DataInv, Quiet
  <2>3. TextIsOfBlocks'
    BY <1>1 DEF Quiet, TextIsOfBlocks
  <2>4. word \in {"natural", "tool_calls"} =>
          /\ \A b \in DOMAIN blocks : ~blocks[b].open /\ Whole(b)
          /\ word = "tool_calls" <=> HasCalls
    BY <1>1 DEF ServerStops
  <2>5. EndIsTold'
    BY <1>1, <1>3, <2>4 DEF Quiet, EndIsTold, Whole, HasCalls, Reasons
  <2> QED  BY <2>2, <2>3, <2>5 DEF DataInv, ReplyInv
<1>4. ~HasCalls => tools = <<>>
  <2> SUFFICES ASSUME ~HasCalls PROVE tools = <<>>
    OBVIOUS
  <2>1. DOMAIN tools = {}
    <3>1. done = {}
      BY <1>1 DEF HasCalls, OpenIsKept
    <3> QED  BY <1>1, <3>1 DEF ClosedIsCollected
  <2>2. tools \in Seq(Call) /\ DOMAIN tools = 1..Len(tools) /\ Len(tools) \in Nat
    BY <1>1, ReplyDomains, LenProperties DEF ReplyTypes, ReplyTypeOK
  <2>3. Len(tools) = 0
    <3>1. 1 \notin 1..Len(tools)
      BY <2>1, <2>2
    <3> QED  BY <2>2, <3>1
  <2> QED  BY <2>2, <2>3, EmptySeq
<1>5. CASE StopReason(word)
  <2>1. \/ word = "refused" /\ Failed /\ reason' = reason
        \/ /\ word # "refused" /\ UNCHANGED <<stream, collector, reply>>
           /\ reason' = IF word = "limit" THEN "output_limit" ELSE word
    BY <1>5 DEF StopReason
  <2>2. word # "refused" /\ reason' = (IF word = "limit" THEN "output_limit" ELSE word)
          => reason' \in Reasons /\ (reason' = "tool_calls" => word = "tool_calls")
    BY DEF Reasons
  <2> QED  BY <1>2, <1>3, <2>1, <2>2
<1>6. CASE Completed(word)
  <2>1. \/ word = "refused" /\ Failed /\ reason' = reason
        \/ /\ word # "refused" /\ UNCHANGED <<stream, collector, reply>>
           /\ reason' = IF word = "limit" THEN "output_limit"
                        ELSE IF tools # << >> THEN "tool_calls" ELSE "natural"
    BY <1>6 DEF Completed
  <2>2. word = "natural" => ~HasCalls
    BY <1>1 DEF ServerStops
  <2>3. word = "natural" => tools = <<>>
    BY <1>4, <2>2
  <2>4. ASSUME word # "refused", reason' = (IF word = "limit" THEN "output_limit"
                                          ELSE IF tools # << >> THEN "tool_calls" ELSE "natural")
        PROVE  reason' \in Reasons /\ (reason' = "tool_calls" => word = "tool_calls")
    <3>1. CASE word = "limit" \/ tools = <<>>
      BY <2>4, <3>1 DEF Reasons
    <3>2. CASE word # "limit" /\ tools # <<>>
      BY <2>3, <2>4, <3>2 DEF Reasons
    <3> QED  BY <3>1, <3>2
  <2> QED  BY <1>2, <1>3, <2>1, <2>4
<1> QED  BY <1>5, <1>6

\* The steps that begin or end a request, and what the agent gets of them.
LEMMA RequestStep ==
    ASSUME ReplyInv,
           Sends \/ Breaks \/ RefusesThinking \/ StreamEnds \/ Cancelled \/ UNCHANGED replyvars
    PROVE  ReplyInv'
<1>1. /\ ReplyTypes /\ OpenIsKept /\ ClosedIsCollected /\ TextIsOfBlocks /\ EndIsTold
      /\ Quiet /\ UNCHANGED <<protocol, thinking, over, reason>>
  BY DEF ReplyInv, Sends, Breaks, RefusesThinking, StreamEnds, Cancelled, replyvars, servervars,
         parservars, collectorvars, Quiet
<1>2. /\ attempt' \in 1..2 /\ stream' \in {"closed", "open", "ended"}
      /\ collector' \in {"new", "consuming", "complete", "failed"}
      /\ reply' \in Reasons \cup {"none", "error", "cancelled"}
      /\ reply' = "none" => reply = "none"
      /\ reply' = "tool_calls" =>
           \/ reply = "tool_calls"
           \/ reply = "none" /\ (reason = "none" \/ reason = "tool_calls")
      /\ attempt' # attempt => blocks = <<>>
  <2>1. CASE Sends \/ Breaks \/ RefusesThinking \/ Cancelled \/ UNCHANGED replyvars
    BY <1>1, <2>1 DEF Sends, Breaks, RefusesThinking, Cancelled, Failed, replyvars, servervars,
                      collectorvars, ReplyTypes, ReplyTypeOK
  <2>2. ASSUME NEW finish \in Reasons \cup {"none"}, Collects(finish)
        PROVE  /\ stream' = "ended" /\ collector' \in {"complete", "failed"}
               /\ reply' = "error" \/ (reply' = finish /\ finish # "none")
    BY <2>2 DEF Collects
  <2>3. CASE StreamEnds
    <3>1. reply = "none" /\ attempt' = attempt /\ reason \in Reasons \cup {"none"}
      BY <1>1, <2>3 DEF StreamEnds, Receiving, ReplyTypes, ReplyTypeOK
    <3>2. \/ reason = "none" /\ \E f \in {"tool_calls", "natural"} : Collects(f)
          \/ Collects(reason)
      BY <2>3 DEF StreamEnds
    <3>3. /\ stream' = "ended" /\ collector' \in {"complete", "failed"}
          /\ reply' \in Reasons \cup {"error"}
          /\ reply' = "tool_calls" => reason \in {"none", "tool_calls"}
      BY <2>2, <3>1, <3>2 DEF Reasons
    <3> QED  BY <1>1, <3>1, <3>3 DEF ReplyTypes, ReplyTypeOK, Reasons
  <2> QED  BY <2>1, <2>3
<1>3. ReplyTypeOK'
  BY <1>1, <1>2 DEF Quiet, ReplyTypes, ReplyTypeOK
<1>4. DataInv'
  BY <1>1, <1>3, DataStays DEF DataInv, Quiet
<1>5. TextIsOfBlocks'
  <2>1. blocks = <<>> => DOMAIN text = {}
    <3>1. DOMAIN <<>> = {}
      OBVIOUS
    <3> QED  BY <1>1, <3>1 DEF TextIsOfBlocks
  <2> QED  BY <1>1, <1>2, <2>1 DEF Quiet, TextIsOfBlocks
<1>6. EndIsTold'
  BY <1>1, <1>2 DEF Quiet, EndIsTold, Whole, HasCalls
<1> QED  BY <1>4, <1>5, <1>6 DEF DataInv, ReplyInv

\* The events of the reply, before its end.
LEMMA EventStep ==
    ASSUME ReplyInv,
           \/ \E what \in {"text", "call"}, size \in 0..MaxPieces : BlockStarts(what, size)
           \/ \E b \in BlockIds : \/ TextDelta(b) \/ PieceArrives(b) \/ BlockStops(b)
                                  \/ ArgumentsDone(b) \/ ItemDone(b)
    PROVE  ReplyInv'
<1>1. DataInv /\ ReplyTypes /\ TextIsOfBlocks /\ EndIsTold
  BY DEF ReplyInv, DataInv
<1>2. ASSUME over = "no", UNCHANGED <<over, reason, reply, text, attempt>>, DataInv',
             DOMAIN blocks \subseteq DOMAIN blocks'
      PROVE  ReplyInv'
  BY <1>1, <1>2 DEF TextIsOfBlocks, EndIsTold, DataInv, ReplyInv
<1>3. ASSUME NEW what \in {"text", "call"}, NEW size \in 0..MaxPieces, BlockStarts(what, size)
      PROVE  ReplyInv'
  <2>1. DataInv' /\ DOMAIN blocks \subseteq DOMAIN blocks'
    BY <1>1, <1>3, StartsData
  <2> QED  BY <1>2, <1>3, <2>1 DEF BlockStarts, collectorvars
<1>4. ASSUME NEW b \in BlockIds, PieceArrives(b) PROVE ReplyInv'
  <2>1. DataInv' /\ DOMAIN blocks \subseteq DOMAIN blocks'
    BY <1>1, <1>4, PieceData
  <2> QED  BY <1>2, <1>4, <2>1 DEF PieceArrives, collectorvars
<1>5. ASSUME NEW b \in BlockIds, BlockStops(b) \/ ArgumentsDone(b) \/ ItemDone(b)
      PROVE  ReplyInv'
  <2>1. /\ over = "no" /\ b \in DOMAIN blocks /\ blocks' = [blocks EXCEPT ![b].open = FALSE]
        /\ UNCHANGED <<protocol, thinking, attempt, stream, over, reason, collector, text, reply>>
    BY <1>5 DEF BlockStops, ArgumentsDone, ItemDone, CallEnds, Receiving
  <2>2. b \in DOMAIN calls <=> blocks[b].kind = "call" /\ b \notin done
    BY <1>1, <2>1 DEF DataInv, OpenIsKept
  <2>3. argued \in [BlockIds -> {"no", "first", "late"}]
    BY <1>1 DEF ReplyTypes, ReplyTypeOK
  <2>4. CASE ArgumentsDone(b) /\ b \in done
    <3>1. DataInv' /\ DOMAIN blocks \subseteq DOMAIN blocks'
      BY <1>1, <2>4, LateArguments
    <3> QED  BY <1>2, <2>1, <3>1
  <2>5. CASE ArgumentsDone(b) /\ b \notin done
    <3>1. /\ argued' = [argued EXCEPT ![b] = "first"] /\ HandsOn(b) /\ b \in DOMAIN calls
      BY <2>2, <2>5 DEF ArgumentsDone
    <3>2. /\ argued' \in [BlockIds -> {"no", "first", "late"}]
          /\ \A x \in BlockIds : argued'[x] = argued[x] \/ (x = b /\ b \in DOMAIN calls)
      BY <2>3, <3>1
    <3>3. DataInv' /\ DOMAIN blocks \subseteq DOMAIN blocks'
      BY <1>1, <2>1, <3>1, <3>2, ClosedData
    <3> QED  BY <1>2, <2>1, <3>3
  <2>6. CASE BlockStops(b) \/ ItemDone(b)
    <3>1. IF b \in DOMAIN calls THEN HandsOn(b) ELSE UNCHANGED <<tools, done, calls>>
      BY <2>2, <2>6 DEF BlockStops, ItemDone
    <3>2. argued' = argued
      BY <2>6 DEF BlockStops, ItemDone
    <3>3. DataInv' /\ DOMAIN blocks \subseteq DOMAIN blocks'
      BY <1>1, <2>1, <2>3, <3>1, <3>2, ClosedData
    <3> QED  BY <1>2, <2>1, <3>3
  <2> QED  BY <1>5, <2>4, <2>5, <2>6
<1>6. ASSUME NEW b \in BlockIds, TextDelta(b) PROVE ReplyInv'
  <2> DEFINE t == [attempt |-> attempt, id |-> b]
  <2>1. /\ b \in DOMAIN blocks /\ text' = Append(text, t)
        /\ UNCHANGED <<protocol, thinking, attempt, stream, blocks, over, argued, calls, done,
                       reason, collector, tools, reply>>
    BY <1>6 DEF TextDelta, servervars, parservars
  <2>2. t \in [attempt : 1..2, id : BlockIds] /\ t.attempt = attempt /\ t.id = b
    BY <1>1 DEF ReplyTypes, ReplyTypeOK
  <2> HIDE DEF t
  <2>3. /\ text' \in Seq([attempt : 1..2, id : BlockIds])
        /\ DOMAIN text' = DOMAIN text \cup {Len(text) + 1}
        /\ \A k \in DOMAIN text : text'[k] = text[k]
        /\ text'[Len(text) + 1] = t
    BY <1>1, <2>1, <2>2, Appended DEF ReplyTypes, ReplyTypeOK
  <2>4. ReplyTypeOK'
    BY <1>1, <2>1, <2>3 DEF ReplyTypes, ReplyTypeOK
  <2>5. DataInv'
    BY <1>1, <2>1, <2>4, DataStays
  <2>6. TextIsOfBlocks'
    BY <1>1, <2>1, <2>2, <2>3 DEF TextIsOfBlocks
  <2>7. EndIsTold'
    BY <1>1, <2>1 DEF EndIsTold, Whole, HasCalls
  <2> QED  BY <2>5, <2>6, <2>7 DEF DataInv, ReplyInv
<1> QED  BY <1>3, <1>4, <1>5, <1>6

\* Every step of a request keeps the invariant.
LEMMA ReplyInvStep == ReplyInv /\ [ReplyNext]_replyvars => ReplyInv'
<1> SUFFICES ASSUME ReplyInv, [ReplyNext]_replyvars PROVE ReplyInv'
  OBVIOUS
<1>1. CASE \E word \in {"natural", "tool_calls", "limit", "refused"} :
             StopReason(word) \/ Completed(word)
  BY <1>1, StopStep
<1>2. CASE \/ Sends \/ Breaks \/ RefusesThinking \/ StreamEnds \/ Cancelled \/ Decided
           \/ UNCHANGED replyvars
  BY <1>2, RequestStep DEF Decided
<1>3. CASE \/ \E what \in {"text", "call"}, size \in 0..MaxPieces : BlockStarts(what, size)
           \/ \E b \in BlockIds : \/ TextDelta(b) \/ PieceArrives(b) \/ BlockStops(b)
                                  \/ ArgumentsDone(b) \/ ItemDone(b)
  BY <1>3, EventStep
<1> QED  BY <1>1, <1>2, <1>3 DEF ReplyNext

\* A request that was not sent satisfies it.
LEMMA ReplyInvInit == ReplyInit => ReplyInv
<1> SUFFICES ASSUME ReplyInit PROVE ReplyInv
  OBVIOUS
<1>1. /\ blocks = <<>> /\ calls = <<>> /\ text = <<>> /\ tools = <<>> /\ done = {}
      /\ Len(<<>>) = 0 /\ DOMAIN <<>> = {} /\ 0 <= MaxBlocks
  BY ReplyAssumption DEF ReplyInit
<1>2. ReplyTypeOK
  BY <1>1 DEF ReplyInit, ReplyTypeOK
<1>3. ReplyTypes /\ OpenIsKept /\ ClosedIsCollected /\ TextIsOfBlocks
  BY <1>1, <1>2 DEF ReplyTypes, OpenIsKept, ClosedIsCollected, TextIsOfBlocks
<1>4. EndIsTold
  BY DEF ReplyInit, EndIsTold
<1> QED  BY <1>3, <1>4 DEF ReplyInv

\* Every reachable state of a request satisfies the invariant.
THEOREM ReplyInvariant == ReplySpec => []ReplyInv
  BY ReplyInvInit, ReplyInvStep, PTL DEF ReplySpec

\* Every variable of a request keeps its type (mewcode/providers, agent/streaming.py).
THEOREM ReplyTypesHold == ReplySpec => []ReplyTypeOK
<1>1. ReplyInv => ReplyTypeOK
  BY DEF ReplyInv, ReplyTypes
<1> QED  BY <1>1, ReplyInvariant, PTL

\* The agent runs the calls of the reply with their own arguments when the server told how the
\* reply ended, and each once unless the server told the end of its item before that of its
\* arguments; and a request that was sent again shows nothing twice (the parsers of
\* mewcode/providers, StreamCollector).
THEOREM RepliesStayWhole == ReplySpec => []RepliesAreWhole
<1>1. ReplyInv => CallsAreTheModels
  <2> SUFFICES ASSUME ReplyInv, RunsCalls
               PROVE  /\ {tools[k].id : k \in DOMAIN tools}
                           = {b \in DOMAIN blocks : blocks[b].kind = "call"}
                      /\ \A k \in DOMAIN tools : tools[k].pieces = blocks[tools[k].id].size
                      /\ \A k, l \in DOMAIN tools :
                           tools[k].id = tools[l].id /\ argued[tools[k].id] # "late" => k = l
    BY DEF CallsAreTheModels
  <2>1. \A b \in DOMAIN blocks : ~blocks[b].open /\ blocks[b].pieces = blocks[b].size
    BY DEF ReplyInv, EndIsTold, Whole, RunsCalls
  <2>2. done = {b \in DOMAIN blocks : blocks[b].kind = "call"}
    BY <2>1 DEF ReplyInv, OpenIsKept
  <2>3. \A k \in DOMAIN tools : tools[k].id \in done
    BY DEF ReplyInv, ClosedIsCollected
  <2> QED  BY <2>1, <2>2, <2>3 DEF ReplyInv, ClosedIsCollected
<1>2. ReplyInv => OneAttemptIsShown
  BY DEF ReplyInv, TextIsOfBlocks, OneAttemptIsShown
<1> QED  BY <1>1, <1>2, ReplyInvariant, PTL DEF RepliesAreWhole

-----------------------------------------------------------------------------
(* ReplTurn *)

\* Nothing follows such an item.
IsLast(item) == item.kind \in {"end", "error"}

\* How many events of the turn are in got, or in the queue.
Events(s) == IF s # <<>> /\ ~IsLast(s[1]) THEN 1 ELSE 0

\* How many the pump holds.
HeldEvents == IF pump = "held" /\ ~IsLast(held) THEN 1 ELSE 0

\* The types, and how many events a turn has made when it gets where it is.
ReplTypes ==
    /\ ReplTypeOK /\ op \in {"send", "compact"} /\ turn \in Nat
    /\ ended \in {"none", "committed", "completed", "failed"}
    /\ session \in {"open", "closed"} /\ interrupted \in BOOLEAN
    /\ shown \in Seq(Nat) /\ messages \in Seq(Nat) /\ stored \in Seq(Nat)
    /\ made \in 0..(MaxEvents + 2)
    /\ gen = "waits" => made = 0
    /\ gen = "begins" => made <= 1
    /\ gen = "runs" => made <= MaxEvents + 1

\* The end of a turn is the last item, and whoever has put it or cancelled the pump has left
\* nothing at work: outside a turn the pump is done, and so are the generator and the run.
EndsAreLast ==
    /\ pump = "done" => gen = "over"
    /\ gen \in {"waits", "begins", "over"} => run \notin {"on", "cancelled"}
    /\ gen \in {"waits", "begins"} => ended = "none"
    /\ pump = "held" /\ IsLast(held) => gen = "over"
    /\ queue # <<>> /\ IsLast(queue[1]) => pump = "done"
    /\ got # <<>> /\ IsLast(got[1]) => pump = "done" /\ queue = <<>>
    /\ repl \in {"prompt", "resets", "closing", "over"} => pump = "done"
    /\ repl # "wait" => got = <<>> /\ ~listening

\* The events made but not yet shown are, in order, those got, queued and held.
EventsInOrder ==
  repl \in {"wait", "asking"} =>
    /\ got # <<>> /\ ~IsLast(got[1]) => got[1].n = Len(shown) + 1
    /\ queue # <<>> /\ ~IsLast(queue[1]) => queue[1].n = Len(shown) + Events(got) + 1
    /\ pump = "held" /\ ~IsLast(held) => held.n = Len(shown) + Events(got) + Events(queue) + 1
    /\ made = Len(shown) + Events(got) + Events(queue) + HeldEvents

\* What leaves a run behind is an interruption or a fault, and without a fault the prompt does
\* not come back after a run that cannot be cancelled.
LeftBehind ==
    /\ run \in {"stale", "lost"} => interrupted \/ replFaults > 0
    /\ run = "lost" => \/ replFaults > 0
                       \/ repl \in {"closing", "over"}
                       \/ repl = "cleanup" /\ ending \in {"failed", "cancelled"}

\* The run has committed a turn that the conversation does not remember yet.
Underway == gen \in {"runs", "last"} /\ Committed

\* The session is at most the turn at hand ahead of the conversation, and stays ahead only
\* when that turn was cut off.
StoredIsAhead ==
    /\ stored = messages \/ \E t \in Nat : stored = Append(messages, t)
    /\ Underway => stored = Append(messages, turn)
    /\ op = "compact" => ended = "none"
    /\ interrupted \/ replFaults > 0 \/ messages = stored \/ Underway

\* A turn that ended is cleaned up when its pump is done.
CleanupIsLast == repl = "cleanup" /\ ending = "done" => pump = "done"

\* While a turn is at work the update that it awaited is forgotten.
UpdateForgotten == gen \in {"begins", "runs", "last", "ends"} => memory = "none"

\* The inductive invariant.
ReplInv == /\ ReplTypes /\ EndsAreLast /\ ShownInOrder /\ EventsInOrder /\ LeftBehind
           /\ StoredIsAhead /\ UpdateForgotten /\ CleanupIsLast

\* What a queue of one holds.
LEMMA OneItem ==
    ASSUME NEW s \in {<<>>} \cup {<<i>> : i \in Items}
    PROVE  s # <<>> => s[1] \in Items /\ s = <<s[1]>>
  OBVIOUS

\* How a cleanup leaves the pump and the generator: both done, or a run that was told.
LEMMA CleanupEffect ==
    ASSUME NEW how, Cleanup(how), ReplTypeOK
    PROVE  /\ repl' = "cleanup" /\ ending' = how /\ listening' = FALSE /\ got' = <<>>
           /\ UNCHANGED <<held, queue>>
           /\ \/ pump = "done" /\ UNCHANGED <<pump, gen, run, ask, memory>>
              \/ /\ pump = "next" /\ gen = "runs" /\ op = "send"
                 /\ run' = "cancelled" /\ ask' = "none" /\ UNCHANGED <<pump, gen, memory>>
              \/ /\ pump # "done" /\ pump' = "done" /\ gen' = "over" /\ ask' = ask
                 /\ run' \in {"none", "stale", "lost"}
                 /\ (memory' = memory \/ (gen = "waits" /\ memory' = "cancelled"))
<1>1. CASE pump = "done"
  BY <1>1 DEF Cleanup, pumpvars
<1>2. CASE pump # "done"
  <2>1. CancelPump
    BY <1>2 DEF Cleanup
  <2>2. CASE pump = "next" /\ gen = "runs" /\ op = "send"
    BY <2>1, <2>2 DEF Cleanup, CancelPump, pumpvars
  <2>3. CASE ~(pump = "next" /\ gen = "runs" /\ op = "send")
    BY <1>2, <2>1, <2>3 DEF Cleanup, CancelPump, Left, pumpvars, ReplTypeOK
  <2> QED BY <2>2, <2>3
<1> QED BY <1>1, <1>2

\* What Append makes of a sequence of numbers.
LEMMA Longer ==
    ASSUME NEW s \in Seq(Nat), NEW n \in Nat
    PROVE  /\ Append(s, n) \in Seq(Nat) /\ Len(s) \in Nat /\ Len(Append(s, n)) = Len(s) + 1
           /\ \A i \in 1..Len(s) : Append(s, n)[i] = s[i]
           /\ Append(s, n)[Len(s) + 1] = n
           /\ \A i \in 1..Len(Append(s, n)) : i \in 1..Len(s) \/ i = Len(s) + 1
  BY AppendProperties

\* What the loop does with what it got.
LEMMA TakesEffect ==
    ASSUME TakesEvent, ReplTypeOK
    PROVE  /\ repl = "wait" /\ got # <<>> /\ got[1] \in Items /\ got[1].n \in Nat
           /\ UNCHANGED <<ended, made, messages, stored, op, turn, session, interrupted>>
           /\ \/ /\ got[1].kind = "end" /\ IsLast(got[1]) /\ Cleanup("done")
                 /\ UNCHANGED <<shown, replFaults>>
              \/ /\ got[1].kind = "error" /\ IsLast(got[1]) /\ Cleanup("raised")
                 /\ UNCHANGED <<shown, replFaults>>
              \/ /\ ~IsLast(got[1]) /\ repl' \in {"wait", "asking"} /\ got' = <<>>
                 /\ listening' = (IF repl' = "wait" THEN listening ELSE FALSE)
                 /\ shown' = Append(shown, got[1].n)
                 /\ UNCHANGED <<ending, pump, held, queue, gen, run, ask, memory, replFaults>>
              \/ /\ ~IsLast(got[1]) /\ ReplFault /\ Cleanup("failed") /\ UNCHANGED shown
<1>1. /\ got[1] \in Items /\ got # <<>>
  BY OneItem DEF TakesEvent, ReplTypeOK
<1>2. got[1].n \in Nat
  BY <1>1, ReplAssumption DEF Items
<1>3. /\ repl = "wait" /\ got[1].kind \in {"event", "ask", "end", "error"}
      /\ UNCHANGED <<ended, made, messages, stored, op, turn, session, interrupted>>
  BY <1>1 DEF TakesEvent, turnvars, Items
<1>4. CASE got[1].kind = "end"
  <2>1. (IF got[1].kind = "end" THEN "done" ELSE "raised") = "done"
    BY <1>4
  <2>2. Cleanup(IF got[1].kind = "end" THEN "done" ELSE "raised") /\ UNCHANGED <<shown, replFaults>>
    BY <1>4 DEF TakesEvent
  <2>3. Cleanup("done") /\ IsLast(got[1])
    BY <1>4, <2>1, <2>2 DEF IsLast
  <2> QED BY <1>1, <1>2, <1>3, <1>4, <2>2, <2>3
<1>5. CASE got[1].kind = "error"
  BY <1>1, <1>2, <1>3, <1>5 DEF TakesEvent, IsLast
<1>6. CASE got[1].kind = "ask"
  BY <1>1, <1>2, <1>3, <1>6 DEF TakesEvent, IsLast, pumpvars
<1>7. CASE got[1].kind = "event"
  BY <1>1, <1>2, <1>3, <1>7 DEF TakesEvent, IsLast, pumpvars
<1> QED BY <1>3, <1>4, <1>5, <1>6, <1>7

\* A cleanup keeps the types.
LEMMA CleanupTypes ==
    ASSUME ReplTypes, NEW how \in {"done", "raised", "failed", "cancelled"}, Cleanup(how),
           replFaults' \in 0..MaxReplFaults, interrupted' \in BOOLEAN, shown' \in Seq(Nat),
           UNCHANGED <<ended, made, messages, stored, op, turn, session>>
    PROVE  ReplTypes'
<1>1. ReplTypeOK
  BY DEF ReplTypes
<1>2. ReplTypeOK'
  BY <1>1, CleanupEffect DEF ReplTypeOK
<1>3. gen' \in {gen, "over"}
  BY <1>1, CleanupEffect
<1> QED BY <1>2, <1>3 DEF ReplTypes

\* A fault is counted, and within the bound.
LEMMA FaultCounts ==
    ASSUME ReplTypeOK, ReplFault
    PROVE  replFaults' \in 0..MaxReplFaults /\ replFaults' > 0
  BY ReplAssumption DEF ReplTypeOK, ReplFault

\* Taking an event keeps the types.
LEMMA TakesTypes == ASSUME ReplTypes, TakesEvent PROVE ReplTypes'
<1>1. ReplTypeOK /\ shown \in Seq(Nat) /\ replFaults \in 0..MaxReplFaults
  BY DEF ReplTypes, ReplTypeOK
<1> DEFINE x == got[1].n
<1>2. x \in Nat /\ (shown' = shown \/ shown' = Append(shown, x))
  BY <1>1, TakesEffect
<1>3. shown' \in Seq(Nat)
  <2> HIDE DEF x
  <2> QED BY <1>1, <1>2, Longer
<1>4. replFaults' \in 0..MaxReplFaults
  BY <1>1, TakesEffect, FaultCounts
<1>5. /\ UNCHANGED <<ended, made, messages, stored, op, turn, session, interrupted>>
      /\ interrupted \in BOOLEAN
  BY <1>1, TakesEffect DEF ReplTypes
<1>6. CASE Cleanup("done")
  BY <1>3, <1>4, <1>5, <1>6, CleanupTypes
<1>7. CASE Cleanup("raised")
  BY <1>3, <1>4, <1>5, <1>7, CleanupTypes
<1>8. CASE Cleanup("failed")
  BY <1>3, <1>4, <1>5, <1>8, CleanupTypes
<1>9. CASE ~Cleanup("done") /\ ~Cleanup("raised") /\ ~Cleanup("failed")
  <2>1. /\ repl' \in {"wait", "asking"} /\ got' = <<>> /\ listening' \in {listening, FALSE}
        /\ UNCHANGED <<ending, pump, held, queue, gen, run, ask, memory, replFaults>>
    BY <1>1, <1>9, TakesEffect
  <2>2. listening' \in BOOLEAN
    BY <1>1, <2>1, Zenon DEF ReplTypeOK
  <2>3. ReplTypeOK'
    BY <1>1, <2>1, <2>2 DEF ReplTypeOK
  <2> QED BY <1>3, <1>5, <2>1, <2>3 DEF ReplTypes
<1> QED BY <1>6, <1>7, <1>8, <1>9

\* A key keeps the types.
LEMMA PressTypes == ASSUME ReplTypes, Presses PROVE ReplTypes'
<1>1. ReplTypeOK /\ shown \in Seq(Nat) /\ interrupted \in BOOLEAN
  BY DEF ReplTypes
<1> QED BY <1>1, CleanupTypes, FaultCounts DEF Presses, turnvars

\* Ctrl-C keeps the types.
LEMMA InterruptTypes == ASSUME ReplTypes, Interrupts PROVE ReplTypes'
<1>1. ReplTypeOK /\ shown \in Seq(Nat) /\ replFaults \in 0..MaxReplFaults
  BY DEF ReplTypes, ReplTypeOK
<1>2. /\ interrupted' = TRUE
      /\ UNCHANGED <<ended, made, messages, stored, op, turn, shown, session, replFaults>>
  BY DEF Interrupts, turnvars
<1>3. CASE Cleanup("cancelled")
  BY <1>1, <1>2, <1>3, CleanupTypes
<1>4. CASE ~Cleanup("cancelled")
  <2>1. ReplTypeOK' /\ gen' = gen
    BY <1>1, <1>2, <1>4 DEF Interrupts, ReplTypeOK, pumpvars
  <2> QED BY <1>2, <2>1 DEF ReplTypes
<1> QED BY <1>3, <1>4

\* A turn is cleaned up as done on its last item.
LEMMA TakenLast ==
    ASSUME ReplTypes, TakesEvent, Cleanup("done")
    PROVE  IsLast(got[1]) /\ shown' = shown /\ made' = made /\ repl = "wait"
<1>1. ReplTypeOK
  BY DEF ReplTypes
<1>2. ending' = "done" /\ repl' = "cleanup"
  BY <1>1, CleanupEffect
<1>3. ASSUME NEW how, how # "done" PROVE ~Cleanup(how)
  <2>1. SUFFICES ASSUME Cleanup(how) PROVE FALSE
    OBVIOUS
  <2>2. ending' = how
    BY <1>1, <2>1, CleanupEffect
  <2> QED BY <1>2, <1>3, <2>2
<1> QED BY <1>1, <1>2, <1>3, TakesEffect

\* A commit keeps the types.
LEMMA CommitTypes == ASSUME ReplTypes, RunCommits PROVE ReplTypes'
<1>1. ReplTypeOK /\ messages \in Seq(Nat) /\ turn \in Nat /\ replFaults \in 0..MaxReplFaults
  BY DEF ReplTypes, ReplTypeOK
<1>2. Append(messages, turn) \in Seq(Nat)
  BY <1>1, Longer
<1>3. replFaults' \in 0..MaxReplFaults
  BY <1>1, FaultCounts DEF RunCommits
<1>4. stored' \in Seq(Nat) /\ ended' \in {"none", "committed", "completed", "failed"}
  BY <1>2 DEF RunCommits, ReplTypes
<1>5. UNCHANGED <<repl, ending, pump, held, queue, listening, got, gen, op, run, ask, made, shown,
                  turn, messages, memory, session, interrupted>>
  BY DEF RunCommits, Stays, pumpvars, turnvars
<1> QED BY <1>3, <1>4, <1>5 DEF ReplTypes, ReplTypeOK

\* The head of a queue of one.
LEMMA OneQueued == ASSUME NEW i PROVE <<i>> # <<>> /\ <<i>>[1] = i
  OBVIOUS

\* Where an item is after a put.
LEMMA PutEffect ==
    ASSUME NEW item, Put(item)
    PROVE  \/ /\ queue = <<>> /\ queue' = <<item>> /\ held' = held
              /\ pump' = IF IsLast(item) THEN "done" ELSE "next"
           \/ queue # <<>> /\ queue' = queue /\ held' = item /\ pump' = "held"
  BY DEF Put, IsLast

\* got, the queue and the pump have an event or none.
LEMMA EventCounts ==
    ASSUME NEW s
    PROVE  Events(s) \in {0, 1} /\ HeldEvents \in {0, 1} /\ Events(<<>>) = 0
  BY DEF Events, HeldEvents

\* A put keeps the order, of an event that is the next, or of an end.
LEMMA PutKeepsOrder ==
    ASSUME ReplInv, pump = "next", NEW item \in Items, Put(item), UNCHANGED <<got, shown, repl>>,
           \/ IsLast(item) /\ made' = made
           \/ ~IsLast(item) /\ made' = made + 1 /\ item.n = made + 1
    PROVE  EventsInOrder'
<1> DEFINE l == Len(shown)
           g == Events(got)
           q == Events(queue)
<1>1. l \in Nat /\ g \in {0, 1} /\ q \in {0, 1} /\ made \in Nat /\ HeldEvents = 0
  BY EventCounts, ReplAssumption DEF ReplInv, ReplTypes, HeldEvents
<1>2. CASE queue = <<>>
  <2>1. queue' = <<item>> /\ pump' # "held" /\ q = 0 /\ HeldEvents' = 0
    BY <1>2, PutEffect, EventCounts DEF HeldEvents
  <2>2. queue' # <<>> /\ queue'[1] = item /\ Events(queue') = IF IsLast(item) THEN 0 ELSE 1
    BY <2>1, OneQueued DEF Events
  <2> HIDE DEF l, g, q
  <2> QED BY <1>1, <2>1, <2>2 DEF EventsInOrder, ReplInv, l, g, q
<1>3. CASE queue # <<>>
  <2>1. /\ queue' = queue /\ pump' = "held" /\ held' = item
        /\ HeldEvents' = IF IsLast(item) THEN 0 ELSE 1
    BY <1>3, PutEffect DEF HeldEvents
  <2> QED BY <1>1, <2>1 DEF EventsInOrder, ReplInv
<1> QED BY <1>2, <1>3

\* A refused turn ends by an error, and leaves the rest alone.
LEMMA RefusedEffect ==
    ASSUME ReplInv, Refused
    PROVE  /\ Put(Error) /\ Error \in Items /\ IsLast(Error) /\ pump = "next"
           /\ pump' \in {"next", "held", "done"} /\ gen \in {"begins", "waits"}
           /\ run \notin {"none", "on", "cancelled"} /\ gen' = "over"
           /\ UNCHANGED <<run, ended, ask, made, messages, stored, memory, replFaults, repl, ending,
                          listening, got, op, turn, shown, session, interrupted>>
<1>1. Error \in Items /\ IsLast(Error)
  BY ReplAssumption DEF Items, QueueItem, IsLast, Error
<1>2. gen \in {"begins", "waits"} /\ pump = "next" /\ Put(Error)
  BY DEF Refused
<1>3. pump' \in {"next", "held", "done"}
  BY <1>2, PutEffect
<1> QED BY <1>1, <1>2, <1>3 DEF Refused, Stays, turnvars, ReplInv, EndsAreLast

\* The types are kept.
LEMMA ReplTypesStep == ReplInv /\ [ReplNext]_replvars => ReplTypes'
<1> SUFFICES ASSUME ReplInv, [ReplNext]_replvars PROVE ReplTypes'
  OBVIOUS
<1> USE ReplAssumption, OneItem
   DEF ReplInv, ReplTypes, EndsAreLast, pumpvars, turnvars, genvars, Stays
<1>1. ASSUME SendsMessage PROVE ReplTypes'
  BY <1>1 DEF SendsMessage, ReplTypeOK, Items, QueueItem, End, Error, ReplFault
<1>2. ASSUME Clears PROVE ReplTypes'
  BY <1>2 DEF Clears, ReplTypeOK, Items, QueueItem, End, Error, ReplFault
<1>3. ASSUME Quits PROVE ReplTypes'
  BY <1>3 DEF Quits, ReplTypeOK, Items, QueueItem, End, Error, ReplFault
<1>4. ASSUME Gets PROVE ReplTypes'
  BY <1>4 DEF Gets, ReplTypeOK, Items, QueueItem, End, Error, ReplFault
<1>5. ASSUME UserAnswers PROVE ReplTypes'
  BY <1>5 DEF UserAnswers, ReplTypeOK, Items, QueueItem, End, Error, ReplFault
<1>6. ASSUME CleanedUp PROVE ReplTypes'
  BY <1>6 DEF CleanedUp, ReplTypeOK, Items, QueueItem, End, Error, ReplFault
<1>7. ASSUME IsClosed PROVE ReplTypes'
  BY <1>7 DEF IsClosed, ReplTypeOK, Items, QueueItem, End, Error, ReplFault
<1>8. ASSUME Unblocks PROVE ReplTypes'
  BY <1>8 DEF Unblocks, ReplTypeOK, Items, QueueItem, End, Error, ReplFault
<1>9. ASSUME Begins PROVE ReplTypes'
  BY <1>9 DEF Begins, ReplTypeOK, Items, QueueItem, End, Error, ReplFault
<1>10. ASSUME RunOver PROVE ReplTypes'
  BY <1>10 DEF RunOver, ReplTypeOK, Items, QueueItem, End, Error, ReplFault
<1>11. ASSUME MemoryUpdated PROVE ReplTypes'
  BY <1>11 DEF MemoryUpdated, ReplTypeOK, Items, QueueItem, End, Error, ReplFault
<1>12. ASSUME Presses PROVE ReplTypes'
  BY <1>12, PressTypes
<1>13. ASSUME Interrupts PROVE ReplTypes'
  BY <1>13, InterruptTypes
<1>14. ASSUME TakesEvent PROVE ReplTypes'
  BY <1>14, TakesTypes
<1>15. ASSUME Cleared PROVE ReplTypes'
  <2>1. stored' \in Seq(Nat) /\ messages' \in Seq(Nat)
    BY <1>15, EmptySeq DEF Cleared
  <2> QED BY <1>15, <2>1 DEF Cleared, ReplFault, ReplTypeOK
<1>16. ASSUME Preflight PROVE ReplTypes'
  BY <1>16 DEF Preflight, Put, Emits, ReplTypeOK, Items, QueueItem, End, Error, ReplFault
<1>17. ASSUME RunEmits PROVE ReplTypes'
  BY <1>17 DEF RunEmits, Put, Emits, ReplTypeOK, Items, QueueItem, End, Error, ReplFault
<1>18. ASSUME RunCommits PROVE ReplTypes'
  BY <1>18, CommitTypes
<1>19. ASSUME RunStops PROVE ReplTypes'
  BY <1>19 DEF RunStops, Put, Emits, ReplTypeOK, Items, QueueItem, End, Error, ReplFault
<1>20. ASSUME TurnEnds PROVE ReplTypes'
  BY <1>20 DEF TurnEnds, Put, Emits, ReplTypeOK, Items, QueueItem, End, Error, ReplFault
<1>21. ASSUME Compacts PROVE ReplTypes'
  <2>1. stored' \in Seq(Nat) /\ messages' \in Seq(Nat)
    <3>1. \/ stored' = stored /\ messages' = messages
          \/ stored' = <<turn>> /\ messages' = <<turn>>
      BY <1>21 DEF Compacts
    <3>2. <<turn>> \in Seq(Nat)
      OBVIOUS
    <3> QED BY <3>1, <3>2
  <2>2. PICK item \in {End, Error} : Put(item)
    BY <1>21 DEF Compacts
  <2>3. item \in Items
    BY DEF Items, QueueItem, End, Error
  <2>4. replFaults' \in 0..MaxReplFaults
    BY <1>21 DEF Compacts, ReplFault, ReplTypeOK
  <2>5. /\ queue' \in {<<>>} \cup {<<i>> : i \in Items}
        /\ held' \in Items /\ pump' \in {"next", "held", "done"}
    BY <2>2, <2>3, PutEffect DEF ReplTypeOK
  <2>6. /\ gen' = "over" /\ run' = "none"
        /\ UNCHANGED <<repl, ending, listening, got, op, turn, shown, session, interrupted,
                       ended, ask, made, memory>>
    BY <1>21 DEF Compacts
  <2> QED BY <2>1, <2>4, <2>5, <2>6 DEF ReplTypeOK
<1>22. ASSUME Refused PROVE ReplTypes'
  BY <1>22, RefusedEffect, PutEffect DEF ReplTypeOK
<1>23. CASE UNCHANGED replvars
  BY <1>23 DEF replvars, ReplTypeOK, Items, QueueItem, End, Error, ReplFault
<1> QED BY <1>1, <1>2, <1>3, <1>4, <1>5, <1>6, <1>7, <1>8, <1>9, <1>10, <1>11, <1>12, <1>13,
   <1>14, <1>15, <1>16, <1>17, <1>18, <1>19, <1>20, <1>21, <1>22, <1>23
   DEF ReplNext, Loop, Generator

\* A cleanup leaves no end that is not the last item.
LEMMA CleanupKeepsEnds ==
    ASSUME ReplInv, NEW how, Cleanup(how), UNCHANGED ended
    PROVE  EndsAreLast'
<1>1. ReplTypeOK /\ EndsAreLast
  BY DEF ReplInv, ReplTypes
<1> QED BY <1>1, CleanupEffect DEF EndsAreLast, IsLast

\* The end stays the last item.
LEMMA EndsAreLastStep == ReplInv /\ [ReplNext]_replvars => EndsAreLast'
<1> SUFFICES ASSUME ReplInv, [ReplNext]_replvars PROVE EndsAreLast'
  OBVIOUS
<1> USE ReplAssumption, OneItem
   DEF ReplInv, ReplTypes, EndsAreLast, pumpvars, turnvars, genvars, Stays
<1>1. ASSUME SendsMessage PROVE EndsAreLast'
  BY <1>1 DEF SendsMessage, ReplTypeOK, IsLast, QueueItem, End, Error, Items
<1>2. ASSUME Clears \/ Quits PROVE EndsAreLast'
  BY <1>2 DEF Clears, Quits, ReplTypeOK, IsLast, QueueItem, End, Error, Items
<1>3. ASSUME Gets \/ UserAnswers PROVE EndsAreLast'
  BY <1>3 DEF Gets, UserAnswers, ReplTypeOK, IsLast, QueueItem, End, Error, Items
<1>4. ASSUME CleanedUp \/ Cleared PROVE EndsAreLast'
  BY <1>4 DEF CleanedUp, Cleared, ReplTypeOK, IsLast, QueueItem, End, Error, Items
<1>5. ASSUME IsClosed \/ Unblocks PROVE EndsAreLast'
  BY <1>5 DEF IsClosed, Unblocks, ReplTypeOK, IsLast, QueueItem, End, Error, Items
<1>6. ASSUME Begins \/ RunCommits PROVE EndsAreLast'
  BY <1>6 DEF Begins, RunCommits, ReplTypeOK, IsLast, QueueItem, End, Error, Items
<1>7. ASSUME RunOver \/ MemoryUpdated PROVE EndsAreLast'
  BY <1>7 DEF RunOver, MemoryUpdated, ReplTypeOK, IsLast, QueueItem, End, Error, Items
<1>8. ASSUME Presses PROVE EndsAreLast'
  BY <1>8, CleanupKeepsEnds DEF Presses
<1>9. ASSUME Interrupts PROVE EndsAreLast'
  <2>1. CASE Cleanup("cancelled")
    BY <1>9, <2>1, CleanupKeepsEnds DEF Interrupts
  <2>2. CASE ~Cleanup("cancelled")
    <3>1. /\ repl \in {"prompt", "resets", "closing", "cleanup"} /\ repl' \in {"prompt", "closing", "over"}
          /\ repl = "cleanup" => pump = "done"
          /\ UNCHANGED <<ending, pump, held, queue, listening, got, gen, run, ended>>
      BY <1>9, <2>2 DEF Interrupts, Hangs
    <3> QED BY <3>1
  <2> QED BY <2>1, <2>2
<1>10. ASSUME TakesEvent PROVE EndsAreLast'
  <2>1. CASE \E how \in {"done", "raised", "failed"} : Cleanup(how)
    BY <1>10, <2>1, CleanupKeepsEnds DEF TakesEvent
  <2>2. CASE ~\E how \in {"done", "raised", "failed"} : Cleanup(how)
    <3>1. /\ repl = "wait" /\ repl' \in {"wait", "asking"} /\ got' = <<>>
          /\ listening' = (IF repl' = "wait" THEN listening ELSE FALSE)
          /\ UNCHANGED <<ending, pump, held, queue, gen, run, ended>>
      BY <1>10, <2>2, TakesEffect
    <3> QED BY <3>1
  <2> QED BY <2>1, <2>2
<1>11. ASSUME Preflight PROVE EndsAreLast'
  BY <1>11 DEF Preflight, Put, Emits, ReplTypeOK, IsLast, QueueItem, End, Error, Items
<1>12. ASSUME RunEmits PROVE EndsAreLast'
  BY <1>12 DEF RunEmits, Put, Emits, ReplTypeOK, IsLast, QueueItem, End, Error, Items
<1>13. ASSUME RunStops PROVE EndsAreLast'
  BY <1>13 DEF RunStops, Put, Emits, ReplTypeOK, IsLast, QueueItem, End, Error, Items
<1>14. ASSUME TurnEnds PROVE EndsAreLast'
  BY <1>14 DEF TurnEnds, Put, Emits, ReplTypeOK, IsLast, QueueItem, End, Error, Items
<1>15. ASSUME Compacts PROVE EndsAreLast'
  BY <1>15 DEF Compacts, Put, Emits, ReplTypeOK, IsLast, QueueItem, End, Error, Items
<1>16. ASSUME Refused PROVE EndsAreLast'
  BY <1>16, RefusedEffect, PutEffect, OneQueued DEF ReplTypeOK
<1>17. CASE UNCHANGED replvars
  BY <1>17 DEF replvars, ReplTypeOK, IsLast, QueueItem, End, Error, Items
<1> QED BY <1>1, <1>2, <1>3, <1>4, <1>5, <1>6, <1>7, <1>8, <1>9, <1>10, <1>11, <1>12, <1>13,
   <1>14, <1>15, <1>16, <1>17
   DEF ReplNext, Loop, Generator

\* A run that is left behind comes of an interruption or a fault.
LEMMA LeftBehindStep == ReplInv /\ [ReplNext]_replvars => LeftBehind'
<1> SUFFICES ASSUME ReplInv, [ReplNext]_replvars PROVE LeftBehind'
  OBVIOUS
<1> USE ReplAssumption, OneItem
   DEF ReplInv, ReplTypes, EndsAreLast, LeftBehind, pumpvars, turnvars, genvars, Stays
<1>1. ASSUME SendsMessage PROVE LeftBehind'
  BY <1>1 DEF SendsMessage, ReplTypeOK, QueueItem, End, Error, Items, ReplFault
<1>2. ASSUME Clears \/ Quits \/ Gets PROVE LeftBehind'
  BY <1>2 DEF Clears, Quits, Gets, ReplTypeOK, QueueItem, End, Error, Items, ReplFault
<1>3. ASSUME UserAnswers \/ CleanedUp \/ Cleared PROVE LeftBehind'
  BY <1>3 DEF UserAnswers, CleanedUp, Cleared, ReplTypeOK, QueueItem, End, Error, Items, ReplFault
<1>4. ASSUME IsClosed \/ Unblocks \/ Begins PROVE LeftBehind'
  BY <1>4 DEF IsClosed, Unblocks, Begins, ReplTypeOK, QueueItem, End, Error, Items, ReplFault
<1>5. ASSUME RunCommits \/ RunOver \/ MemoryUpdated PROVE LeftBehind'
  BY <1>5 DEF RunCommits, RunOver, MemoryUpdated, ReplTypeOK, QueueItem, End, Error, Items,
     ReplFault
<1>6. ASSUME Presses PROVE LeftBehind'
  BY <1>6 DEF Presses, Cleanup, CancelPump, ReplTypeOK, QueueItem, End, Error, Items, ReplFault
<1>7. ASSUME Interrupts PROVE LeftBehind'
  BY <1>7 DEF Interrupts, Cleanup, CancelPump, ReplTypeOK, QueueItem, End, Error, Items, ReplFault
<1>8. ASSUME TakesEvent PROVE LeftBehind'
  <2>1. CASE IsLast(got[1])
    <3>1. pump = "done" /\ UNCHANGED <<run, interrupted, replFaults>> /\ repl = "wait"
      BY <1>8, <2>1, TakesEffect, CleanupEffect
    <3> QED BY <3>1
  <2>2. CASE ReplFault
    <3>1. replFaults' > 0
      BY <2>2, FaultCounts
    <3> QED BY <3>1
  <2>3. CASE ~IsLast(got[1]) /\ ~ReplFault
    BY <1>8, <2>3, TakesEffect
  <2> QED BY <2>1, <2>2, <2>3
<1>9. ASSUME Preflight PROVE LeftBehind'
  BY <1>9 DEF Preflight, Put, Emits, ReplTypeOK, QueueItem, End, Error, Items, ReplFault
<1>10. ASSUME RunEmits PROVE LeftBehind'
  BY <1>10 DEF RunEmits, Put, Emits, ReplTypeOK, QueueItem, End, Error, Items, ReplFault
<1>11. ASSUME RunStops PROVE LeftBehind'
  BY <1>11 DEF RunStops, Put, Emits, ReplTypeOK, QueueItem, End, Error, Items, ReplFault
<1>12. ASSUME TurnEnds PROVE LeftBehind'
  BY <1>12 DEF TurnEnds, Put, UpdateForgotten, ReplTypeOK, QueueItem, End, Error, Items
<1>13. ASSUME Compacts PROVE LeftBehind'
  BY <1>13 DEF Compacts, Put, Emits, ReplTypeOK, QueueItem, End, Error, Items, ReplFault
<1>14. ASSUME Refused PROVE LeftBehind'
  BY <1>14, RefusedEffect
<1>15. CASE UNCHANGED replvars
  BY <1>15 DEF replvars, ReplTypeOK, QueueItem, End, Error, Items, ReplFault
<1> QED BY <1>1, <1>2, <1>3, <1>4, <1>5, <1>6, <1>7, <1>8, <1>9, <1>10, <1>11, <1>12, <1>13, <1>14, <1>15
   DEF ReplNext, Loop, Generator

\* No update is left while a turn is at work.
LEMMA UpdateForgottenStep == ReplInv /\ [ReplNext]_replvars => UpdateForgotten'
<1> SUFFICES ASSUME ReplInv, [ReplNext]_replvars PROVE UpdateForgotten'
  OBVIOUS
<1> USE ReplAssumption, OneItem
   DEF ReplInv, ReplTypes, EndsAreLast, UpdateForgotten, pumpvars, turnvars, genvars, Stays
<1>1. ASSUME SendsMessage PROVE UpdateForgotten'
  BY <1>1 DEF SendsMessage, ReplTypeOK
<1>2. ASSUME Clears \/ Quits \/ Gets PROVE UpdateForgotten'
  BY <1>2 DEF Clears, Quits, Gets, ReplTypeOK
<1>3. ASSUME UserAnswers \/ CleanedUp \/ Cleared PROVE UpdateForgotten'
  BY <1>3 DEF UserAnswers, CleanedUp, Cleared, ReplTypeOK
<1>4. ASSUME IsClosed \/ Unblocks \/ Begins PROVE UpdateForgotten'
  BY <1>4 DEF IsClosed, Unblocks, Begins, ReplTypeOK
<1>5. ASSUME RunCommits \/ RunOver \/ MemoryUpdated PROVE UpdateForgotten'
  BY <1>5 DEF RunCommits, RunOver, MemoryUpdated, ReplTypeOK
<1>6. ASSUME Presses PROVE UpdateForgotten'
  BY <1>6 DEF Presses, Cleanup, CancelPump, ReplTypeOK
<1>7. ASSUME Interrupts PROVE UpdateForgotten'
  BY <1>7 DEF Interrupts, Cleanup, CancelPump, ReplTypeOK
<1>8. ASSUME TakesEvent PROVE UpdateForgotten'
  BY <1>8 DEF TakesEvent, Cleanup, CancelPump, ReplTypeOK
<1>9. ASSUME Preflight PROVE UpdateForgotten'
  BY <1>9 DEF Preflight, Put, Emits, ReplTypeOK
<1>10. ASSUME RunEmits PROVE UpdateForgotten'
  BY <1>10 DEF RunEmits, Put, Emits, ReplTypeOK
<1>11. ASSUME RunStops PROVE UpdateForgotten'
  BY <1>11 DEF RunStops, Put, Emits, ReplTypeOK
<1>12. ASSUME TurnEnds PROVE UpdateForgotten'
  BY <1>12 DEF TurnEnds, Put, Emits, ReplTypeOK
<1>13. ASSUME Compacts PROVE UpdateForgotten'
  BY <1>13 DEF Compacts, Put, Emits, ReplTypeOK
<1>14. ASSUME Refused PROVE UpdateForgotten'
  BY <1>14, RefusedEffect
<1>15. CASE UNCHANGED replvars
  BY <1>15 DEF replvars, ReplTypeOK
<1> QED BY <1>1, <1>2, <1>3, <1>4, <1>5, <1>6, <1>7, <1>8, <1>9, <1>10, <1>11, <1>12, <1>13, <1>14, <1>15
   DEF ReplNext, Loop, Generator

\* A turn that is over is cleaned up after its pump.
LEMMA CleanupIsLastStep == ReplInv /\ [ReplNext]_replvars => CleanupIsLast'
<1> SUFFICES ASSUME ReplInv, [ReplNext]_replvars PROVE CleanupIsLast'
  OBVIOUS
<1> USE ReplAssumption, OneItem
   DEF ReplInv, ReplTypes, EndsAreLast, CleanupIsLast, pumpvars, turnvars, genvars, Stays
<1>1. ASSUME SendsMessage PROVE CleanupIsLast'
  BY <1>1 DEF SendsMessage, ReplTypeOK, IsLast
<1>2. ASSUME Clears \/ Quits \/ Gets PROVE CleanupIsLast'
  BY <1>2 DEF Clears, Quits, Gets, ReplTypeOK, IsLast
<1>3. ASSUME UserAnswers \/ CleanedUp \/ Cleared PROVE CleanupIsLast'
  BY <1>3 DEF UserAnswers, CleanedUp, Cleared, ReplTypeOK, IsLast
<1>4. ASSUME IsClosed \/ Unblocks \/ Begins PROVE CleanupIsLast'
  BY <1>4 DEF IsClosed, Unblocks, Begins, ReplTypeOK, IsLast
<1>5. ASSUME RunCommits \/ RunOver \/ MemoryUpdated PROVE CleanupIsLast'
  BY <1>5 DEF RunCommits, RunOver, MemoryUpdated, ReplTypeOK, IsLast
<1>6. ASSUME Presses PROVE CleanupIsLast'
  BY <1>6 DEF Presses, Cleanup, CancelPump, ReplTypeOK, IsLast
<1>7. ASSUME Interrupts PROVE CleanupIsLast'
  BY <1>7 DEF Interrupts, Cleanup, CancelPump, ReplTypeOK, IsLast
<1>8. ASSUME TakesEvent PROVE CleanupIsLast'
  BY <1>8 DEF TakesEvent, Cleanup, CancelPump, ReplTypeOK, IsLast
<1>9. ASSUME Preflight PROVE CleanupIsLast'
  BY <1>9 DEF Preflight, Put, Emits, ReplTypeOK, IsLast
<1>10. ASSUME RunEmits PROVE CleanupIsLast'
  BY <1>10 DEF RunEmits, Put, Emits, ReplTypeOK, IsLast
<1>11. ASSUME RunStops PROVE CleanupIsLast'
  BY <1>11 DEF RunStops, Put, Emits, ReplTypeOK, IsLast
<1>12. ASSUME TurnEnds PROVE CleanupIsLast'
  BY <1>12 DEF TurnEnds, Put, Emits, ReplTypeOK, IsLast
<1>13. ASSUME Compacts PROVE CleanupIsLast'
  BY <1>13 DEF Compacts, Put, Emits, ReplTypeOK, IsLast
<1>14. ASSUME Refused PROVE CleanupIsLast'
  BY <1>14, RefusedEffect
<1>15. CASE UNCHANGED replvars
  BY <1>15 DEF replvars, ReplTypeOK, IsLast
<1> QED BY <1>1, <1>2, <1>3, <1>4, <1>5, <1>6, <1>7, <1>8, <1>9, <1>10, <1>11, <1>12, <1>13, <1>14, <1>15
   DEF ReplNext, Loop, Generator

\* The session stays at most a turn ahead.
LEMMA StoredIsAheadStep == ReplInv /\ [ReplNext]_replvars => StoredIsAhead'
<1> SUFFICES ASSUME ReplInv, [ReplNext]_replvars PROVE StoredIsAhead'
  OBVIOUS
<1> USE ReplAssumption, OneItem
   DEF ReplInv, ReplTypes, EndsAreLast, StoredIsAhead, pumpvars, turnvars, genvars, Stays,
       LeftBehind
<1>1. ASSUME SendsMessage PROVE StoredIsAhead'
  BY <1>1 DEF SendsMessage, ReplTypeOK, Underway, Committed, ReplFault
<1>2. ASSUME Clears \/ Quits PROVE StoredIsAhead'
  BY <1>2 DEF Clears, Quits, ReplTypeOK, Underway, Committed, ReplFault
<1>3. ASSUME Gets \/ UserAnswers PROVE StoredIsAhead'
  BY <1>3 DEF Gets, UserAnswers, ReplTypeOK, Underway, Committed, ReplFault
<1>4. ASSUME CleanedUp \/ IsClosed PROVE StoredIsAhead'
  BY <1>4 DEF CleanedUp, IsClosed, ReplTypeOK, Underway, Committed, ReplFault
<1>5. ASSUME Unblocks \/ Begins PROVE StoredIsAhead'
  BY <1>5 DEF Unblocks, Begins, ReplTypeOK, Underway, Committed, ReplFault
<1>6. ASSUME RunOver \/ MemoryUpdated PROVE StoredIsAhead'
  BY <1>6 DEF RunOver, MemoryUpdated, ReplTypeOK, Underway, Committed, ReplFault
<1>7. ASSUME Presses PROVE StoredIsAhead'
  BY <1>7 DEF Presses, Cleanup, CancelPump, ReplTypeOK, Underway, Committed, ReplFault
<1>8. ASSUME Interrupts PROVE StoredIsAhead'
  BY <1>8 DEF Interrupts, Cleanup, CancelPump, ReplTypeOK, Underway, Committed, ReplFault
<1>9. ASSUME TakesEvent PROVE StoredIsAhead'
  <2>1. CASE IsLast(got[1])
    <3>1. /\ pump = "done" /\ gen' = gen
          /\ UNCHANGED <<ended, messages, stored, turn, op, interrupted, replFaults>>
      BY <1>9, <2>1, TakesEffect, CleanupEffect
    <3> QED BY <3>1 DEF Underway, Committed
  <2>2. CASE ReplFault
    <3>1. /\ replFaults' > 0 /\ gen' \in {gen, "over"}
          /\ UNCHANGED <<ended, messages, stored, turn, op>>
      BY <1>9, <2>2, TakesEffect, CleanupEffect, FaultCounts
    <3> QED BY <3>1 DEF Underway, Committed
  <2>3. CASE gen' = gen /\ replFaults' = replFaults
    BY <1>9, <2>3, TakesEffect DEF Underway, Committed
  <2>4. IsLast(got[1]) \/ ReplFault \/ (gen' = gen /\ replFaults' = replFaults)
    BY <1>9, TakesEffect
  <2> QED BY <2>1, <2>2, <2>3, <2>4
<1>10. ASSUME Cleared PROVE StoredIsAhead'
  <2>1. ~Underway /\ ~Underway'
    BY <1>10 DEF Cleared, Underway, Committed
  <2>2. CASE UNCHANGED <<messages, stored>>
    BY <1>10, <2>1, <2>2 DEF Cleared, ReplFault, ReplTypeOK
  <2>3. CASE messages' = <<>> /\ stored' = <<>>
    BY <1>10, <2>1, <2>3 DEF Cleared
  <2> QED BY <1>10, <2>2, <2>3 DEF Cleared
<1>11. ASSUME Preflight PROVE StoredIsAhead'
  BY <1>11 DEF Preflight, Put, Emits, ReplTypeOK, Underway, Committed, ReplFault
<1>12. ASSUME RunEmits PROVE StoredIsAhead'
  BY <1>12 DEF RunEmits, Put, Emits, ReplTypeOK, Underway, Committed, ReplFault
<1>13. ASSUME RunCommits PROVE StoredIsAhead'
  <2>1. ~Underway
    BY <1>13 DEF RunCommits, Underway, Committed
  <2>2. CASE ended' = "committed"
    BY <1>13, <2>1, <2>2 DEF RunCommits, Underway, Committed, Stays, turnvars
  <2>3. CASE ended' # "committed"
    BY <1>13, <2>1, <2>3 DEF RunCommits, ReplFault, ReplTypeOK, Underway, Committed, Stays, turnvars
  <2> QED BY <2>2, <2>3
<1>14. ASSUME RunStops PROVE StoredIsAhead'
  BY <1>14 DEF RunStops, Put, Emits, ReplTypeOK, Underway, Committed, ReplFault
<1>15. ASSUME TurnEnds PROVE StoredIsAhead'
  BY <1>15 DEF TurnEnds, Put, Emits, ReplTypeOK, Underway, Committed, ReplFault
<1>16. ASSUME Compacts PROVE StoredIsAhead'
  <2>1. ~Underway /\ ~Underway'
    BY <1>16 DEF Compacts, Underway, Committed
  <2>2. CASE UNCHANGED <<messages, stored>>
    <3>1. /\ op' = op /\ ended' = ended /\ interrupted' = interrupted
          /\ (replFaults' = replFaults \/ replFaults' > 0)
      BY <1>16 DEF Compacts, ReplFault, ReplTypeOK
    <3> QED BY <2>1, <2>2, <3>1 DEF ReplTypeOK
  <2>3. CASE messages' = <<turn>> /\ stored' = <<turn>>
    BY <1>16, <2>1, <2>3 DEF Compacts
  <2> QED BY <1>16, <2>2, <2>3 DEF Compacts
<1>17. ASSUME Refused PROVE StoredIsAhead'
  BY <1>17, RefusedEffect DEF Underway, Committed
<1>18. CASE UNCHANGED replvars
  BY <1>18 DEF replvars, ReplTypeOK, Underway, Committed, ReplFault
<1> QED BY <1>1, <1>2, <1>3, <1>4, <1>5, <1>6, <1>7, <1>8, <1>9, <1>10, <1>11, <1>12, <1>13,
   <1>14, <1>15, <1>16, <1>17, <1>18
   DEF ReplNext, Loop, Generator

\* Events stay in order on their way.
LEMMA EventsInOrderStep == ReplInv /\ [ReplNext]_replvars => EventsInOrder'
<1> SUFFICES ASSUME ReplInv, [ReplNext]_replvars PROVE EventsInOrder'
  OBVIOUS
<1> USE ReplAssumption, OneItem
   DEF ReplInv, ReplTypes, EndsAreLast, EventsInOrder, pumpvars, turnvars, genvars, Stays
<1>1. ASSUME SendsMessage PROVE EventsInOrder'
  BY <1>1 DEF SendsMessage, ReplTypeOK, Events, HeldEvents, IsLast, QueueItem, End, Error, Items
<1>2. ASSUME Clears \/ Quits \/ UserAnswers PROVE EventsInOrder'
  BY <1>2 DEF Clears, Quits, UserAnswers, ReplTypeOK, Events, HeldEvents, IsLast, QueueItem, End,
     Error, Items
<1>3. ASSUME CleanedUp \/ Cleared \/ IsClosed PROVE EventsInOrder'
  BY <1>3 DEF CleanedUp, Cleared, IsClosed, ReplTypeOK, Events, HeldEvents, IsLast, QueueItem,
     End, Error, Items
<1>4. ASSUME Begins \/ RunCommits \/ RunOver PROVE EventsInOrder'
  BY <1>4 DEF Begins, RunCommits, RunOver, ReplTypeOK, Events, HeldEvents, IsLast, QueueItem, End,
     Error, Items
<1>5. ASSUME MemoryUpdated PROVE EventsInOrder'
  BY <1>5 DEF MemoryUpdated, ReplTypeOK, Events, HeldEvents, IsLast, QueueItem, End, Error, Items
<1>6. ASSUME Presses PROVE EventsInOrder'
  BY <1>6 DEF Presses, Cleanup, CancelPump, ReplTypeOK, Events, HeldEvents, IsLast, QueueItem,
     End, Error, Items
<1>7. ASSUME Interrupts PROVE EventsInOrder'
  BY <1>7 DEF Interrupts, Cleanup, CancelPump, ReplTypeOK, Events, HeldEvents, IsLast, QueueItem,
     End, Error, Items
<1>8. ASSUME Gets PROVE EventsInOrder'
  <2>1. /\ Events(got) = 0 /\ Events(queue') = 0
        /\ Events(got') = Events(queue) /\ HeldEvents' = HeldEvents
    BY <1>8, EventCounts DEF Gets, HeldEvents
  <2>2. Events(queue) \in {0, 1} /\ HeldEvents \in {0, 1} /\ Len(shown) \in Nat
    <3>1. Events(queue) \in {0, 1} /\ HeldEvents \in {0, 1}
      <4> HIDE DEF EventsInOrder, ReplInv, ReplTypes
      <4> QED BY EventCounts
    <3>2. Len(shown) \in Nat
      BY LenProperties
    <3> QED BY <3>1, <3>2
  <2> QED BY <1>8, <2>1, <2>2 DEF Gets
<1>9. ASSUME TakesEvent PROVE EventsInOrder'
  <2>1. CASE Cleanup("done") \/ Cleanup("raised") \/ Cleanup("failed")
    BY <2>1, CleanupEffect
  <2>2. CASE ~(Cleanup("done") \/ Cleanup("raised") \/ Cleanup("failed"))
    <3>1. /\ got[1] \in Items /\ ~IsLast(got[1]) /\ got # <<>> /\ got' = <<>> /\ repl = "wait"
          /\ shown' = Append(shown, got[1].n) /\ UNCHANGED <<pump, held, queue, made>>
      BY <1>9, <2>2 DEF TakesEvent, ReplTypeOK, IsLast
    <3>2. Len(shown') = Len(shown) + 1 /\ Len(shown) \in Nat
      BY <3>1, AppendProperties DEF Items
    <3>3. /\ Events(got) = 1 /\ Events(got') = 0
          /\ Events(queue) \in {0, 1} /\ HeldEvents \in {0, 1} /\ HeldEvents' = HeldEvents
      BY <3>1, EventCounts DEF Events, HeldEvents
    <3> QED BY <3>1, <3>2, <3>3
  <2> QED BY <2>1, <2>2
<1>10. ASSUME Unblocks PROVE EventsInOrder'
  <2>1. /\ queue = <<>> /\ queue' = <<held>> /\ pump = "held"
        /\ pump' \in {"done", "next"} /\ held' = held
        /\ UNCHANGED <<repl, got, shown, made>>
    BY <1>10 DEF Unblocks
  <2>2. /\ queue' # <<>> /\ queue'[1] = held
        /\ Events(queue') = HeldEvents /\ Events(queue) = 0 /\ HeldEvents' = 0
    BY <2>1, OneQueued, EventCounts DEF Events, HeldEvents
  <2>3. Events(got) \in {0, 1} /\ HeldEvents \in {0, 1} /\ Len(shown) \in Nat
    BY EventCounts
  <2> QED BY <2>1, <2>2, <2>3 DEF HeldEvents
<1>11. ASSUME Preflight PROVE EventsInOrder'
  <2>1. CASE Emits("event")
    <3>1. pump = "next" /\ made + 1 \in 0..(MaxEvents + 2) /\ UNCHANGED <<got, shown, repl>>
      BY <1>11, <2>1 DEF Preflight
    <3> DEFINE item == QueueItem("event", made + 1)
    <3>2. item \in Items /\ ~IsLast(item) /\ item.n = made + 1
      BY <3>1 DEF Items, QueueItem, IsLast
    <3>3. Put(item) /\ made' = made + 1
      BY <2>1 DEF Emits
    <3> QED BY <3>1, <3>2, <3>3, PutKeepsOrder
  <2>2. CASE ~Emits("event")
    <3>1. /\ UNCHANGED <<got, shown, repl, held, queue, made>>
          /\ pump = "next" /\ pump' # "held"
      BY <1>11, <2>2 DEF Preflight
    <3>2. HeldEvents = 0 /\ HeldEvents' = 0
      BY <3>1 DEF HeldEvents
    <3> QED BY <3>1, <3>2
  <2> QED BY <1>11, <2>1, <2>2 DEF Preflight
<1>12. ASSUME RunEmits PROVE EventsInOrder'
  <2>1. CASE Emits("event")
    <3>1. pump = "next" /\ made + 1 \in 0..(MaxEvents + 2) /\ UNCHANGED <<got, shown, repl>>
      BY <1>12, <2>1 DEF RunEmits
    <3> DEFINE item == QueueItem("event", made + 1)
    <3>2. item \in Items /\ ~IsLast(item) /\ item.n = made + 1
      BY <3>1 DEF Items, QueueItem, IsLast
    <3>3. Put(item) /\ made' = made + 1
      BY <2>1 DEF Emits
    <3> QED BY <3>1, <3>2, <3>3, PutKeepsOrder
  <2>2. CASE Emits("ask")
    <3>1. pump = "next" /\ made + 1 \in 0..(MaxEvents + 2) /\ UNCHANGED <<got, shown, repl>>
      BY <1>12, <2>2 DEF RunEmits
    <3> DEFINE item == QueueItem("ask", made + 1)
    <3>2. item \in Items /\ ~IsLast(item) /\ item.n = made + 1
      BY <3>1 DEF Items, QueueItem, IsLast
    <3>3. Put(item) /\ made' = made + 1
      BY <2>2 DEF Emits
    <3> QED BY <3>1, <3>2, <3>3, PutKeepsOrder
  <2> QED BY <1>12, <2>1, <2>2 DEF RunEmits
<1>13. ASSUME RunStops PROVE EventsInOrder'
  <2>1. CASE Emits("event")
    <3>1. pump = "next" /\ made + 1 \in 0..(MaxEvents + 2) /\ UNCHANGED <<got, shown, repl>>
      BY <1>13, <2>1 DEF RunStops
    <3> DEFINE item == QueueItem("event", made + 1)
    <3>2. item \in Items /\ ~IsLast(item) /\ item.n = made + 1
      BY <3>1 DEF Items, QueueItem, IsLast
    <3>3. Put(item) /\ made' = made + 1
      BY <2>1 DEF Emits
    <3> QED BY <3>1, <3>2, <3>3, PutKeepsOrder
  <2> QED BY <1>13, <2>1 DEF RunStops
<1>14. ASSUME TurnEnds PROVE EventsInOrder'
  <2>1. PICK item \in {End, Error} : Put(item)
    BY <1>14 DEF TurnEnds
  <2>2. item \in Items /\ IsLast(item)
    BY ReplAssumption DEF Items, QueueItem, IsLast, End, Error
  <2>3. pump = "next" /\ UNCHANGED <<got, shown, repl, made>>
    BY <1>14 DEF TurnEnds
  <2> QED BY <2>1, <2>2, <2>3, PutKeepsOrder
<1>15. ASSUME Compacts PROVE EventsInOrder'
  <2>1. PICK item \in {End, Error} : Put(item)
    BY <1>15 DEF Compacts
  <2>2. item \in Items /\ IsLast(item)
    BY ReplAssumption DEF Items, QueueItem, IsLast, End, Error
  <2>3. pump = "next" /\ UNCHANGED <<got, shown, repl, made>>
    BY <1>15 DEF Compacts
  <2> QED BY <2>1, <2>2, <2>3, PutKeepsOrder
<1>16. ASSUME Refused PROVE EventsInOrder'
  BY <1>16, RefusedEffect, PutKeepsOrder
<1>17. CASE UNCHANGED replvars
  BY <1>17 DEF replvars, ReplTypeOK, Events, HeldEvents, IsLast, QueueItem, End, Error, Items
<1> QED BY <1>1, <1>2, <1>3, <1>4, <1>5, <1>6, <1>7, <1>8, <1>9, <1>10, <1>11, <1>12, <1>13,
   <1>14, <1>15, <1>16, <1>17
   DEF ReplNext, Loop, Generator

\* And are shown in that order.
LEMMA ShownInOrderStep == ReplInv /\ [ReplNext]_replvars => ShownInOrder'
<1> SUFFICES ASSUME ReplInv, [ReplNext]_replvars PROVE ShownInOrder'
  OBVIOUS
<1> USE ReplAssumption, OneItem
   DEF ReplInv, ReplTypes, EndsAreLast, ShownInOrder, pumpvars, turnvars, genvars, Stays
<1>1. ASSUME SendsMessage PROVE ShownInOrder'
  BY <1>1 DEF SendsMessage, ReplTypeOK, CleanupIsLast
<1>2. ASSUME Clears \/ Quits \/ Gets PROVE ShownInOrder'
  BY <1>2 DEF Clears, Quits, Gets, ReplTypeOK, CleanupIsLast
<1>3. ASSUME UserAnswers \/ CleanedUp \/ Cleared PROVE ShownInOrder'
  BY <1>3 DEF UserAnswers, CleanedUp, Cleared, ReplTypeOK, CleanupIsLast
<1>4. ASSUME IsClosed \/ Unblocks \/ Begins PROVE ShownInOrder'
  BY <1>4 DEF IsClosed, Unblocks, Begins, ReplTypeOK, CleanupIsLast
<1>5. ASSUME RunCommits \/ RunOver \/ MemoryUpdated PROVE ShownInOrder'
  BY <1>5 DEF RunCommits, RunOver, MemoryUpdated, ReplTypeOK, CleanupIsLast
<1>6. ASSUME Presses PROVE ShownInOrder'
  BY <1>6 DEF Presses, Cleanup, CancelPump, ReplTypeOK, CleanupIsLast
<1>7. ASSUME Interrupts PROVE ShownInOrder'
  BY <1>7 DEF Interrupts, Cleanup, CancelPump, ReplTypeOK, CleanupIsLast
<1>8. ASSUME TakesEvent PROVE ShownInOrder'
  <2>0. got[1] \in Items /\ got # <<>>
    BY <1>8, TakesEffect
  <2>1. CASE Cleanup("done")
    <3>1. IsLast(got[1]) /\ shown' = shown /\ repl = "wait" /\ made' = made
      BY <1>8, <2>1, TakenLast
    <3>2. pump = "done" /\ queue = <<>>
      BY <2>0, <3>1
    <3>3. Events(got) = 0 /\ Events(queue) = 0 /\ HeldEvents = 0 /\ Len(shown) \in Nat
      BY <3>1, <3>2, EventCounts DEF Events, HeldEvents
    <3> QED BY <3>1, <3>3 DEF EventsInOrder
  <2>2. CASE Cleanup("raised") \/ Cleanup("failed")
    <3>1. shown' = shown /\ ending' \in {"raised", "failed"}
      BY <1>8, <2>2, TakesEffect, CleanupEffect
    <3> QED BY <3>1
  <2>3. CASE ~(Cleanup("done") \/ Cleanup("raised") \/ Cleanup("failed"))
    <3>1. /\ ~IsLast(got[1]) /\ repl = "wait" /\ repl' # "cleanup"
          /\ shown' = Append(shown, got[1].n)
      BY <1>8, <2>3 DEF TakesEvent, ReplTypeOK, IsLast
    <3>2. got[1].n = Len(shown) + 1 /\ got[1].n \in Nat
      BY <2>0, <3>1 DEF EventsInOrder, Items
    <3>3. /\ Len(shown') = Len(shown) + 1 /\ Len(shown) \in Nat
          /\ \A i \in 1..Len(shown) : shown'[i] = shown[i]
          /\ shown'[Len(shown) + 1] = got[1].n
          /\ \A i \in 1..Len(shown') : i \in 1..Len(shown) \/ i = Len(shown) + 1
      BY <3>1, <3>2, Longer
    <3> QED BY <3>1, <3>2, <3>3
  <2> QED BY <2>1, <2>2, <2>3
<1>9. ASSUME Preflight PROVE ShownInOrder'
  <2>1. /\ shown' = shown /\ repl' = repl /\ ending' = ending /\ pump = "next"
        /\ (repl = "cleanup" /\ ending = "done" => pump = "done")
    BY <1>9 DEF Preflight, CleanupIsLast
  <2> QED BY <2>1
<1>10. ASSUME RunEmits PROVE ShownInOrder'
  <2>1. /\ shown' = shown /\ repl' = repl /\ ending' = ending /\ pump = "next"
        /\ (repl = "cleanup" /\ ending = "done" => pump = "done")
    BY <1>10 DEF RunEmits, CleanupIsLast
  <2> QED BY <2>1
<1>11. ASSUME RunStops PROVE ShownInOrder'
  <2>1. /\ shown' = shown /\ repl' = repl /\ ending' = ending /\ pump = "next"
        /\ (repl = "cleanup" /\ ending = "done" => pump = "done")
    BY <1>11 DEF RunStops, CleanupIsLast
  <2> QED BY <2>1
<1>12. ASSUME TurnEnds PROVE ShownInOrder'
  BY <1>12 DEF TurnEnds, Put, Emits, ReplTypeOK, CleanupIsLast
<1>13. ASSUME Compacts PROVE ShownInOrder'
  BY <1>13 DEF Compacts, Put, Emits, ReplTypeOK, CleanupIsLast
<1>14. ASSUME Refused PROVE ShownInOrder'
  BY <1>14, RefusedEffect DEF CleanupIsLast
<1>15. CASE UNCHANGED replvars
  BY <1>15 DEF replvars, ReplTypeOK, CleanupIsLast
<1> QED BY <1>1, <1>2, <1>3, <1>4, <1>5, <1>6, <1>7, <1>8, <1>9, <1>10, <1>11, <1>12, <1>13, <1>14, <1>15
   DEF ReplNext, Loop, Generator


\* Initially.
LEMMA ReplInvInit == ReplInit => ReplInv
<1> SUFFICES ASSUME ReplInit PROVE ReplInv
  OBVIOUS
<1> USE ReplAssumption DEF ReplInit
<1>1. ReplTypes
  <2>1. <<>> \in Seq(Nat) /\ End \in Items
    BY DEF Items, End, QueueItem
  <2>2. made \in 0..(MaxEvents + 2) /\ replFaults \in 0..MaxReplFaults /\ turn \in Nat
    OBVIOUS
  <2> QED  BY <2>1, <2>2 DEF ReplTypes, ReplTypeOK
<1>2. EndsAreLast /\ LeftBehind /\ UpdateForgotten /\ CleanupIsLast /\ StoredIsAhead
  BY DEF EndsAreLast, LeftBehind, UpdateForgotten, CleanupIsLast, StoredIsAhead, Underway
<1>3. EventsInOrder /\ ShownInOrder
  BY DEF EventsInOrder, ShownInOrder
<1> QED  BY <1>1, <1>2, <1>3 DEF ReplInv

\* Every step of the REPL keeps the invariant.
LEMMA ReplInvStep == ReplInv /\ [ReplNext]_replvars => ReplInv'
  BY ReplTypesStep, EndsAreLastStep, LeftBehindStep, UpdateForgottenStep, CleanupIsLastStep,
     StoredIsAheadStep, EventsInOrderStep, ShownInOrderStep DEF ReplInv

\* The invariant of the REPL and its conversation.
THEOREM ReplInvariant == ReplSpec => []ReplInv
  BY ReplInvInit, ReplInvStep, PTL DEF ReplSpec

\* A history that is a turn ahead has the one before as its beginning.
LEMMA AheadIsLonger ==
    ASSUME NEW m \in Seq(Nat), NEW s \in Seq(Nat), s = m \/ \E t \in Nat : s = Append(m, t)
    PROVE  Len(m) <= Len(s) /\ m = SubSeq(s, 1, Len(m))
<1>1. Len(m) \in Nat /\ Len(s) \in Nat /\ Len(m) <= Len(s) /\ \A i \in 1..Len(m) : s[i] = m[i]
  <2>1. CASE s = m
    BY <2>1, LenProperties
  <2>2. CASE \E t \in Nat : s = Append(m, t)
    BY <2>2, Longer
  <2> QED  BY <2>1, <2>2
<1> DEFINE p == SubSeq(s, 1, Len(m))
<1>2. p \in Seq(Nat) /\ Len(p) = Len(m) /\ \A i \in 1..Len(m) : p[i] = s[i]
  BY <1>1, SubSeqProperties
<1>3. m = p
  <2> HIDE DEF p
  <2> QED  BY <1>1, <1>2, SeqEqual
<1> QED  BY <1>1, <1>3

\* Every variable of the REPL keeps its type, for any number of turns, events and faults
\* (ReplTypeOK).
THEOREM ReplTypesHold == ReplSpec => []ReplTypeOK
<1>1. ReplInv => ReplTypeOK
  BY DEF ReplInv, ReplTypes
<1> QED  BY <1>1, ReplInvariant, PTL

\* For any number of turns, events and faults: events are shown in order, the prompt comes
\* back to an idle conversation, what that remembers is stored, and one memory update runs
\* at a time (repl.py's _consume and pump, conversation.py's turns).
THEOREM PromptsStayWhole == ReplSpec => []PromptsAreWhole
<1>1. ReplInv => PromptsAreWhole
  <2> SUFFICES ASSUME ReplInv PROVE PromptsAreWhole
    OBVIOUS
  <2>1. PromptIsIdle /\ OneUpdateAtATime /\ ShownInOrder
    BY DEF ReplInv, EndsAreLast, LeftBehind, UpdateForgotten, PromptIsIdle, OneUpdateAtATime
  <2>2. HistoryIsStored
    <3>1. /\ messages \in Seq(Nat) /\ stored \in Seq(Nat) /\ replFaults \in Nat
          /\ stored = messages \/ \E t \in Nat : stored = Append(messages, t)
      BY ReplAssumption DEF ReplInv, ReplTypes, ReplTypeOK, StoredIsAhead
    <3>2. Len(messages) <= Len(stored) /\ messages = SubSeq(stored, 1, Len(messages))
      BY <3>1, AheadIsLonger
    <3>3. repl = "prompt" => ~Underway
      BY DEF ReplInv, EndsAreLast, Underway
    <3> QED  BY <3>1, <3>2, <3>3 DEF ReplInv, StoredIsAhead, HistoryIsStored
  <2> QED  BY <2>1, <2>2 DEF PromptsAreWhole
<1> QED  BY <1>1, ReplInvariant, PTL

-----------------------------------------------------------------------------
(* the conversation *)

\* The part that acts is as its own specification allows, the others are as they began.
ConversationInv ==
    /\ IF searched = "agent" THEN AgentInv ELSE IdleAgent
    /\ ReplyInv /\ ReplInv /\ ExitInv /\ CallsInv

\* An agent that does nothing is well typed.
LEMMA IdleIsTyped == IdleAgent => AgentTypeOK
<1> SUFFICES ASSUME IdleAgent PROVE AgentTypeOK
  OBVIOUS
<1>1. /\ call \in [CallIds -> States] /\ result \in [CallIds -> Results]
      /\ yielded \in [CallIds -> 0..2]
  BY DEF IdleAgent, NoSchedule, States, Results
<1>2. /\ inbox \in [waiting : 0..MaxInbound, left : 0..MaxInbound]
      /\ iter \in 1..(Iterations + 1) /\ refused \in 0..Limit
  BY AgentAssumption DEF IdleAgent
<1> QED  BY <1>1, <1>2 DEF IdleAgent, AgentTypeOK, States, Results

\* A step is one of a single part.
LEMMA ConversationStep == ConversationInv /\ [ConversationNext]_allvars => ConversationInv'
<1> SUFFICES ASSUME ConversationInv, [ConversationNext]_allvars PROVE ConversationInv'
  OBVIOUS
<1>1. /\ searched' = searched
      /\ IF searched = "agent" THEN [AgentNext]_agentvars ELSE UNCHANGED agentvars
      /\ [ReplyNext]_replyvars /\ [ReplNext]_replvars
      /\ [ProgramNext]_programvars /\ [McpNext]_mcpvars
  BY DEF ConversationNext, allvars
<1>2. ReplyInv' /\ ReplInv' /\ ExitInv' /\ CallsInv'
  BY <1>1, ReplyInvStep, ReplInvStep, ExitInvStep, CallsInvStep DEF ConversationInv
<1>3. CASE searched = "agent"
  <2>1. AgentInv'
    BY <1>1, <1>3, HistoryStep, ScheduleStep, LoopStep, InboxStep, AgentParts DEF ConversationInv
  <2> QED  BY <1>1, <1>2, <1>3, <2>1 DEF ConversationInv
<1>4. CASE searched # "agent"
  <2>1. IdleAgent'
    BY <1>1, <1>4 DEF ConversationInv, IdleAgent, NoSchedule, agentvars
  <2> QED  BY <1>1, <1>2, <1>4, <2>1 DEF ConversationInv
<1> QED  BY <1>3, <1>4

\* Every variable of the five models keeps its type, whichever of them acts
\* (agent/runner.py, mewcode/providers, repl.py, cli.py, mcp/client.py).
THEOREM ConversationTypes == ConversationSpec => []WellTyped
<1>1. ConversationInit => ConversationInv
  <2> SUFFICES ASSUME ConversationInit PROVE ConversationInv
    OBVIOUS
  <2>1. ReplyInv /\ ReplInv /\ ExitInv /\ CallsInv
    BY ReplyInvInit, ReplInvInit, ExitInvInit, CallsInvInit DEF ConversationInit
  <2>2. IF searched = "agent" THEN AgentInv ELSE IdleAgent
    BY AgentBegins DEF ConversationInit
  <2> QED  BY <2>1, <2>2 DEF ConversationInv
<1>2. ConversationInv => WellTyped
  BY IdleIsTyped DEF ConversationInv, WellTyped, AgentInv, AgentTypes, ReplyInv, ReplyTypes,
                     ReplInv, ReplTypes, ExitInv, CallsInv
<1> QED  BY <1>1, <1>2, ConversationStep, PTL DEF ConversationSpec

=============================================================================
