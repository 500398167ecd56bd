----------------------------- MODULE McpSession -----------------------------
(***************************************************************************)
(* A session with an MCP server: its requests (mcp/jsonrpc.py), its life   *)
(* (mcp/session.py, mcp/manager.py), and the two transports (mcp/stdio.py, *)
(* mcp/http.py) under it.                                                  *)
(*                                                                         *)
(* Requests run side by side; each waits for a future that the peer finds  *)
(* by the id of the answer.  Over stdio one reader task receives every     *)
(* answer; over HTTP an answer is received by whoever has a POST open.     *)
(* An expiry or a cancellation first cancels the future, and only in a     *)
(* later step of the event loop does the request that waited for it run.   *)
(***************************************************************************)
EXTENDS Naturals, FiniteSets

CONSTANTS Callers,      \* requests; one of them is the handshake
          Boot,         \* the handshake
          MaxFaults     \* bound: broken pipes, broken messages, a dead server

\* start() sends the handshake like every other request.
ASSUME McpAssumption == Boot \in Callers /\ MaxFaults \in Nat

VARIABLES
    kind,       \* "stdio" or "http"
    state,      \* McpClientSession.state
    failure,    \* JsonRpcPeer._failure is set
    transport,  \* "up", "closing", "down"
    reader,     \* the reader task of stdio lives
    pc,         \* of each request
    fut,        \* its future
    pending,    \* JsonRpcPeer._pending
    why,        \* why it expired
    outcome,    \* what its caller got
    owed,       \* how often the server will still answer it: it may do so twice
    wire,       \* answers under way
    closer,     \* JsonRpcPeer.close was called
    faults

mcpvars == <<kind, state, failure, transport, reader, pc, fut, pending, why, outcome, owed,
             wire, closer, faults>>
requests == <<pc, fut, pending, why, outcome>>
server == <<owed, wire>>

McpTypeOK ==
    /\ kind \in {"stdio", "http"} /\ state \in {"new", "starting", "ready", "failed", "closed"}
    /\ transport \in {"up", "closing", "down"} /\ {failure, reader, closer} \subseteq BOOLEAN
    /\ pc \in [Callers -> {"idle", "sending", "waiting", "expired", "notifying", "done"}]
    /\ fut \in [Callers -> {"none", "pending", "cancelled", "result", "error", "failed"}]
    /\ pending \subseteq Callers /\ why \in [Callers -> {"none", "timeout", "cancelled"}]
    /\ outcome \in [Callers -> {"none", "result", "error", "failed", "timeout", "cancelled"}]
    /\ owed \in [Callers -> 0..2] /\ wire \in [Callers -> 0..1] /\ faults \in 0..MaxFaults

McpInit ==
    /\ kind \in {"stdio", "http"} /\ state = "new" /\ failure = FALSE /\ transport = "up"
    /\ reader = (kind = "stdio") /\ pc = [c \in Callers |-> "idle"]
    /\ fut = [c \in Callers |-> "none"] /\ pending = {} /\ why = [c \in Callers |-> "none"]
    /\ outcome = [c \in Callers |-> "none"] /\ owed = [c \in Callers |-> 0]
    /\ wire = [c \in Callers |-> 0] /\ closer = FALSE /\ faults = 0

Fault == faults < MaxFaults /\ faults' = faults + 1

BugFail(but) ==  \* those who wait are not told
    failure' = TRUE /\ pending' = pending \ but /\ UNCHANGED fut

\* JsonRpcPeer.fail, when the requests "but" have left: all others are told.
Fail(but) ==
    /\ failure' = TRUE /\ pending' = {}
    /\ fut' = [c \in Callers |-> IF c \in pending \ but /\ fut[c] = "pending" THEN "failed" ELSE fut[c]]

\* The caller gets what the request ended with; an error of the session fails it, as does
\* every error of the handshake.
Ends(c, what) ==
    /\ pc' = [pc EXCEPT ![c] = "done"] /\ outcome' = [outcome EXCEPT ![c] = what]
    /\ state' = IF c = Boot THEN IF what = "result" THEN "ready" ELSE "failed"
                ELSE IF what = "failed" THEN "failed" ELSE state

-----------------------------------------------------------------------------
(* a request *)

\* start sends the handshake, call_tool a call: a session that failed refuses it.
Calls(c) ==
    /\ pc[c] = "idle" /\ IF c = Boot THEN state = "new" ELSE state = "ready"
    /\ IF failure \/ closer
       THEN Ends(c, "failed") /\ UNCHANGED <<fut, pending>>
       ELSE /\ state' = IF c = Boot THEN "starting" ELSE state
            /\ pc' = [pc EXCEPT ![c] = "sending"] /\ pending' = pending \cup {c}
            /\ fut' = [fut EXCEPT ![c] = "pending"] /\ UNCHANGED outcome
    /\ UNCHANGED <<kind, failure, transport, reader, why, server, closer, faults>>

\* The line is written, or the server takes the POST.
Delivered(c) ==
    /\ pc[c] = "sending" /\ transport = "up" /\ owed[c] = 0 /\ fut[c] = "pending" /\ wire[c] = 0
    /\ owed' = [owed EXCEPT ![c] = 2]
    /\ pc' = IF kind = "stdio" THEN [pc EXCEPT ![c] = "waiting"] ELSE pc
    /\ UNCHANGED <<kind, state, failure, transport, reader, fut, pending, why, outcome, wire, closer, faults>>

\* The POST is over, with or without the answer in it; or the request was failed meanwhile.
Sent(c) ==
    /\ pc[c] = "sending" /\ (fut[c] # "pending" \/ (kind = "http" /\ owed[c] + wire[c] > 0))
    /\ pc' = [pc EXCEPT ![c] = "waiting"]
    /\ UNCHANGED <<kind, state, failure, transport, reader, fut, pending, why, outcome, server, closer, faults>>

\* The transport refuses the message: a pipe that broke, or was closed, fails the session;
\* an HTTP error only the request.
SendFails(c) ==
    /\ pc[c] = "sending" /\ IF transport = "up" THEN Fault ELSE UNCHANGED faults
    /\ \/ Fail({c}) /\ Ends(c, "failed")
       \/ /\ kind = "http" /\ transport = "up" /\ Ends(c, "error")
          /\ pending' = pending \ {c} /\ UNCHANGED <<failure, fut>>
    /\ UNCHANGED <<kind, transport, reader, why, server, closer>>

\* The future is done: its waiter goes on.
Wakes(c) ==
    /\ pc[c] = "waiting" /\ fut[c] \in {"result", "error", "failed"}
    /\ Ends(c, fut[c])
    /\ IF fut[c] = "failed" THEN Fail({c}) ELSE UNCHANGED <<failure, pending, fut>>
    /\ UNCHANGED <<kind, transport, reader, why, server, closer, faults>>

BugExpires(c, reason) ==  \* the timeout is for the sending, not for the answer
    /\ pc[c] = "sending"
    /\ pc' = [pc EXCEPT ![c] = "expired"] /\ why' = [why EXCEPT ![c] = reason] /\ UNCHANGED fut
    /\ UNCHANGED <<kind, state, failure, transport, reader, pending, outcome, server, closer, faults>>

\* asyncio.timeout, or the caller is cancelled: the future that is waited for is cancelled.
Expires(c, reason) ==
    /\ pc[c] \in {"sending", "waiting"}
    /\ pc' = [pc EXCEPT ![c] = "expired"] /\ why' = [why EXCEPT ![c] = reason]
    /\ fut' = IF pc[c] = "waiting" /\ fut[c] = "pending" THEN [fut EXCEPT ![c] = "cancelled"] ELSE fut
    /\ UNCHANGED <<kind, state, failure, transport, reader, pending, outcome, server, closer, faults>>

BugLeaves(c) ==  \* an expired request stays registered
    /\ pc[c] = "expired" /\ UNCHANGED pending
    /\ IF failure \/ closer THEN Ends(c, why[c])
       ELSE pc' = [pc EXCEPT ![c] = "notifying"] /\ UNCHANGED <<outcome, state>>
    /\ UNCHANGED <<kind, failure, transport, reader, fut, why, server, closer, faults>>

\* The request is forgotten, and the server is told, for a second at most.
Leaves(c) ==
    /\ pc[c] = "expired" /\ pending' = pending \ {c}
    /\ IF failure \/ closer THEN Ends(c, why[c])
       ELSE pc' = [pc EXCEPT ![c] = "notifying"] /\ UNCHANGED <<outcome, state>>
    /\ UNCHANGED <<kind, failure, transport, reader, fut, why, server, closer, faults>>
Notified(c) ==
    /\ pc[c] = "notifying" /\ Ends(c, why[c])
    /\ UNCHANGED <<kind, failure, transport, reader, fut, pending, why, server, closer, faults>>

-----------------------------------------------------------------------------
(* the server, and who receives its answers *)

ServerAnswers(c) ==
    /\ owed[c] > 0 /\ wire[c] = 0 /\ owed' = [owed EXCEPT ![c] = @ - 1] /\ wire' = [wire EXCEPT ![c] = @ + 1]
    /\ UNCHANGED <<kind, state, failure, transport, reader, requests, closer, faults>>

\* The reader of stdio, or the open POST of d, has the answer of c.
HasLine(d) == IF kind = "stdio" THEN reader /\ d = Boot ELSE pc[d] = "sending"

\* JsonRpcPeer.receive: an id that is not known is ignored; the future is completed.
\* A future that was cancelled refuses: the reader fails the session, and so does the POST.
Receives(c, d) ==
    /\ wire[c] > 0 /\ HasLine(d) /\ wire' = [wire EXCEPT ![c] = @ - 1]
    /\ \/ c \notin pending /\ UNCHANGED <<state, failure, reader, requests>>
       \/ /\ c \in pending /\ fut[c] = "pending" /\ pending' = pending \ {c}
          /\ \E r \in {"result", "error"} : fut' = [fut EXCEPT ![c] = r]
          /\ UNCHANGED <<state, failure, reader, pc, why, outcome>>
       \/ /\ c \in pending /\ fut[c] = "cancelled" /\ Fail({c}) /\ UNCHANGED why
          /\ IF kind = "stdio" THEN reader' = FALSE /\ UNCHANGED <<state, pc, outcome>>
             ELSE Ends(d, "failed") /\ UNCHANGED reader
    /\ UNCHANGED <<kind, transport, owed, closer, faults>>

\* The output of the server ends, is not JSON, or not JSON-RPC; or its ping cannot be
\* answered.
ServerBreaks ==
    /\ Fault /\ transport = "up" /\ Fail({})
    /\ kind = "http" \/ reader
    /\ reader' \in {FALSE, reader}
    /\ UNCHANGED <<kind, state, transport, pc, why, outcome, server, closer>>

-----------------------------------------------------------------------------
(* the session is closed: by the manager when the handshake failed, or at the end *)

Closes ==
    /\ ~closer /\ state # "new" /\ (pc[Boot] = "done" \/ state = "starting")
    /\ closer' = TRUE /\ transport' = "closing" /\ Fail({})
    /\ UNCHANGED <<kind, state, reader, pc, why, outcome, server, faults>>

\* stdin is closed, then the server is terminated, then killed, each with its deadline;
\* then the reader is cancelled.  Over HTTP the session is deleted.
TransportCloses ==
    /\ transport = "closing" /\ transport' = "down" /\ reader' = FALSE /\ state' = "closed"
    /\ UNCHANGED <<kind, failure, requests, server, closer, faults>>

-----------------------------------------------------------------------------
Proceeds(c) == Delivered(c) \/ Sent(c) \/ Wakes(c) \/ Leaves(c) \/ Notified(c)
McpNext ==
    \/ \E c \in Callers : \/ Calls(c) \/ Proceeds(c) \/ SendFails(c) \/ ServerAnswers(c)
                          \/ \E reason \in {"timeout", "cancelled"} : Expires(c, reason)
                          \/ \E d \in Callers : Receives(c, d)
    \/ ServerBreaks \/ Closes \/ TransportCloses

\* Every task that can go on does; every request has its timeout, that runs also while the
\* transport does not take the message.
McpFairness == /\ \A c \in Callers : WF_mcpvars(Proceeds(c)) /\ WF_mcpvars(Expires(c, "timeout"))
               /\ WF_mcpvars(TransportCloses)

McpSpec == McpInit /\ [][McpNext]_mcpvars

-----------------------------------------------------------------------------
\* Once the session has failed or is closed no request waits for an answer that nobody will
\* bring, wherever it was at that moment: registered, being written, or waiting.
NobodyWaitsInVain ==
    failure \/ closer =>
        pending = {} /\ \A c \in Callers : pc[c] \in {"sending", "waiting"} => fut[c] # "pending"

\* A registered request is one whose caller is still there to take it out again: requests
\* that expired, were cancelled or failed leave nothing behind.
PendingIsOwned == \A c \in pending : pc[c] \in {"sending", "waiting", "expired"}

\* Each request has one owner, and none waits for an answer that cannot come.
CallsAreServed == NobodyWaitsInVain /\ PendingIsOwned

\* Every call returns, whatever the server does.
CallsReturn == []<>(\A c \in Callers : pc[c] \in {"idle", "done"})

\* docs/phase-6-mcp-client/spec.md:125: late and repeated answers are isolated; without a
\* fault of the server, and until it is closed, the session does not fail.
LateAnswersAreIsolated == faults = 0 /\ ~closer => ~failure

=============================================================================
