---------------------------- MODULE TeamMailbox -----------------------------
(***************************************************************************)
(* Messages of a team, from the commit of the sender to the history of the *)
(* recipient: teams/mailbox.py, protocols.py, inbound.py, sessions.py.     *)
(*                                                                         *)
(* A message is committed in the outbox of the team state.  A flush (of a  *)
(* send, of the heartbeat, of attach) appends it to the mailbox file of    *)
(* the recipient, marks it delivered and wakes the recipient.  A running   *)
(* member polls: it appends what is unread to its session file, with the   *)
(* ids, and only then a read record to the mailbox.                        *)
(*                                                                         *)
(* Both files are appended to, and a process may die in the middle of an   *)
(* append.  A file is kept as what its reader decodes from it, and the     *)
(* state of its last line: "ok", "torn" (the reader skips an unfinished    *)
(* last line), or "junk" (an append continued a torn line, which makes an  *)
(* undecodable line in the middle: the reader raises).                     *)
(***************************************************************************)
EXTENDS Naturals, Sequences, FiniteSets, SequencesExt

CONSTANTS Participants, Lead,
          Msgs,          \* messages: [from, to, protocol]
          MaxMailFaults  \* bound: locks that stay busy, commits refused, stops, deaths

ASSUME LeadAssumption == Lead \in Participants
ASSUME MsgsAssumption ==
    \A m \in Msgs : m.from \in Participants /\ m.to \in Participants
ASSUME MailFaultsAssumption == MaxMailFaults \in Nat

Mates == Participants \ {Lead}
Flushes == {"heartbeat", "send"}  \* the flush of attach is the first heartbeat's

VARIABLES
    outbox,     \* messages committed, in order
    delivered,  \* those marked delivered in the outbox
    box,        \* mailbox file of each participant
    history,    \* session file of each member
    coordinator,  \* the Lead process: down, up, lost (its maintenance has stopped)
    flush,      \* the two flushes it may have in progress
    member,     \* status of each: asleep, awake, barred
    binding,    \* its run: where it is, the ids in its session, batch and repair at hand
    marked,     \* ids a member marked read by the message tool
    mailFaults  \* counts what MaxMailFaults bounds

log == <<outbox, delivered, box, history>>
mvars == <<log, coordinator, flush, member, binding, marked, mailFaults>>

NoFlush == [at |-> "idle", todo |-> {}, new |-> {}]
NoRun   == [at |-> "off", known |-> {}, batch |-> {}, repair |-> {}]

Tails     == {"ok", "torn", "junk"}
Mailboxes == [got : Seq(Msgs), read : SUBSET Msgs, tail : Tails]
Sessions  == [batches : Seq(SUBSET Msgs), tail : Tails]

MailTypeOK ==
    /\ outbox \in Seq(Msgs) /\ delivered \subseteq Range(outbox) /\ marked \subseteq Msgs
    /\ box \in [Participants -> Mailboxes]
    /\ history \in [Mates -> Sessions]
    /\ coordinator \in {"down", "up", "lost"}
    /\ flush \in [Flushes -> [at : {"idle", "append", "wake", "rewake"},
                             todo : SUBSET Range(outbox), new : SUBSET Msgs]]
    /\ member \in [Mates -> {"asleep", "awake", "barred"}]
    /\ binding \in [Mates -> [at : {"off", "turn", "repair", "ack"}, known : SUBSET Msgs,
                             batch : SUBSET Msgs, repair : SUBSET Msgs]]
    /\ mailFaults \in 0..MaxMailFaults

MailInit ==
    /\ outbox = <<>> /\ delivered = {} /\ marked = {}
    /\ box = [p \in Participants |-> [got |-> <<>>, read |-> {}, tail |-> "ok"]]
    /\ history = [m \in Mates |-> [batches |-> <<>>, tail |-> "ok"]]
    /\ coordinator = "up"
    /\ flush = [f \in Flushes |-> NoFlush]
    /\ member = [m \in Mates |-> "awake"]
    /\ binding = [m \in Mates |-> NoRun]
    /\ mailFaults = 0

Faults == mailFaults < MaxMailFaults /\ mailFaults' = mailFaults + 1

-----------------------------------------------------------------------------
(* The files: TeamMailboxStore, MemberSessionStore *)

\* _append: a record that follows a torn line is lost with it.
Appended(file, changed) ==
    IF file.tail = "ok" THEN changed ELSE [file EXCEPT !.tail = "junk"]

\* What a process that dies in the middle of an append leaves.
Torn(file) == [file EXCEPT !.tail = IF @ = "junk" THEN "junk" ELSE "torn"]

\* messages() and _replay(): an unfinished last line is skipped, any other is an error.
Readable(file) == file.tail # "junk"

BugStore(p, m) ==  \* the ids in the file are not looked at
    Appended(box[p], [box[p] EXCEPT !.got = Append(@, m)])

\* append_message, under the lock of the mailbox.
Store(p, m) ==
    IF m \in Range(box[p].got) THEN box[p]
    ELSE Appended(box[p], [box[p] EXCEPT !.got = Append(@, m)])

\* append_read: only ids that the file has.
StoreRead(p, ids) ==
    LET known == ids \cap Range(box[p].got) IN
    IF known = {} THEN box[p]
    ELSE Appended(box[p], [box[p] EXCEPT !.read = @ \cup known])

Unread(p) == Range(box[p].got) \ box[p].read

-----------------------------------------------------------------------------
(* Sending: TeamProtocolRouter.prepare and the commit of send *)

\* _validate_direction.
Allowed(m) ==
    CASE m.protocol = "text" -> TRUE
      [] m.protocol \in {"task_assignment", "plan_decision", "stop_request"} ->
            m.from = Lead /\ m.to \in Mates
      [] m.protocol \in {"task_status", "plan_request", "member_idle"} ->
            m.from \in Mates /\ m.to = Lead

\* A flush begins with the entries that are not delivered, in the order of the outbox.
Pending(sent) == Range(sent) \ delivered

\* The next of the entries a pass goes through.
First(m, todo) ==
    \E i \in DOMAIN outbox :
        /\ outbox[i] = m /\ m \in todo
        /\ \A j \in DOMAIN outbox : j < i => outbox[j] \notin todo

\* prepare: what a plan request or a decision changes besides is in TeamTasks and
\* TeamScheduler.
Prepare(m) ==
    /\ m \notin Range(outbox) /\ Allowed(m)
    /\ m.from \in Mates => binding[m.from].at = "turn"
    /\ outbox' = Append(outbox, m)

Send(m) ==
    /\ coordinator = "up" /\ flush["send"].at = "idle"
    /\ Prepare(m)
    /\ flush' = [flush EXCEPT !["send"] =
                   [at |-> "append", todo |-> Pending(outbox'), new |-> {}]]
    /\ UNCHANGED <<delivered, box, history,
                   coordinator, member, binding, marked, mailFaults>>

\* The maintenance loop, after each renewal of the lease.
Heartbeat ==
    /\ coordinator = "up" /\ flush["heartbeat"].at = "idle"
    /\ \/ Pending(outbox) # {}
       \/ \E m \in delivered : m \notin box[m.to].read
    /\ flush' = [flush EXCEPT !["heartbeat"] =
                   [at |-> "append", todo |-> Pending(outbox), new |-> {}]]
    /\ UNCHANGED <<log, coordinator, member, binding, marked, mailFaults>>

-----------------------------------------------------------------------------
(* flush_outbox *)

Working(f, at, m) == flush[f].at = at /\ First(m, flush[f].todo)
Drop(f, m) == [flush EXCEPT ![f].at = "append", ![f].todo = @ \ {m}]

BugDeliver(f, m) ==  \* marked before the append, and the lock of the mailbox is busy
    /\ Working(f, "append", m)
    /\ delivered' = delivered \cup {m}
    /\ \/ Faults /\ UNCHANGED box
       \/ /\ box' = [box EXCEPT ![m.to] = Store(m.to, m)]
          /\ UNCHANGED mailFaults
    /\ flush' = [flush EXCEPT ![f].at = "wake", ![f].new = @ \cup {m}]
    /\ UNCHANGED <<outbox, history, coordinator, member, binding, marked>>

\* append_message and _mark_delivered, with no await between them.
Deliver(f, m) ==
    /\ Working(f, "append", m)
    /\ Readable(box[m.to])
    /\ box' = [box EXCEPT ![m.to] = Store(m.to, m)]
    /\ delivered' = delivered \cup {m}
    /\ flush' = [flush EXCEPT ![f].at = "wake", ![f].new = @ \cup {m}]
    /\ UNCHANGED <<outbox, history, coordinator, member, binding, marked, mailFaults>>

\* The mailbox cannot be read: the entry stays in the outbox.
DeliverRaises(f, m) ==
    /\ Working(f, "append", m) /\ ~Readable(box[m.to])
    /\ flush' = Drop(f, m)
    /\ UNCHANGED <<log, coordinator, member, binding, marked, mailFaults>>

\* Its lock stays busy, or the commit that marks it is refused.
DeliverFails(f, m) ==
    /\ Working(f, "append", m) /\ Readable(box[m.to]) /\ Faults
    /\ \/ UNCHANGED box
       \/ box' = [box EXCEPT ![m.to] = Store(m.to, m)]
    /\ flush' = Drop(f, m)
    /\ UNCHANGED <<outbox, delivered, history, coordinator, member, binding, marked>>

\* _wake_if_needed: the Lead is no member; RUNNING and QUEUED are answered at once,
\* STOPPED and AWAITING_APPROVAL are not woken.
Woken(p) ==
    IF p \in Mates /\ member[p] = "asleep"
    THEN [member EXCEPT ![p] = "awake"] ELSE member

Wake(f, m) ==
    /\ Working(f, "wake", m)
    /\ \/ member' = Woken(m.to) /\ UNCHANGED mailFaults
       \/ Faults /\ UNCHANGED member
    /\ flush' = Drop(f, m)
    /\ UNCHANGED <<log, coordinator, binding, marked>>

\* The second pass: entries delivered earlier, between members.
Peer(m) == m.from \in Mates /\ m.to \in Mates

BugSecondPass(f) ==  \* the second pass is left out
    /\ flush[f].at = "append" /\ flush[f].todo = {}
    /\ flush' = [flush EXCEPT ![f] = NoFlush]
    /\ UNCHANGED <<log, coordinator, member, binding, marked, mailFaults>>

SecondPass(f) ==
    /\ flush[f].at = "append" /\ flush[f].todo = {}
    /\ flush' = [flush EXCEPT ![f] =
                   [at |-> "rewake", new |-> {},
                    todo |-> {m \in delivered \ flush[f].new : Peer(m)}]]
    /\ UNCHANGED <<log, coordinator, member, binding, marked, mailFaults>>

\* One that is still unread wakes its recipient again.
Rewake(f, m) ==
    /\ Working(f, "rewake", m) /\ Readable(box[m.to])
    /\ \/ m \in Unread(m.to) /\ member' = Woken(m.to) /\ UNCHANGED mailFaults
       \/ m \notin Unread(m.to) /\ UNCHANGED <<member, mailFaults>>
       \/ Faults /\ UNCHANGED member
    /\ flush' = [flush EXCEPT ![f].todo = @ \ {m}]
    /\ UNCHANGED <<log, coordinator, binding, marked>>

\* A mailbox that cannot be read: this time flush_outbox raises.  The maintenance loop
\* takes it for the loss of the lease; a send only fails.
RewakeRaises(f, m) ==
    /\ Working(f, "rewake", m) /\ ~Readable(box[m.to])
    /\ coordinator' = IF f = "heartbeat" THEN "lost" ELSE coordinator
    /\ flush' = [flush EXCEPT ![f] = NoFlush]
    /\ UNCHANGED <<log, member, binding, marked, mailFaults>>

FlushEnds(f) ==
    /\ flush[f].at = "rewake" /\ flush[f].todo = {}
    /\ flush' = [flush EXCEPT ![f] = NoFlush]
    /\ UNCHANGED <<log, coordinator, member, binding, marked, mailFaults>>

-----------------------------------------------------------------------------
(* A member's run: the session and the inbound source *)

\* The ids in the session file, of all its records.
Committed(m) == UNION Range(history[m].batches)

\* MemberSessionStore.open, under the lock of the session, and the replay of the file.
Open(m) ==
    /\ member[m] = "awake" /\ binding[m].at = "off"
    /\ IF Readable(history[m])
       THEN /\ binding' = [binding EXCEPT ![m] = [NoRun EXCEPT !.at = "turn",
                                                               !.known = Committed(m)]]
            /\ UNCHANGED member
       ELSE member' = [member EXCEPT ![m] = "asleep"] /\ UNCHANGED binding
    /\ UNCHANGED <<log, coordinator, flush, marked, mailFaults>>

\* commit_inbound: the messages of a batch and their ids are one record.
Commit(m, batch) ==
    Appended(history[m], [history[m] EXCEPT !.batches = Append(@, batch)])

Fresh(m) == Unread(m) \ binding[m].known

\* The batch that render_inbound_batch selects: the first messages, as many as fit.
Batches(m) ==
    {batch \in SUBSET Fresh(m) :
        /\ batch # {}
        /\ \A i, j \in DOMAIN box[m].got :
              i < j /\ box[m].got[j] \in batch /\ box[m].got[i] \in Fresh(m)
                 => box[m].got[i] \in batch}

\* poll finds nothing that is already in the session, and the runner commits the batch.
Poll(m) ==
    /\ binding[m].at = "turn" /\ Readable(box[m]) /\ Fresh(m) # {}
    /\ Fresh(m) = Unread(m)
    /\ \E batch \in Batches(m) :
          /\ history' = [history EXCEPT ![m] = Commit(m, batch)]
          /\ binding' = [binding EXCEPT ![m].at = "ack", ![m].batch = batch,
                                        ![m].known = @ \cup batch]
    /\ UNCHANGED <<outbox, delivered, box,
                   coordinator, flush, member, marked, mailFaults>>

\* poll finds messages that an earlier run committed and did not acknowledge: it waits
\* for the lock to mark them.
PollRepairs(m) ==
    /\ binding[m].at = "turn" /\ Readable(box[m]) /\ Fresh(m) # Unread(m)
    /\ \E batch \in {{}} \cup Batches(m) :
          /\ batch = {} <=> Fresh(m) = {}
          /\ binding' = [binding EXCEPT ![m].at = "repair", ![m].batch = batch,
                                        ![m].repair = Unread(m) \cap binding[m].known]
    /\ UNCHANGED <<log, coordinator, flush, member, marked, mailFaults>>

Repair(m) ==
    /\ binding[m].at = "repair" /\ Readable(box[m])
    /\ box' = [box EXCEPT ![m] = StoreRead(m, binding[m].repair)]
    /\ history' = IF binding[m].batch = {} THEN history
                  ELSE [history EXCEPT ![m] = Commit(m, binding[m].batch)]
    /\ binding' = [binding EXCEPT ![m].at = IF binding[m].batch = {} THEN "turn" ELSE "ack",
                                  ![m].known = @ \cup binding[m].batch,
                                  ![m].repair = {}]
    /\ UNCHANGED <<outbox, delivered, coordinator, flush, member, marked, mailFaults>>

BugAck(m) ==  \* everything unread is acknowledged, not the batch
    /\ binding[m].at = "ack" /\ Readable(box[m])
    /\ box' = [box EXCEPT ![m] = StoreRead(m, Unread(m))]
    /\ binding' = [binding EXCEPT ![m].at = "turn", ![m].batch = {}]
    /\ UNCHANGED <<outbox, delivered, history,
                   coordinator, flush, member, marked, mailFaults>>

\* acknowledge.
Ack(m) ==
    /\ binding[m].at = "ack" /\ Readable(box[m])
    /\ box' = [box EXCEPT ![m] = StoreRead(m, binding[m].batch)]
    /\ binding' = [binding EXCEPT ![m].at = "turn", ![m].batch = {}]
    /\ UNCHANGED <<outbox, delivered, history,
                   coordinator, flush, member, marked, mailFaults>>

\* The message tool: the model has listed its mailbox and marks messages itself.
ToolMarksRead(m) ==
    /\ binding[m].at = "turn" /\ Readable(box[m])
    /\ \E x \in Range(box[m].got) \ marked :
          /\ box' = [box EXCEPT ![m] = StoreRead(m, {x})]
          /\ marked' = marked \cup {x}
    /\ UNCHANGED <<outbox, delivered, history,
                   coordinator, flush, member, binding, mailFaults>>

\* The run ends after a poll with nothing unread, or because its mailbox raises.
RunEnds(m) ==
    /\ binding[m].at # "off"
    /\ ~Readable(box[m]) \/ (binding[m].at = "turn" /\ Unread(m) = {})
    /\ binding' = [binding EXCEPT ![m] = NoRun]
    /\ member' = [member EXCEPT ![m] = IF @ = "awake" THEN "asleep" ELSE @]
    /\ UNCHANGED <<log, coordinator, flush, marked, mailFaults>>

-----------------------------------------------------------------------------
(* Deaths of processes *)

\* The process of a member dies, between two steps or in the middle of one of its appends.
MemberDies(m) ==
    /\ binding[m].at # "off" /\ Faults
    /\ \/ UNCHANGED <<box, history>>
       \/ /\ binding[m].at \in {"repair", "ack"}
          /\ box' = [box EXCEPT ![m] = Torn(@)]
          /\ UNCHANGED history
       \/ /\ binding[m].at = "repair" /\ Readable(box[m])
          /\ box' = [box EXCEPT ![m] = StoreRead(m, binding[m].repair)]
          /\ \/ UNCHANGED history
             \/ binding[m].batch # {} /\ history' = [history EXCEPT ![m] = Torn(@)]
       \/ /\ binding[m].at = "turn" /\ Readable(box[m])
          /\ Fresh(m) # {} /\ Fresh(m) = Unread(m)
          /\ history' = [history EXCEPT ![m] = Torn(@)]
          /\ UNCHANGED box
    /\ binding' = [binding EXCEPT ![m] = NoRun]
    /\ member' = [member EXCEPT ![m] = IF @ = "awake" THEN "asleep" ELSE @]
    /\ UNCHANGED <<outbox, delivered, coordinator, flush, marked>>

\* The Lead dies; members in its process die with it, members in a pane go on.
LeadDies ==
    /\ coordinator # "down" /\ Faults
    /\ \/ UNCHANGED box
       \/ \E f \in Flushes, m \in Msgs : /\ Working(f, "append", m)
                                       /\ box' = [box EXCEPT ![m.to] = Torn(@)]
    /\ coordinator' = "down"
    /\ flush' = [f \in Flushes |-> NoFlush]
    /\ \E inside \in SUBSET Mates :
          binding' = [m \in Mates |-> IF m \in inside THEN NoRun ELSE binding[m]]
    /\ UNCHANGED <<outbox, delivered, history, member, marked>>

\* attach: RUNNING and PROVISIONING members are INTERRUPTED or FAILED, and the outbox is
\* flushed.
CoordinatorAttaches ==
    /\ coordinator # "up"
    /\ coordinator' = "up"
    /\ member' = [m \in Mates |-> IF member[m] = "awake" THEN "asleep" ELSE member[m]]
    /\ flush' = [f \in Flushes |->
                   IF f = "heartbeat"
                   THEN [at |-> "append", todo |-> Pending(outbox), new |-> {}] ELSE NoFlush]
    /\ UNCHANGED <<log, binding, marked, mailFaults>>

\* The Lead stops a member and resumes it, which wakes it.
StopMember(m) ==
    /\ coordinator = "up" /\ member[m] # "barred" /\ binding[m].at = "off" /\ Faults
    /\ member' = [member EXCEPT ![m] = "barred"]
    /\ UNCHANGED <<log, coordinator, flush, binding, marked>>

ResumeMember(m) ==
    /\ coordinator = "up" /\ member[m] = "barred"
    /\ member' = [member EXCEPT ![m] = "awake"]
    /\ UNCHANGED <<log, coordinator, flush, binding, marked, mailFaults>>

-----------------------------------------------------------------------------
FlushStep(f) ==
    \/ \E m \in Msgs : \/ Deliver(f, m) \/ DeliverRaises(f, m) \/ Wake(f, m)
                       \/ Rewake(f, m) \/ RewakeRaises(f, m)
    \/ SecondPass(f) \/ FlushEnds(f)

RunStep(m) == Open(m) \/ Poll(m) \/ PollRepairs(m) \/ Repair(m) \/ Ack(m) \/ RunEnds(m)

MailNext ==
    \/ \E m \in Msgs : Send(m)
    \/ Heartbeat
    \/ \E f \in Flushes : FlushStep(f)
    \/ \E f \in Flushes, m \in Msgs : DeliverFails(f, m)
    \/ \E m \in Mates : \/ RunStep(m) \/ ToolMarksRead(m) \/ MemberDies(m)
                        \/ StopMember(m) \/ ResumeMember(m)
    \/ LeadDies \/ CoordinatorAttaches

MailSpec == MailInit /\ [][MailNext]_mvars

\* The event loop runs a ready task; the heartbeat comes every ten seconds.
MailFairness ==
    /\ WF_mvars(Heartbeat)
    /\ \A f \in Flushes : WF_mvars(FlushStep(f))

-----------------------------------------------------------------------------
\* A message is in a mailbox once: two flushes at a time, and one that repeats what an
\* earlier one could not mark, append it at most once (append_message).
StoredOnce == \A p \in Participants : IsInjective(box[p].got)

\* A member never has a message in its history twice, whatever died between the commit,
\* the read record and the next run (commit_inbound, poll, open).
CommittedOnce ==
    \A m \in Mates : \A i, j \in DOMAIN history[m].batches :
        i # j => history[m].batches[i] \cap history[m].batches[j] = {}

\* A message marked delivered is in the mailbox of its recipient, unless the file is
\* corrupt (flush_outbox).
DeliveredIsStored ==
    \A m \in delivered : m \in Range(box[m.to].got) \/ ~Readable(box[m.to])

\* A message is marked read only when it is safely in the history of the member, or the
\* member has marked it itself, or the commit was lost behind a torn line (acknowledge).
ReadIsCommitted ==
    \A m \in Mates :
        Readable(history[m]) => box[m].read \subseteq Committed(m) \cup marked

\* Messages and the files that hold them: no message is twice in a mailbox or in a
\* history, what is marked delivered is in its mailbox, and what is marked read is in a
\* history (mailbox.py, inbound.py, sessions.py).
MailIsWhole ==
    MailTypeOK /\ StoredOnce /\ CommittedOnce /\ DeliveredIsStored /\ ReadIsCommitted

\* As long as the Lead is up, a message between members does not lie unread in the mailbox
\* of a member that sleeps: a lost wake is made up for by a later flush.
PeersAreWoken ==
    \A m \in Msgs :
        (/\ Peer(m) /\ m \in delivered /\ m \notin box[m.to].read
         /\ member[m.to] = "asleep")
        ~> (\/ m \in box[m.to].read \/ member[m.to] # "asleep" \/ coordinator # "up"
            \/ \E x \in Msgs : ~Readable(box[x.to]))

\* "邮箱和成员会话尾部截断可保守恢复" (docs/phase-14a-team-core/checklist.md, I02): a
\* process that dies in the middle of an append leaves a file that can still be used.
LogsStayReadable ==
    /\ \A p \in Participants : Readable(box[p])
    /\ \A m \in Mates : Readable(history[m])

=============================================================================
