----------------------------- MODULE TeamRoster -----------------------------
(***************************************************************************)
(* TeamRosterService (teams/roster.py): adding and removing long-lived     *)
(* members, their provisioning journals, and recover(), which every attach *)
(* runs before anything else.                                              *)
(*                                                                         *)
(* A member is a roster entry in the team state plus a Worktree, a session *)
(* file, a mailbox file and, for a terminal member, a pane.  No transaction*)
(* covers them all, so each operation writes a journal first and works     *)
(* through its stages; op[p].at is the stage that process p carries out    *)
(* next.  A process may die between any two stages, and one that lost its  *)
(* lease carries on until a commit of the team state is refused.           *)
(***************************************************************************)
EXTENDS Naturals, FiniteSets

CONSTANTS Members,     \* member ids; each is a fresh uuid of one add_member
          Paned,       \* members with the tmux backend
          Leads,       \* processes that may attach the team
          Txs,         \* transaction ids, one per journal ever written
          MaxPanes,    \* bound: panes ever created for a member
          NoMember, NoTx, NoLead

ASSUME MemberAssumption == Paned \subseteq Members /\ NoMember \notin Members
ASSUME TxAssumption     == NoTx \notin Txs
ASSUME LeadAssumption   == NoLead \notin Leads
ASSUME BoundAssumption  == MaxPanes \in Nat

VARIABLES
    \* the team state
    registered,  \* the members in TeamState.members and the registry
    binding,     \* member -> pane of its pane_binding, 0 for None
    work,        \* member -> the tasks and approvals that name it
    \* what lies on disk and in the terminal
    worktree,    \* member -> absent, clean or dirty
    sessions,    \* members with a session file
    mailboxes,   \* members with a mailbox file
    panes,       \* the panes that live, as <<member, number>>
    journal,     \* tx -> its journal record, which may be unused or settled
    \* the processes
    holder,      \* the process with the valid Lead lease
    lead,        \* process -> down, recovering or attached
    todo,        \* process -> journals its recover() has still to settle
    op,          \* process -> the roster operation in flight
    runner,      \* member -> the process that runs it, holding its recovery
                 \* lock and its Worktree
    known,       \* history: members that were published at some time
    strayed      \* history: members that a process added, removed or recovered
                 \* after it lost its lease (it notices at its next heartbeat)

state == <<registered, binding, work, known>>
disk  == <<worktree, sessions, mailboxes, panes>>
proc  == <<holder, lead, todo, runner, strayed>>
vars  == <<state, disk, journal, proc, op>>

Records == [do : {"unused", "add", "remove", "settled"}, member : Members \cup {NoMember},
            pane : Nat]
NoRecord(do) == [do |-> do, member |-> NoMember, pane |-> 0]
Stages  == {"worktree", "session", "mailbox", "provision", "note", "publish",
            "deregister", "terminate", "delete", "unlink", "settle"}
Ops     == [do : {"none", "add", "undo", "remove"}, member : Members \cup {NoMember},
            tx : Txs \cup {NoTx}, pane : Nat, made : BOOLEAN, at : Stages]
Idle    == [do |-> "none", member |-> NoMember, tx |-> NoTx, pane |-> 0,
            made |-> FALSE, at |-> "settle"]

TypeOK ==
    /\ registered \subseteq Members /\ known \subseteq Members /\ strayed \subseteq Members
    /\ binding \in [Members -> Nat]
    /\ work \in [Members -> {"none", "open", "closed"}]
    /\ worktree \in [Members -> {"absent", "clean", "dirty"}]
    /\ sessions \subseteq Members /\ mailboxes \subseteq Members
    /\ panes \subseteq Members \X Nat
    /\ journal \in [Txs -> Records]
    /\ holder \in Leads \cup {NoLead}
    /\ lead \in [Leads -> {"down", "recovering", "attached"}]
    /\ todo \in [Leads -> SUBSET Txs]
    /\ op \in [Leads -> Ops]
    /\ runner \in [Members -> Leads \cup {NoLead}]

\* A team that was just created: no member, no journal, nobody attached.
Init ==
    /\ registered = {} /\ known = {} /\ strayed = {}
    /\ binding = [m \in Members |-> 0]
    /\ work = [m \in Members |-> "none"]
    /\ worktree = [m \in Members |-> "absent"]
    /\ sessions = {} /\ mailboxes = {} /\ panes = {}
    /\ journal = [x \in Txs |-> NoRecord("unused")]
    /\ holder = NoLead
    /\ lead = [p \in Leads |-> "down"]
    /\ todo = [p \in Leads |-> {}]
    /\ op = [p \in Leads |-> Idle]
    /\ runner = [m \in Members |-> NoLead]

-----------------------------------------------------------------------------
Unused(x) == journal[x].do = "unused"
Pending(x) == journal[x].do \in {"add", "remove"}
At(p, do, at) == op[p].do = do /\ op[p].at = at
Goto(p, at) == op' = [op EXCEPT ![p].at = at]
Done(p) == op' = [op EXCEPT ![p] = Idle]
Write(x, do, m, n) == journal' = [journal EXCEPT ![x] = [do |-> do, member |-> m, pane |-> n]]

\* The history of an operation on m by p.
Stray(p, m) == strayed' = IF holder = p THEN strayed ELSE strayed \cup {m}

\* Members whose id was drawn already.
Drawn == {m \in Members : \/ m \in known
                          \/ \E x \in Txs : Pending(x) /\ journal[x].member = m
                          \/ \E p \in Leads : op[p].member = m
                          \/ worktree[m] # "absent" \/ m \in sessions \/ m \in mailboxes}

-----------------------------------------------------------------------------
(* add_member *)

\* The journal is written before anything is created.
AddBegin(p, m, x) ==
    /\ lead[p] = "attached" /\ op[p].do = "none"
    /\ m \notin Drawn /\ Unused(x)
    /\ Write(x, "add", m, 0)
    /\ op' = [op EXCEPT ![p] = [do |-> "add", member |-> m, tx |-> x, pane |-> 0,
                                made |-> FALSE, at |-> "worktree"]]
    /\ Stray(p, m)
    /\ UNCHANGED <<state, disk, holder, lead, todo, runner>>

AddWorktree(p) ==
    /\ At(p, "add", "worktree")
    /\ worktree' = [worktree EXCEPT ![op[p].member] = "clean"]
    /\ op' = [op EXCEPT ![p].at = "session", ![p].made = TRUE]
    /\ UNCHANGED <<state, sessions, mailboxes, panes, journal, proc>>

AddSession(p) ==
    /\ At(p, "add", "session")
    /\ sessions' = sessions \cup {op[p].member}
    /\ Goto(p, "mailbox")
    /\ UNCHANGED <<state, worktree, mailboxes, panes, journal, proc>>

AddMailbox(p) ==
    /\ At(p, "add", "mailbox")
    /\ mailboxes' = mailboxes \cup {op[p].member}
    /\ Goto(p, IF op[p].member \in Paned THEN "provision" ELSE "publish")
    /\ UNCHANGED <<state, worktree, sessions, panes, journal, proc>>

\* TerminalHostProvisioner.provision: a pane whose host has registered.
AddPane(p) ==
    /\ At(p, "add", "provision")
    /\ panes' = panes \cup {<<op[p].member, 1>>}
    /\ op' = [op EXCEPT ![p].at = "note", ![p].pane = 1]
    /\ UNCHANGED <<state, worktree, sessions, mailboxes, journal, proc>>

\* The journal learns the pane (stage pane_registered).
AddNote(p) ==
    /\ At(p, "add", "note")
    /\ Write(op[p].tx, "add", op[p].member, op[p].pane)
    /\ Goto(p, "publish")
    /\ UNCHANGED <<state, disk, proc>>

\* The member appears in the team state, if the lease is still this process's.
AddPublish(p) ==
    /\ At(p, "add", "publish") /\ holder = p
    /\ registered' = registered \cup {op[p].member}
    /\ known' = known \cup {op[p].member}
    /\ binding' = [binding EXCEPT ![op[p].member] = op[p].pane]
    /\ Goto(p, "settle")
    /\ UNCHANGED <<work, disk, journal, proc>>

\* Any stage before the commit may raise, or be cancelled: roll back.
AddFails(p) ==
    /\ op[p].do = "add" /\ op[p].at # "settle"
    /\ op' = [op EXCEPT ![p].do = "undo", ![p].at = "unlink"]
    /\ UNCHANGED <<state, disk, journal, proc>>

-----------------------------------------------------------------------------
(* _rollback_member_resources, after a failed add_member and in recover() *)

UndoUnlink(p) ==
    /\ At(p, "undo", "unlink")
    /\ sessions' = sessions \ {op[p].member}
    /\ mailboxes' = mailboxes \ {op[p].member}
    /\ Goto(p, IF op[p].pane # 0 THEN "terminate"
               ELSE IF op[p].made THEN "delete" ELSE "settle")
    /\ UNCHANGED <<state, worktree, panes, journal, proc>>

OpPane(p) == <<op[p].member, op[p].pane>>

\* terminate(): tmux kill-pane fails when the pane is gone, for instance because
\* its host obeyed the shutdown message first.
UndoTerminate(p) ==
    /\ At(p, "undo", "terminate") /\ OpPane(p) \in panes
    /\ panes' = panes \ {OpPane(p)}
    /\ Goto(p, IF op[p].made THEN "delete" ELSE "settle")
    /\ UNCHANGED <<state, worktree, sessions, mailboxes, journal, proc>>

\* The exception is caught: the rollback did not succeed, the journal stays.
UndoTerminateFails(p) ==
    /\ At(p, "undo", "terminate")
    /\ panes' = panes \ {OpPane(p)}
    /\ Done(p)
    /\ UNCHANGED <<state, worktree, sessions, mailboxes, journal, proc>>

-----------------------------------------------------------------------------
(* Shared by remove_member, recover() and the rollback *)

\* worktrees.delete(force=False) deletes a Worktree that holds no work of its own
\* and that nobody has entered; or it is absent already.
DeleteWorktree(p) ==
    /\ op[p].do \in {"undo", "remove"} /\ op[p].at = "delete"
    /\ worktree[op[p].member] # "dirty" /\ runner[op[p].member] = NoLead
    /\ worktree' = [worktree EXCEPT ![op[p].member] = "absent"]
    /\ Goto(p, IF op[p].do = "undo" THEN "settle" ELSE "unlink")
    /\ UNCHANGED <<state, sessions, mailboxes, panes, journal, proc>>

\* Definitions named Bug... are defects that a slip in the code would produce; the
\* mutants use them.  Here: the journal is dropped although the Worktree stayed.
BugKeepWorktree(p) ==
    /\ op[p].do \in {"undo", "remove"} /\ op[p].at = "delete"
    /\ worktree[op[p].member] # "absent"
    /\ Goto(p, "settle")
    /\ UNCHANGED <<state, disk, journal, proc>>

\* RETAINED, ACTIVE or REJECTED: the journal stays for the next attach.
KeepWorktree(p) ==
    /\ op[p].do \in {"undo", "remove"} /\ op[p].at = "delete"
    /\ worktree[op[p].member] # "absent"
    /\ Done(p)
    /\ UNCHANGED <<state, disk, journal, proc>>

\* journals.delete
Settle(p) ==
    /\ op[p].do # "none" /\ op[p].at = "settle"
    /\ journal' = [journal EXCEPT ![op[p].tx] = NoRecord("settled")]
    /\ Done(p)
    /\ UNCHANGED <<state, disk, proc>>

-----------------------------------------------------------------------------
(* remove_member *)

\* The member's recovery lock: held by its run and by an attached process that
\* removes it, but not by recover().
Locked(m) == \/ runner[m] # NoLead
             \/ \E p \in Leads : lead[p] = "attached" /\ op[p].do = "remove" /\ op[p].member = m

BeginRemoval(p, m, x) ==
    /\ lead[p] = "attached" /\ op[p].do = "none"
    /\ m \in registered /\ work[m] # "open" /\ Unused(x)
    /\ Write(x, "remove", m, binding[m])
    /\ op' = [op EXCEPT ![p] = [do |-> "remove", member |-> m, tx |-> x, pane |-> binding[m],
                                made |-> TRUE, at |-> "deregister"]]
    /\ Stray(p, m)
    /\ UNCHANGED <<state, disk, holder, lead, todo, runner>>

BugRemoveBegin(p, m, x) == BeginRemoval(p, m, x)  \* without the member's recovery lock

\* A member that does not run and owns no open task.  The journal is written
\* before anything else, with the pane the member is bound to at this moment.
RemoveBegin(p, m, x) == ~Locked(m) /\ BeginRemoval(p, m, x)

AfterDeregister(p) == Goto(p, IF op[p].pane # 0 THEN "terminate" ELSE "delete")

\* The commit that takes the member out of the team state.
RemoveDeregister(p) ==
    /\ At(p, "remove", "deregister")
    /\ holder = p /\ op[p].member \in registered /\ work[op[p].member] = "none"
    /\ registered' = registered \ {op[p].member}
    /\ AfterDeregister(p)
    /\ UNCHANGED <<binding, work, known, disk, journal, proc>>

\* The commit is refused: the lease is lost, or a finished task or an old
\* approval still names the member.  remove_member raises; its journal stays.
RemoveRefused(p) ==
    /\ At(p, "remove", "deregister")
    /\ holder # p \/ op[p].member \notin registered \/ work[op[p].member] # "none"
    /\ Done(p)
    /\ UNCHANGED <<state, disk, journal, proc>>

RemoveTerminate(p) ==
    /\ At(p, "remove", "terminate") /\ OpPane(p) \in panes
    /\ panes' = panes \ {OpPane(p)}
    /\ Goto(p, "delete")
    /\ UNCHANGED <<state, worktree, sessions, mailboxes, journal, proc>>

\* terminate() raises out of remove_member, and out of recover() and attach(),
\* which then gives the lease back.
RemoveTerminateFails(p) ==
    /\ At(p, "remove", "terminate")
    /\ panes' = panes \ {OpPane(p)}
    /\ Done(p)
    /\ IF lead[p] = "recovering"
          THEN /\ lead' = [lead EXCEPT ![p] = "down"]
               /\ todo' = [todo EXCEPT ![p] = {}]
               /\ holder' = IF holder = p THEN NoLead ELSE holder
          ELSE UNCHANGED <<holder, lead, todo>>
    /\ UNCHANGED <<state, worktree, sessions, mailboxes, journal, runner, strayed>>

BugRemoveUnlink(p) ==  \* a stage nobody handles
    /\ At(p, "remove", "unlink")
    /\ sessions' = sessions \ {op[p].member}
    /\ mailboxes' = mailboxes \ {op[p].member}
    /\ Goto(p, "unlinked")
    /\ UNCHANGED <<state, worktree, panes, journal, proc>>

\* The files go once the Worktree is gone.
RemoveUnlink(p) ==
    /\ At(p, "remove", "unlink")
    /\ sessions' = sessions \ {op[p].member}
    /\ mailboxes' = mailboxes \ {op[p].member}
    /\ Goto(p, "settle")
    /\ UNCHANGED <<state, worktree, panes, journal, proc>>

-----------------------------------------------------------------------------
(* attach, recover, and the ends of a process *)

\* recover() lists the journals once.
Attach(p) ==
    /\ holder = NoLead /\ lead[p] = "down"
    /\ holder' = p
    /\ lead' = [lead EXCEPT ![p] = "recovering"]
    /\ todo' = [todo EXCEPT ![p] = {x \in Txs : Pending(x)}]
    /\ UNCHANGED <<state, disk, journal, runner, strayed, op>>

Recovering(p, x) == lead[p] = "recovering" /\ op[p].do = "none" /\ x \in todo[p]

BugRecovery(x) ==  \* does not look whether the member was published
    LET j == journal[x]
    IN  [do     |-> IF j.do = "add" THEN "undo" ELSE "remove",
         member |-> j.member, tx |-> x, pane |-> j.pane, made |-> TRUE,
         at     |-> IF j.do = "add" THEN "unlink"
                    ELSE IF j.pane # 0 THEN "terminate" ELSE "delete"]

\* The record that settles journal x: an add_member whose member was published
\* needs nothing but the journal's deletion.  A removal is carried out whether or
\* not its member was deregistered.
Recovery(x) ==
    LET j == journal[x]
        published == j.do = "add" /\ j.member \in registered
    IN  [do     |-> IF j.do = "add" THEN "undo" ELSE "remove",
         member |-> j.member, tx |-> x, pane |-> j.pane, made |-> TRUE,
         at     |-> IF published THEN "settle"
                    ELSE IF j.do = "add" THEN "unlink"
                    ELSE IF j.pane # 0 THEN "terminate" ELSE "delete"]

RecoverPick(p, x) ==
    /\ Recovering(p, x)
    /\ todo' = [todo EXCEPT ![p] = @ \ {x}]
    /\ IF Pending(x) THEN op' = [op EXCEPT ![p] = Recovery(x)] /\ Stray(p, journal[x].member)
                     ELSE UNCHANGED <<op, strayed>>
    /\ UNCHANGED <<state, disk, journal, holder, lead, runner>>

RecoverDone(p) ==
    /\ lead[p] = "recovering" /\ op[p].do = "none" /\ todo[p] = {} /\ holder = p
    /\ lead' = [lead EXCEPT ![p] = "attached"]
    /\ UNCHANGED <<state, disk, journal, holder, todo, runner, strayed, op>>

\* The lease expires, or is taken over, while its process lives on.
LoseLease(p) ==
    /\ holder = p
    /\ holder' = NoLead
    /\ strayed' = strayed \cup ({op[p].member} \ {NoMember})
    /\ UNCHANGED <<state, disk, journal, lead, todo, runner, op>>

Leave(p) ==
    /\ lead' = [lead EXCEPT ![p] = "down"]
    /\ todo' = [todo EXCEPT ![p] = {}]
    /\ holder' = IF holder = p THEN NoLead ELSE holder
    /\ runner' = [m \in Members |-> IF runner[m] = p THEN NoLead ELSE runner[m]]
    /\ UNCHANGED <<state, disk, journal, strayed>>

Crash(p) == lead[p] # "down" /\ Leave(p) /\ Done(p)

\* detach() between two operations; a recovery whose lease is lost ends here.
Close(p) == lead[p] # "down" /\ op[p].do = "none" /\ Leave(p) /\ UNCHANGED op

-----------------------------------------------------------------------------
(* What the rest of the program does with a member *)

\* A run takes the recovery lock, reopens the member's session, recreates its
\* Worktree if that is gone, and gives it a new pane if its pane is gone.
RunStart(m, p) ==
    /\ holder = p /\ lead[p] = "attached" /\ m \in registered /\ m \in sessions
    /\ ~Locked(m)
    /\ runner' = [runner EXCEPT ![m] = p]
    /\ worktree' = IF worktree[m] = "absent" THEN [worktree EXCEPT ![m] = "clean"] ELSE worktree
    /\ IF m \in Paned /\ <<m, binding[m]>> \notin panes
          THEN /\ binding[m] < MaxPanes
               /\ panes' = panes \cup {<<m, binding[m] + 1>>}
               /\ binding' = [binding EXCEPT ![m] = @ + 1]
          ELSE UNCHANGED <<panes, binding>>
    /\ UNCHANGED <<registered, work, known, sessions, mailboxes, journal, holder, lead, todo,
                   strayed, op>>

RunEnds(m) ==
    /\ runner[m] # NoLead
    /\ runner' = [runner EXCEPT ![m] = NoLead]
    /\ UNCHANGED <<state, disk, journal, holder, lead, todo, strayed, op>>

\* A run edits its Worktree; a person, or an integration, cleans it up.
Edit(m) ==
    /\ \/ runner[m] # NoLead /\ worktree[m] = "clean" /\ worktree' = [worktree EXCEPT ![m] = "dirty"]
       \/ worktree[m] = "dirty" /\ worktree' = [worktree EXCEPT ![m] = "clean"]
    /\ UNCHANGED <<state, sessions, mailboxes, panes, journal, proc, op>>

\* Tasks are assigned to members of the team and reach a terminal status.
Work(m) ==
    /\ m \in registered
    /\ work' = [work EXCEPT ![m] = IF @ = "open" THEN "closed" ELSE "open"]
    /\ UNCHANGED <<registered, binding, known, disk, journal, proc, op>>

PaneDies(b) ==
    /\ b \in panes
    /\ panes' = panes \ {b}
    /\ UNCHANGED <<state, worktree, sessions, mailboxes, journal, proc, op>>

-----------------------------------------------------------------------------
Next ==
    \/ \E p \in Leads, m \in Members, x \in Txs : AddBegin(p, m, x) \/ RemoveBegin(p, m, x)
    \/ \E p \in Leads :
          \/ AddWorktree(p) \/ AddSession(p) \/ AddMailbox(p) \/ AddPane(p) \/ AddNote(p)
          \/ AddPublish(p) \/ AddFails(p)
          \/ UndoUnlink(p) \/ UndoTerminate(p) \/ UndoTerminateFails(p)
          \/ DeleteWorktree(p) \/ KeepWorktree(p) \/ Settle(p)
          \/ RemoveDeregister(p) \/ RemoveRefused(p) \/ RemoveTerminate(p)
          \/ RemoveTerminateFails(p) \/ RemoveUnlink(p)
          \/ Attach(p) \/ RecoverDone(p) \/ LoseLease(p) \/ Crash(p) \/ Close(p)
    \/ \E p \in Leads, x \in Txs : RecoverPick(p, x)
    \/ \E m \in Members, p \in Leads : RunStart(m, p)
    \/ \E m \in Members : RunEnds(m) \/ Edit(m) \/ Work(m)
    \/ \E b \in panes : PaneDies(b)

Spec == Init /\ [][Next]_vars

-----------------------------------------------------------------------------
\* Nothing is leaked: a Worktree, session or mailbox of somebody who is not a
\* member belongs to an operation in flight or to a journal that a later attach
\* will settle, whatever crashed where.  (Only a process that outlived its lease
\* in mid-operation can create files whose journal another one has settled.)
FilesAccounted ==
    \A m \in Members \ (registered \cup strayed) :
        (worktree[m] # "absent" \/ m \in sessions \/ m \in mailboxes) =>
            \/ \E x \in Txs : Pending(x) /\ journal[x].member = m
            \/ \E p \in Leads : op[p].member = m

\* A member that runs is in the team and has its Worktree, even when it runs in a
\* process that lost the lease while another one removes members and settles
\* journals; it has its session too, unless such a process touched it.
RunsAreWhole ==
    \A m \in Members : runner[m] # NoLead =>
        m \in registered /\ worktree[m] # "absent" /\ m \in sessions \cup strayed

\* No file of a member is leaked, and no running member loses its files or its place.
RosterIsWhole == FilesAccounted /\ RunsAreWhole

\* The session and the mailbox of somebody who was a member are deleted only after
\* the Worktree, whichever attach gets to do it (tests/teams/test_roster.py,
\* test_remove_recovery_keeps_session_and_mailbox_until_worktree_is_safe).
FilesOutliveWorktree ==
    [][\A m \in known \ strayed :
          (m \in sessions /\ m \notin sessions') \/ (m \in mailboxes /\ m \notin mailboxes')
              => worktree[m] = "absent"]_vars

\* A member is deregistered first and its resources are cleaned up afterwards
\* (docs/phase-14a-team-core/plan.md): a registered member has its
\* session and mailbox.
RegisteredKeepFiles ==
    \A m \in registered : m \in sessions /\ m \in mailboxes

=============================================================================
