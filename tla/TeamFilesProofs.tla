-------------------------- MODULE TeamFilesProofs ---------------------------
(***************************************************************************)
(* What a team does with files and with Git, for every value of the        *)
(* constants, and for the four parts together.                             *)
(*                                                                         *)
(* TeamRoster: no file of a member is leaked, and no running member loses  *)
(* its files or its place.  What ties the files to a journal is that a     *)
(* member which no process touched after losing its lease is in the hands  *)
(* of the holder alone.                                                    *)
(*                                                                         *)
(* WorktreeLifecycle: a worktree has one occupant, its record tells the    *)
(* truth, nothing of it is without a record, and no unsaved work goes but  *)
(* by force.  The lock admits one process, so the invariant says what that *)
(* process finds at each stage of its creation or deletion, and what       *)
(* anybody finds who gets the lock.                                        *)
(*                                                                         *)
(* TeamDelivery and TeamIntegration: a batch is planned of what the Lead   *)
(* accepted, and of nothing else; it merges each of its steps once and in  *)
(* order, reports as verified only what is on the branch, and as rolled    *)
(* back only what is as it was.  For the plan: verdicts are the Lead's,    *)
(* wherever they were copied to.  For the batch the argument rests on the  *)
(* object id saved before a merge: the branch is only ever extended or put *)
(* back to that one, and every step verified before is part of it.         *)
(***************************************************************************)
EXTENDS MCTeamFiles, SequenceTheorems, TLAPS

(* TeamRoster *)

Busy(p) == op[p].do # "none"

\* The operation is on a member that only the holder of the lease has touched.
Ours(p) == Busy(p) /\ op[p].member \notin strayed

NoFiles(m) == worktree[m] = "absent" /\ m \notin sessions /\ m \notin mailboxes

\* An operation has a member and a journal, which is that member's or settled; no
\* other member's operation has the same journal.
OpsHaveJournals ==
    \A p \in Leads :
        IF Busy(p)
        THEN /\ op[p].member \in Members /\ op[p].tx \in Txs /\ lead[p] # "down"
             /\ journal[op[p].tx].do # "unused"
             /\ Pending(op[p].tx) => journal[op[p].tx].member = op[p].member
             /\ \A q \in Leads :
                   (Busy(q) /\ op[q].tx = op[p].tx) => op[q].member = op[p].member
        ELSE op[p] = Idle

\* A member that no process strayed from is in the hands of the holder, and the journal
\* of the operation is there to be settled.
HolderOperates ==
    /\ \A p \in Leads : Ours(p) => holder = p /\ Pending(op[p].tx)
    /\ holder # NoLead => lead[holder] # "down"
    /\ \A x \in Txs : Pending(x) => journal[x].member \in Members

\* What is there at each stage of an addition and of its rollback.
AddStage(p) ==
    LET m == op[p].member IN
    /\ op[p].do = "add" =>
          /\ \A y \in Txs : (journal[y].do = "add" /\ journal[y].member = m) => y = op[p].tx
          /\ op[p].at = "settle" => m \in registered
          /\ ~op[p].made => op[p].at = "worktree"
    /\ op[p].at # "settle" => m \notin registered /\ m \notin known
    /\ ~op[p].made => worktree[m] = "absent" /\ m \notin registered
    /\ op[p].do = "undo" =>
          /\ op[p].at \in {"terminate", "delete"} => m \notin sessions /\ m \notin mailboxes
          /\ op[p].at = "settle" => m \in registered \/ NoFiles(m)

AddStages == \A p \in Leads : (Ours(p) /\ op[p].do \in {"add", "undo"}) => AddStage(p)

\* What is there at each stage of a removal, and that nobody starts a run meanwhile.
RemoveStage(p) ==
    LET m == op[p].member IN
    /\ lead[p] = "attached" => runner[m] = NoLead
    /\ op[p].at = "deregister" => lead[p] = "attached"
    /\ m \notin strayed =>
          /\ op[p].at = "unlink" => worktree[m] = "absent" /\ runner[m] = NoLead
          /\ op[p].at = "settle" => m \in registered \/ NoFiles(m)

RemoveStages == \A p \in Leads : op[p].do = "remove" => RemoveStage(p)

\* A member of the team was published, and the journal of its addition goes before
\* anything happens to the member: it is being settled, or the recovery under way has it
\* on its list.
PublishedIsSettled ==
    /\ registered \subseteq known
    /\ \A x \in Txs :
          (journal[x].do = "add" /\ journal[x].member \in known \ strayed) =>
              /\ journal[x].member \in registered
              /\ \/ holder = NoLead
                 \/ lead[holder] = "recovering" /\ x \in todo[holder]
                 \/ op[holder].do \in {"add", "undo"} /\ op[holder].tx = x

RosterInv ==
    /\ TypeOK /\ OpsHaveJournals /\ HolderOperates
    /\ AddStages /\ RemoveStages /\ PublishedIsSettled
    /\ FilesAccounted /\ RunsAreWhole

-----------------------------------------------------------------------------
\* A team that was just created has nothing to account for.
LEMMA InitRosterInv == Init => RosterInv
  BY TxAssumption, MemberAssumption, LeadAssumption
     DEF Init, RosterInv, TypeOK, OpsHaveJournals, HolderOperates, AddStages, RemoveStages,
         PublishedIsSettled, FilesAccounted, RunsAreWhole, Busy, Ours, Idle, NoRecord, Records,
         Ops, Stages, Pending

\* Every step keeps the types.
LEMMA RosterTypeStep == RosterInv /\ [Next]_vars => TypeOK'
  <1> SUFFICES ASSUME RosterInv, [Next]_vars PROVE TypeOK'
    OBVIOUS
  <1> USE TxAssumption, MemberAssumption, LeadAssumption, BoundAssumption
      DEF TypeOK, state, disk, proc
  <1>0. TypeOK /\ OpsHaveJournals
    BY DEF RosterInv
  <1>1. ASSUME NEW p \in Leads, op[p].do # "none"
        PROVE  op[p] \in Ops /\ op[p].member \in Members /\ op[p].tx \in Txs
    BY <1>0, <1>1 DEF OpsHaveJournals, Busy
  <1>2. ASSUME NEW p \in Leads, NEW m \in Members, NEW x \in Txs,
               AddBegin(p, m, x) \/ RemoveBegin(p, m, x)
        PROVE  TypeOK'
    <2>1. CASE AddBegin(p, m, x)
      <3>1. [do |-> "add", member |-> m, tx |-> x, pane |-> 0, made |-> FALSE, at |-> "worktree"]
               \in Ops
        BY DEF Ops, Stages
      <3>2. [do |-> "add", member |-> m, pane |-> 0] \in Records
        BY DEF Records
      <3> QED BY <1>0, <2>1, <3>1, <3>2 DEF AddBegin, Write, Stray
    <2>2. CASE RemoveBegin(p, m, x)
      <3>1. [do |-> "remove", member |-> m, tx |-> x, pane |-> binding[m], made |-> TRUE,
             at |-> "deregister"] \in Ops
        BY <1>0 DEF Ops, Stages
      <3>2. [do |-> "remove", member |-> m, pane |-> binding[m]] \in Records
        BY <1>0 DEF Records
      <3> QED BY <1>0, <2>2, <3>1, <3>2 DEF RemoveBegin, BeginRemoval, Write, Stray
    <2> QED BY <1>2, <2>1, <2>2
  <1>3. ASSUME NEW p \in Leads,
               \/ AddWorktree(p) \/ AddSession(p) \/ AddMailbox(p) \/ AddPane(p) \/ AddNote(p)
               \/ AddPublish(p) \/ AddFails(p)
        PROVE  TypeOK'
    <2>1. op[p] \in Ops /\ op[p].member \in Members /\ op[p].tx \in Txs
      BY <1>1, <1>3 DEF AddWorktree, AddSession, AddMailbox, AddPane, AddNote, AddPublish, AddFails, At
    <2>2. CASE AddWorktree(p)
      BY <1>0, <2>1, <2>2 DEF AddWorktree, Ops, Stages
    <2>3. CASE AddPane(p)
      <3>1. <<op[p].member, 1>> \in Members \X Nat
        BY <2>1
      <3>2. op' \in [Leads -> Ops]
        BY <1>0, <2>1, <2>3 DEF AddPane, Ops, Stages
      <3> QED BY <1>0, <2>3, <3>1, <3>2 DEF AddPane
    <2>4. CASE AddFails(p)
      BY <1>0, <2>1, <2>4 DEF AddFails, Ops, Stages
    <2>5. CASE AddSession(p) \/ AddMailbox(p) \/ AddPublish(p)
      BY <1>0, <2>1, <2>5 DEF AddSession, AddMailbox, AddPublish, Goto, Ops, Stages
    <2>6. CASE AddNote(p)
      BY <1>0, <2>1, <2>6 DEF AddNote, Write, Goto, Ops, Stages, Records
    <2> QED BY <1>3, <2>2, <2>3, <2>4, <2>5, <2>6
  <1>4. ASSUME NEW p \in Leads,
               \/ UndoUnlink(p) \/ UndoTerminate(p) \/ DeleteWorktree(p) \/ RemoveTerminate(p)
               \/ RemoveUnlink(p) \/ RemoveDeregister(p)
        PROVE  TypeOK'
    <2>1. op[p] \in Ops /\ op[p].member \in Members /\ op[p].tx \in Txs
      BY <1>1, <1>4
         DEF UndoUnlink, UndoTerminate, DeleteWorktree, RemoveTerminate, RemoveUnlink,
             RemoveDeregister, At
    <2> QED
      BY <1>0, <1>4, <2>1
         DEF UndoUnlink, UndoTerminate, DeleteWorktree, RemoveTerminate, RemoveUnlink,
             RemoveDeregister, AfterDeregister, Goto, Ops, Stages
  <1>5. Idle \in Ops
    BY DEF Idle, Ops, Stages
  <1>6. ASSUME NEW p \in Leads,
               \/ UndoTerminateFails(p) \/ KeepWorktree(p) \/ Settle(p) \/ RemoveRefused(p)
               \/ RemoveTerminateFails(p)
        PROVE  TypeOK'
    <2>1. CASE UndoTerminateFails(p) \/ KeepWorktree(p) \/ RemoveRefused(p)
      BY <1>0, <1>5, <2>1 DEF UndoTerminateFails, KeepWorktree, RemoveRefused, Done
    <2>2. CASE RemoveTerminateFails(p)
      BY <1>0, <1>5, <2>2 DEF RemoveTerminateFails, Done
    <2>3. CASE Settle(p)
      <3>1. NoRecord("settled") \in Records
        BY DEF NoRecord, Records
      <3> QED BY <1>0, <1>5, <2>3, <3>1 DEF Settle, Done
    <2> QED BY <1>6, <2>1, <2>2, <2>3
  <1>7. ASSUME NEW p \in Leads, Attach(p) \/ RecoverDone(p) \/ LoseLease(p)
        PROVE  TypeOK'
    <2>1. op[p].member \in Members \cup {NoMember}
      BY <1>0 DEF Ops
    <2>2. CASE Attach(p)
      <3>1. {x \in Txs : Pending(x)} \in SUBSET Txs
        OBVIOUS
      <3> QED BY <1>0, <2>2, <3>1 DEF Attach
    <2>3. CASE RecoverDone(p)
      BY <1>0, <2>3 DEF RecoverDone
    <2>4. CASE LoseLease(p)
      BY <1>0, <2>1, <2>4 DEF LoseLease
    <2> QED BY <1>7, <2>2, <2>3, <2>4
  <1>8. ASSUME NEW p \in Leads, Crash(p) \/ Close(p)
        PROVE  TypeOK'
    BY <1>0, <1>5, <1>8 DEF Crash, Close, Leave, Done
  <1>9. ASSUME NEW p \in Leads, NEW x \in Txs, RecoverPick(p, x)
        PROVE  TypeOK'
    <2>1. CASE Pending(x)
      <3>1. journal[x].member \in Members
        BY <2>1 DEF RosterInv, HolderOperates
      <3>2. Recovery(x) \in Ops
        BY <1>0, <2>1, <3>1 DEF Recovery, Ops, Stages, Records
      <3> QED BY <1>0, <1>9, <2>1, <3>1, <3>2 DEF RecoverPick, Stray
    <2>2. CASE ~Pending(x)
      BY <1>0, <1>9, <2>2 DEF RecoverPick
    <2> QED BY <2>1, <2>2
  <1>10. ASSUME NEW m \in Members, NEW p \in Leads, RunStart(m, p)
         PROVE  TypeOK'
    BY <1>0, <1>10 DEF RunStart
  <1>11. ASSUME NEW m \in Members, RunEnds(m) \/ Edit(m) \/ Work(m)
         PROVE  TypeOK'
    BY <1>0, <1>11 DEF RunEnds, Edit, Work
  <1>12. ASSUME NEW b \in panes, PaneDies(b)
         PROVE  TypeOK'
    BY <1>0, <1>12 DEF PaneDies
  <1>13. CASE UNCHANGED vars
    BY <1>0, <1>13 DEF vars
  <1> QED
    BY <1>2, <1>3, <1>4, <1>6, <1>7, <1>8, <1>9, <1>10, <1>11, <1>12, <1>13 DEF Next

-----------------------------------------------------------------------------
(* Who operates on what *)

\* The operation goes on: the same kind or its rollback, on the same member, with the
\* same journal.
GoesOn(p) ==
    \E r \in Ops : /\ op' = [op EXCEPT ![p] = r]
                   /\ r.do # "none" /\ r.member = op[p].member /\ r.tx = op[p].tx

\* The steps of an operation in flight that do not end it.
Advances(p) ==
    \/ AddWorktree(p) \/ AddSession(p) \/ AddMailbox(p) \/ AddPane(p) \/ AddNote(p)
    \/ AddPublish(p) \/ AddFails(p) \/ UndoUnlink(p) \/ UndoTerminate(p)
    \/ DeleteWorktree(p) \/ RemoveDeregister(p) \/ RemoveTerminate(p) \/ RemoveUnlink(p)

\* The steps that give an operation up; its journal stays.
GivesUp(p) ==
    UndoTerminateFails(p) \/ KeepWorktree(p) \/ RemoveRefused(p) \/ RemoveTerminateFails(p)

\* An operation that advances keeps its member and its journal.
LEMMA AdvanceGoesOn ==
    ASSUME RosterInv, NEW p \in Leads, Advances(p)
    PROVE  /\ Busy(p) /\ GoesOn(p) /\ UNCHANGED proc
           /\ \/ UNCHANGED journal
              \/ /\ op[p].do = "add" /\ op[p].at = "note"
                 /\ journal' = [journal EXCEPT ![op[p].tx] =
                                  [do |-> "add", member |-> op[p].member, pane |-> op[p].pane]]
  <1>1. op[p] \in Ops /\ op \in [Leads -> Ops]
    BY DEF RosterInv, TypeOK
  <1>2. Busy(p)
    BY DEF Advances, AddWorktree, AddSession, AddMailbox, AddPane, AddNote, AddPublish, AddFails,
           UndoUnlink, UndoTerminate, DeleteWorktree, RemoveDeregister, RemoveTerminate,
           RemoveUnlink, At, Busy
  <1>3. UNCHANGED proc /\ (AddNote(p) \/ UNCHANGED journal)
    BY DEF Advances, AddWorktree, AddSession, AddMailbox, AddPane, AddNote, AddPublish, AddFails,
           UndoUnlink, UndoTerminate, DeleteWorktree, RemoveDeregister, RemoveTerminate,
           RemoveUnlink
  <1>4. ASSUME NEW at \in Stages, Goto(p, at) PROVE GoesOn(p)
    BY <1>1, <1>2, <1>4, [op[p] EXCEPT !.at = at] \in Ops DEF GoesOn, Goto, Ops, Busy
  <1>5. CASE AddWorktree(p)
    BY <1>1, <1>2, <1>5, [op[p] EXCEPT !.at = "session", !.made = TRUE] \in Ops
       DEF AddWorktree, GoesOn, Ops, Busy, Stages
  <1>6. CASE AddPane(p)
    BY <1>1, <1>2, <1>6, [op[p] EXCEPT !.at = "note", !.pane = 1] \in Ops
       DEF AddPane, GoesOn, Ops, Busy, Stages
  <1>7. CASE AddFails(p)
    BY <1>1, <1>2, <1>7, [op[p] EXCEPT !.do = "undo", !.at = "unlink"] \in Ops
       DEF AddFails, GoesOn, Ops, Busy, Stages
  <1>8. GoesOn(p)
    BY <1>4, <1>5, <1>6, <1>7
       DEF Advances, AddSession, AddMailbox, AddNote, AddPublish, UndoUnlink, UndoTerminate,
           DeleteWorktree, RemoveDeregister, AfterDeregister, RemoveTerminate, RemoveUnlink, Stages
  <1> QED BY <1>2, <1>3, <1>8 DEF AddNote, Write, At

\* What the rest of the program does leaves the operations alone.
Surroundings ==
    \/ \E m \in Members, p \in Leads : RunStart(m, p)
    \/ \E m \in Members : RunEnds(m) \/ Edit(m) \/ Work(m)
    \/ \E b \in panes : PaneDies(b)

\* They touch neither the register nor a journal nor the files of a member.
LEMMA SurroundingsLeave ==
    ASSUME Surroundings
    PROVE  UNCHANGED <<registered, known, sessions, mailboxes, journal, holder, lead, todo, strayed,
                       op>>
  BY DEF Surroundings, RunStart, RunEnds, Edit, Work, PaneDies, state, disk, proc

\* The kinds of step there are.
LEMMA RosterStepKinds ==
    ASSUME Next
    PROVE  \/ \E p \in Leads, m \in Members, x \in Txs : AddBegin(p, m, x) \/ RemoveBegin(p, m, x)
           \/ \E p \in Leads : Advances(p) \/ GivesUp(p) \/ Settle(p)
           \/ \E p \in Leads : Attach(p) \/ RecoverDone(p) \/ LoseLease(p) \/ Crash(p) \/ Close(p)
           \/ \E p \in Leads, x \in Txs : RecoverPick(p, x)
           \/ Surroundings
  BY DEF Next, Advances, GivesUp, Surroundings

\* An operation that ends leaves its process idle.
LEMMA EndsIdle ==
    ASSUME RosterInv, NEW p \in Leads, GivesUp(p) \/ Settle(p)
    PROVE  /\ Busy(p) /\ op' = [op EXCEPT ![p] = Idle]
           /\ \/ UNCHANGED lead \/ lead' = [lead EXCEPT ![p] = "down"]
           /\ UNCHANGED strayed
  BY DEF GivesUp, UndoTerminateFails, KeepWorktree, RemoveRefused, RemoveTerminateFails, Settle,
         Done, Busy, At, proc

\* Every operation keeps its journal to itself.
LEMMA JournalStep == RosterInv /\ [Next]_vars => OpsHaveJournals'
  <1> SUFFICES ASSUME RosterInv, [Next]_vars PROVE OpsHaveJournals'
    OBVIOUS
  <1>0. /\ OpsHaveJournals /\ op \in [Leads -> Ops] /\ journal \in [Txs -> Records]
        /\ lead \in [Leads -> {"down", "recovering", "attached"}]
    BY DEF RosterInv, TypeOK
  <1>9. ASSUME NEW p \in Leads, op' = [op EXCEPT ![p] = Idle],
               UNCHANGED lead \/ lead' = [lead EXCEPT ![p] = "down"],
               \A x \in Txs : journal'[x] = journal[x] \/ journal'[x].do = "settled"
        PROVE  OpsHaveJournals'
    <2>1. op'[p] = Idle /\ ~Busy(p)'
      BY <1>0, <1>9 DEF Busy, Idle
    <2>2. ASSUME NEW q \in Leads, q # p PROVE op'[q] = op[q] /\ lead'[q] = lead[q]
      BY <1>0, <1>9, <2>2
    <2> QED BY <1>0, <1>9, <2>1, <2>2 DEF OpsHaveJournals, Busy, Pending
  <1>1. ASSUME NEW p \in Leads, NEW m \in Members, NEW x \in Txs,
               AddBegin(p, m, x) \/ RemoveBegin(p, m, x)
        PROVE  OpsHaveJournals'
    BY <1>0, <1>1
       DEF AddBegin, RemoveBegin, BeginRemoval, Write, OpsHaveJournals, Busy, Pending, Unused
  <1>2. ASSUME NEW p \in Leads, Advances(p)
        PROVE  OpsHaveJournals'
    <2>1. Busy(p) /\ GoesOn(p) /\ UNCHANGED lead
      BY <1>2, AdvanceGoesOn DEF proc
    <2>2. CASE UNCHANGED journal
      BY <1>0, <2>1, <2>2 DEF OpsHaveJournals, Busy, Pending, GoesOn
    <2>3. CASE journal' = [journal EXCEPT ![op[p].tx] =
                            [do |-> "add", member |-> op[p].member, pane |-> op[p].pane]]
      BY <1>0, <2>1, <2>3 DEF OpsHaveJournals, Busy, Pending, GoesOn
    <2> QED BY <1>2, <2>2, <2>3, AdvanceGoesOn
  <1>3. ASSUME NEW p \in Leads, GivesUp(p)
        PROVE  OpsHaveJournals'
    <2>1. UNCHANGED journal
      BY <1>3 DEF GivesUp, UndoTerminateFails, KeepWorktree, RemoveRefused, RemoveTerminateFails
    <2> QED BY <1>9, <1>3, <2>1, EndsIdle
  <1>4. ASSUME NEW p \in Leads, Settle(p)
        PROVE  OpsHaveJournals'
    <2>1. \A x \in Txs : journal'[x] = journal[x] \/ journal'[x].do = "settled"
      BY <1>0, <1>4 DEF Settle, NoRecord
    <2> QED BY <1>9, <1>4, <2>1, EndsIdle
  <1>5. ASSUME NEW p \in Leads,
               Attach(p) \/ RecoverDone(p) \/ LoseLease(p) \/ Crash(p) \/ Close(p)
        PROVE  OpsHaveJournals'
    <2>1. CASE Attach(p) \/ RecoverDone(p) \/ LoseLease(p)
      BY <1>0, <2>1 DEF Attach, RecoverDone, LoseLease, OpsHaveJournals, Busy, Pending
    <2>2. CASE Crash(p)
      BY <1>9, <2>2 DEF Crash, Leave, Done
    <2>3. CASE Close(p)
      BY <1>0, <2>3 DEF Close, Leave, OpsHaveJournals, Busy, Pending
    <2> QED BY <1>5, <2>1, <2>2, <2>3
  <1>6. ASSUME NEW p \in Leads, NEW x \in Txs, RecoverPick(p, x)
        PROVE  OpsHaveJournals'
    <2>1. CASE Pending(x)
      <3>1. journal[x].member \in Members
        BY <2>1 DEF RosterInv, HolderOperates
      <3> QED
        BY <1>0, <1>6, <2>1, <3>1
           DEF RecoverPick, Recovering, Recovery, OpsHaveJournals, Busy, Pending
    <2>2. CASE ~Pending(x)
      BY <1>0, <1>6, <2>2 DEF RecoverPick, OpsHaveJournals, Busy, Pending
    <2> QED BY <2>1, <2>2
  <1>7. CASE UNCHANGED <<journal, lead, op>>
    BY <1>0, <1>7 DEF OpsHaveJournals, Busy, Pending
  <1>8. CASE UNCHANGED vars
    BY <1>7, <1>8 DEF vars, proc
  <1> QED BY <1>1, <1>2, <1>3, <1>4, <1>5, <1>6, <1>7, <1>8, RosterStepKinds, SurroundingsLeave

\* An unstrayed member stays with the holder of the lease.
LEMMA HolderStep == RosterInv /\ [Next]_vars => HolderOperates'
  <1> SUFFICES ASSUME RosterInv, [Next]_vars PROVE HolderOperates'
    OBVIOUS
  <1> USE LeadAssumption DEF Pending, Ours, Busy
  <1>0. /\ HolderOperates /\ OpsHaveJournals
        /\ op \in [Leads -> Ops] /\ journal \in [Txs -> Records]
        /\ lead \in [Leads -> {"down", "recovering", "attached"}]
        /\ holder \in Leads \cup {NoLead}
    BY DEF RosterInv, TypeOK
  <1>1. ASSUME NEW p \in Leads, NEW m \in Members, NEW x \in Txs,
               AddBegin(p, m, x) \/ RemoveBegin(p, m, x)
        PROVE  HolderOperates'
    <2>1. /\ lead[p] = "attached" /\ UNCHANGED <<holder, lead>>
          /\ \A q \in Leads \ {p} : op'[q] = op[q]
          /\ op'[p].member = m /\ op'[p].tx = x
          /\ strayed' = IF holder = p THEN strayed ELSE strayed \cup {m}
          /\ Unused(x) /\ \A y \in Txs \ {x} : journal'[y] = journal[y]
          /\ journal'[x].do \in {"add", "remove"} /\ journal'[x].member = m
      BY <1>0, <1>1 DEF AddBegin, RemoveBegin, BeginRemoval, Write, Stray
    <2> QED BY <1>0, <2>1 DEF HolderOperates, OpsHaveJournals, Unused
  <1>2. ASSUME NEW p \in Leads, Advances(p)
        PROVE  HolderOperates'
    <2>1. Busy(p) /\ GoesOn(p) /\ UNCHANGED <<lead, holder, strayed>>
      BY <1>2, AdvanceGoesOn DEF proc
    <2>2. op[p].member \in Members
      BY <1>0, <2>1 DEF OpsHaveJournals
    <2>3. CASE UNCHANGED journal
      BY <1>0, <2>1, <2>3 DEF HolderOperates, GoesOn
    <2>4. CASE journal' = [journal EXCEPT ![op[p].tx] =
                            [do |-> "add", member |-> op[p].member, pane |-> op[p].pane]]
      BY <1>0, <2>1, <2>2, <2>4 DEF HolderOperates, GoesOn, OpsHaveJournals
    <2> QED BY <1>2, <2>3, <2>4, AdvanceGoesOn
  <1>3. ASSUME NEW p \in Leads, GivesUp(p)
        PROVE  HolderOperates'
    <2>1. /\ UNCHANGED journal
          /\ \/ UNCHANGED <<lead, holder>>
             \/ /\ lead' = [lead EXCEPT ![p] = "down"]
                /\ holder' = IF holder = p THEN NoLead ELSE holder
      BY <1>3 DEF GivesUp, UndoTerminateFails, KeepWorktree, RemoveRefused, RemoveTerminateFails, proc
    <2>2. UNCHANGED strayed /\ op' = [op EXCEPT ![p] = Idle]
      BY <1>3, EndsIdle
    <2> QED BY <1>0, <2>1, <2>2 DEF HolderOperates, Idle
  <1>4. ASSUME NEW p \in Leads, Settle(p)
        PROVE  HolderOperates'
    <2>1. UNCHANGED strayed /\ op' = [op EXCEPT ![p] = Idle] /\ Busy(p)
      BY <1>4, EndsIdle
    <2>2. /\ journal' = [journal EXCEPT ![op[p].tx] = NoRecord("settled")]
          /\ UNCHANGED <<lead, holder>>
      BY <1>4 DEF Settle, proc
    <2>3. ASSUME NEW q \in Leads, Ours(q)' PROVE q # p /\ Ours(q) /\ op[q].tx # op[p].tx
      BY <1>0, <2>1, <2>3 DEF HolderOperates, OpsHaveJournals, Idle
    <2>4. /\ \A q \in Leads : q # p => op'[q] = op[q]
          /\ \A x \in Txs : journal'[x] = journal[x] \/ journal'[x].do = "settled"
          /\ \A x \in Txs : x # op[p].tx => journal'[x] = journal[x]
      BY <1>0, <2>1, <2>2 DEF NoRecord
    <2> QED BY <1>0, <2>2, <2>3, <2>4 DEF HolderOperates, OpsHaveJournals
  <1>5. ASSUME NEW p \in Leads,
               Attach(p) \/ RecoverDone(p) \/ LoseLease(p) \/ Crash(p) \/ Close(p)
        PROVE  HolderOperates'
    <2>1. CASE Attach(p) \/ RecoverDone(p)
      BY <1>0, <2>1 DEF Attach, RecoverDone, HolderOperates
    <2>2. CASE LoseLease(p)
      BY <1>0, <2>2, MemberAssumption DEF LoseLease, HolderOperates, OpsHaveJournals
    <2>3. CASE Crash(p)
      BY <1>0, <2>3 DEF Crash, Leave, Done, HolderOperates, Idle
    <2>4. CASE Close(p)
      BY <1>0, <2>4 DEF Close, Leave, HolderOperates
    <2> QED BY <1>5, <2>1, <2>2, <2>3, <2>4
  <1>6. ASSUME NEW p \in Leads, NEW x \in Txs, RecoverPick(p, x)
        PROVE  HolderOperates'
    BY <1>0, <1>6 DEF RecoverPick, Recovering, Recovery, Stray, HolderOperates
  <1>7. CASE UNCHANGED <<journal, lead, holder, strayed, op>>
    BY <1>0, <1>7 DEF HolderOperates
  <1>8. CASE UNCHANGED vars
    BY <1>7, <1>8 DEF vars, proc
  <1> QED BY <1>1, <1>2, <1>3, <1>4, <1>5, <1>6, <1>7, <1>8, RosterStepKinds, SurroundingsLeave

-----------------------------------------------------------------------------
(* What the stages of an operation leave behind *)

\* Nothing else happened to the member that q operates on.
Spared(q) ==
    LET m == op[q].member IN
    /\ op'[q] = op[q] /\ strayed \subseteq strayed'
    /\ worktree'[m] = worktree[m]
    /\ (m \in sessions) <=> (m \in sessions')
    /\ (m \in mailboxes) <=> (m \in mailboxes')
    /\ (m \in registered) <=> (m \in registered')
    /\ (m \in known) <=> (m \in known')

\* An operation touches its own member only.
LEMMA OthersAreSpared ==
    ASSUME RosterInv, NEW p \in Leads, Advances(p) \/ GivesUp(p) \/ Settle(p),
           NEW q \in Leads, op[q].member \in Members \ {op[p].member}
    PROVE  Spared(q)
  <1>1. /\ op \in [Leads -> Ops] /\ worktree \in [Members -> {"absent", "clean", "dirty"}]
        /\ q # p
    BY DEF RosterInv, TypeOK
  <1>2. op'[q] = op[q] /\ UNCHANGED strayed
    BY <1>1, AdvanceGoesOn, EndsIdle DEF GoesOn, proc
  <1>3. \/ UNCHANGED worktree
        \/ \E v \in {"absent", "clean"} : worktree' = [worktree EXCEPT ![op[p].member] = v]
    BY DEF Advances, GivesUp, Settle, AddWorktree, AddSession, AddMailbox, AddPane, AddNote, AddPublish,
           AddFails, UndoUnlink, UndoTerminate, DeleteWorktree, RemoveDeregister, RemoveTerminate,
           RemoveUnlink, UndoTerminateFails, KeepWorktree, RemoveRefused, RemoveTerminateFails, disk
  <1>4. /\ sessions' \in {sessions, sessions \cup {op[p].member}, sessions \ {op[p].member}}
        /\ mailboxes' \in {mailboxes, mailboxes \cup {op[p].member}, mailboxes \ {op[p].member}}
    BY DEF Advances, GivesUp, Settle, AddWorktree, AddSession, AddMailbox, AddPane, AddNote, AddPublish,
           AddFails, UndoUnlink, UndoTerminate, DeleteWorktree, RemoveDeregister, RemoveTerminate,
           RemoveUnlink, UndoTerminateFails, KeepWorktree, RemoveRefused, RemoveTerminateFails, disk
  <1>5. /\ registered' \in {registered, registered \cup {op[p].member}, registered \ {op[p].member}}
        /\ known' \in {known, known \cup {op[p].member}}
    BY DEF Advances, GivesUp, Settle, AddWorktree, AddSession, AddMailbox, AddPane, AddNote, AddPublish,
           AddFails, UndoUnlink, UndoTerminate, DeleteWorktree, RemoveDeregister, RemoveTerminate,
           RemoveUnlink, UndoTerminateFails, KeepWorktree, RemoveRefused, RemoveTerminateFails, state
  <1>6. worktree'[op[q].member] = worktree[op[q].member]
    BY <1>1, <1>3
  <1> QED BY <1>2, <1>4, <1>5, <1>6 DEF Spared

\* Two operations on an unstrayed member are the same.
LEMMA OneOperates ==
    ASSUME RosterInv, NEW p \in Leads, NEW q \in Leads, Busy(p), Ours(q),
           op[p].member = op[q].member
    PROVE  p = q
  BY DEF RosterInv, HolderOperates, Ours

\* A stage holds as long as its member is spared.
LEMMA SparedStage ==
    ASSUME RosterInv, NEW q \in Leads, Spared(q), Ours(q)', op'[q].do \in {"add", "undo"},
           \A y \in Txs : \/ journal'[y] = journal[y] \/ journal'[y].do # "add"
                         \/ journal'[y].member # op[q].member
    PROVE  AddStage(q)'
  <1>1. Ours(q) /\ op[q].do \in {"add", "undo"} /\ AddStage(q)
    BY DEF RosterInv, AddStages, Ours, Busy, Spared
  <1> QED BY <1>1 DEF AddStage, Spared, NoFiles

\* An addition that advances reaches its next stage.
LEMMA AdditionAdvances ==
    ASSUME RosterInv, NEW p \in Leads, Advances(p), Ours(p)', op'[p].do \in {"add", "undo"}
    PROVE  AddStage(p)'
  <1> DEFINE m == op[p].member
  <1>1. /\ op \in [Leads -> Ops] /\ worktree \in [Members -> {"absent", "clean", "dirty"}]
        /\ journal \in [Txs -> Records] /\ op[p] \in Ops
    BY DEF RosterInv, TypeOK
  <1>2. Ours(p) /\ op'[p].member = m /\ op'[p].tx = op[p].tx /\ m \in Members /\ op[p].tx \in Txs
    <2>1. op'[p].member = m /\ op'[p].tx = op[p].tx
      BY <1>1, AdvanceGoesOn DEF GoesOn
    <2>2. Busy(p) /\ UNCHANGED strayed
      BY AdvanceGoesOn DEF proc
    <2> QED BY <2>1, <2>2 DEF Ours, RosterInv, OpsHaveJournals
  <1>3. op[p].do \in {"add", "undo"}
    <2>1. ASSUME NEW at \in Stages, Goto(p, at) PROVE op'[p].do = op[p].do
      BY <1>1, <2>1 DEF Goto
    <2>2. ASSUME RemoveDeregister(p) \/ RemoveTerminate(p) \/ RemoveUnlink(p) \/ DeleteWorktree(p)
          PROVE  op'[p].do = op[p].do
      BY <2>1, <2>2
         DEF RemoveDeregister, AfterDeregister, RemoveTerminate, RemoveUnlink, DeleteWorktree, Stages
    <2>3. ASSUME \/ AddWorktree(p) \/ AddSession(p) \/ AddMailbox(p) \/ AddPane(p) \/ AddNote(p)
                 \/ AddPublish(p) \/ AddFails(p) \/ UndoUnlink(p) \/ UndoTerminate(p)
          PROVE  op[p].do \in {"add", "undo"}
      BY <2>3
         DEF AddWorktree, AddSession, AddMailbox, AddPane, AddNote, AddPublish, AddFails, UndoUnlink,
             UndoTerminate, At
    <2> QED BY <2>2, <2>3 DEF Advances
  <1>4. AddStage(p) /\ Pending(op[p].tx) /\ journal[op[p].tx].member = m
    BY <1>2, <1>3 DEF RosterInv, AddStages, HolderOperates, OpsHaveJournals, Ours
  <1> USE DEF AddStage, At
  <1>5. CASE AddWorktree(p)
    <2>1. op'[p] = [op[p] EXCEPT !.at = "session", !.made = TRUE]
      BY <1>1, <1>5 DEF AddWorktree
    <2>2. op'[p].do = "add" /\ op'[p].at = "session" /\ op'[p].made
      BY <1>1, <1>5, <2>1 DEF AddWorktree, Ops
    <2> QED BY <1>2, <1>4, <1>5, <2>2 DEF AddWorktree, state
  <1>6. CASE AddSession(p) \/ AddMailbox(p)
    <2>1. \E at \in {"mailbox", "provision", "publish"} : op'[p] = [op[p] EXCEPT !.at = at]
      BY <1>1, <1>6 DEF AddSession, AddMailbox, Goto
    <2>2. op'[p].do = "add" /\ op'[p].at # "settle" /\ op'[p].made = op[p].made
      BY <1>1, <1>6, <2>1 DEF AddSession, AddMailbox, Ops
    <2>3. /\ UNCHANGED <<state, worktree, journal>>
          /\ op[p].do = "add" /\ op[p].at \in {"session", "mailbox"}
      BY <1>6 DEF AddSession, AddMailbox
    <2>4. op[p].made /\ registered' = registered /\ known' = known
      BY <1>4, <2>3 DEF state
    <2> QED BY <1>2, <1>4, <2>2, <2>3, <2>4
  <1>7. CASE AddPane(p) \/ AddFails(p)
    <2>1. CASE AddPane(p)
      <3>1. op'[p] = [op[p] EXCEPT !.at = "note", !.pane = 1]
        BY <1>1, <2>1 DEF AddPane
      <3> QED BY <1>1, <1>2, <1>4, <2>1, <3>1 DEF AddPane, Ops, state
    <2>2. CASE AddFails(p)
      <3>1. op'[p] = [op[p] EXCEPT !.do = "undo", !.at = "unlink"]
        BY <1>1, <2>2 DEF AddFails
      <3> QED BY <1>1, <1>2, <1>4, <2>2, <3>1 DEF AddFails, Ops, state, disk
    <2> QED BY <1>7, <2>1, <2>2
  <1>8. CASE AddNote(p)
    BY <1>1, <1>2, <1>4, <1>8 DEF AddNote, Goto, Write, state, disk
  <1>9. CASE AddPublish(p)
    BY <1>1, <1>2, <1>4, <1>9 DEF AddPublish, Goto, disk
  <1>10. CASE UndoUnlink(p)
    BY <1>1, <1>2, <1>4, <1>10 DEF UndoUnlink, Goto, state, NoFiles
  <1>11. CASE UndoTerminate(p)
    BY <1>1, <1>2, <1>4, <1>11 DEF UndoTerminate, Goto, state, NoFiles
  <1>12. CASE DeleteWorktree(p)
    BY <1>1, <1>2, <1>3, <1>4, <1>12 DEF DeleteWorktree, Goto, state, NoFiles
  <1> QED
    BY <1>3, <1>5, <1>6, <1>7, <1>8, <1>9, <1>10, <1>11, <1>12
       DEF Advances, RemoveDeregister, RemoveTerminate, RemoveUnlink

\* The step of another process spares the member that the holder operates on.
LEMMA HolderIsSpared ==
    ASSUME RosterInv, NEW p \in Leads, Advances(p) \/ GivesUp(p) \/ Settle(p),
           NEW q \in Leads, q # p, Busy(q)', op'[q].member \notin strayed'
    PROVE  /\ Spared(q) /\ Ours(q) /\ UNCHANGED strayed
           /\ \A x \in Txs : \/ journal'[x] = journal[x] \/ journal'[x].do = "settled"
                            \/ journal'[x].member # op[q].member
  <1>1. op \in [Leads -> Ops] /\ journal \in [Txs -> Records]
    BY DEF RosterInv, TypeOK
  <1>2. op'[q] = op[q] /\ UNCHANGED strayed /\ Busy(p)
    BY <1>1, AdvanceGoesOn, EndsIdle DEF GoesOn, proc
  <1>3. Ours(q)
    BY <1>2 DEF Ours, Busy
  <1>4. op[q].member # op[p].member
    BY <1>2, <1>3, OneOperates
  <1>5. Spared(q)
    BY <1>3, <1>4, OthersAreSpared DEF RosterInv, OpsHaveJournals, Ours
  <1>6. \A x \in Txs : \/ journal'[x] = journal[x] \/ journal'[x].do = "settled"
                     \/ journal'[x].member = op[p].member
    <2>1. CASE Advances(p)
      <3>1. CASE journal' = [journal EXCEPT ![op[p].tx] =
                              [do |-> "add", member |-> op[p].member, pane |-> op[p].pane]]
        BY <1>1, <3>1
      <3> QED BY <2>1, <3>1, AdvanceGoesOn
    <2>2. CASE GivesUp(p)
      BY <2>2 DEF GivesUp, UndoTerminateFails, KeepWorktree, RemoveRefused, RemoveTerminateFails
    <2>3. CASE Settle(p)
      BY <1>1, <2>3 DEF Settle, NoRecord
    <2> QED BY <2>1, <2>2, <2>3
  <1> QED BY <1>2, <1>3, <1>4, <1>5, <1>6

\* Additions and rollbacks go from stage to stage.
LEMMA AddStep == RosterInv /\ [Next]_vars => AddStages'
  <1> SUFFICES ASSUME RosterInv, [Next]_vars,
                      NEW q \in Leads, Ours(q)', op'[q].do \in {"add", "undo"}
               PROVE  AddStage(q)'
    BY DEF AddStages
  <1>0. /\ op \in [Leads -> Ops] /\ journal \in [Txs -> Records]
        /\ worktree \in [Members -> {"absent", "clean", "dirty"}]
        /\ holder \in Leads \cup {NoLead}
    BY DEF RosterInv, TypeOK
  <1>1. ASSUME NEW p \in Leads, NEW m \in Members, NEW x \in Txs, AddBegin(p, m, x)
        PROVE  AddStage(q)'
    <2>1. CASE q = p
      <3>1. op'[p] = [do |-> "add", member |-> m, tx |-> x, pane |-> 0, made |-> FALSE,
                      at |-> "worktree"]
        BY <1>0, <1>1 DEF AddBegin
      <3>2. /\ m \notin known /\ m \notin registered /\ worktree[m] = "absent"
            /\ UNCHANGED <<state, worktree>>
        BY <1>1 DEF AddBegin, Drawn, RosterInv, PublishedIsSettled, disk
      <3>3. \A y \in Txs : (journal'[y].do = "add" /\ journal'[y].member = m) => y = x
        BY <1>0, <1>1 DEF AddBegin, Drawn, Pending, Write
      <3> QED BY <2>1, <3>1, <3>2, <3>3 DEF AddStage, state
    <2>2. CASE q # p
      <3>1. op'[q] = op[q]
        BY <1>0, <1>1, <2>2 DEF AddBegin
      <3>2. op[q].member # m /\ strayed \subseteq strayed' /\ UNCHANGED <<state, disk>>
        BY <1>1 DEF AddBegin, Drawn, Stray
      <3>3. \A y \in Txs : journal'[y] = journal[y] \/ journal'[y].member = m
        BY <1>0, <1>1 DEF AddBegin, Write
      <3> QED BY <3>1, <3>2, <3>3, SparedStage DEF Spared, state, disk
    <2> QED BY <2>1, <2>2
  <1>2. ASSUME NEW p \in Leads, NEW m \in Members, NEW x \in Txs, RemoveBegin(p, m, x)
        PROVE  AddStage(q)'
    <2>1. q # p /\ op'[q] = op[q]
      BY <1>0, <1>2 DEF RemoveBegin, BeginRemoval
    <2>2. strayed \subseteq strayed' /\ UNCHANGED <<state, disk>>
      BY <1>2 DEF RemoveBegin, BeginRemoval, Stray
    <2>3. \A y \in Txs : journal'[y] = journal[y] \/ journal'[y].do = "remove"
      BY <1>0, <1>2 DEF RemoveBegin, BeginRemoval, Write
    <2> QED BY <2>1, <2>2, <2>3, SparedStage DEF Spared, state, disk
  <1>3. ASSUME NEW p \in Leads, Advances(p) \/ GivesUp(p) \/ Settle(p)
        PROVE  AddStage(q)'
    <2>1. CASE q = p
      <3>1. Advances(p)
        BY <1>0, <1>3, <2>1, EndsIdle DEF Idle
      <3> QED BY <2>1, <3>1, AdditionAdvances
    <2>2. CASE q # p
      BY <1>3, <2>2, HolderIsSpared, SparedStage DEF Ours
    <2> QED BY <2>1, <2>2
  <1>4. ASSUME op'[q] = op[q], strayed \subseteq strayed', UNCHANGED <<state, disk, journal>>
        PROVE  AddStage(q)'
    BY <1>4, SparedStage DEF Spared, state, disk
  <1>5. ASSUME NEW p \in Leads,
               Attach(p) \/ RecoverDone(p) \/ LoseLease(p) \/ Crash(p) \/ Close(p)
        PROVE  AddStage(q)'
    BY <1>0, <1>4, <1>5
       DEF Attach, RecoverDone, LoseLease, Crash, Close, Leave, Done, Idle
  <1>6. ASSUME NEW p \in Leads, NEW x \in Txs, RecoverPick(p, x)
        PROVE  AddStage(q)'
    <2>1. UNCHANGED <<state, disk, journal>> /\ strayed \subseteq strayed'
      BY <1>6 DEF RecoverPick, Stray
    <2>2. CASE op'[q] = op[q]
      BY <1>4, <2>1, <2>2
    <2>3. CASE op'[q] # op[q]
      <3>1. q = p /\ Pending(x) /\ op'[q] = Recovery(x)
        BY <1>0, <1>6, <2>3 DEF RecoverPick
      <3>2. /\ journal[x].do = "add" /\ op'[q].made /\ op'[q].do = "undo"
            /\ op'[q].member = journal[x].member
            /\ op'[q].at = IF journal[x].member \in registered THEN "settle" ELSE "unlink"
        BY <3>1 DEF Recovery, Pending
      <3>3. journal[x].member \in known => journal[x].member \in registered
        BY <2>1, <3>2 DEF RosterInv, PublishedIsSettled, Ours
      <3> QED BY <2>1, <3>2, <3>3 DEF AddStage, state, RosterInv, PublishedIsSettled
    <2> QED BY <2>2, <2>3
  <1>7. CASE Surroundings
    <2>1. UNCHANGED <<registered, known, sessions, mailboxes, journal, strayed, op>>
      BY <1>7, SurroundingsLeave
    <2>2. AddStage(q) /\ op[q].member \in Members
      BY <2>1 DEF RosterInv, AddStages, OpsHaveJournals, Ours, Busy
    <2>3. \/ worktree'[op[q].member] = "absent" <=> worktree[op[q].member] = "absent"
          \/ op[q].member \in registered
      BY <1>0, <1>7, <2>2 DEF Surroundings, RunStart, RunEnds, Edit, Work, PaneDies, disk
    <2> QED BY <2>1, <2>2, <2>3 DEF AddStage, NoFiles
  <1>8. CASE UNCHANGED vars
    BY <1>4, <1>8 DEF vars, proc
  <1> QED BY <1>1, <1>2, <1>3, <1>5, <1>6, <1>7, <1>8, RosterStepKinds

\* Removals go from stage to stage, and nobody starts a run of their member.
LEMMA RemoveStep == RosterInv /\ [Next]_vars => RemoveStages'
  <1> SUFFICES ASSUME RosterInv, [Next]_vars, NEW q \in Leads, op'[q].do = "remove"
               PROVE  RemoveStage(q)'
    BY DEF RemoveStages
  <1>0. /\ op \in [Leads -> Ops] /\ runner \in [Members -> Leads \cup {NoLead}]
        /\ lead \in [Leads -> {"down", "recovering", "attached"}]
        /\ worktree \in [Members -> {"absent", "clean", "dirty"}]
        /\ holder \in Leads \cup {NoLead}
    BY DEF RosterInv, TypeOK
  <1> DEFINE m == op'[q].member
  <1>1. ASSUME op'[q] = op[q]
        PROVE  /\ RemoveStage(q) /\ m \in Members /\ op[q].do = "remove"
               /\ m \notin strayed => holder = q
    BY <1>1 DEF RosterInv, RemoveStages, OpsHaveJournals, HolderOperates, Ours, Busy
  <1>2. ASSUME NEW p \in Leads, NEW n \in Members, NEW x \in Txs,
               AddBegin(p, n, x) \/ RemoveBegin(p, n, x)
        PROVE  RemoveStage(q)'
    <2>1. CASE q = p
      <3>1. RemoveBegin(p, n, x)
        BY <1>0, <1>2, <2>1 DEF AddBegin
      <3>2. op'[p] = [do |-> "remove", member |-> n, tx |-> x, pane |-> binding[n], made |-> TRUE,
                      at |-> "deregister"]
        BY <1>0, <3>1 DEF RemoveBegin, BeginRemoval
      <3>3. lead[p] = "attached" /\ runner[n] = NoLead /\ UNCHANGED <<lead, runner>>
        BY <3>1 DEF RemoveBegin, BeginRemoval, Locked
      <3> QED BY <2>1, <3>2, <3>3 DEF RemoveStage
    <2>2. CASE q # p
      <3>1. op'[q] = op[q]
        BY <1>0, <1>2, <2>2 DEF AddBegin, RemoveBegin, BeginRemoval
      <3>2. strayed \subseteq strayed' /\ UNCHANGED <<state, disk, lead, runner>>
        BY <1>2 DEF AddBegin, RemoveBegin, BeginRemoval, Stray
      <3> QED BY <1>1, <3>1, <3>2 DEF RemoveStage, state, disk, NoFiles
    <2> QED BY <2>1, <2>2
  <1>3. ASSUME NEW p \in Leads, Advances(p) \/ GivesUp(p) \/ Settle(p), q # p
        PROVE  RemoveStage(q)'
    <2>1. op'[q] = op[q] /\ lead'[q] = lead[q] /\ UNCHANGED strayed
      BY <1>0, <1>3, AdvanceGoesOn, EndsIdle DEF GoesOn, proc
    <2>2. UNCHANGED runner
      <3>1. CASE Advances(p)
        BY <3>1, AdvanceGoesOn DEF proc
      <3>2. CASE GivesUp(p) \/ Settle(p)
        BY <3>2 DEF GivesUp, Settle, UndoTerminateFails, KeepWorktree, RemoveRefused,
                    RemoveTerminateFails, proc
      <3> QED BY <1>3, <3>1, <3>2
    <2>3. m \notin strayed => Spared(q)
      BY <1>1, <1>3, <2>1, HolderIsSpared DEF Busy
    <2> QED BY <1>1, <2>1, <2>2, <2>3 DEF RemoveStage, Spared, NoFiles
  <1>4. ASSUME Advances(q)
        PROVE  RemoveStage(q)'
    <2>1. /\ op[q].member = m /\ m \in Members /\ UNCHANGED <<lead, runner, strayed>>
          /\ op[q].do = "remove" /\ RemoveStage(q)
      <3>1. op[q].member = m /\ Busy(q) /\ UNCHANGED <<lead, runner, strayed>>
        BY <1>0, <1>4, AdvanceGoesOn DEF GoesOn, proc
      <3>2. ASSUME NEW at \in Stages, Goto(q, at) PROVE op'[q].do = op[q].do
        BY <1>0, <3>2 DEF Goto
      <3>3. op[q].do = "remove"
        <4>1. CASE \/ AddSession(q) \/ AddMailbox(q) \/ AddNote(q) \/ AddPublish(q) \/ UndoUnlink(q)
                   \/ UndoTerminate(q) \/ DeleteWorktree(q) \/ RemoveDeregister(q)
                   \/ RemoveTerminate(q) \/ RemoveUnlink(q)
          BY <3>2, <4>1
             DEF AddSession, AddMailbox, AddNote, AddPublish, UndoUnlink, UndoTerminate,
                 DeleteWorktree, RemoveDeregister, AfterDeregister, RemoveTerminate, RemoveUnlink,
                 Stages
        <4>2. CASE AddWorktree(q)
          BY <1>0, <4>2 DEF AddWorktree, At
        <4>3. CASE AddPane(q)
          BY <1>0, <4>3 DEF AddPane, At
        <4>4. CASE AddFails(q)
          <5>1. op'[q] = [op[q] EXCEPT !.do = "undo", !.at = "unlink"]
            BY <1>0, <4>4 DEF AddFails
          <5> QED BY <1>0, <5>1 DEF Ops
        <4> QED BY <1>4, <4>1, <4>2, <4>3, <4>4 DEF Advances
      <3> QED BY <3>1, <3>3 DEF RosterInv, RemoveStages, OpsHaveJournals
    <2>2. CASE RemoveDeregister(q) \/ RemoveTerminate(q)
      <3>1. op'[q].at \in {"terminate", "delete"}
        BY <1>0, <2>2 DEF RemoveDeregister, AfterDeregister, RemoveTerminate, Goto, Ops
      <3> QED BY <2>1, <3>1 DEF RemoveStage
    <2>3. CASE DeleteWorktree(q)
      <3>1. op'[q].at = "unlink" /\ worktree'[m] = "absent" /\ runner[m] = NoLead
        BY <1>0, <2>1, <2>3 DEF DeleteWorktree, Goto, Ops
      <3> QED BY <2>1, <3>1 DEF RemoveStage
    <2>4. CASE RemoveUnlink(q)
      <3>1. op[q].at = "unlink" /\ op'[q].at = "settle"
        BY <1>0, <2>4 DEF RemoveUnlink, At, Goto, Ops
      <3>2. m \notin sessions' /\ m \notin mailboxes' /\ UNCHANGED worktree
        BY <2>1, <2>4 DEF RemoveUnlink
      <3> QED BY <2>1, <3>1, <3>2 DEF RemoveStage, NoFiles
    <2> QED
      BY <1>4, <2>1, <2>2, <2>3, <2>4
         DEF Advances, AddWorktree, AddSession, AddMailbox, AddPane, AddNote, AddPublish, AddFails,
             UndoUnlink, UndoTerminate, At
  <1>5. ASSUME NEW p \in Leads, Advances(p) \/ GivesUp(p) \/ Settle(p)
        PROVE  RemoveStage(q)'
    BY <1>0, <1>3, <1>4, <1>5, EndsIdle DEF Idle
  <1>6. ASSUME NEW p \in Leads,
               Attach(p) \/ RecoverDone(p) \/ LoseLease(p) \/ Crash(p) \/ Close(p)
        PROVE  RemoveStage(q)'
    <2>1. op'[q] = op[q] /\ strayed \subseteq strayed' /\ UNCHANGED <<state, disk>>
      BY <1>0, <1>6 DEF Attach, RecoverDone, LoseLease, Crash, Close, Leave, Done, Idle
    <2>2. lead'[q] = lead[q] /\ \A n \in Members : runner[n] = NoLead => runner'[n] = NoLead
      <3>1. Busy(q) /\ lead[q] # "down"
        BY <1>1, <2>1 DEF Busy, RosterInv, OpsHaveJournals
      <3>2. CASE Attach(p) \/ RecoverDone(p) \/ LoseLease(p)
        BY <1>0, <3>1, <3>2 DEF Attach, RecoverDone, LoseLease, Busy
      <3>3. CASE Crash(p)
        <4>1. p # q
          BY <1>0, <2>1, <3>1, <3>3 DEF Crash, Done, Idle, Busy
        <4> QED BY <1>0, <3>3, <4>1 DEF Crash, Leave
      <3>4. CASE Close(p)
        BY <1>0, <3>1, <3>4 DEF Close, Leave, Busy
      <3> QED BY <1>6, <3>2, <3>3, <3>4
    <2> QED BY <1>1, <2>1, <2>2 DEF RemoveStage, NoFiles, state, disk
  <1>7. ASSUME NEW p \in Leads, NEW x \in Txs, RecoverPick(p, x)
        PROVE  RemoveStage(q)'
    <2>1. UNCHANGED <<state, disk, lead, runner>> /\ strayed \subseteq strayed'
      BY <1>7 DEF RecoverPick, Stray
    <2>2. CASE op'[q] = op[q]
      BY <1>1, <2>1, <2>2 DEF RemoveStage, NoFiles, state, disk
    <2>3. CASE op'[q] # op[q]
      <3>1. q = p /\ Pending(x) /\ op'[q] = Recovery(x) /\ lead[q] = "recovering"
        BY <1>0, <1>7, <2>3 DEF RecoverPick, Recovering
      <3>2. op'[q].at \in {"terminate", "delete"}
        BY <3>1 DEF Recovery, Pending
      <3> QED BY <2>1, <3>1, <3>2 DEF RemoveStage
    <2> QED BY <2>2, <2>3
  <1>8. CASE Surroundings
    <2>1. UNCHANGED <<registered, sessions, mailboxes, holder, lead, strayed, op>>
      BY <1>8, SurroundingsLeave
    <2>2. ASSUME NEW p \in Leads, NEW n \in Members, RunStart(n, p)
          PROVE  RemoveStage(q)'
      <3>1. holder = p /\ n \in registered /\ ~Locked(n) /\ lead[p] = "attached"
        BY <2>2 DEF RunStart
      <3>2. n # m \/ (lead[q] # "attached" /\ m \in strayed)
        BY <1>1, <2>1, <3>1 DEF Locked
      <3>3. n # m => worktree'[m] = worktree[m] /\ runner'[m] = runner[m]
        BY <1>0, <1>1, <2>1, <2>2 DEF RunStart
      <3> QED BY <1>1, <2>1, <3>2, <3>3 DEF RemoveStage, NoFiles
    <2>3. ASSUME NEW n \in Members, RunEnds(n) \/ Edit(n) \/ Work(n)
          PROVE  RemoveStage(q)'
      <3>1. /\ runner[m] = NoLead => runner'[m] = NoLead
            /\ worktree[m] = "absent" => worktree'[m] = "absent"
        BY <1>0, <1>1, <2>1, <2>3 DEF RunEnds, Edit, Work, proc, disk
      <3> QED BY <1>1, <2>1, <3>1 DEF RemoveStage, NoFiles
    <2>4. ASSUME NEW b \in panes, PaneDies(b)
          PROVE  RemoveStage(q)'
      <3>1. UNCHANGED <<runner, worktree>>
        BY <2>4 DEF PaneDies, proc
      <3> QED BY <1>1, <2>1, <3>1 DEF RemoveStage, NoFiles
    <2> QED BY <1>8, <2>2, <2>3, <2>4 DEF Surroundings
  <1>9. CASE UNCHANGED vars
    BY <1>1, <1>9 DEF vars, state, disk, proc, RemoveStage, NoFiles
  <1> QED BY <1>2, <1>5, <1>6, <1>7, <1>8, <1>9, RosterStepKinds

\* The journal of a published addition waits for nobody but the holder.
AwaitsHolder(x) ==
    \/ holder = NoLead
    \/ lead[holder] = "recovering" /\ x \in todo[holder]
    \/ op[holder].do \in {"add", "undo"} /\ op[holder].tx = x

\* A published addition is settled before anything else happens to the member.
LEMMA PublishedIsSettledStep == RosterInv /\ [Next]_vars => PublishedIsSettled'
  <1> SUFFICES ASSUME RosterInv, [Next]_vars PROVE PublishedIsSettled'
    OBVIOUS
  <1> USE LeadAssumption
  <1>0. /\ op \in [Leads -> Ops] /\ journal \in [Txs -> Records]
        /\ lead \in [Leads -> {"down", "recovering", "attached"}]
        /\ todo \in [Leads -> SUBSET Txs]
        /\ holder \in Leads \cup {NoLead}
        /\ PublishedIsSettled
    BY DEF RosterInv, TypeOK
  <1>1. ASSUME NEW x \in Txs, journal[x].do = "add", journal[x].member \in known \ strayed
        PROVE  journal[x].member \in registered /\ AwaitsHolder(x)
    BY <1>0, <1>1 DEF PublishedIsSettled, AwaitsHolder
  <1>2. ASSUME registered' \subseteq known', strayed \subseteq strayed',
               \A x \in Txs : (journal'[x].do = "add" /\ journal'[x].member \in known' \ strayed')
                               => journal'[x].member \in registered' /\ AwaitsHolder(x)'
        PROVE  PublishedIsSettled'
    BY <1>2 DEF PublishedIsSettled, AwaitsHolder
  <1>3. ASSUME NEW p \in Leads, NEW m \in Members, NEW x \in Txs,
               AddBegin(p, m, x) \/ RemoveBegin(p, m, x)
        PROVE  PublishedIsSettled'
    <2>1. /\ lead[p] = "attached" /\ op[p].do = "none" /\ op' = [op EXCEPT ![p] = op'[p]]
          /\ UNCHANGED <<registered, known, holder, lead, todo>>
          /\ strayed \subseteq strayed'
      BY <1>0, <1>3 DEF AddBegin, RemoveBegin, BeginRemoval, state, Stray
    <2>2. ASSUME NEW y \in Txs, journal'[y].do = "add", journal'[y].member \in known' \ strayed'
          PROVE  journal'[y] = journal[y]
      BY <1>0, <1>3, <2>1, <2>2 DEF AddBegin, RemoveBegin, BeginRemoval, Write, Drawn
    <2>3. ASSUME NEW y \in Txs, AwaitsHolder(y) PROVE AwaitsHolder(y)'
      BY <1>0, <2>1, <2>3 DEF AwaitsHolder
    <2> QED BY <1>0, <1>1, <1>2, <2>1, <2>2, <2>3 DEF PublishedIsSettled
  <1>4. ASSUME NEW p \in Leads, Advances(p)
        PROVE  PublishedIsSettled'
    <2> DEFINE m == op[p].member
    <2>1. /\ Busy(p) /\ m \in Members /\ op[p].tx \in Txs
          /\ UNCHANGED <<holder, lead, todo, strayed>>
          /\ op'[p].tx = op[p].tx /\ op' = [op EXCEPT ![p] = op'[p]]
      BY <1>0, <1>4, AdvanceGoesOn DEF GoesOn, proc, RosterInv, OpsHaveJournals
    <2>2. op[p].do \in {"add", "undo"} => op'[p].do \in {"add", "undo"}
      <3>1. ASSUME NEW at \in Stages, Goto(p, at) PROVE op'[p].do = op[p].do
        BY <1>0, <3>1 DEF Goto
      <3>2. CASE \/ AddSession(p) \/ AddMailbox(p) \/ AddNote(p) \/ AddPublish(p) \/ UndoUnlink(p)
                 \/ UndoTerminate(p) \/ DeleteWorktree(p) \/ RemoveDeregister(p)
                 \/ RemoveTerminate(p) \/ RemoveUnlink(p)
        BY <3>1, <3>2
           DEF AddSession, AddMailbox, AddNote, AddPublish, UndoUnlink, UndoTerminate,
               DeleteWorktree, RemoveDeregister, AfterDeregister, RemoveTerminate, RemoveUnlink,
               Stages
      <3>3. CASE AddWorktree(p)
        BY <1>0, <3>3 DEF AddWorktree, At
      <3>4. CASE AddPane(p)
        BY <1>0, <3>4 DEF AddPane, At
      <3>5. CASE AddFails(p)
        <4>1. op'[p] = [op[p] EXCEPT !.do = "undo", !.at = "unlink"]
          BY <1>0, <3>5 DEF AddFails
        <4> QED BY <1>0, <4>1 DEF Ops
      <3> QED BY <1>4, <3>2, <3>3, <3>4, <3>5 DEF Advances
    <2>3. ASSUME NEW y \in Txs, AwaitsHolder(y) PROVE AwaitsHolder(y)'
      BY <1>0, <2>1, <2>2, <2>3 DEF AwaitsHolder
    <2>4. ASSUME NEW y \in Txs, journal'[y].do = "add", journal'[y].member \in known' \ strayed',
                 UNCHANGED <<registered, known>>
          PROVE  journal[y].do = "add" /\ journal[y].member = journal'[y].member
      <3>1. CASE UNCHANGED journal
        BY <2>4, <3>1
      <3>2. CASE /\ op[p].do = "add" /\ op[p].at = "note"
                 /\ journal' = [journal EXCEPT ![op[p].tx] =
                                  [do |-> "add", member |-> op[p].member, pane |-> op[p].pane]]
        <4>1. m \notin strayed => m \notin known
          BY <2>1, <3>2 DEF RosterInv, AddStages, AddStage, Ours
        <4> QED BY <1>0, <2>1, <2>4, <3>2, <4>1
      <3> QED BY <1>4, <3>1, <3>2, AdvanceGoesOn
    <2>5. CASE UNCHANGED <<registered, known>>
      BY <1>0, <1>1, <1>2, <2>1, <2>3, <2>4, <2>5 DEF PublishedIsSettled
    <2>6. CASE AddPublish(p)
      <3>1. /\ registered' = registered \cup {m} /\ known' = known \cup {m} /\ holder = p
            /\ op[p].do = "add" /\ op[p].at = "publish" /\ UNCHANGED journal
        BY <2>6 DEF AddPublish, At
      <3>2. ASSUME NEW y \in Txs, journal[y].do = "add", journal[y].member = m, m \notin strayed
            PROVE  y = op[p].tx
        BY <2>1, <3>1, <3>2 DEF RosterInv, AddStages, AddStage, Ours
      <3>3. AwaitsHolder(op[p].tx)'
        BY <2>1, <2>2, <3>1 DEF AwaitsHolder
      <3> QED BY <1>0, <1>1, <1>2, <2>1, <2>3, <3>1, <3>2, <3>3 DEF PublishedIsSettled
    <2>7. CASE RemoveDeregister(p)
      <3>1. /\ registered' = registered \ {m} /\ holder = p /\ UNCHANGED <<known, journal>>
            /\ op[p].do = "remove" /\ op[p].at = "deregister"
        BY <2>7 DEF RemoveDeregister, At
      <3>2. lead[p] = "attached"
        BY <3>1 DEF RosterInv, RemoveStages, RemoveStage
      <3>3. \A y \in Txs : ~AwaitsHolder(y)
        BY <3>1, <3>2 DEF AwaitsHolder
      <3> QED BY <1>0, <1>1, <1>2, <2>1, <3>1, <3>3 DEF PublishedIsSettled
    <2> QED
      BY <1>4, <2>5, <2>6, <2>7
         DEF Advances, AddWorktree, AddSession, AddMailbox, AddPane, AddNote, AddFails, UndoUnlink,
             UndoTerminate, DeleteWorktree, RemoveTerminate, RemoveUnlink, state
  <1>5. ASSUME NEW p \in Leads, GivesUp(p)
        PROVE  PublishedIsSettled'
    <2>1. /\ Busy(p) /\ op' = [op EXCEPT ![p] = Idle] /\ UNCHANGED strayed
          /\ UNCHANGED <<registered, known, journal>>
          /\ op[p].do = "undo" => op[p].at # "settle"
          /\ op[p].do # "add"
      BY <1>5, EndsIdle
         DEF GivesUp, UndoTerminateFails, KeepWorktree, RemoveRefused, RemoveTerminateFails, state, At
    <2>2. \/ UNCHANGED <<holder, lead, todo>>
          \/ /\ holder' = IF holder = p THEN NoLead ELSE holder
             /\ lead' = [lead EXCEPT ![p] = "down"] /\ todo' = [todo EXCEPT ![p] = {}]
      BY <1>5
         DEF GivesUp, UndoTerminateFails, KeepWorktree, RemoveRefused, RemoveTerminateFails, proc
    <2>3. ASSUME NEW y \in Txs, journal[y].do = "add", journal[y].member \in known \ strayed,
                 op[p].do = "undo", op[p].tx = y
          PROVE  FALSE
      <3>1. op[p].member = journal[y].member
        BY <2>1, <2>3 DEF RosterInv, OpsHaveJournals, Pending
      <3> QED BY <2>1, <2>3, <3>1 DEF RosterInv, AddStages, AddStage, Ours
    <2>4. ASSUME NEW y \in Txs, journal[y].do = "add", journal[y].member \in known \ strayed
          PROVE  AwaitsHolder(y)'
      BY <1>0, <1>1, <2>1, <2>2, <2>3, <2>4 DEF AwaitsHolder
    <2> QED BY <1>0, <1>1, <1>2, <2>1, <2>4 DEF PublishedIsSettled
  <1>6. ASSUME NEW p \in Leads, Settle(p)
        PROVE  PublishedIsSettled'
    <2>1. /\ op' = [op EXCEPT ![p] = Idle] /\ UNCHANGED strayed
          /\ UNCHANGED <<registered, known, holder, lead, todo>>
          /\ journal' = [journal EXCEPT ![op[p].tx] = NoRecord("settled")]
      BY <1>6 DEF Settle, Done, state, proc
    <2>2. ASSUME NEW y \in Txs, journal'[y].do = "add"
          PROVE  journal'[y] = journal[y] /\ op[p].tx # y
      BY <1>0, <2>1, <2>2 DEF NoRecord
    <2>3. ASSUME NEW y \in Txs, AwaitsHolder(y), op[p].tx # y PROVE AwaitsHolder(y)'
      BY <1>0, <2>1, <2>3 DEF AwaitsHolder
    <2> QED BY <1>0, <1>1, <1>2, <2>1, <2>2, <2>3 DEF PublishedIsSettled
  <1>7. ASSUME NEW p \in Leads,
               Attach(p) \/ RecoverDone(p) \/ LoseLease(p) \/ Crash(p) \/ Close(p)
        PROVE  PublishedIsSettled'
    <2>1. UNCHANGED <<registered, known, journal>> /\ strayed \subseteq strayed'
      BY <1>7 DEF Attach, RecoverDone, LoseLease, Crash, Close, Leave, state
    <2>2. ASSUME NEW y \in Txs, journal[y].do = "add", AwaitsHolder(y) PROVE AwaitsHolder(y)'
      <3>1. CASE Attach(p)
        BY <1>0, <2>2, <3>1 DEF Attach, AwaitsHolder, Pending
      <3>2. CASE RecoverDone(p)
        BY <1>0, <2>2, <3>2 DEF RecoverDone, AwaitsHolder
      <3>3. CASE LoseLease(p)
        BY <3>3 DEF LoseLease, AwaitsHolder
      <3>4. CASE Crash(p)
        BY <1>0, <2>2, <3>4 DEF Crash, Leave, Done, AwaitsHolder
      <3>5. CASE Close(p)
        BY <1>0, <2>2, <3>5 DEF Close, Leave, AwaitsHolder
      <3> QED BY <1>7, <3>1, <3>2, <3>3, <3>4, <3>5
    <2> QED BY <1>0, <1>1, <1>2, <2>1, <2>2 DEF PublishedIsSettled
  <1>8. ASSUME NEW p \in Leads, NEW x \in Txs, RecoverPick(p, x)
        PROVE  PublishedIsSettled'
    <2>1. /\ UNCHANGED <<registered, known, journal, holder, lead>> /\ strayed \subseteq strayed'
          /\ op[p].do = "none" /\ todo' = [todo EXCEPT ![p] = @ \ {x}]
          /\ IF Pending(x) THEN op' = [op EXCEPT ![p] = Recovery(x)] ELSE UNCHANGED op
      BY <1>8 DEF RecoverPick, Recovering, Stray, state
    <2>2. ASSUME NEW y \in Txs, journal[y].do = "add", AwaitsHolder(y) PROVE AwaitsHolder(y)'
      <3>1. Recovery(y).do = "undo" /\ Recovery(y).tx = y /\ Pending(y)
        BY <2>2 DEF Recovery, Pending
      <3> QED BY <1>0, <2>1, <2>2, <3>1 DEF AwaitsHolder
    <2> QED BY <1>0, <1>1, <1>2, <2>1, <2>2 DEF PublishedIsSettled
  <1>9. CASE UNCHANGED <<registered, known, journal, holder, lead, todo, strayed, op>>
    BY <1>0, <1>9 DEF PublishedIsSettled
  <1>10. CASE UNCHANGED vars
    BY <1>9, <1>10 DEF vars, state, proc
  <1> QED
    BY <1>3, <1>4, <1>5, <1>6, <1>7, <1>8, <1>9, <1>10, RosterStepKinds, SurroundingsLeave

-----------------------------------------------------------------------------
(* What the stages are for *)

\* Files of somebody who is no member always have an operation or a journal.
LEMMA FilesStep == RosterInv /\ [Next]_vars => FilesAccounted'
  <1> SUFFICES ASSUME RosterInv, [Next]_vars, NEW m \in Members,
                      m \notin registered', m \notin strayed', ~NoFiles(m)'
               PROVE  \/ \E x \in Txs : Pending(x)' /\ journal'[x].member = m
                      \/ \E p \in Leads : op'[p].member = m
    BY DEF FilesAccounted, NoFiles
  <1> DEFINE Kept == \/ \E x \in Txs : Pending(x)' /\ journal'[x].member = m
                     \/ \E p \in Leads : op'[p].member = m
  <1>0. /\ op \in [Leads -> Ops] /\ journal \in [Txs -> Records]
        /\ worktree \in [Members -> {"absent", "clean", "dirty"}]
        /\ FilesAccounted /\ OpsHaveJournals /\ HolderOperates
    BY DEF RosterInv, TypeOK
  <1>1. ASSUME m \notin registered, m \notin strayed, ~NoFiles(m)
        PROVE  \/ \E x \in Txs : Pending(x) /\ journal[x].member = m
               \/ \E p \in Leads : op[p].member = m
    BY <1>0, <1>1 DEF FilesAccounted, NoFiles
  <1>2. ASSUME strayed \subseteq strayed', UNCHANGED registered, NoFiles(m) => NoFiles(m)',
               \A x \in Txs : Pending(x) => Pending(x)' /\ journal'[x].member = journal[x].member
        PROVE  Kept
    <2>1. ASSUME NEW p \in Leads, op[p].member = m, op'[p].member # m PROVE Kept
      <3>1. Busy(p)
        BY <1>0, <2>1, MemberAssumption DEF OpsHaveJournals, Idle
      <3>2. Ours(p)
        BY <1>2, <2>1, <3>1 DEF Ours
      <3>3. Pending(op[p].tx) /\ op[p].tx \in Txs /\ journal[op[p].tx].member = m
        BY <1>0, <2>1, <3>2 DEF HolderOperates, OpsHaveJournals, Ours
      <3> QED BY <1>2, <3>3
    <2> QED BY <1>1, <1>2, <2>1
  <1>3. ASSUME NEW p \in Leads, NEW n \in Members, NEW x \in Txs,
               AddBegin(p, n, x) \/ RemoveBegin(p, n, x)
        PROVE  Kept
    <2>1. /\ UNCHANGED <<state, disk>> /\ strayed \subseteq strayed' /\ ~Busy(p)
          /\ \A q \in Leads : q # p => op'[q] = op[q]
          /\ ~Pending(x) /\ \A y \in Txs : y # x => journal'[y] = journal[y]
      BY <1>0, <1>3
         DEF AddBegin, RemoveBegin, BeginRemoval, Write, Stray, Busy, Unused, Pending
    <2>2. ASSUME op[p].member = m PROVE FALSE
      BY <1>0, <2>1, <2>2, MemberAssumption DEF OpsHaveJournals, Idle
    <2>3. m \notin registered /\ m \notin strayed /\ ~NoFiles(m)
      BY <2>1 DEF state, disk, NoFiles
    <2> QED BY <1>1, <2>1, <2>2, <2>3 DEF Pending
  <1>4. ASSUME NEW p \in Leads, Advances(p)
        PROVE  Kept
    <2>1. /\ Busy(p) /\ op'[p].member = op[p].member /\ UNCHANGED strayed /\ op[p].tx \in Txs
          /\ \A q \in Leads : op'[q].member = op[q].member
      BY <1>0, <1>4, AdvanceGoesOn DEF GoesOn, proc, OpsHaveJournals
    <2>2. CASE op[p].member = m
      BY <2>1, <2>2
    <2>3. CASE op[p].member # m
      <3>1. m \notin registered /\ m \notin strayed /\ ~NoFiles(m)
        <4>1. /\ registered \subseteq registered' \cup {op[p].member}
              /\ sessions' \subseteq sessions \cup {op[p].member}
              /\ mailboxes' \subseteq mailboxes \cup {op[p].member}
          BY <1>4
             DEF Advances, AddWorktree, AddSession, AddMailbox, AddPane, AddNote, AddPublish, AddFails,
                 UndoUnlink, UndoTerminate, DeleteWorktree, RemoveDeregister, RemoveTerminate,
                 RemoveUnlink, state, disk
        <4>2. worktree'[m] = worktree[m]
          BY <1>0, <1>4, <2>3
             DEF Advances, AddWorktree, AddSession, AddMailbox, AddPane, AddNote, AddPublish, AddFails,
                 UndoUnlink, UndoTerminate, DeleteWorktree, RemoveDeregister, RemoveTerminate,
                 RemoveUnlink, disk
        <4> QED BY <2>1, <2>3, <4>1, <4>2 DEF NoFiles
      <3>2. \A x \in Txs : journal[x].member = m => journal'[x] = journal[x]
                             \/ x = op[p].tx
        BY <1>0, <1>4, <2>1, AdvanceGoesOn
      <3>3. ~(Pending(op[p].tx) /\ journal[op[p].tx].member = m)
        BY <1>0, <2>1, <2>3 DEF OpsHaveJournals
      <3> QED BY <1>1, <2>1, <3>1, <3>2, <3>3 DEF Pending
    <2> QED BY <2>2, <2>3
  <1>5. ASSUME NEW p \in Leads, GivesUp(p)
        PROVE  Kept
    <2>1. /\ op' = [op EXCEPT ![p] = Idle] /\ UNCHANGED strayed
          /\ UNCHANGED <<registered, worktree, sessions, mailboxes, journal>>
      BY <1>5, EndsIdle
         DEF GivesUp, UndoTerminateFails, KeepWorktree, RemoveRefused, RemoveTerminateFails, state,
             disk
    <2> QED BY <1>0, <1>2, <2>1 DEF NoFiles, Pending, HolderOperates
  <1>6. ASSUME NEW p \in Leads, Settle(p)
        PROVE  Kept
    <2> DEFINE n == op[p].member
    <2>1. /\ op' = [op EXCEPT ![p] = Idle] /\ UNCHANGED <<strayed, state, disk>>
          /\ journal' = [journal EXCEPT ![op[p].tx] = NoRecord("settled")]
          /\ Busy(p) /\ op[p].at = "settle"
      BY <1>6 DEF Settle, Done, proc, Busy
    <2>2. m \notin registered /\ m \notin strayed /\ ~NoFiles(m)
      BY <2>1 DEF state, disk, NoFiles
    <2>3. op[p].member # m
      <3>1. ASSUME n = m PROVE n \in registered \/ NoFiles(n)
        <4>1. Ours(p) /\ op[p].do \in {"add", "undo", "remove"}
          BY <1>0, <2>1, <2>2, <3>1 DEF Ours, Busy, Ops
        <4> QED
          BY <2>1, <2>2, <3>1, <4>1
             DEF RosterInv, AddStages, AddStage, RemoveStages, RemoveStage
      <3> QED BY <2>2, <3>1
    <2>4. \A x \in Txs : x # op[p].tx => journal'[x] = journal[x]
      BY <1>0, <2>1
    <2>5. ~(Pending(op[p].tx) /\ journal[op[p].tx].member = m)
      BY <1>0, <2>1, <2>3 DEF OpsHaveJournals
    <2>6. \A q \in Leads : op[q].member = m => op'[q].member = m
      BY <1>0, <2>1, <2>3
    <2> QED BY <1>1, <2>2, <2>4, <2>5, <2>6 DEF Pending
  <1>7. ASSUME NEW p \in Leads,
               Attach(p) \/ RecoverDone(p) \/ LoseLease(p) \/ Crash(p) \/ Close(p)
        PROVE  Kept
    <2>1. strayed \subseteq strayed' /\ UNCHANGED <<state, disk, journal>>
      BY <1>7 DEF Attach, RecoverDone, LoseLease, Crash, Close, Leave
    <2>2. \A q \in Leads : op'[q] = op[q] \/ op'[q] = Idle
      BY <1>0, <1>7 DEF Attach, RecoverDone, LoseLease, Crash, Close, Leave, Done
    <2> QED BY <1>0, <1>2, <2>1, <2>2 DEF NoFiles, Pending, HolderOperates, state, disk
  <1>8. ASSUME NEW p \in Leads, NEW x \in Txs, RecoverPick(p, x)
        PROVE  Kept
    <2>1. strayed \subseteq strayed' /\ UNCHANGED <<state, disk, journal>>
      BY <1>8 DEF RecoverPick, Stray
    <2>2. \A q \in Leads : op'[q] = op[q] \/ ~Busy(q)
      BY <1>0, <1>8 DEF RecoverPick, Recovering, Busy
    <2> QED BY <1>0, <1>2, <2>1, <2>2 DEF NoFiles, Pending, Ours, state, disk
  <1>9. CASE Surroundings
    <2>1. UNCHANGED <<registered, sessions, mailboxes, journal, strayed, op>>
      BY <1>9, SurroundingsLeave
    <2>2. worktree[m] = "absent" => worktree'[m] = "absent"
      BY <1>0, <1>9, <2>1 DEF Surroundings, RunStart, RunEnds, Edit, Work, PaneDies, disk
    <2> QED BY <1>2, <2>1, <2>2 DEF NoFiles, Pending
  <1>10. CASE UNCHANGED vars
    BY <1>2, <1>10 DEF vars, state, disk, proc, NoFiles, Pending
  <1> QED BY <1>3, <1>4, <1>5, <1>6, <1>7, <1>8, <1>9, <1>10, RosterStepKinds

\* A running member keeps its place, its Worktree and its session.
LEMMA RunsStep == RosterInv /\ [Next]_vars => RunsAreWhole'
  <1> SUFFICES ASSUME RosterInv, [Next]_vars, NEW m \in Members, runner'[m] # NoLead
               PROVE  m \in registered' /\ worktree'[m] # "absent" /\ m \in sessions' \cup strayed'
    BY DEF RunsAreWhole
  <1> DEFINE IsWhole == m \in registered /\ worktree[m] # "absent" /\ m \in sessions \cup strayed
  <1>0. /\ op \in [Leads -> Ops] /\ runner \in [Members -> Leads \cup {NoLead}]
        /\ worktree \in [Members -> {"absent", "clean", "dirty"}]
    BY DEF RosterInv, TypeOK
  <1>1. runner[m] # NoLead => IsWhole
    BY DEF RosterInv, RunsAreWhole
  <1>2. ASSUME runner[m] # NoLead, UNCHANGED <<registered, worktree, sessions>>,
               strayed \subseteq strayed'
        PROVE  IsWhole'
    BY <1>1, <1>2
  <1>3. ASSUME NEW p \in Leads, Advances(p)
        PROVE  IsWhole'
    <2>1. Busy(p) /\ op[p].member \in Members /\ UNCHANGED <<runner, strayed>> /\ IsWhole
      BY <1>1, <1>3, AdvanceGoesOn DEF proc, RosterInv, OpsHaveJournals
    <2>2. CASE AddWorktree(p) \/ AddSession(p) \/ AddMailbox(p) \/ AddPublish(p)
      <3>1. CASE AddWorktree(p)
        BY <1>0, <2>1, <3>1 DEF AddWorktree, state
      <3>2. CASE AddSession(p) \/ AddMailbox(p)
        BY <2>1, <3>2 DEF AddSession, AddMailbox, state
      <3>3. CASE AddPublish(p)
        BY <2>1, <3>3 DEF AddPublish, disk
      <3> QED BY <2>2, <3>1, <3>2, <3>3
    <2>3. CASE DeleteWorktree(p)
      BY <1>0, <2>1, <2>3 DEF DeleteWorktree, state
    <2>4. CASE RemoveDeregister(p)
      <3>1. op[p].do = "remove" /\ op[p].at = "deregister"
        BY <2>4 DEF RemoveDeregister, At
      <3>2. runner[op[p].member] = NoLead
        BY <2>1, <3>1 DEF RosterInv, RemoveStages, RemoveStage
      <3> QED BY <2>1, <2>4, <3>2 DEF RemoveDeregister, disk
    <2>5. CASE UndoUnlink(p)
      <3>1. op[p].do = "undo" /\ op[p].at = "unlink"
        BY <2>5 DEF UndoUnlink, At
      <3>2. op[p].member \notin strayed => op[p].member \notin registered
        BY <2>1, <3>1 DEF RosterInv, AddStages, AddStage, Ours
      <3> QED BY <2>1, <2>5, <3>2 DEF UndoUnlink, state
    <2>6. CASE RemoveUnlink(p)
      <3>1. op[p].do = "remove" /\ op[p].at = "unlink"
        BY <2>6 DEF RemoveUnlink, At
      <3>2. op[p].member \notin strayed => runner[op[p].member] = NoLead
        BY <2>1, <3>1 DEF RosterInv, RemoveStages, RemoveStage
      <3> QED BY <2>1, <2>6, <3>2 DEF RemoveUnlink, state
    <2>7. CASE AddPane(p) \/ AddNote(p) \/ AddFails(p) \/ UndoTerminate(p) \/ RemoveTerminate(p)
      BY <2>1, <2>7 DEF AddPane, AddNote, AddFails, UndoTerminate, RemoveTerminate, state, disk
    <2> QED BY <1>3, <2>2, <2>3, <2>4, <2>5, <2>6, <2>7 DEF Advances
  <1>4. ASSUME NEW p \in Leads,
               \/ \E n \in Members, x \in Txs : AddBegin(p, n, x) \/ RemoveBegin(p, n, x)
               \/ GivesUp(p) \/ Settle(p)
               \/ \E x \in Txs : RecoverPick(p, x)
        PROVE  IsWhole'
    <2>1. UNCHANGED <<runner, registered, worktree, sessions>> /\ strayed \subseteq strayed'
      BY <1>4
         DEF AddBegin, RemoveBegin, BeginRemoval, GivesUp, Settle, RecoverPick, UndoTerminateFails,
             KeepWorktree, RemoveRefused, RemoveTerminateFails, Stray, state, disk, proc
    <2> QED BY <1>2, <2>1
  <1>5. ASSUME NEW p \in Leads,
               Attach(p) \/ RecoverDone(p) \/ LoseLease(p) \/ Crash(p) \/ Close(p)
        PROVE  IsWhole'
    <2>1. /\ UNCHANGED <<registered, worktree, sessions>> /\ strayed \subseteq strayed'
          /\ runner[m] # NoLead
      BY <1>5 DEF Attach, RecoverDone, LoseLease, Crash, Close, Leave, state, disk
    <2> QED BY <1>2, <2>1
  <1>6. ASSUME NEW n \in Members, NEW p \in Leads, RunStart(n, p)
        PROVE  IsWhole'
    BY <1>0, <1>1, <1>6 DEF RunStart
  <1>7. ASSUME NEW n \in Members, RunEnds(n) \/ Edit(n) \/ Work(n)
        PROVE  IsWhole'
    BY <1>0, <1>1, <1>7 DEF RunEnds, Edit, Work, state, disk, proc
  <1>8. CASE (\E b \in panes : PaneDies(b)) \/ UNCHANGED vars
    BY <1>2, <1>8 DEF PaneDies, vars, state, disk, proc
  <1> QED BY <1>3, <1>4, <1>5, <1>6, <1>7, <1>8, RosterStepKinds DEF Surroundings

-----------------------------------------------------------------------------
\* Every step preserves the invariant.
LEMMA StepRosterInv == RosterInv /\ [Next]_vars => RosterInv'
  BY RosterTypeStep, JournalStep, HolderStep, AddStep, RemoveStep, PublishedIsSettledStep, FilesStep, RunsStep
     DEF RosterInv

\* Whatever crashes where, an unstrayed member is in the hands of the holder alone.
THEOREM RosterInvariant == Spec => []RosterInv
  <1> QED BY InitRosterInv, StepRosterInv, PTL DEF Spec

\* The roster's state is well-typed.
THEOREM RosterTypes == Spec => []TypeOK
  <1>1. RosterInv => TypeOK
    BY DEF RosterInv
  <1> QED BY <1>1, RosterInvariant, PTL

\* No Worktree, session or mailbox of somebody who is no member is leaked by any add,
\* remove, rollback, recovery or crash of roster.py, and no removal takes the place or the
\* files of a member that runs.
THEOREM RosterStaysWhole == Spec => []RosterIsWhole
  <1>1. RosterInv => RosterIsWhole
    BY DEF RosterInv, RosterIsWhole
  <1> QED BY <1>1, RosterInvariant, PTL

\* The session and the mailbox go only when the Worktree is gone.
LEMMA StepKeepsFiles ==
    ASSUME RosterInv, [Next]_vars, NEW m \in known \ strayed,
           (m \in sessions /\ m \notin sessions') \/ (m \in mailboxes /\ m \notin mailboxes')
    PROVE  worktree[m] = "absent"
  <1>1. ASSUME ~(UNCHANGED sessions /\ UNCHANGED mailboxes), NEW p \in Leads, Advances(p)
        PROVE  worktree[m] = "absent"
    <2>1. Busy(p)
      BY <1>1, AdvanceGoesOn
    <2>2. CASE UndoUnlink(p)
      <3>1. op[p].do = "undo" /\ op[p].at = "unlink" /\ op[p].member = m
        BY <2>2 DEF UndoUnlink, At
      <3> QED BY <2>1, <3>1 DEF RosterInv, AddStages, AddStage, Ours
    <2>3. CASE RemoveUnlink(p)
      <3>1. op[p].do = "remove" /\ op[p].at = "unlink" /\ op[p].member = m
        BY <2>3 DEF RemoveUnlink, At
      <3> QED BY <3>1 DEF RosterInv, RemoveStages, RemoveStage
    <2> QED
      BY <1>1, <2>2, <2>3
         DEF Advances, AddWorktree, AddSession, AddMailbox, AddPane, AddNote, AddPublish, AddFails,
             UndoTerminate, DeleteWorktree, RemoveDeregister, RemoveTerminate, disk
  <1>2. ASSUME NEW p \in Leads,
               \/ \E n \in Members, x \in Txs : AddBegin(p, n, x) \/ RemoveBegin(p, n, x)
               \/ GivesUp(p) \/ Settle(p)
               \/ \E x \in Txs : RecoverPick(p, x)
               \/ Attach(p) \/ RecoverDone(p) \/ LoseLease(p) \/ Crash(p) \/ Close(p)
        PROVE  UNCHANGED sessions /\ UNCHANGED mailboxes
    BY <1>2
       DEF AddBegin, RemoveBegin, BeginRemoval, GivesUp, Settle, RecoverPick, UndoTerminateFails,
           KeepWorktree, RemoveRefused, RemoveTerminateFails, Attach, RecoverDone, LoseLease, Crash,
           Close, Leave, disk
  <1>3. CASE UNCHANGED vars
    BY <1>3 DEF vars, disk
  <1> QED BY <1>1, <1>2, <1>3, RosterStepKinds, SurroundingsLeave

\* Whichever attach gets to finish a removal, and after whichever crash, the member's
\* session and mailbox are unlinked after its Worktree is gone.
THEOREM FilesStayWithTheWorktree == Spec => FilesOutliveWorktree
  <1>1. RosterInv /\ [Next]_vars =>
          [\A m \in known \ strayed :
             (m \in sessions /\ m \notin sessions') \/ (m \in mailboxes /\ m \notin mailboxes')
                 => worktree[m] = "absent"]_vars
    BY StepKeepsFiles
  <1> QED BY <1>1, RosterInvariant, PTL DEF Spec, FilesOutliveWorktree

-----------------------------------------------------------------------------
(* WorktreeLifecycle *)

\* Who is in the worktree, or creates or deletes it, has the lock.
LockGuards ==
    \A p \in Procs : p \in lease \/ job[p].kind \in {"create", "exit", "delete"} => lock = p

CreateStages == {"record", "branch", "tree", "rules", "marked", "undo"}
DeleteStages == {"head", "status", "claim", "remove", "unref", "forget"}

\* The stages that belong to each call; exit() is a call of the occupant.
CallsHaveStages ==
    \A p \in Procs :
        /\ job[p].kind = "none" => job[p] = NoJob
        /\ job[p].kind = "enter" => job[p].at = "acquire" /\ p \notin lease
        /\ job[p].kind = "create" => job[p].at \in CreateStages /\ p \notin lease
        /\ job[p].kind = "exit" => job[p].at \in DeleteStages /\ p \in lease
        /\ job[p].kind = "delete" => job[p].at \in DeleteStages /\ p \notin lease

\* What a creation has made so far, and what it has not.
CreateStage(p) ==
    job[p].kind = "create" =>
        /\ record = IF job[p].at = "record" THEN "none" ELSE "provisioning"
        /\ job[p].at = "record" => ~branch
        /\ job[p].at \in {"record", "branch", "tree"} => root = "none"
        /\ job[p].at \in {"tree", "rules", "marked"} => branch
        /\ job[p].at = "rules" => root = "bare"
        /\ job[p].at = "marked" <=> root = "marked"
        /\ job[p].at # "marked" => commits.all = 0 /\ commits.pushed = 0

\* What a deletion has checked and removed so far.
DeleteStage(p) ==
    job[p].kind \in {"exit", "delete"} =>
        /\ job[p].at \in {"remove", "unref", "forget"} => record = "deleting"
        /\ job[p].at \in {"unref", "forget"} => root = "none"
        /\ job[p].at = "forget" => ~branch
        /\ job[p].at \in {"status", "claim", "remove", "unref"} => job[p].oid <= commits.all
        /\ job[p].at \in {"claim", "remove", "unref"} /\ ~job[p].force =>
              job[p].oid <= commits.pushed

\* Only a marked tree is worked in, and commits are on the branch.
WorkIsThere ==
    /\ dirty => root = "marked"
    /\ root = "marked" => branch
    /\ commits.pushed <= commits.all
    /\ ~branch => commits.all = 0

WorktreeInv ==
    /\ WorktreeTypeOK /\ LockGuards /\ CallsHaveStages /\ WorkIsThere
    /\ \A p \in Procs : CreateStage(p) /\ DeleteStage(p)
    /\ WorktreesAreWhole

-----------------------------------------------------------------------------
\* Before the first call there is nothing.
LEMMA InitWorktreeInv == WorktreeInit => WorktreeInv
  <1> SUFFICES ASSUME WorktreeInit PROVE WorktreeInv
    OBVIOUS
  <1> USE CommitsAssumption DEF WorktreeInit
  <1>1. NoJob \in Jobs /\ NoJob.kind = "none"
    BY DEF NoJob, Jobs
  <1>2. \A p \in Procs : job[p] = NoJob
    OBVIOUS
  <1>3. WorktreeTypeOK
    <2>1. commits \in [all : 0..MaxCommits, pushed : 0..MaxCommits]
      OBVIOUS
    <2>2. job \in [Procs -> Jobs]
      BY <1>1
    <2> QED BY <2>1, <2>2 DEF WorktreeTypeOK
  <1>4. LockGuards /\ CallsHaveStages /\ WorkIsThere
    BY <1>1, <1>2 DEF LockGuards, CallsHaveStages, WorkIsThere
  <1>5. \A p \in Procs : CreateStage(p) /\ DeleteStage(p)
    BY <1>1, <1>2 DEF CreateStage, DeleteStage
  <1>6. WorktreesAreWhole
    BY DEF WorktreesAreWhole, OneOccupant, ReadyIsWhole, NothingUnrecorded
  <1> QED BY <1>3, <1>4, <1>5, <1>6 DEF WorktreeInv

\* A step of a call in progress.
CallStep(p) ==
    \/ CreateRecords(p) \/ CreateBranch(p) \/ CreateTree(p) \/ CreateMarks(p) \/ CreateReady(p)
    \/ CreateFails(p) \/ Rollback(p)
    \/ ReadHead(p) \/ ReadStatus(p) \/ Claim(p) \/ RemoveTree(p) \/ RemoveBranch(p) \/ Forget(p)
    \/ DeleteFails(p)

\* A process begins to wait for the lock, or gives up: the worktree does not see it.
WaitStep(p) == EnterChecks(p) \/ EnterFails(p) \/ (Die(p) /\ job[p].kind = "enter")

\* The other steps of a process: a call begins, goes on, or ends with the process.
ProcStep(p) ==
    \/ Create(p) \/ Enter(p) \/ Suspend(p) \/ Exit(p) \/ (\E force \in BOOLEAN : Delete(p, force))
    \/ CallStep(p) \/ (Die(p) /\ job[p].kind # "enter")

\* The kinds of step there are.
LEMMA WorktreeStepKinds ==
    ASSUME WorktreeNext
    PROVE  (\E p \in Procs : ProcStep(p) \/ WaitStep(p)) \/ WorkInTree
  BY DEF WorktreeNext, ProcStep, WaitStep, CallStep, CleanUp

\* The kind of call that has a step at this stage.
LEMMA CallKind ==
    ASSUME WorktreeInv, NEW p \in Procs
    PROVE  /\ job[p].at \in CreateStages => job[p].kind = "create"
           /\ job[p].at = "acquire" => job[p].kind = "enter"
           /\ job[p].at \in DeleteStages => job[p].kind \in {"exit", "delete"}
           /\ job[p].kind = "create" => job[p].at \in CreateStages
           /\ job[p].kind \in {"exit", "delete"} => job[p].at \in DeleteStages
  <1>1. job[p] \in Jobs
    BY DEF WorktreeInv, WorktreeTypeOK
  <1>2. /\ CreateStages \cap DeleteStages = {}
        /\ {"idle", "acquire"} \cap (CreateStages \cup DeleteStages) = {}
    BY DEF CreateStages, DeleteStages
  <1> QED BY <1>1, <1>2 DEF WorktreeInv, CallsHaveStages, NoJob, Jobs

\* A process that waits for the lock changes nothing but its own call.
LEMMA WaitEffect ==
    ASSUME WorktreeInv, NEW p \in Procs, WaitStep(p)
    PROVE  /\ UNCHANGED <<owner, tree, record, lease>> /\ p \notin lease
           /\ lock' = lock \/ (lock = p /\ lock' = Free)
           /\ job[p].kind \in {"none", "enter"} /\ outdated' \subseteq Procs
           /\ job' \in [Procs -> Jobs] /\ \A q \in Procs \ {p} : job'[q] = job[q]
           /\ job'[p] = NoJob \/ (job'[p].kind = "enter" /\ job'[p].at = "acquire")
  <1>1. job \in [Procs -> Jobs] /\ lease \subseteq Procs /\ outdated \subseteq Procs
    BY DEF WorktreeInv, WorktreeTypeOK
  <1>2. CASE EnterChecks(p)
    <2> DEFINE entry == [kind |-> "enter", at |-> "acquire", oid |-> 0, force |-> FALSE]
    <2>1. entry \in Jobs /\ entry.kind = "enter" /\ entry.at = "acquire"
      BY CommitsAssumption DEF Jobs
    <2>2. job' = [job EXCEPT ![p] = entry]
      BY <1>2 DEF EnterChecks
    <2>3. job[p].kind = "none" /\ p \notin lease
      BY <1>2 DEF EnterChecks, NameFree, NoJob
    <2> HIDE DEF entry
    <2> QED BY <1>1, <1>2, <2>1, <2>2, <2>3 DEF EnterChecks
  <1>3. NoJob \in Jobs
    BY CommitsAssumption DEF NoJob, Jobs
  <1>4. CASE EnterFails(p)
    <2>1. job[p].kind = "enter"
      BY <1>4, CallKind DEF EnterFails
    <2> QED BY <1>1, <1>3, <1>4, <2>1 DEF EnterFails, WorktreeInv, CallsHaveStages
  <1>5. CASE Die(p) /\ job[p].kind = "enter"
    <2>1. p \notin lease
      BY <1>5 DEF WorktreeInv, CallsHaveStages
    <2> QED BY <1>1, <1>3, <1>5, <2>1 DEF Die
  <1> QED BY <1>2, <1>4, <1>5 DEF WaitStep

\* Only the process that steps has entered the worktree, or creates or deletes it.
LEMMA StepsAlone ==
    ASSUME WorktreeInv, NEW p \in Procs, ProcStep(p), NEW q \in Procs, q # p
    PROVE  /\ job[q].kind \in {"none", "enter"} /\ q \notin lease
           /\ job'[q] = job[q] /\ q \notin lease'
  <1>1. job \in [Procs -> Jobs]
    BY DEF WorktreeInv, WorktreeTypeOK
  <1>2. lock \in {p, Free}
    <2>1. CASE CallStep(p)
      <3>1. job[p].kind \in {"create", "exit", "delete"}
        BY <1>1, <2>1, CallKind
           DEF CallStep, CreateRecords, CreateBranch, CreateTree, CreateMarks, CreateReady, CreateFails,
               Rollback, ReadHead, ReadStatus, Claim, RemoveTree, RemoveBranch, Forget, DeleteFails,
               CreateStages, DeleteStages
      <3> QED BY <3>1 DEF WorktreeInv, LockGuards
    <2>2. CASE Suspend(p) \/ Exit(p) \/ (Die(p) /\ job[p].kind # "enter")
      <3>1. p \in lease \/ job[p].kind \in {"create", "exit", "delete"}
        BY <1>1, <2>2 DEF Suspend, Exit, Die, WorktreeInv, CallsHaveStages, Jobs
      <3> QED BY <3>1 DEF WorktreeInv, LockGuards
    <2>3. CASE Create(p) \/ Enter(p) \/ \E force \in BOOLEAN : Delete(p, force)
      BY <2>3 DEF Create, Enter, Delete
    <2> QED BY <2>1, <2>2, <2>3 DEF ProcStep
  <1>3. job[q].kind \in {"none", "enter"} /\ q \notin lease
    BY <1>1, <1>2, FreeIsNobody DEF WorktreeInv, LockGuards, Free, Jobs
  <1>4. job'[q] = job[q] /\ lease' \subseteq lease \cup {p}
    <2>1. CASE CallStep(p)
      BY <1>1, <2>1
         DEF CallStep, CreateRecords, CreateBranch, CreateTree, CreateMarks, CreateReady, CreateFails,
             Rollback, ReadHead, ReadStatus, Claim, RemoveTree, RemoveBranch, Forget, DeleteFails,
             Keeps, Ends, GoOn
    <2>2. CASE ~CallStep(p)
      BY <1>1, <2>2 DEF ProcStep, Create, Enter, Suspend, Exit, Delete, Die
    <2> QED BY <2>1, <2>2
  <1> QED BY <1>3, <1>4

\* Every step keeps the types.
LEMMA WorktreeTypeStep == WorktreeInv /\ [WorktreeNext]_wvars => WorktreeTypeOK'
  <1> SUFFICES ASSUME WorktreeInv, [WorktreeNext]_wvars PROVE WorktreeTypeOK'
    OBVIOUS
  <1> USE CommitsAssumption DEF WorktreeTypeOK, tree
  <1> DEFINE Entries == {"none", "provisioning", "ready", "active", "retained", "deleting",
                         "misplaced"}
  <1>0. WorktreeTypeOK
    BY DEF WorktreeInv
  <1>1. NoJob \in Jobs
    BY DEF NoJob, Jobs
  <1>2. ASSUME NEW p \in Procs, NEW at \in CreateStages \cup DeleteStages
        PROVE  [job EXCEPT ![p].at = at] \in [Procs -> Jobs]
    BY <1>0, <1>2 DEF Jobs, CreateStages, DeleteStages
  <1>3. ASSUME NEW p \in Procs
        PROVE  [job EXCEPT ![p] = NoJob] \in [Procs -> Jobs]
    BY <1>0, <1>1
  <1>4. ASSUME NEW p \in Procs,
               \/ CreateRecords(p) \/ CreateBranch(p) \/ CreateTree(p) \/ CreateMarks(p)
               \/ CreateReady(p) \/ CreateFails(p) \/ Rollback(p)
        PROVE  WorktreeTypeOK'
    <2>1. job' \in [Procs -> Jobs] /\ lock' \in Procs \cup {Free} /\ lease' \subseteq Procs
      BY <1>0, <1>2, <1>3, <1>4
         DEF CreateRecords, CreateBranch, CreateTree, CreateMarks, CreateReady, CreateFails, Rollback,
             Ends, GoOn, CreateStages
    <2>2. UNCHANGED <<owner, commits, dirty>> /\ outdated' \subseteq Procs
      BY <1>0, <1>4
         DEF CreateRecords, CreateBranch, CreateTree, CreateMarks, CreateReady, CreateFails, Rollback
    <2>3. root' \in {"none", "broken", "bare", "marked"} /\ branch' \in BOOLEAN
      BY <1>0, <1>4
         DEF CreateRecords, CreateBranch, CreateTree, CreateMarks, CreateReady, CreateFails, Rollback
    <2>4. record' \in Entries
      BY <1>0, <1>4
         DEF CreateRecords, CreateBranch, CreateTree, CreateMarks, CreateReady, CreateFails, Rollback
    <2> QED BY <1>0, <2>1, <2>2, <2>3, <2>4
  <1>5. ASSUME NEW p \in Procs,
               \/ ReadStatus(p) \/ Claim(p) \/ RemoveTree(p) \/ RemoveBranch(p) \/ Forget(p)
               \/ DeleteFails(p)
        PROVE  WorktreeTypeOK'
    <2>1. job' \in [Procs -> Jobs] /\ lock' \in Procs \cup {Free} /\ lease' \subseteq Procs
      BY <1>0, <1>2, <1>3, <1>5
         DEF ReadStatus, Claim, RemoveTree, RemoveBranch, Forget, DeleteFails, Keeps, Ends, GoOn,
             DeleteStages
    <2>2. /\ UNCHANGED <<owner, outdated>>
          /\ commits' = commits \/ commits' = [all |-> 0, pushed |-> 0]
          /\ branch' \in BOOLEAN /\ dirty' \in BOOLEAN /\ root' \in {root, "none"}
      BY <1>0, <1>5 DEF ReadStatus, Claim, RemoveTree, RemoveBranch, Forget, DeleteFails
    <2>3. record' \in Entries
      BY <1>0, <1>5 DEF ReadStatus, Claim, RemoveTree, RemoveBranch, Forget, DeleteFails, Keeps
    <2>4. commits' \in [all : 0..MaxCommits, pushed : 0..MaxCommits]
      BY <1>0, <2>2
    <2> QED BY <1>0, <2>1, <2>2, <2>3, <2>4
  <1>6. ASSUME NEW p \in Procs, ReadHead(p)
        PROVE  WorktreeTypeOK'
    BY <1>0, <1>6 DEF ReadHead, Jobs
  <1>7. ASSUME NEW p \in Procs, Create(p) \/ Exit(p) \/ \E force \in BOOLEAN : Delete(p, force)
        PROVE  WorktreeTypeOK'
    <2>1. ASSUME NEW kind \in {"create", "exit", "delete"}, NEW at \in {"record", "head"},
                 NEW force \in BOOLEAN
          PROVE  [kind |-> kind, at |-> at, oid |-> 0, force |-> force] \in Jobs
      BY <2>1 DEF Jobs
    <2>2. CASE Create(p)
      BY <1>0, <2>1, <2>2 DEF Create, NoJob
    <2>3. CASE Exit(p)
      BY <1>0, <2>1, <2>3 DEF Exit, NoJob
    <2>4. ASSUME NEW force \in BOOLEAN, Delete(p, force) PROVE WorktreeTypeOK'
      BY <1>0, <2>1, <2>4 DEF Delete, NoJob
    <2> QED BY <1>7, <2>2, <2>3, <2>4
  <1>8. ASSUME NEW p \in Procs, Enter(p) \/ Suspend(p) \/ Die(p)
        PROVE  WorktreeTypeOK'
    <2>1. job' \in [Procs -> Jobs] /\ lock' \in Procs \cup {Free} /\ lease' \subseteq Procs
      BY <1>0, <1>3, <1>8 DEF Enter, Suspend, Die
    <2>2. /\ record' \in {record, "ready", "active", "misplaced"} /\ outdated' \subseteq Procs
          /\ UNCHANGED <<owner, tree>>
      BY <1>0, <1>8 DEF Enter, Suspend, Die
    <2> QED BY <1>0, <2>1, <2>2
  <1>9. CASE WorkInTree
    <2>1. commits' \in [all : 0..MaxCommits, pushed : 0..MaxCommits]
      BY <1>0, <1>9 DEF WorkInTree
    <2>2. /\ dirty' \in BOOLEAN
          /\ UNCHANGED <<owner, root, branch, record, lock, lease, job, outdated>>
      BY <1>0, <1>9 DEF WorkInTree
    <2> QED BY <1>0, <2>1, <2>2
  <1>10. CASE UNCHANGED wvars
    BY <1>0, <1>10 DEF wvars
  <1>11. ASSUME NEW p \in Procs, WaitStep(p)
         PROVE  WorktreeTypeOK'
    <2>1. /\ UNCHANGED <<owner, tree, record, lease>> /\ outdated' \subseteq Procs
          /\ lock' \in {lock, Free} /\ job' \in [Procs -> Jobs]
      BY <1>11, WaitEffect
    <2> QED BY <1>0, <2>1
  <1> QED
    BY <1>4, <1>5, <1>6, <1>7, <1>8, <1>9, <1>10, <1>11, WorktreeStepKinds DEF ProcStep, CallStep

\* The lock stays with whoever is in the worktree or has a call, and calls go through
\* their stages.
LEMMA LockStep == WorktreeInv /\ [WorktreeNext]_wvars => LockGuards' /\ CallsHaveStages'
  <1> SUFFICES ASSUME WorktreeInv, [WorktreeNext]_wvars PROVE LockGuards' /\ CallsHaveStages'
    OBVIOUS
  <1>0. /\ job \in [Procs -> Jobs] /\ lease \subseteq Procs /\ LockGuards /\ CallsHaveStages
    BY DEF WorktreeInv, WorktreeTypeOK
  <1>1. ASSUME NEW p \in Procs, ProcStep(p),
               p \in lease' \/ job'[p].kind \in {"create", "exit", "delete"} => lock' = p,
               /\ job'[p].kind = "none" => job'[p] = NoJob
               /\ job'[p].kind = "enter" => job'[p].at = "acquire" /\ p \notin lease'
               /\ job'[p].kind = "create" => job'[p].at \in CreateStages /\ p \notin lease'
               /\ job'[p].kind = "exit" => job'[p].at \in DeleteStages /\ p \in lease'
               /\ job'[p].kind = "delete" => job'[p].at \in DeleteStages /\ p \notin lease'
        PROVE  LockGuards' /\ CallsHaveStages'
    BY <1>0, <1>1, StepsAlone DEF LockGuards, CallsHaveStages
  <1>2. ASSUME NEW p \in Procs, CallStep(p)
        PROVE  LockGuards' /\ CallsHaveStages'
    <2>1. job[p].kind \in {"create", "exit", "delete"} /\ lock = p /\ ProcStep(p)
      <3>1. job[p].kind \in {"create", "exit", "delete"}
        BY <1>2, CallKind
           DEF CallStep, CreateRecords, CreateBranch, CreateTree, CreateMarks, CreateReady, CreateFails,
               Rollback, ReadHead, ReadStatus, Claim, RemoveTree, RemoveBranch, Forget, DeleteFails,
               CreateStages, DeleteStages
      <3> QED BY <1>0, <1>2, <3>1 DEF LockGuards, ProcStep
    <2>2. CASE Ends(p)
      BY <1>0, <1>1, <2>1, <2>2 DEF Ends, NoJob
    <2>3. CASE \E at \in CreateStages : job[p].kind = "create" /\ GoOn(p, at) /\ UNCHANGED <<lock, lease>>
      BY <1>0, <1>1, <2>1, <2>3 DEF GoOn, CallsHaveStages, Jobs
    <2>4. CASE \E at \in DeleteStages : /\ job[p].kind \in {"exit", "delete"}
                                       /\ GoOn(p, at) /\ UNCHANGED <<lock, lease>>
      BY <1>0, <1>1, <2>1, <2>4 DEF GoOn, CallsHaveStages, Jobs
    <2>5. CASE ReadHead(p)
      <3>1. job[p].kind \in {"exit", "delete"}
        BY <2>5, CallKind DEF ReadHead, DeleteStages
      <3> QED BY <1>0, <1>1, <2>1, <2>5, <3>1 DEF ReadHead, CallsHaveStages, DeleteStages, Jobs
    <2>6. CASE \/ CreateRecords(p) \/ CreateBranch(p) \/ CreateTree(p) \/ CreateMarks(p)
               \/ CreateReady(p) \/ CreateFails(p) \/ Rollback(p)
      BY <2>2, <2>3, <2>6, CallKind
         DEF CreateRecords, CreateBranch, CreateTree, CreateMarks, CreateReady, CreateFails, Rollback,
             CreateStages
    <2>7. CASE \/ ReadStatus(p) \/ Claim(p) \/ RemoveTree(p) \/ RemoveBranch(p) \/ Forget(p)
               \/ DeleteFails(p)
      BY <2>2, <2>4, <2>7, CallKind
         DEF ReadStatus, Claim, RemoveTree, RemoveBranch, Forget, DeleteFails, Keeps, DeleteStages
    <2> QED BY <1>2, <2>5, <2>6, <2>7 DEF CallStep
  <1>3. ASSUME NEW p \in Procs, Create(p) \/ \E force \in BOOLEAN : Delete(p, force)
        PROVE  LockGuards' /\ CallsHaveStages'
    <2>1. p \notin lease
      BY <1>0, <1>3, FreeIsNobody DEF Create, Delete, LockGuards, Free
    <2>2. CASE Create(p)
      <3>1. job'[p] = [NoJob EXCEPT !.kind = "create", !.at = "record"]
        BY <1>0, <2>2 DEF Create
      <3>2. job'[p].kind = "create" /\ job'[p].at = "record" /\ lock' = p /\ UNCHANGED lease
        BY <2>2, <3>1 DEF Create, NoJob
      <3> QED BY <1>1, <2>1, <2>2, <3>2 DEF CreateStages, ProcStep
    <2>3. ASSUME NEW force \in BOOLEAN, Delete(p, force)
          PROVE  LockGuards' /\ CallsHaveStages'
      <3>1. job'[p] = [NoJob EXCEPT !.kind = "delete", !.at = "head", !.force = force]
        BY <1>0, <2>3 DEF Delete
      <3>2. job'[p].kind = "delete" /\ job'[p].at = "head" /\ lock' = p /\ UNCHANGED lease
        BY <2>3, <3>1 DEF Delete, NoJob
      <3> QED BY <1>1, <2>1, <2>3, <3>2 DEF DeleteStages, ProcStep
    <2> QED BY <1>3, <2>2, <2>3
  <1>4. ASSUME NEW p \in Procs, Exit(p)
        PROVE  LockGuards' /\ CallsHaveStages'
    BY <1>0, <1>1, <1>4 DEF Exit, LockGuards, NoJob, DeleteStages, ProcStep
  <1>5. ASSUME NEW p \in Procs, ProcStep(p), Enter(p) \/ Suspend(p) \/ Die(p)
        PROVE  LockGuards' /\ CallsHaveStages'
    <2>1. job'[p] = NoJob /\ NoJob.kind = "none"
      BY <1>0, <1>5 DEF Enter, Suspend, Die, NameFree, NoJob
    <2>2. p \in lease' => lock' = p
      BY <1>5 DEF Enter, Suspend, Die
    <2> QED BY <1>1, <1>5, <2>1, <2>2 DEF ProcStep
  <1>6. CASE UNCHANGED <<job, lease, lock>>
    BY <1>0, <1>6 DEF LockGuards, CallsHaveStages
  <1>7. ASSUME NEW p \in Procs, WaitStep(p)
        PROVE  LockGuards' /\ CallsHaveStages'
    <2>1. /\ \A q \in Procs \ {p} : job'[q] = job[q]
          /\ p \notin lease /\ UNCHANGED lease
          /\ \A q \in Procs \ {p} : lock = q => lock' = q
      BY <1>0, <1>7, WaitEffect
    <2>2. job'[p] = NoJob \/ (job'[p].kind = "enter" /\ job'[p].at = "acquire")
      BY <1>7, WaitEffect
    <2>3. LockGuards'
      BY <1>0, <2>1, <2>2 DEF LockGuards, NoJob
    <2>4. CallsHaveStages'
      <3>1. NoJob.kind = "none"
        BY DEF NoJob
      <3>2. p \notin lease' /\ \A q \in Procs \ {p} : q \in lease' <=> q \in lease
        BY <2>1
      <3> QED BY <1>0, <2>1, <2>2, <3>1, <3>2 DEF CallsHaveStages
    <2> QED BY <2>3, <2>4
  <1> QED BY <1>2, <1>3, <1>4, <1>5, <1>6, <1>7, WorktreeStepKinds DEF ProcStep, WorkInTree, wvars

\* A creation and a deletion find at each stage what they left there.
LEMMA StageStep ==
    WorktreeInv /\ [WorktreeNext]_wvars =>
        /\ \A p \in Procs : CreateStage(p)' /\ DeleteStage(p)'
        /\ WorkIsThere'
  <1> SUFFICES ASSUME WorktreeInv, [WorktreeNext]_wvars
               PROVE  (\A p \in Procs : CreateStage(p)' /\ DeleteStage(p)') /\ WorkIsThere'
    OBVIOUS
  <1> DEFINE Goal == (\A p \in Procs : CreateStage(p) /\ DeleteStage(p)) /\ WorkIsThere
  <1> USE CommitsAssumption
  <1>0. WorktreeTypeOK /\ CallsHaveStages /\ WorkIsThere /\ WorktreesAreWhole
    BY DEF WorktreeInv
  <1>1. ASSUME NEW p \in Procs, ProcStep(p), CreateStage(p)', DeleteStage(p)', WorkIsThere'
        PROVE  Goal'
    BY <1>1, StepsAlone DEF CreateStage, DeleteStage
  <1>2. ASSUME NEW p \in Procs, job'[p] = NoJob PROVE CreateStage(p)' /\ DeleteStage(p)'
    BY <1>2 DEF CreateStage, DeleteStage, NoJob
  <1>3. ASSUME NEW p \in Procs, Ends(p) PROVE job'[p] = NoJob
    BY <1>0, <1>3 DEF Ends, WorktreeTypeOK
  <1>4. ASSUME NEW p \in Procs, NEW at, GoOn(p, at)
        PROVE  /\ job'[p].kind = job[p].kind /\ job'[p].at = at
               /\ job'[p].oid = job[p].oid /\ job'[p].force = job[p].force
    BY <1>0, <1>4 DEF GoOn, WorktreeTypeOK, Jobs
  <1>5. ASSUME NEW p \in Procs, CallStep(p), job[p].kind = "create"
        PROVE  Goal'
    <2> SUFFICES CreateStage(p)' /\ DeleteStage(p)' /\ WorkIsThere'
      BY <1>1, <1>5 DEF ProcStep
    <2>1. CreateStage(p) /\ job[p].at \in CreateStages
      BY <1>5, CallKind DEF WorktreeInv
    <2>2. CASE CreateRecords(p) \/ CreateBranch(p)
      BY <1>0, <1>4, <1>5, <2>1, <2>2
         DEF CreateRecords, CreateBranch, CreateStage, DeleteStage, WorkIsThere, WorktreeTypeOK, tree
    <2>3. CASE CreateTree(p)
      <3>1. /\ job[p].at = "tree" /\ root = "none" /\ ~dirty /\ commits.all = 0 /\ commits.pushed = 0
            /\ record = "provisioning" /\ branch /\ UNCHANGED <<commits, dirty, record>>
        BY <1>0, <1>5, <2>1, <2>3 DEF CreateTree, CreateStage, WorkIsThere
      <3>2. CASE root' = "bare" /\ GoOn(p, "rules") /\ UNCHANGED branch
        BY <1>4, <1>5, <3>1, <3>2 DEF CreateStage, DeleteStage, WorkIsThere
      <3>3. CASE root' \in {"none", "broken"} /\ branch' \in BOOLEAN /\ GoOn(p, "undo")
        BY <1>4, <1>5, <3>1, <3>3 DEF CreateStage, DeleteStage, WorkIsThere
      <3> QED BY <2>3, <3>2, <3>3 DEF CreateTree
    <2>4. CASE CreateMarks(p)
      BY <1>0, <1>4, <1>5, <2>1, <2>4
         DEF CreateMarks, CreateStage, DeleteStage, WorkIsThere, WorktreeTypeOK
    <2>5. CASE CreateFails(p)
      <3>1. UNCHANGED <<record, root, branch, dirty, commits>>
        BY <2>5 DEF CreateFails, tree
      <3>2. CASE record = "none"
        BY <1>0, <1>2, <1>3, <2>5, <3>1, <3>2 DEF CreateFails, WorkIsThere
      <3>3. CASE record # "none"
        BY <1>0, <1>4, <1>5, <2>1, <2>5, <3>1, <3>3
           DEF CreateFails, CreateStage, DeleteStage, WorkIsThere
      <3> QED BY <3>2, <3>3
    <2>6. CASE CreateReady(p)
      BY <1>0, <1>2, <1>3, <2>6 DEF CreateReady, WorkIsThere, tree
    <2>7. CASE Rollback(p)
      <3>1. dirty' = FALSE /\ UNCHANGED <<dirty, commits>> /\ commits.all = 0
        BY <1>0, <1>5, <2>1, <2>7 DEF Rollback, WorkIsThere, CreateStage, WorktreeTypeOK
      <3> QED BY <1>0, <1>2, <1>3, <2>7, <3>1 DEF Rollback, WorkIsThere
    <2> QED
      BY <1>5, <2>1, <2>2, <2>3, <2>4, <2>5, <2>6, <2>7
         DEF CallStep, ReadHead, ReadStatus, Claim, RemoveTree, RemoveBranch, Forget, DeleteFails,
             CreateStages
  <1>6. ASSUME NEW p \in Procs, CallStep(p), job[p].kind \in {"exit", "delete"}
        PROVE  Goal'
    <2> SUFFICES CreateStage(p)' /\ DeleteStage(p)' /\ WorkIsThere'
      BY <1>1, <1>6 DEF ProcStep
    <2>1. DeleteStage(p) /\ job[p].at \in DeleteStages /\ job[p] \in Jobs
      BY <1>0, <1>6, CallKind DEF WorktreeInv, WorktreeTypeOK
    <2>2. CASE Keeps(p) /\ UNCHANGED tree
      BY <1>0, <1>2, <1>3, <2>2 DEF Keeps, WorkIsThere, tree
    <2>3. CASE ReadHead(p)
      <3>1. job'[p] = [job[p] EXCEPT !.oid = commits.all, !.at = "status"]
        BY <1>0, <2>3 DEF ReadHead, WorktreeTypeOK
      <3>2. /\ job'[p].kind = job[p].kind /\ job'[p].at = "status" /\ job'[p].oid = commits.all
            /\ job[p].at = "head"
        BY <2>1, <2>3, <3>1 DEF ReadHead, Jobs
      <3>3. UNCHANGED <<root, branch, commits, dirty, record>>
        BY <2>3 DEF ReadHead, tree
      <3> QED
        BY <1>0, <1>6, <2>1, <3>2, <3>3
           DEF CreateStage, DeleteStage, WorkIsThere, Whole, WorktreeTypeOK
    <2>4. CASE /\ job[p].at = "status" /\ (job[p].force \/ commits.all = commits.pushed)
               /\ GoOn(p, "claim") /\ UNCHANGED <<tree, record>>
      <3>1. UNCHANGED <<root, branch, commits, dirty, record>>
        BY <2>4 DEF tree
      <3>2. /\ job'[p].kind = job[p].kind /\ job'[p].at = "claim"
            /\ job'[p].oid = job[p].oid /\ job'[p].force = job[p].force
        BY <1>4, <2>4
      <3> QED
        BY <1>0, <1>6, <2>1, <2>4, <3>1, <3>2 DEF CreateStage, DeleteStage, WorkIsThere, Whole
    <2>5. CASE Claim(p)
      BY <1>0, <1>4, <1>6, <2>1, <2>5
         DEF Claim, CreateStage, DeleteStage, WorkIsThere, tree, WorktreeTypeOK
    <2>6. CASE RemoveTree(p)
      <3>1. root' = "none" /\ dirty' = FALSE /\ UNCHANGED <<branch, commits>>
        BY <2>6 DEF RemoveTree
      <3>2. CASE Keeps(p)
        BY <1>0, <1>2, <1>3, <3>1, <3>2 DEF Keeps, WorkIsThere
      <3>3. CASE GoOn(p, "unref") /\ UNCHANGED record
        BY <1>0, <1>4, <1>6, <2>1, <2>6, <3>1, <3>3
           DEF RemoveTree, CreateStage, DeleteStage, WorkIsThere, WorktreeTypeOK
      <3> QED BY <2>6, <3>2, <3>3 DEF RemoveTree
    <2>7. CASE RemoveBranch(p)
      <3>1. /\ branch' = FALSE /\ commits' = [all |-> 0, pushed |-> 0] /\ UNCHANGED <<root, dirty>>
            /\ root = "none"
        BY <1>6, <2>1, <2>7 DEF RemoveBranch, DeleteStage
      <3>2. CASE Keeps(p)
        BY <1>0, <1>2, <1>3, <3>1, <3>2 DEF Keeps, WorkIsThere
      <3>3. CASE GoOn(p, "forget") /\ UNCHANGED record
        BY <1>0, <1>4, <1>6, <2>1, <2>7, <3>1, <3>3
           DEF RemoveBranch, CreateStage, DeleteStage, WorkIsThere, WorktreeTypeOK
      <3> QED BY <2>7, <3>2, <3>3 DEF RemoveBranch
    <2>8. CASE Forget(p)
      BY <1>0, <1>2, <1>3, <2>8 DEF Forget, WorkIsThere, tree
    <2> QED
      BY <1>6, <2>1, <2>2, <2>3, <2>4, <2>5, <2>6, <2>7, <2>8
         DEF CallStep, CreateRecords, CreateBranch, CreateTree, CreateMarks, CreateReady, CreateFails,
             Rollback, ReadStatus, DeleteFails, DeleteStages, tree
  <1>7. ASSUME NEW p \in Procs, Create(p)
        PROVE  Goal'
    <2>1. job'[p] = [NoJob EXCEPT !.kind = "create", !.at = "record"]
      BY <1>0, <1>7 DEF Create, WorktreeTypeOK
    <2>2. job'[p].kind = "create" /\ job'[p].at = "record"
      BY <2>1 DEF NoJob
    <2>3. UNCHANGED <<root, branch, commits, dirty, record>> /\ root = "none" /\ record = "none"
      BY <1>7 DEF Create, tree
    <2>4. ~branch /\ commits.all = 0 /\ commits.pushed = 0
      BY <1>0, <2>3 DEF WorktreesAreWhole, NothingUnrecorded, WorkIsThere, WorktreeTypeOK
    <2>5. CreateStage(p)' /\ DeleteStage(p)'
      BY <2>2, <2>3, <2>4 DEF CreateStage, DeleteStage
    <2> QED BY <1>0, <1>1, <1>7, <2>3, <2>5 DEF ProcStep, WorkIsThere
  <1>8. ASSUME NEW p \in Procs, Exit(p) \/ \E force \in BOOLEAN : Delete(p, force)
        PROVE  Goal'
    <2>1. job'[p].kind \in {"exit", "delete"} /\ job'[p].at = "head"
      <3>1. CASE Exit(p)
        <4>1. job'[p] = [NoJob EXCEPT !.kind = "exit", !.at = "head"]
          BY <1>0, <3>1 DEF Exit, WorktreeTypeOK
        <4> QED BY <4>1 DEF NoJob
      <3>2. ASSUME NEW force \in BOOLEAN, Delete(p, force)
            PROVE  job'[p].kind = "delete" /\ job'[p].at = "head"
        <4>1. job'[p] = [NoJob EXCEPT !.kind = "delete", !.at = "head", !.force = force]
          BY <1>0, <3>2 DEF Delete, WorktreeTypeOK
        <4> QED BY <4>1 DEF NoJob
      <3> QED BY <1>8, <3>1, <3>2
    <2>2. UNCHANGED <<root, branch, commits, dirty, record>>
      BY <1>8 DEF Exit, Delete, tree
    <2>3. CreateStage(p)' /\ DeleteStage(p)'
      BY <2>1, <2>2 DEF CreateStage, DeleteStage
    <2> QED BY <1>0, <1>1, <1>8, <2>2, <2>3 DEF ProcStep, WorkIsThere
  <1>9. ASSUME NEW p \in Procs, ProcStep(p), Enter(p) \/ Suspend(p) \/ Die(p)
        PROVE  Goal'
    <2>1. job'[p] = NoJob /\ UNCHANGED tree
      BY <1>0, <1>9 DEF Enter, Suspend, Die, NameFree, WorktreeTypeOK
    <2> QED BY <1>0, <1>1, <1>2, <1>9, <2>1 DEF ProcStep, WorkIsThere, tree
  <1>10. CASE WorkInTree
    <2>1. /\ root = "marked" /\ branch /\ UNCHANGED <<root, branch, record, job>>
          /\ commits.all <= commits'.all /\ commits.pushed <= commits'.pushed
          /\ commits'.pushed <= commits'.all
      <3>1. root = "marked" /\ UNCHANGED <<root, branch, record, job>>
        BY <1>10 DEF WorkInTree
      <3>2. branch /\ commits.pushed <= commits.all
        BY <1>0, <3>1 DEF WorkIsThere
      <3>3. /\ commits.all \in Nat /\ commits.pushed \in Nat
            /\ commits \in [all : 0..MaxCommits, pushed : 0..MaxCommits]
        BY <1>0 DEF WorktreeTypeOK
      <3>4. \/ commits' = commits
            \/ commits' = [commits EXCEPT !.all = @ + 1]
            \/ commits' = [commits EXCEPT !.pushed = commits.all]
        BY <1>10 DEF WorkInTree
      <3>5. /\ commits.all <= commits'.all /\ commits.pushed <= commits'.pushed
            /\ commits'.pushed <= commits'.all
        BY <3>2, <3>3, <3>4
      <3> QED BY <3>1, <3>2, <3>5
    <2>2. ASSUME NEW p \in Procs PROVE CreateStage(p)' /\ DeleteStage(p)'
      <3>1. CreateStage(p) /\ DeleteStage(p) /\ job[p].oid \in Nat /\ job'[p] = job[p]
        BY <1>0, <2>1 DEF WorktreeInv, WorktreeTypeOK, Jobs
      <3>2. /\ commits.all \in Nat /\ commits.pushed \in Nat
            /\ commits'.all \in Nat /\ commits'.pushed \in Nat
        BY <1>0, WorktreeTypeStep DEF WorktreeTypeOK
      <3>3. CreateStage(p)'
        BY <2>1, <3>1 DEF CreateStage
      <3>4. DeleteStage(p)'
        BY <2>1, <3>1, <3>2 DEF DeleteStage, Whole
      <3> QED BY <3>3, <3>4
    <2> QED BY <2>1, <2>2 DEF WorkIsThere
  <1>11. CASE UNCHANGED wvars
    BY <1>0, <1>11 DEF wvars, CreateStage, DeleteStage, WorkIsThere, Whole, WorktreeInv
  <1>12. ASSUME NEW p \in Procs, CallStep(p)
         PROVE  job[p].kind \in {"create", "exit", "delete"}
    BY <1>12, CallKind
       DEF CallStep, CreateRecords, CreateBranch, CreateTree, CreateMarks, CreateReady, CreateFails,
           Rollback, ReadHead, ReadStatus, Claim, RemoveTree, RemoveBranch, Forget, DeleteFails,
           CreateStages, DeleteStages
  <1>13. ASSUME NEW p \in Procs, WaitStep(p)
         PROVE  Goal'
    <2>1. UNCHANGED <<root, branch, commits, dirty, record>>
      BY <1>13, WaitEffect DEF tree
    <2>2. \A q \in Procs \ {p} : job'[q] = job[q]
      BY <1>13, WaitEffect
    <2>3. job'[p].kind \in {"none", "enter"}
      <3>1. job'[p] = NoJob \/ job'[p].kind = "enter"
        BY <1>13, WaitEffect
      <3> QED BY <3>1 DEF NoJob
    <2>4. ASSUME NEW q \in Procs PROVE CreateStage(q)' /\ DeleteStage(q)'
      <3>1. CreateStage(q) /\ DeleteStage(q)
        BY DEF WorktreeInv
      <3>2. CASE q = p
        BY <2>3, <3>2 DEF CreateStage, DeleteStage
      <3>3. CASE q # p
        BY <2>1, <2>2, <3>1, <3>3 DEF CreateStage, DeleteStage
      <3> QED BY <3>2, <3>3
    <2> QED BY <1>0, <2>1, <2>4 DEF WorkIsThere
  <1> QED
    BY <1>5, <1>6, <1>7, <1>8, <1>9, <1>10, <1>11, <1>12, <1>13, WorktreeStepKinds DEF ProcStep

\* One occupant, a truthful record, nothing without a record.
LEMMA WholeStep == WorktreeInv /\ [WorktreeNext]_wvars => WorktreesAreWhole'
  <1> SUFFICES ASSUME WorktreeInv, [WorktreeNext]_wvars PROVE WorktreesAreWhole'
    OBVIOUS
  <1> USE DEF WorktreesAreWhole, OneOccupant, ReadyIsWhole, NothingUnrecorded
  <1>0. WorktreeTypeOK /\ CallsHaveStages /\ LockGuards /\ WorktreesAreWhole /\ WorkIsThere
    BY DEF WorktreeInv
  <1>1. ASSUME NEW p \in Procs, ProcStep(p),
               p \in lease' => lock' = p,
               record' = "ready" => Whole',
               root' # "none" \/ branch' => record' # "none"
        PROVE  WorktreesAreWhole'
    <2>1. ASSUME NEW q \in lease'
          PROVE  q = p
      <3>1. q \in Procs
        BY WorktreeTypeStep DEF WorktreeTypeOK
      <3> QED BY <1>1, <3>1, StepsAlone
    <2>2. \A q \in lease' : q = p /\ lease' = {p}
      BY <2>1
    <2>3. OneOccupant'
      <3>1. ASSUME NEW q \in lease'
            PROVE  lock' = q /\ lease' = {q}
        <4>1. q = p /\ lease' = {q}
          BY <2>2, <3>1
        <4> QED BY <1>1, <3>1, <4>1
      <3> QED BY <3>1
    <2> QED BY <1>1, <2>3
  <1>2. ASSUME NEW p \in Procs, CallStep(p), job[p].kind = "create"
        PROVE  WorktreesAreWhole'
    <2>1. CreateStage(p) /\ job[p].at \in CreateStages /\ p \notin lease
      BY <1>0, <1>2, CallKind DEF WorktreeInv, CallsHaveStages
    <2>2. p \notin lease'
      BY <1>2, <2>1
         DEF CallStep, CreateRecords, CreateBranch, CreateTree, CreateMarks, CreateReady, CreateFails,
             Rollback, ReadHead, ReadStatus, Claim, RemoveTree, RemoveBranch, Forget, DeleteFails,
             Keeps, Ends
    <2>3. /\ record' = "ready" => Whole'
          /\ root' # "none" \/ branch' => record' # "none"
      <3>1. CASE CreateRecords(p) \/ CreateFails(p)
        BY <1>0, <1>2, <2>1, <3>1 DEF CreateRecords, CreateFails, CreateStage, Whole, tree
      <3>2. CASE CreateBranch(p) \/ CreateTree(p) \/ CreateMarks(p)
        BY <1>0, <1>2, <2>1, <3>2 DEF CreateBranch, CreateTree, CreateMarks, CreateStage, Whole
      <3>3. CASE CreateReady(p)
        BY <1>0, <1>2, <2>1, <3>3 DEF CreateReady, CreateStage, Whole, tree
      <3>4. CASE Rollback(p)
        BY <1>0, <1>2, <2>1, <3>4 DEF Rollback, CreateStage, Whole
      <3> QED
        BY <1>2, <2>1, <3>1, <3>2, <3>3, <3>4
           DEF CallStep, ReadHead, ReadStatus, Claim, RemoveTree, RemoveBranch, Forget, DeleteFails,
               CreateStages
    <2> QED BY <1>1, <1>2, <2>2, <2>3 DEF ProcStep
  <1>3. ASSUME NEW p \in Procs, CallStep(p), job[p].kind \in {"exit", "delete"}
        PROVE  WorktreesAreWhole'
    <2>1. DeleteStage(p) /\ job[p].at \in DeleteStages /\ lock = p
      BY <1>0, <1>3, CallKind DEF WorktreeInv, LockGuards
    <2>2. p \in lease' => lock' = p
      <3>1. CASE Ends(p)
        BY <3>1 DEF Ends
      <3> QED
        BY <1>3, <2>1, <3>1
           DEF CallStep, CreateRecords, CreateBranch, CreateTree, CreateMarks, CreateReady, CreateFails,
               Rollback, ReadHead, ReadStatus, Claim, RemoveTree, RemoveBranch, Forget, DeleteFails,
               Keeps, DeleteStages
    <2>3. /\ record' = "ready" => Whole'
          /\ root' # "none" \/ branch' => record' # "none"
      <3>1. CASE ReadHead(p) \/ ReadStatus(p) \/ DeleteFails(p)
        BY <1>0, <3>1 DEF ReadHead, ReadStatus, DeleteFails, Keeps, Whole, tree
      <3>2. CASE Claim(p)
        <4>1. record' = "deleting"
          BY <3>2 DEF Claim
        <4> QED BY <4>1
      <3>3. CASE RemoveTree(p) \/ RemoveBranch(p)
        <4>1. record = "deleting"
          BY <1>3, <2>1, <3>3 DEF RemoveTree, RemoveBranch, DeleteStage
        <4>2. record' \in {record, "retained"}
          BY <3>3 DEF RemoveTree, RemoveBranch, Keeps
        <4> QED BY <4>1, <4>2
      <3>4. CASE Forget(p)
        <4>1. root = "none" /\ ~branch
          BY <1>3, <2>1, <3>4 DEF Forget, DeleteStage
        <4>2. record' = "none" /\ UNCHANGED <<root, branch>>
          BY <3>4 DEF Forget, tree
        <4> QED BY <4>1, <4>2
      <3> QED
        BY <1>3, <2>1, <3>1, <3>2, <3>3, <3>4
           DEF CallStep, CreateRecords, CreateBranch, CreateTree, CreateMarks, CreateReady, CreateFails,
               Rollback, DeleteStages
    <2>4. ProcStep(p)
      BY <1>3 DEF ProcStep
    <2> QED BY <1>1, <2>2, <2>3, <2>4
  <1>4. ASSUME NEW p \in Procs, ProcStep(p),
               Create(p) \/ Exit(p) \/ Die(p) \/ \E force \in BOOLEAN : Delete(p, force)
        PROVE  WorktreesAreWhole'
    <2>1. UNCHANGED <<root, branch, record>>
      BY <1>4 DEF Create, Exit, Die, Delete, tree
    <2>2. p \in lease' => lock' = p
      BY <1>0, <1>4 DEF Create, Exit, Die, Delete, LockGuards
    <2> QED BY <1>0, <1>1, <1>4, <2>1, <2>2 DEF Whole
  <1>5. ASSUME NEW p \in Procs, Enter(p) \/ Suspend(p)
        PROVE  WorktreesAreWhole'
    BY <1>0, <1>1, <1>5 DEF Enter, Suspend, Whole, tree, ProcStep
  <1>6. CASE WorkInTree \/ UNCHANGED wvars
    BY <1>0, <1>6 DEF WorkInTree, wvars, tree, Whole
  <1>7. ASSUME NEW p \in Procs, CallStep(p)
        PROVE  job[p].kind \in {"create", "exit", "delete"}
    BY <1>7, CallKind
       DEF CallStep, CreateRecords, CreateBranch, CreateTree, CreateMarks, CreateReady, CreateFails,
           Rollback, ReadHead, ReadStatus, Claim, RemoveTree, RemoveBranch, Forget, DeleteFails,
           CreateStages, DeleteStages
  <1>8. ASSUME NEW p \in Procs, WaitStep(p)
        PROVE  WorktreesAreWhole'
    <2>1. UNCHANGED <<root, branch, record, lease>> /\ p \notin lease
      BY <1>8, WaitEffect DEF tree
    <2>2. \A q \in lease : lock' = q
      BY <1>0, <1>8, <2>1, WaitEffect
    <2> QED BY <1>0, <2>1, <2>2 DEF Whole
  <1> QED BY <1>2, <1>3, <1>4, <1>5, <1>6, <1>7, <1>8, WorktreeStepKinds DEF ProcStep

-----------------------------------------------------------------------------
\* Every step preserves the invariant.
LEMMA StepWorktreeInv == WorktreeInv /\ [WorktreeNext]_wvars => WorktreeInv'
  BY WorktreeTypeStep, LockStep, StageStep, WholeStep DEF WorktreeInv

\* What a process finds in the worktree is what its call left there.
THEOREM WorktreeInvariant == WorktreeSpec => []WorktreeInv
  <1> QED BY InitWorktreeInv, StepWorktreeInv, PTL DEF WorktreeSpec

\* The worktree's state is well-typed.
THEOREM WorktreeTypes == WorktreeSpec => []WorktreeTypeOK
  <1>1. WorktreeInv => WorktreeTypeOK
    BY DEF WorktreeInv
  <1> QED BY <1>1, WorktreeInvariant, PTL

\* However calls of any number of processes fail, are cancelled or die at a Git command,
\* a worktree has one occupant, is whole when its record says so, and leaves nothing
\* behind that no record names.
THEOREM WorktreesStayWhole == WorktreeSpec => []WorktreesAreWhole
  <1>1. WorktreeInv => WorktreesAreWhole
    BY DEF WorktreeInv
  <1> QED BY <1>1, WorktreeInvariant, PTL

\* A removal takes uncommitted changes only by force, and commits that no remote has only
\* by force and only when it has seen them.
LEMMA StepKeepsWork ==
    ASSUME WorktreeInv, [WorktreeNext]_wvars
    PROVE  /\ root # "none" /\ dirty /\ root' = "none" => \E p \in Procs : job[p].force
           /\ branch /\ ~branch' /\ commits.all # commits.pushed
                => \E p \in Procs : job[p].force /\ job[p].oid = commits.all
  <1>0. /\ WorkIsThere /\ job \in [Procs -> Jobs]
        /\ commits.all \in Nat /\ commits.pushed \in Nat
    BY CommitsAssumption DEF WorktreeInv, WorktreeTypeOK
  <1>1. ASSUME NEW p \in Procs, CreateBranch(p) \/ CreateTree(p) \/ Rollback(p)
        PROVE  /\ root' = "none" => root = "none" \/ ~dirty
               /\ commits.all = commits.pushed
    <2>1. job[p].at \in {"branch", "tree", "undo"}
      BY <1>1 DEF CreateBranch, CreateTree, Rollback
    <2>2. job[p].kind = "create"
      BY <2>1, CallKind DEF CreateStages
    <2> QED BY <1>0, <2>1, <2>2 DEF WorktreeInv, CreateStage, WorkIsThere
  <1>2. ASSUME NEW p \in Procs, RemoveTree(p)
        PROVE  branch' = branch /\ (dirty => job[p].force)
    BY <1>2 DEF RemoveTree
  <1>3. ASSUME NEW p \in Procs, RemoveBranch(p)
        PROVE  /\ root' = root /\ job[p].oid = commits.all
               /\ job[p].force \/ commits.all = commits.pushed
    <2>1. job[p].at = "unref" /\ commits.all = job[p].oid /\ root' = root
      BY <1>3 DEF RemoveBranch
    <2>2. job[p].kind \in {"exit", "delete"}
      BY <2>1, CallKind DEF DeleteStages
    <2>3. job[p].force \/ commits.all <= commits.pushed
      BY <2>1, <2>2 DEF WorktreeInv, DeleteStage
    <2> QED BY <1>0, <2>1, <2>3 DEF WorkIsThere
  <1>4. ASSUME NEW p \in Procs, ProcStep(p), ~CreateBranch(p), ~CreateTree(p), ~Rollback(p),
               ~RemoveTree(p), ~RemoveBranch(p)
        PROVE  (root' = root \/ root' # "none") /\ (branch' = branch \/ branch')
    BY <1>4
       DEF ProcStep, CallStep, Create, Enter, Suspend, Exit, Delete, Die, CreateRecords, CreateMarks,
           CreateReady, CreateFails, ReadHead, ReadStatus, Claim, Forget, DeleteFails, tree
  <1>5. CASE WorkInTree \/ UNCHANGED wvars
    BY <1>5 DEF WorkInTree, wvars, tree
  <1>6. ASSUME NEW p \in Procs, WaitStep(p)
        PROVE  root' = root /\ branch' = branch
    BY <1>6, WaitEffect DEF tree
  <1> QED BY <1>1, <1>2, <1>3, <1>4, <1>5, <1>6, WorktreeStepKinds

\* No process that deletes, cleans up or rolls back a worktree loses work that is nowhere
\* else, whatever is edited, committed and pushed while it checks.
THEOREM WorkSurvives == WorktreeSpec => UnsavedWorkIsKept
  <1>1. WorktreeInv /\ [WorktreeNext]_wvars =>
          [/\ root # "none" /\ dirty /\ root' = "none" => \E p \in Procs : job[p].force
           /\ branch /\ ~branch' /\ commits.all # commits.pushed
                => \E p \in Procs : job[p].force /\ job[p].oid = commits.all]_wvars
    BY StepKeepsWork
  <1> QED BY <1>1, WorktreeInvariant, PTL DEF WorktreeSpec, UnsavedWorkIsKept


\* The worktree of an occupant that is in no call is the occupant's alone: the lock is held,
\* and what others may do without it changes neither the tree nor the record.
LEMMA StepKeepsOccupied ==
    ASSUME WorktreeInv, [WorktreeNext]_wvars, NEW p \in lease, job[p] = NoJob, Whole
    PROVE  Whole' /\ (record' = record \/ p \notin lease')
  <1>0. /\ p \in Procs /\ lock = p /\ job[p].kind = "none" /\ job[p].at = "idle"
    BY DEF WorktreeInv, WorktreeTypeOK, LockGuards, NoJob
  <1>1. ASSUME NEW q \in Procs, ProcStep(q), q # p PROVE FALSE
    BY <1>0, <1>1, StepsAlone
  <1>2. ASSUME NEW q \in Procs, WaitStep(q) PROVE Whole' /\ record' = record
    BY <1>2, WaitEffect DEF Whole, tree
  <1>3. CASE ProcStep(p)
    <2>1. ~CallStep(p)
      BY <1>0
         DEF CallStep, CreateRecords, CreateBranch, CreateTree, CreateMarks, CreateReady, CreateFails,
             Rollback, ReadHead, ReadStatus, Claim, RemoveTree, RemoveBranch, Forget, DeleteFails
    <2>2. ~Create(p) /\ ~Enter(p) /\ \A force \in BOOLEAN : ~Delete(p, force)
      BY <1>0, FreeIsNobody DEF Create, Enter, Delete, Free
    <2>3. CASE Suspend(p)
      BY <2>3 DEF Suspend, Whole, tree
    <2>4. CASE Exit(p) \/ Die(p)
      BY <2>4 DEF Exit, Die, Whole, tree
    <2> QED BY <1>3, <2>1, <2>2, <2>3, <2>4 DEF ProcStep
  <1>4. CASE WorkInTree \/ UNCHANGED wvars
    BY <1>4 DEF WorkInTree, wvars, tree, Whole
  <1> QED BY <1>1, <1>2, <1>3, <1>4, WorktreeStepKinds

\* Nobody deletes, cleans up, creates or enters a worktree under the process that is in it,
\* not even one that has checked the record before the occupant came.
THEOREM OccupiedIsLeftAlone == WorktreeSpec => OccupiedStaysWhole
  <1>1. WorktreeInv /\ [WorktreeNext]_wvars =>
          [\A p \in lease : job[p] = NoJob /\ Whole
                              => Whole' /\ (record' = record \/ p \notin lease')]_wvars
    BY StepKeepsOccupied
  <1> QED BY <1>1, WorktreeInvariant, PTL DEF WorktreeSpec, OccupiedStaysWhole

-----------------------------------------------------------------------------
(* TeamDelivery *)

\* Whoever has reviews at hand, saved or copied, has an accepted one only of a range that
\* the Lead accepted.
VerdictsAreGiven(rs) ==
    \A t \in Tasks : rs[t].status = "accepted" => rs[t].range \in accepted[t]

DeliveryInv ==
    /\ DeliveryTypeOK /\ MergesWhatWasAccepted /\ PublishedWhole
    /\ VerdictsAreGiven(review) /\ VerdictsAreGiven(cycle.copy) /\ VerdictsAreGiven(asks.copy)
    /\ cycle # IdleCycle => Absent \subseteq deleted

\* No review, and no range, is one of those that there may be.
LEMMA Nothings ==
    /\ NoReview \in Reviews /\ NoReviews \in [Tasks -> Reviews]
    /\ NoRange \in Ranges /\ NoBatch \in [Tasks -> Ranges]
    /\ NoReview.status # "accepted"
    /\ \A r \in Reviews : r.range \in Ranges
    /\ IdleCycle \in Cycles /\ IdleCycle.at = "idle" /\ IdleCycle.copy = NoReviews
    /\ NoToolCall \in Asks /\ NoToolCall.what = "none" /\ NoToolCall.copy = NoReviews
  <1>1. NoRange \in Ranges
    BY DEF NoRange, Ranges, Starts
  <1>2. NoReview \in Reviews /\ NoReview.status # "accepted" /\ NoReview.range = NoRange
    BY DEF NoReview, Reviews
  <1>3. NoReviews \in [Tasks -> Reviews] /\ NoBatch \in [Tasks -> Ranges]
    BY <1>1, <1>2 DEF NoReviews, NoBatch
  <1>4. ASSUME NEW r \in Reviews PROVE r.range \in Ranges
    BY <1>1, <1>2 DEF Reviews
  <1>5. /\ IdleCycle \in Cycles /\ IdleCycle.at = "idle" /\ IdleCycle.copy = NoReviews
        /\ NoToolCall \in Asks /\ NoToolCall.what = "none" /\ NoToolCall.copy = NoReviews
    BY <1>3 DEF IdleCycle, NoToolCall, Cycles, Asks
  <1> QED  BY <1>1, <1>2, <1>3, <1>4, <1>5

\* Inspecting the worktrees gives reviews, and accepts nothing.
LEMMA InspectionsAcceptNothing ==
    ASSUME DeliveryTypeOK, NEW copy \in [Tasks -> Reviews], NEW rs \in Inspections(copy)
    PROVE  /\ rs \in [Tasks -> Reviews]
           /\ \A t \in Tasks : rs[t].status = "accepted" =>
                 copy[t].status = "accepted" /\ rs[t].range = copy[t].range
  <1>1. /\ DOMAIN rs = Tasks /\ rs = [t \in Tasks |-> rs[t]]
        /\ \A t \in Tasks : rs[t] \in Refreshed(copy[t])
    BY DEF Inspections
  <1>2. ASSUME NEW t \in Tasks
        PROVE  /\ rs[t] \in Reviews
               /\ rs[t].status = "accepted" =>
                     copy[t].status = "accepted" /\ rs[t].range = copy[t].range
    <2> DEFINE r == copy[t]
    <2>1. rs[t] \in Refreshed(r) /\ r \in Reviews
      BY <1>1
    <2>2. CASE rs[t] = NoReview
      BY <2>2, Nothings
    <2>3. CASE r # NoReview /\ rs[t] = r
      BY <2>1, <2>3
    <2>4. CASE r # NoReview /\ rs[t] = [r EXCEPT !.status = "pending",
                                                !.range = RangeOf(r.who, r.range[1])]
      <3>1. r \in [status : {"pending", "accepted", "rejected"}, who : Workers,
                   rev : Nat, range : Ranges]
        BY <2>1, <2>4 DEF Reviews
      <3>2. RangeOf(r.who, r.range[1]) \in Ranges
        BY <3>1 DEF DeliveryTypeOK, RangeOf, Ranges
      <3>3. rs[t] \in Reviews /\ rs[t].status = "pending"
        BY <2>4, <3>1, <3>2 DEF Reviews
      <3> QED  BY <3>3
    <2> QED  BY <2>1, <2>2, <2>3, <2>4 DEF Refreshed
  <1> QED  BY <1>1, <1>2

\* The current reviews are of those that are saved.
LEMMA CurrentIsReviewed ==
    ASSUME DeliveryTypeOK
    PROVE  /\ Current \in [Tasks -> Reviews]
           /\ VerdictsAreGiven(review) => VerdictsAreGiven(Current)
  BY Nothings DEF DeliveryTypeOK, Current, VerdictsAreGiven

\* A plan of reviews that the Lead has given is of ranges that the Lead has accepted.
LEMMA PlanIsAccepted ==
    ASSUME DeliveryTypeOK, MergesWhatWasAccepted, NEW rs \in [Tasks -> Reviews],
           VerdictsAreGiven(rs), UNCHANGED accepted,
           \/ UNCHANGED plan
           \/ /\ \A t \in Tasks : rs[t].status = "accepted"
              /\ plan' = [t \in Tasks |-> rs[t].range]
    PROVE  plan' \in [Tasks -> Ranges] /\ MergesWhatWasAccepted'
  <1>1. CASE UNCHANGED plan
    BY <1>1 DEF DeliveryTypeOK, MergesWhatWasAccepted, NoBatch
  <1>2. CASE (\A t \in Tasks : rs[t].status = "accepted") /\ plan' = [t \in Tasks |-> rs[t].range]
    <2>1. \A t \in Tasks : rs[t].range \in accepted[t] /\ rs[t].range \in Ranges
      BY <1>2 DEF VerdictsAreGiven, DeliveryTypeOK
    <2> QED  BY <1>2, <2>1 DEF MergesWhatWasAccepted
  <1> QED  BY <1>1, <1>2

\* Before the first goal there is nothing to review and nothing to merge.
LEMMA InitDelivery == DeliveryInit => DeliveryInv
  <1> SUFFICES ASSUME DeliveryInit PROVE DeliveryInv
    OBVIOUS
  <1>1. DeliveryTypeOK
    BY Nothings DEF DeliveryInit, DeliveryTypeOK, Starts, Cards, NoCard
  <1>2. VerdictsAreGiven(NoReviews)
    BY Nothings DEF VerdictsAreGiven, NoReviews
  <1> QED  BY <1>1, <1>2 DEF DeliveryInit, DeliveryInv, MergesWhatWasAccepted, PublishedWhole,
                             IdleCycle, NoToolCall

\* Every step keeps the types.
LEMMA DeliveryTypes == DeliveryInv /\ [DeliveryNext]_dvars => DeliveryTypeOK'
  <1> SUFFICES ASSUME DeliveryInv, [DeliveryNext]_dvars PROVE DeliveryTypeOK'
    OBVIOUS
  <1>1. DeliveryTypeOK
    BY DEF DeliveryInv
  <1> USE DEF dvars, savedRun, team, lists, SaveRun, Raises, Go, Fresh
  \* Steps of the team, of a cycle, and of the Lead.
  <1>2. ASSUME NEW t \in Tasks, NEW m \in Workers, NEW by \in {"dispatch", "claim"},
               Assign(t, m, by)
        PROVE  board' \in [Tasks -> Cards] /\ holds' \in [Workers -> Tasks \cup {NoTask}]
    <2>1. board[t] \in Cards /\ board[t].rev + 1 \in Nat
      BY <1>1 DEF DeliveryTypeOK, Cards
    <2> DEFINE card == [board[t] EXCEPT !.who = m, !.rev = board[t].rev + 1, !.by = by]
    <2>2. card \in Cards
      BY <2>1, Zenon DEF Cards
    <2>3. /\ board' = [board EXCEPT ![t] = card]
          /\ holds' = [n \in Workers |-> IF n = m THEN t
                                         ELSE IF n = board[t].who THEN NoTask ELSE holds[n]]
      BY <1>2 DEF Assign
    <2> HIDE DEF card
    <2> QED  BY <1>1, <2>2, <2>3 DEF DeliveryTypeOK
  <1>3. ASSUME NEW t \in Tasks, NEW status \in {"pending", "completed", "failed"}
        PROVE  /\ Settles(t, status) \in [Tasks -> Cards]
               /\ Released(t) \in [Workers -> Tasks \cup {NoTask}]
    BY <1>1 DEF Settles, Released, DeliveryTypeOK, Cards
  <1>4. ASSUME NEW rs \in [Tasks -> Reviews], Plans(rs) PROVE plan' \in [Tasks -> Ranges]
    BY <1>1, <1>4, Nothings DEF Plans, DeliveryTypeOK
  <1>5. ASSUME UNCHANGED <<board, holds, live, head, deleted>>,
               run' \in {run, "prepared", "active", "ready"} \cup RunOver,
               stale' \subseteq {"cycle", "lead"},
               decided' \in [Tasks -> Starts], review' \in [Tasks -> Reviews],
               cycle' \in Cycles,
               cycle'.at \in {"head", "freeze"} => cycle'.task \in Tasks /\ cycle'.who \in Workers,
               asks' \in Asks, asks'.what = "reassign" => asks'.task \in Tasks,
               plan' \in [Tasks -> Ranges], accepted' \in [Tasks -> SUBSET Ranges], calls' \in Nat
        PROVE  DeliveryTypeOK'
    BY <1>1, <1>5 DEF DeliveryTypeOK
  <1>6. ASSUME run' \in {run, "prepared", "active", "manual", "failed"},
               stale' \subseteq {"cycle", "lead"},
               UNCHANGED <<decided, cycle, plan, accepted, review>>,
               board' \in [Tasks -> Cards], holds' \in [Workers -> Tasks \cup {NoTask}],
               live' \subseteq Workers, head' \in [Workers -> Nat], deleted' \subseteq Tasks,
               asks' \in Asks, asks'.what = "reassign" => asks'.task \in Tasks,
               calls' \in Nat
        PROVE  DeliveryTypeOK'
    BY <1>1, <1>6 DEF DeliveryTypeOK, RunOver
  <1>7. CASE Decompose \/ Publish \/ RecoverRun \/ HandOver
    <2>1. board' = board \/ PublishAll
      BY <1>7 DEF Decompose, Publish, RecoverRun, HandOver
    <2>2. ASSUME NEW t \in Tasks PROVE [board[t] EXCEPT !.status = "pending"] \in Cards
      BY <1>1 DEF DeliveryTypeOK, Cards
    <2>3. board' \in [Tasks -> Cards]
      BY <1>1, <2>1, <2>2 DEF PublishAll, DeliveryTypeOK
    <2>4. /\ run' \in {"prepared", "active", "manual", "failed"}
          /\ stale' = stale \/ stale' \subseteq {"cycle", "lead"}
      BY <1>7 DEF Decompose, Publish, RecoverRun, HandOver
    <2>5. /\ UNCHANGED <<decided, cycle, plan, accepted, review, holds, live, head, asks>>
          /\ calls' = calls /\ deleted' \in {deleted, {}}
      BY <1>7 DEF Decompose, Publish, RecoverRun, HandOver
    <2>6. stale' \subseteq {"cycle", "lead"} /\ calls' \in Nat /\ deleted' \subseteq Tasks
      BY <1>1, <2>4, <2>5 DEF DeliveryTypeOK
    <2> QED  BY <1>1, <1>6, <2>3, <2>4, <2>5, <2>6 DEF DeliveryTypeOK
  <1>8. CASE CycleBegins
    <2>1. /\ cycle' \in Cycles /\ cycle'.at \in {"tasks", "integrate"}
      <3>1. Tasks \ Absent \subseteq Tasks
        OBVIOUS
      <3>2. [IdleCycle EXCEPT !.at = "tasks", !.todo = Tasks, !.sees = Tasks \ Absent] \in Cycles
        BY <3>1, Nothings, Zenon DEF Cycles
      <3>3. [IdleCycle EXCEPT !.at = "tasks", !.todo = Tasks, !.sees = Tasks \ Absent].at = "tasks"
        BY Nothings DEF Cycles
      <3>4. /\ [IdleCycle EXCEPT !.at = "integrate"] \in Cycles
            /\ [IdleCycle EXCEPT !.at = "integrate"].at = "integrate"
        BY Nothings DEF Cycles
      <3> QED  BY <1>8, <3>2, <3>3, <3>4 DEF CycleBegins
    <2>2. plan' \in [Tasks -> Ranges]
      BY <1>1, <1>4, <1>8 DEF CycleBegins, DeliveryTypeOK
    <2> QED  BY <1>1, <1>5, <1>8, <2>1, <2>2 DEF CycleBegins, DeliveryTypeOK
  <1>9. CASE Assigns
    <2>1. cycle.task \in Tasks /\ cycle.who \in Workers
      BY <1>1, <1>9 DEF Assigns, DeliveryTypeOK
    <2>2. board' \in [Tasks -> Cards] /\ holds' \in [Workers -> Tasks \cup {NoTask}]
      BY <1>1, <1>2, <1>9, <2>1 DEF Assigns, DeliveryTypeOK
    <2>3. \/ cycle' = IdleCycle
          \/ cycle' = [cycle EXCEPT !.at = "tasks", !.sees = Tasks \ Absent]
      BY <1>9 DEF Assigns
    <2>6. cycle' \in Cycles /\ cycle'.at \in {"tasks", "idle"}
      <3>1. cycle \in Cycles /\ Tasks \ Absent \subseteq Tasks
        BY <1>1 DEF DeliveryTypeOK
      <3>2. [cycle EXCEPT !.at = "tasks", !.sees = Tasks \ Absent] \in Cycles
        BY <3>1, Zenon DEF Cycles
      <3>3. [cycle EXCEPT !.at = "tasks", !.sees = Tasks \ Absent].at = "tasks"
        BY <3>1 DEF Cycles
      <3> QED  BY <2>3, <3>2, <3>3, Nothings
    <2>4. decided' \in [Tasks -> Starts]
      BY <1>1, <1>9, <2>1 DEF Assigns, DeliveryTypeOK, Starts
    <2>5. run' = run /\ stale' \subseteq {"cycle", "lead"} /\ live' \subseteq Workers
      BY <1>1, <1>9, <2>1 DEF Assigns, DeliveryTypeOK
    <2> QED  BY <1>1, <1>9, <2>2, <2>4, <2>5, <2>6 DEF Assigns, DeliveryTypeOK
  <1>10. CASE FreezeEnds
    <2>1. cycle.task \in Tasks /\ cycle.who \in Workers /\ cycle.seen \in Nat
      BY <1>1, <1>10 DEF FreezeEnds, DeliveryTypeOK, Cycles
    <2>2. Frozen(cycle.task, cycle.who, cycle.seen) \in Reviews
      BY <1>1, <2>1 DEF Frozen, RangeOf, Reviews, Ranges, DeliveryTypeOK
    <2>3. review' \in [Tasks -> Reviews]
      BY <1>1, <1>10, <2>2 DEF FreezeEnds, DeliveryTypeOK
    <2>4. cycle' \in Cycles /\ cycle'.at \in {"tasks", "idle"}
      BY <1>1, <1>10, Nothings DEF FreezeEnds, DeliveryTypeOK, Cycles
    <2> QED  BY <1>1, <1>5, <1>10, <2>3, <2>4 DEF FreezeEnds, DeliveryTypeOK
  <1>11. CASE Refresh
    <2>1. PICK verdict \in {"open", "done", "failed"} :
             cycle' = [cycle EXCEPT !.at = "inspect", !.copy = Current, !.sees = {},
                                    !.board = verdict]
      BY <1>11 DEF Refresh
    <2>2. cycle' \in Cycles /\ cycle'.at = "inspect"
      BY <1>1, <2>1, CurrentIsReviewed DEF DeliveryTypeOK, Cycles
    <2> QED  BY <1>1, <1>5, <1>11, <2>2 DEF Refresh, DeliveryTypeOK
  <1>12. CASE Conclude
    <2>1. cycle' \in Cycles /\ cycle'.at \in {"idle", "integrate"}
      BY <1>1, <1>12, Nothings DEF Conclude, DeliveryTypeOK, Cycles
    <2>2. cycle.copy \in [Tasks -> Reviews]
      BY <1>1 DEF DeliveryTypeOK, Cycles
    <2>3. review' \in [Tasks -> Reviews] /\ plan' \in [Tasks -> Ranges]
      BY <1>1, <1>4, <1>12, <2>2, InspectionsAcceptNothing DEF Conclude, DeliveryTypeOK
    <2>4. run' \in {run, "ready", "failed", "manual"} /\ stale' \subseteq {"cycle", "lead"}
      BY <1>1, <1>12 DEF Conclude, Verdict, DeliveryTypeOK
    <2> QED  BY <1>1, <1>5, <1>12, <2>1, <2>3, <2>4 DEF Conclude, DeliveryTypeOK, RunOver
  <1>13. CASE AutoIntegrates \/ CycleEnds
    BY <1>1, <1>5, <1>13, Nothings DEF AutoIntegrates, CycleEnds, DeliveryTypeOK, RunOver
  <1>14. CASE DecideEnds
    <2>1. decided' \in [Tasks -> Starts]
      BY <1>1, <1>14 DEF DecideEnds, DeliveryTypeOK, Starts
    <2> QED  BY <1>1, <1>5, <1>14, <2>1, Nothings DEF DecideEnds, DeliveryTypeOK
  <1>15. CASE PlanBegins
    <2>1. asks' \in Asks /\ asks'.what = "plan"
      BY <1>1, <1>15, CurrentIsReviewed DEF PlanBegins, Asks
    <2> QED  BY <1>1, <1>5, <1>15, <2>1 DEF PlanBegins, LeadCalls, DeliveryTypeOK
  <1>16. CASE PlanEnds
    <2>1. asks.copy \in [Tasks -> Reviews]
      BY <1>1 DEF DeliveryTypeOK, Asks
    <2>2. PICK rs \in Inspections(asks.copy) :
             \/ /\ UNCHANGED <<savedRun, review>>
                /\ plan' = IF plan = NoBatch THEN [t \in Tasks |-> rs[t].range] ELSE plan
             \/ UNCHANGED plan /\ UNCHANGED <<savedRun, review>>
             \/ UNCHANGED plan /\ SaveRun("lead", "manual") /\ review' = rs
      BY <1>16 DEF PlanEnds
    <2>3. rs \in [Tasks -> Reviews]
      BY <1>1, <2>1, InspectionsAcceptNothing
    <2>4. review' \in [Tasks -> Reviews] /\ plan' \in [Tasks -> Ranges]
      BY <1>1, <2>2, <2>3, Nothings DEF DeliveryTypeOK
    <2>5. run' \in {run, "manual"} /\ stale' \subseteq {"cycle", "lead"}
      BY <1>1, <2>2 DEF DeliveryTypeOK
    <2> QED  BY <1>1, <1>5, <1>16, <2>4, <2>5, Nothings DEF PlanEnds, DeliveryTypeOK, RunOver
  <1>17. ASSUME NEW t \in Tasks, \/ Passes(t) \/ FreezeBegins(t)
                                 \/ \E m \in Workers : Reserves(t, m)
         PROVE  DeliveryTypeOK'
    <2>1. cycle' \in Cycles
      <3>1. cycle \in Cycles /\ cycle.todo \ {t} \in SUBSET Tasks
        BY <1>1 DEF DeliveryTypeOK, Cycles
      <3>2. board[t].who \in Workers \cup {Nobody} /\ board[t].rev \in Nat
        BY <1>1 DEF DeliveryTypeOK, Cards
      <3>3. [cycle EXCEPT !.todo = @ \ {t}] \in Cycles
        BY <3>1 DEF Cycles
      <3>4. [cycle EXCEPT !.at = "freeze", !.task = t, !.who = board[t].who,
                          !.seen = board[t].rev, !.todo = @ \ {t}] \in Cycles
        BY <3>1, <3>2, Zenon DEF Cycles
      <3>5. ASSUME NEW m \in Workers
            PROVE  [cycle EXCEPT !.at = "head", !.todo = @ \ {t}, !.task = t, !.who = m] \in Cycles
        BY <3>1, Zenon DEF Cycles
      <3> QED  BY <1>17, <3>3, <3>4, <3>5, Nothings DEF Passes, FreezeBegins, Reserves
    <2>2. cycle'.at \in {"head", "freeze"} => cycle'.task \in Tasks /\ cycle'.who \in Workers
      <3>1. CASE Passes(t)
        BY <1>1, <3>1, Nothings DEF Passes, DeliveryTypeOK, Cycles
      <3>2. CASE FreezeBegins(t)
        BY <1>1, <3>2 DEF FreezeBegins, Freezable, DeliveryTypeOK, Cycles, Cards
      <3>3. ASSUME NEW m \in Workers, Reserves(t, m)
            PROVE  cycle'.task \in Tasks /\ cycle'.who \in Workers
        BY <1>1, <3>3 DEF Reserves, DeliveryTypeOK, Cycles
      <3> QED  BY <1>17, <3>1, <3>2, <3>3
    <2>3. stale' \subseteq {"cycle", "lead"} /\ run' = run
      BY <1>1, <1>17 DEF Passes, FreezeBegins, Reserves, DeliveryTypeOK
    <2> QED
      BY <1>1, <1>5, <1>17, <2>1, <2>2, <2>3 DEF Passes, FreezeBegins, Reserves, DeliveryTypeOK
  <1>18. ASSUME NEW t \in Tasks, NEW v \in {"accepted", "rejected"}, Review(t, v)
         PROVE  DeliveryTypeOK'
    <2>1. review[t] # NoReview /\ [review[t] EXCEPT !.status = v] \in Reviews
      BY <1>1, <1>18 DEF Review, DeliveryTypeOK, Reviews
    <2>2. review' \in [Tasks -> Reviews]
      BY <1>1, <1>18, <2>1 DEF Review, DeliveryTypeOK
    <2>3. accepted' \in [Tasks -> SUBSET Ranges]
      BY <1>1, <1>18, Nothings DEF Review, DeliveryTypeOK
    <2>4. calls' \in Nat
      BY <1>1, <1>18 DEF Review, Counts, DeliveryTypeOK
    <2>5. cycle' = cycle /\ asks' = asks /\ plan' = plan /\ decided' = decided /\ deleted' = deleted
          /\ board' = board /\ holds' = holds /\ live' = live /\ head' = head
      BY <1>18 DEF Review, team
    <2>6. run' = run /\ stale' \subseteq {"cycle", "lead"}
      BY <1>1, <1>18 DEF Review, SaveRun, DeliveryTypeOK
    <2> QED  BY <1>1, <2>2, <2>3, <2>4, <2>5, <2>6 DEF DeliveryTypeOK
  <1>19. ASSUME NEW t \in Tasks, Cancel(t) \/ Stop(t) PROVE DeliveryTypeOK'
    <2>1. asks' \in Asks /\ (asks'.what = "reassign" => asks'.task \in Tasks)
      BY <1>1, <1>19, Nothings DEF Cancel, Stop, DeliveryTypeOK, Asks
    <2> QED  BY <1>1, <1>3, <1>6, <1>19, <2>1 DEF Cancel, Stop, Counts, DeliveryTypeOK
  <1>20. ASSUME NEW t \in Tasks, NEW m \in Workers, Reassign(t, m) PROVE DeliveryTypeOK'
    <2>1. asks' \in Asks /\ asks'.task \in Tasks
      BY <1>20, Nothings DEF Reassign, Asks
    <2> QED  BY <1>1, <1>2, <1>6, <1>20, <2>1 DEF Reassign, Counts, DeliveryTypeOK
  <1>21. CASE MembersWork
    <2>1. ASSUME NEW t \in Tasks, Reopens(t) PROVE board' \in [Tasks -> Cards] /\ calls' \in Nat
      <3>1. board[t] \in Cards /\ board[t].rev + 1 \in Nat
        BY <1>1 DEF DeliveryTypeOK, Cards
      <3> DEFINE card == [board[t] EXCEPT !.status = "pending", !.rev = board[t].rev + 1]
      <3>2. card \in Cards
        BY <3>1, Zenon DEF Cards
      <3>3. board' = [board EXCEPT ![t] = card] /\ calls' = calls + 1
        BY <2>1 DEF Reopens, Counts
      <3> HIDE DEF card
      <3> QED  BY <1>1, <3>2, <3>3 DEF DeliveryTypeOK
    <2>2. board' \in [Tasks -> Cards] /\ holds' \in [Workers -> Tasks \cup {NoTask}]
      BY <1>1, <1>2, <1>3, <1>21, <2>1
         DEF MembersWork, Runs, Claims, Reopens, Finishes, DeliveryTypeOK
    <2>3. ASSUME NEW m \in Workers, Runs(m)
          PROVE  live' \subseteq Workers /\ head' \in [Workers -> Nat]
      BY <1>1, <2>3 DEF Runs, DeliveryTypeOK
    <2>4. live' \subseteq Workers /\ head' \in [Workers -> Nat] /\ calls' \in Nat
      <3>1. \/ \E m \in Workers : Runs(m) /\ UNCHANGED calls
            \/ \E t \in Tasks : Reopens(t) /\ UNCHANGED <<live, head>>
            \/ UNCHANGED <<live, head, calls>>
        BY <1>21 DEF MembersWork, Runs, Claims, Reopens, Finishes
      <3> QED  BY <1>1, <2>1, <2>3, <3>1 DEF DeliveryTypeOK
    <2>5. deleted' = deleted
      BY <1>21 DEF MembersWork, Runs, Claims, Reopens, Finishes
    <2> QED  BY <1>1, <1>6, <1>21, <2>2, <2>4, <2>5 DEF MembersWork, DeliveryTypeOK
  <1>22. CASE UNCHANGED dvars
    BY <1>1, <1>22 DEF DeliveryTypeOK
  <1>23. ASSUME NEW t \in Tasks, DeleteTask(t) PROVE DeliveryTypeOK'
    <2>1. NoCard \in Cards
      BY DEF NoCard, Cards
    <2> QED  BY <1>1, <1>6, <1>23, <2>1 DEF DeleteTask, Counts, DeliveryTypeOK
  <1> QED
    BY <1>7, <1>8, <1>9, <1>10, <1>11, <1>12, <1>13, <1>14, <1>15, <1>16, <1>17, <1>18, <1>19,
       <1>20, <1>21, <1>22, <1>23 DEF DeliveryNext

\* Tasks leave the board only when they are deleted, and a run is under way, and a cycle
\* begins, only when all of its other tasks are there.
LEMMA PublishedStep ==
    DeliveryInv /\ [DeliveryNext]_dvars
    => PublishedWhole' /\ (cycle' # IdleCycle => Absent' \subseteq deleted')
  <1> SUFFICES ASSUME DeliveryInv, [DeliveryNext]_dvars
               PROVE  PublishedWhole' /\ (cycle' # IdleCycle => Absent' \subseteq deleted')
    OBVIOUS
  <1> USE DEF DeliveryInv, dvars, savedRun, team, lists, SaveRun
  <1>1. CASE Decompose \/ Publish \/ RecoverRun
    <2>1. PublishAll => Absent' = {}
      <3>1. ASSUME NEW t \in Tasks PROVE [board[t] EXCEPT !.status = "pending"].status = "pending"
        BY DEF DeliveryTypeOK, Cards
      <3> QED  BY <3>1 DEF PublishAll, Absent
    <2>2. /\ UNCHANGED cycle /\ run \in {"none", "prepared"}
          /\ UNCHANGED <<board, deleted>> \/ PublishAll
          /\ \/ run' \in {"prepared", "failed", "manual"} \/ PublishAll
             \/ Absent = {} /\ UNCHANGED board
      BY <1>1 DEF Decompose, Publish, RecoverRun
    <2> QED  BY <2>1, <2>2 DEF PublishedWhole, Absent
  <1>2. ASSUME Absent \subseteq deleted => Absent' \subseteq deleted',
               run' = run \/ cycle # IdleCycle \/ run' \in {"failed", "manual"},
               cycle' # IdleCycle => cycle # IdleCycle \/ run \in {"active", "ready"}
        PROVE  PublishedWhole' /\ (cycle' # IdleCycle => Absent' \subseteq deleted')
    BY <1>2 DEF PublishedWhole
  <1>3. ASSUME NEW t \in Tasks, NEW m \in Workers, NEW by, Assign(t, m, by)
        PROVE  Absent' \subseteq Absent
    BY <1>3 DEF Assign, Absent, DeliveryTypeOK
  <1>4. ASSUME NEW t \in Tasks, NEW status \in {"completed", "failed"}, board' = Settles(t, status)
        PROVE  Absent' \subseteq Absent
    BY <1>4 DEF Settles, Absent, DeliveryTypeOK
  <1>5. ASSUME UNCHANGED <<board, deleted>> PROVE Absent' = Absent /\ deleted' = deleted
    BY <1>5 DEF Absent
  <1>6. IdleCycle.at = "idle"
    BY DEF IdleCycle
  <1>7. CASE CycleBegins
    BY <1>2, <1>5, <1>7 DEF CycleBegins
  <1>8. CASE Assigns
    <2>1. cycle.task \in Tasks /\ cycle.who \in Workers /\ cycle # IdleCycle
      BY <1>6, <1>8 DEF Assigns, DeliveryTypeOK
    <2>2. Absent' \subseteq Absent /\ deleted' = deleted
      BY <1>3, <1>5, <1>8, <2>1 DEF Assigns, Absent
    <2>3. run' = run
      BY <1>8 DEF Assigns, Raises
    <2> QED  BY <1>2, <2>1, <2>2, <2>3
  <1>9. CASE FreezeEnds \/ Refresh \/ Conclude \/ AutoIntegrates \/ CycleEnds
    <2>1. cycle # IdleCycle /\ UNCHANGED <<board, deleted>>
      BY <1>6, <1>9 DEF FreezeEnds, Refresh, Conclude, AutoIntegrates, CycleEnds
    <2> QED  BY <1>2, <1>5, <2>1
  <1>10. CASE DecideEnds \/ HandOver \/ PlanBegins \/ PlanEnds
    <2>1. UNCHANGED <<board, deleted, cycle>> /\ (run' = run \/ run' = "manual")
      BY <1>10 DEF DecideEnds, HandOver, PlanBegins, PlanEnds
    <2> QED  BY <1>2, <1>5, <2>1
  <1>11. ASSUME NEW t \in Tasks, \/ Passes(t) \/ FreezeBegins(t) \/ Stop(t)
                                 \/ \E v \in {"accepted", "rejected"} : Review(t, v)
                                 \/ \E m \in Workers : Reserves(t, m)
         PROVE  PublishedWhole' /\ (cycle' # IdleCycle => Absent' \subseteq deleted')
    <2>1. /\ UNCHANGED <<board, deleted, run>>
          /\ cycle' = cycle \/ cycle.at = "tasks"
      BY <1>11 DEF Passes, Raises, FreezeBegins, Stop, Review, Reserves
    <2> QED  BY <1>2, <1>5, <1>6, <2>1
  <1>12. ASSUME NEW t \in Tasks, Cancel(t) \/ \E m \in Workers : Reassign(t, m)
         PROVE  PublishedWhole' /\ (cycle' # IdleCycle => Absent' \subseteq deleted')
    <2>1. UNCHANGED <<run, cycle, deleted>> /\ Absent' \subseteq Absent
      BY <1>3, <1>4, <1>12 DEF Cancel, Reassign
    <2> QED  BY <1>2, <2>1
  <1>13. CASE MembersWork
    <2>1. ASSUME NEW t \in Tasks, Reopens(t) PROVE Absent' \subseteq Absent
      BY <2>1 DEF Reopens, Absent, DeliveryTypeOK
    <2>2. Absent' \subseteq Absent
      BY <1>3, <1>4, <1>13, <2>1 DEF MembersWork, Runs, Claims, Finishes, Absent
    <2>3. UNCHANGED <<run, cycle, deleted>>
      BY <1>13 DEF MembersWork, Runs, Claims, Finishes, Reopens
    <2> QED  BY <1>2, <2>2, <2>3
  <1>14. CASE UNCHANGED dvars
    BY <1>2, <1>5, <1>14
  <1>15. ASSUME NEW t \in Tasks, DeleteTask(t)
         PROVE  PublishedWhole' /\ (cycle' # IdleCycle => Absent' \subseteq deleted')
    <2>1. /\ board' = [board EXCEPT ![t] = NoCard] /\ deleted' = deleted \cup {t}
          /\ UNCHANGED <<run, cycle>>
      BY <1>15 DEF DeleteTask
    <2>2. Absent' \subseteq Absent \cup {t}
      BY <2>1 DEF Absent, DeliveryTypeOK
    <2> QED  BY <1>2, <2>1, <2>2
  <1> QED
    BY <1>1, <1>7, <1>8, <1>9, <1>10, <1>11, <1>12, <1>13, <1>14, <1>15 DEF DeliveryNext

\* What the Lead accepted stays accepted, a new verdict is the Lead's own, and a batch is
\* planned of what was accepted.
LEMMA VerdictsStep ==
    DeliveryInv /\ [DeliveryNext]_dvars
    => /\ MergesWhatWasAccepted'
       /\ VerdictsAreGiven(review)' /\ VerdictsAreGiven(cycle.copy)' /\ VerdictsAreGiven(asks.copy)'
  <1> DEFINE Goal == /\ MergesWhatWasAccepted'
                     /\ VerdictsAreGiven(review)' /\ VerdictsAreGiven(cycle.copy)'
                     /\ VerdictsAreGiven(asks.copy)'
             Given(rs) == rs \in [Tasks -> Reviews] /\ VerdictsAreGiven(rs)
  <1> SUFFICES ASSUME DeliveryInv, [DeliveryNext]_dvars PROVE Goal
    OBVIOUS
  <1>1. /\ DeliveryTypeOK /\ MergesWhatWasAccepted
        /\ Given(review) /\ Given(cycle.copy) /\ Given(asks.copy) /\ Given(NoReviews)
    BY Nothings DEF DeliveryInv, DeliveryTypeOK, Cycles, Asks, VerdictsAreGiven, NoReviews
  <1>2. Given(Current)
    BY <1>1, CurrentIsReviewed
  <1>3. ASSUME NEW copy, Given(copy), NEW rs \in Inspections(copy) PROVE Given(rs)
    BY <1>1, <1>3, InspectionsAcceptNothing DEF VerdictsAreGiven
  <1> USE DEF dvars, savedRun, team, lists
  \* Steps that accept nothing only have to say where their reviews and their plan are from.
  <1>4. ASSUME UNCHANGED accepted, Given(review'), Given(cycle'.copy), Given(asks'.copy),
               \/ UNCHANGED plan
               \/ \E rs : Given(rs) /\ Plans(rs)
               \/ \E rs : /\ Given(rs) /\ \A t \in Tasks : rs[t].status = "accepted"
                          /\ plan' = [t \in Tasks |-> rs[t].range]
        PROVE  Goal
    <2>1. MergesWhatWasAccepted'
      <3>1. PICK rs : /\ Given(rs)
                      /\ \/ UNCHANGED plan
                         \/ /\ \A t \in Tasks : rs[t].status = "accepted"
                            /\ plan' = [t \in Tasks |-> rs[t].range]
        BY <1>1, <1>4 DEF Plans
      <3> QED  BY <1>1, <1>4, <3>1, PlanIsAccepted
    <2> QED  BY <1>4, <2>1 DEF VerdictsAreGiven
  <1>5. CASE Decompose \/ Publish \/ RecoverRun \/ HandOver \/ DecideEnds \/ PlanBegins
    <2>1. UNCHANGED <<accepted, review, cycle, plan>>
      BY <1>5 DEF Decompose, Publish, RecoverRun, HandOver, DecideEnds, PlanBegins
    <2>2. asks' = asks \/ asks'.copy = NoReviews \/ asks'.copy = Current
      BY <1>5, Nothings DEF Decompose, Publish, RecoverRun, HandOver, DecideEnds, PlanBegins
    <2> QED  BY <1>1, <1>2, <1>4, <2>1, <2>2
  <1>6. CASE CycleBegins
    <2>1. UNCHANGED <<accepted, review, asks>> /\ (plan' = plan \/ Plans(review))
      BY <1>6 DEF CycleBegins
    <2>2. cycle'.copy = NoReviews
      BY <1>6, Nothings DEF CycleBegins, Cycles
    <2> QED  BY <1>1, <1>4, <2>1, <2>2
  <1>7. CASE Assigns \/ AutoIntegrates \/ CycleEnds
    <2>1. UNCHANGED <<accepted, review, asks, plan>>
      BY <1>7 DEF Assigns, AutoIntegrates, CycleEnds
    <2>2. \/ cycle' = IdleCycle
          \/ cycle' = [cycle EXCEPT !.at = "tasks", !.sees = Tasks \ Absent]
      BY <1>7 DEF Assigns, AutoIntegrates, CycleEnds, Raises
    <2>3. cycle'.copy = NoReviews \/ cycle'.copy = cycle.copy
      BY <1>1, <2>2, Nothings DEF DeliveryTypeOK, Cycles
    <2> QED  BY <1>1, <1>4, <2>1, <2>3
  <1>8. CASE FreezeEnds
    <2>1. UNCHANGED <<accepted, asks, plan>>
      BY <1>8 DEF FreezeEnds
    <2>2. cycle' = IdleCycle \/ cycle' = [cycle EXCEPT !.at = "tasks"]
      BY <1>8 DEF FreezeEnds, Raises, Go
    <2>3. cycle'.copy = NoReviews \/ cycle'.copy = cycle.copy
      BY <1>1, <2>2, Nothings DEF DeliveryTypeOK, Cycles
    <2>4. cycle.task \in Tasks
      BY <1>1, <1>8 DEF FreezeEnds, DeliveryTypeOK
    <2>5. review' = review \/ \E r : /\ r.status = "pending"
                                     /\ review' = [review EXCEPT ![cycle.task] = r]
      BY <1>8 DEF FreezeEnds, Frozen
    <2>6. review' \in [Tasks -> Reviews]
      BY <1>8, DeliveryTypes DEF DeliveryNext, DeliveryTypeOK
    <2>7. VerdictsAreGiven(review')
      BY <1>1, <2>4, <2>5 DEF VerdictsAreGiven
    <2> QED  BY <1>1, <1>4, <2>1, <2>3, <2>6, <2>7
  <1>9. CASE Refresh
    <2>1. UNCHANGED <<accepted, review, asks, plan>>
      BY <1>9 DEF Refresh
    <2>2. cycle'.copy = Current
      BY <1>1, <1>9 DEF Refresh, DeliveryTypeOK, Cycles
    <2> QED  BY <1>1, <1>2, <1>4, <2>1, <2>2
  <1>10. CASE Conclude
    <2>1. UNCHANGED <<accepted, asks>>
      BY <1>10 DEF Conclude
    <2>2. cycle' = IdleCycle \/ cycle' = [cycle EXCEPT !.at = "integrate"]
      BY <1>10 DEF Conclude, Raises, Go
    <2>3. cycle'.copy = NoReviews \/ cycle'.copy = cycle.copy
      BY <1>1, <2>2, Nothings DEF DeliveryTypeOK, Cycles
    <2>4. \/ UNCHANGED <<review, plan>>
          \/ \E rs \in Inspections(cycle.copy) : review' = rs /\ (UNCHANGED plan \/ Plans(rs))
      BY <1>10 DEF Conclude
    <2>5. \/ UNCHANGED <<review, plan>>
          \/ \E rs : Given(rs) /\ review' = rs /\ (UNCHANGED plan \/ Plans(rs))
      BY <1>1, <1>3, <2>4
    <2> QED  BY <1>1, <1>4, <2>1, <2>3, <2>5
  <1>11. CASE PlanEnds
    <2>1. UNCHANGED <<accepted, cycle>> /\ asks'.copy = NoReviews
      BY <1>11, Nothings DEF PlanEnds
    <2>2. PICK rs \in Inspections(asks.copy) :
             \/ UNCHANGED <<review, plan>>
             \/ UNCHANGED plan /\ review' = rs
             \/ /\ UNCHANGED review /\ \A t \in Tasks : rs[t].status = "accepted"
                /\ plan' = [t \in Tasks |-> rs[t].range]
      BY <1>11 DEF PlanEnds
    <2>3. Given(rs)
      BY <1>1, <1>3
    <2> QED  BY <1>1, <1>4, <2>1, <2>2, <2>3
  <1>12. ASSUME NEW t \in Tasks, \/ Passes(t) \/ FreezeBegins(t)
                                 \/ \E m \in Workers : Reserves(t, m)
         PROVE  Goal
    <2>1. UNCHANGED <<accepted, review, asks, plan>>
      BY <1>12 DEF Passes, FreezeBegins, Reserves
    <2>2. cycle'.copy = NoReviews \/ cycle'.copy = cycle.copy
      <3>1. cycle \in Cycles
        BY <1>1 DEF DeliveryTypeOK
      <3> QED
        BY <1>12, <3>1, Nothings DEF Passes, FreezeBegins, Reserves, Raises, Cycles
    <2> QED  BY <1>1, <1>4, <2>1, <2>2
  <1>13. ASSUME NEW t \in Tasks, NEW v \in {"accepted", "rejected"}, Review(t, v) PROVE Goal
    <2>1. /\ review' = [review EXCEPT ![t].status = v] /\ UNCHANGED <<cycle, asks, plan>>
          /\ accepted' = [accepted EXCEPT ![t] = IF v = "accepted" THEN @ \cup {review[t].range}
                                                 ELSE @]
      BY <1>13 DEF Review
    <2>2. \A u \in Tasks : accepted[u] \subseteq accepted'[u]
      BY <1>1, <2>1 DEF DeliveryTypeOK
    <2>3. review[t] \in [status : {"pending", "accepted", "rejected"}, who : Workers,
                         rev : Nat, range : Ranges]
      BY <1>1, <1>13 DEF Review, Reviews
    <2>4. /\ review'[t].status = v /\ review'[t].range = review[t].range
          /\ \A u \in Tasks : u # t => review'[u] = review[u]
          /\ v = "accepted" => review[t].range \in accepted'[t]
      BY <1>1, <2>1, <2>3 DEF DeliveryTypeOK
    <2>5. VerdictsAreGiven(review)'
      BY <1>1, <2>2, <2>4 DEF VerdictsAreGiven
    <2> QED
      BY <1>1, <2>1, <2>2, <2>5 DEF VerdictsAreGiven, MergesWhatWasAccepted, NoBatch
  <1>14. ASSUME NEW t \in Tasks, Cancel(t) \/ Stop(t) \/ \E m \in Workers : Reassign(t, m)
         PROVE  Goal
    <2>1. UNCHANGED <<accepted, review, cycle, plan>>
      BY <1>14 DEF Cancel, Stop, Reassign
    <2>2. asks' = asks \/ asks'.copy = NoReviews
      BY <1>14, Nothings DEF Cancel, Stop, Reassign, Asks
    <2> QED  BY <1>1, <1>4, <2>1, <2>2
  <1>15. CASE MembersWork \/ UNCHANGED dvars
    <2>1. UNCHANGED <<accepted, review, cycle, asks, plan>>
      BY <1>15 DEF MembersWork
    <2> QED  BY <1>1, <1>4, <2>1
  <1>16. ASSUME NEW t \in Tasks, DeleteTask(t) PROVE Goal
    <2>1. UNCHANGED <<accepted, review, cycle, asks, plan>>
      BY <1>16 DEF DeleteTask
    <2> QED  BY <1>1, <1>4, <2>1
  <1> QED
    BY <1>5, <1>6, <1>7, <1>8, <1>9, <1>10, <1>11, <1>12, <1>13, <1>14, <1>15, <1>16
       DEF DeliveryNext

\* DeliveryInv is inductive.
THEOREM DeliveryInvariant == DeliverySpec => []DeliveryInv
  <1>1. DeliveryInv /\ [DeliveryNext]_dvars => DeliveryInv'
    BY DeliveryTypes, PublishedStep, VerdictsStep DEF DeliveryInv
  <1> QED  BY <1>1, InitDelivery, PTL DEF DeliverySpec

\* The coordinator's plan is of exactly the commits that the Lead accepted, and a run under
\* way has all its tasks on the board but those that somebody deleted (orchestration.py,
\* integration.py).
THEOREM DeliveriesStaySound == DeliverySpec => []DeliveriesAreSound
  <1>1. DeliveryInv => DeliveriesAreSound
    BY DEF DeliveryInv, DeliveriesAreSound
  <1> QED  BY <1>1, DeliveryInvariant, PTL

\* The variables of a delivery keep their types.
THEOREM DeliveryKeepsTypes == DeliverySpec => []DeliveryTypeOK
  <1>1. DeliveryInv => DeliveryTypeOK
    BY DEF DeliveryInv
  <1> QED  BY <1>1, DeliveryInvariant, PTL

-----------------------------------------------------------------------------
(* TeamIntegration *)

\* A call runs with its batch, and at a step of it.
CallsRunSteps ==
    /\ call.at = "idle" => call = NoCall
    /\ call # NoCall => batch.status = "running"
    /\ call.at \notin {"idle", "next"} => S \in Steps
    /\ batch.status = "completed" => S = LastStep + 1

\* The steps before the one at hand are verified, those after it are as they were planned.
StepsAdvance ==
    /\ \A s \in Steps : s < S => step[s].status = "verified"
    /\ \A s \in Steps : S < s =>
          step[s].status = "prepared" /\ step[s].pre = None /\ step[s].commit = None
    /\ S \in Steps /\ step[S].status = "verified" => call.at \in {"idle", "next"}
    /\ call.at \in {"merge", "apply", "commit", "observe", "verify", "reset", "drop", "rolled",
                    "restored"} => step[S].pre # None

\* Each step merged in a history is merged once, and in order.
InOrder(merged) ==
    \A i, j \in DOMAIN merged :
        ByUser < merged[i].step /\ ByUser < merged[j].step /\ i < j
        => merged[i].step < merged[j].step

\* Of the steps, only those before s are merged in a history.
MergedBefore(s, merged) == InOrder(merged) /\ \A i \in DOMAIN merged : merged[i].step < s

\* The branch as a step found it has the merges of all steps before, and of no other.
PreIsPast ==
    \A s \in Steps : step[s].pre # None =>
        /\ MergedBefore(s, step[s].pre)
        /\ \A r \in Steps : r < s => IsPrefix(step[r].commit, step[s].pre)

\* Between the last check of the branch and the merge only the user has committed.
NotYetMerged == call.at \in {"apply", "commit"} => MergedBefore(S, history)

\* So has nobody else since a rollback looked at the branch for the last time.
RestoredIsKept == call.at = "restored" => OnlyUserSince(step[S].pre) /\ merging = 0

IntegrationInv ==
    /\ IntegrationTypeOK /\ CallsRunSteps /\ StepsAdvance /\ PreIsPast /\ NotYetMerged
    /\ RestoredIsKept /\ BatchesAreWhole

-----------------------------------------------------------------------------
(* Histories: prefixes, and what a further commit changes. *)

\* A commit: of a step, or of the user.
OneCommit == [step : ByUser..LastStep, nr : Nat]
AnyCommit == [step : Nat, nr : Nat]

\* The histories of the branch are sequences, and no history is None.
LEMMA HistoriesAreSequences ==
    /\ Histories = Seq(OneCommit)
    /\ Histories \subseteq Seq(AnyCommit)
    /\ None \in Seq(AnyCommit)
    /\ None \notin Histories
  <1>1. Histories = Seq(OneCommit)
    BY DEF Histories, OneCommit
  <1>2. OneCommit \subseteq AnyCommit
    BY StepsAssumption DEF OneCommit, AnyCommit, ByUser
  <1>3. Histories \subseteq Seq(AnyCommit)
    BY <1>1, <1>2, SeqMonotonic
  <1>4. [step |-> LastStep + 1, nr |-> 0] \in AnyCommit
    BY StepsAssumption DEF AnyCommit
  <1>5. None \in Seq(AnyCommit)
    BY <1>4 DEF None
  <1>6. ASSUME None \in Histories PROVE FALSE
    <2>1. None[1] \in OneCommit
      BY <1>1, <1>6 DEF None
    <2> QED BY <2>1, StepsAssumption DEF None, OneCommit, ByUser
  <1> QED BY <1>1, <1>3, <1>5, <1>6

\* What is part of the history stays part of it when a commit follows.
LEMMA PrefixOfAppend ==
    ASSUME NEW a \in Seq(AnyCommit), NEW h \in Seq(AnyCommit), NEW c \in AnyCommit,
           IsPrefix(a, h)
    PROVE  IsPrefix(a, Append(h, c))
  <1>1. Len(a) <= Len(h) /\ Len(a) \in Nat /\ Len(h) \in Nat
    BY DEF IsPrefix
  <1>2. Len(Append(h, c)) = Len(h) + 1 /\ \A i \in 1..Len(h) : Append(h, c)[i] = h[i]
    BY AppendProperties
  <1>3. SubSeq(Append(h, c), 1, Len(a)) = SubSeq(h, 1, Len(a))
    BY <1>1, <1>2
  <1> QED BY <1>1, <1>2, <1>3 DEF IsPrefix

\* A further commit keeps the order when it is the user's, or the next step's.
LEMMA OrderOfAppend ==
    ASSUME NEW h \in Histories, NEW c \in OneCommit, InOrder(h),
           c.step = ByUser \/ MergedBefore(c.step, h)
    PROVE  /\ Append(h, c) \in Histories
           /\ InOrder(Append(h, c))
           /\ \A s \in Nat : MergedBefore(s, h) /\ c.step < s => MergedBefore(s, Append(h, c))
  <1>1. h \in Seq(OneCommit)
    BY HistoriesAreSequences
  <1>2. /\ Append(h, c) \in Seq(OneCommit) /\ Len(Append(h, c)) = Len(h) + 1 /\ Len(h) \in Nat
        /\ \A i \in 1..Len(h) : Append(h, c)[i] = h[i]
        /\ Append(h, c)[Len(h) + 1] = c
    BY <1>1, AppendProperties
  <1>3. DOMAIN Append(h, c) = 1..(Len(h) + 1) /\ DOMAIN h = 1..Len(h)
    BY <1>1, <1>2
  <1>4. \A i \in DOMAIN Append(h, c) : i \in DOMAIN h \/ i = Len(h) + 1
    BY <1>2, <1>3
  <1>5. ASSUME NEW i \in DOMAIN Append(h, c), NEW j \in DOMAIN Append(h, c),
               ByUser < Append(h, c)[i].step, ByUser < Append(h, c)[j].step, i < j
        PROVE  Append(h, c)[i].step < Append(h, c)[j].step
    <2>1. i \in DOMAIN h
      BY <1>2, <1>3, <1>5
    <2>2. CASE j \in DOMAIN h
      BY <1>2, <1>3, <1>5, <2>1, <2>2 DEF InOrder
    <2>3. CASE j = Len(h) + 1
      BY <1>2, <1>3, <1>5, <2>1, <2>3 DEF MergedBefore, ByUser
    <2> QED BY <1>4, <2>2, <2>3
  <1>6. InOrder(Append(h, c))
    BY <1>5 DEF InOrder
  <1>7. ASSUME NEW s \in Nat, MergedBefore(s, h), c.step < s, NEW i \in DOMAIN Append(h, c)
        PROVE  Append(h, c)[i].step < s
    BY <1>2, <1>3, <1>4, <1>7 DEF MergedBefore
  <1> QED BY <1>2, <1>6, <1>7, HistoriesAreSequences DEF MergedBefore

\* The merge of a step onto a history of the steps before is one of the steps up to it.
LEMMA MergeIsNext ==
    ASSUME NEW s \in Steps, NEW commit \in Histories, step[s].pre \in Histories,
           IsMerge(s, commit), MergedBefore(s, step[s].pre), InOrder(commit)
    PROVE  MergedBefore(s + 1, commit)
  <1>1. commit \in Seq(OneCommit) /\ s \in Nat
    BY HistoriesAreSequences DEF Steps
  <1>2. Len(commit) \in Nat
    BY <1>1
  <1>3. DOMAIN commit = 1..Len(commit) /\ \A i \in 1..Len(commit) : commit[i] \in OneCommit
    BY <1>1
  <1>4. SubSeq(commit, 1, Len(commit) - 1) = step[s].pre /\ commit[Len(commit)].step = s
    BY DEF IsMerge, Front, Last
  <1>5. ASSUME NEW i \in 1..Len(commit), i # Len(commit)
        PROVE  commit[i].step < s
    <2>1. i \in 1..(Len(commit) - 1)
      BY <1>2, <1>5
    <2>2. /\ Len(step[s].pre) = Len(commit) - 1
          /\ step[s].pre[i] = commit[i]
      <3>1. 1 \in Int /\ Len(commit) - 1 \in Int
        BY <1>2
      <3>2. \A k \in 1..(Len(commit) - 1) : commit[k] \in OneCommit
        BY <1>2, <1>3
      <3>3. /\ Len(SubSeq(commit, 1, Len(commit) - 1)) =
                   IF 1 <= Len(commit) - 1 THEN Len(commit) - 1 - 1 + 1 ELSE 0
            /\ \A k \in 1..(Len(commit) - 1 - 1 + 1) :
                  SubSeq(commit, 1, Len(commit) - 1)[k] = commit[1 + k - 1]
        BY <3>1, <3>2, SubSeqProperties
      <3> QED BY <1>2, <1>4, <2>1, <3>3
    <2>3. i \in DOMAIN step[s].pre
      BY <2>1, <2>2, HistoriesAreSequences
    <2> QED BY <2>2, <2>3 DEF MergedBefore
  <1>6. ASSUME NEW i \in DOMAIN commit
        PROVE  commit[i].step < s + 1
    <2>1. commit[i].step \in Nat
      BY <1>6, <1>3, StepsAssumption DEF OneCommit, ByUser
    <2>2. CASE i = Len(commit)
      BY <1>1, <1>4, <2>2
    <2>3. CASE i # Len(commit)
      <3>1. commit[i].step < s
        BY <1>5, <1>6, <1>3, <2>3
      <3> QED BY <1>1, <2>1, <3>1
    <2> QED BY <2>2, <2>3
  <1> QED BY <1>6 DEF MergedBefore

-----------------------------------------------------------------------------
(* Types and control. *)

BatchStages == {"idle", "next", "precheck", "merge", "apply", "commit", "observe", "verify", "rollback",
                "reset", "drop", "rolled", "restored", "fail", "recover", "confirm"}
Calls == [at : BatchStages, for : {"execute", "recover"}]
StepStates == {"prepared", "merging", "observed", "verified", "rolled_back", "failed", "manual"}
BatchStates == {"prepared", "running"} \cup Over
StepRecords == [status : StepStates, pre : Histories \cup {None}, commit : Histories \cup {None}]

\* The parts of the type invariant, each with its set named.
LEMMA Types ==
    IntegrationTypeOK <=>
        /\ history \in Histories /\ merging \in 0..LastStep /\ unclean \in BOOLEAN
        /\ step \in [Steps -> StepRecords] /\ observed \in [Steps -> Histories \cup {None}]
        /\ batch \in [status : BatchStates, next : 1..(LastStep + 1)]
        /\ call \in Calls /\ bound \in [user : 0..MaxUserCommits, cuts : 0..MaxCuts]
  BY DEF IntegrationTypeOK, StepRecords, StepStates, BatchStates, Calls, BatchStages

\* The same of the state after a step.
LEMMA TypesNext ==
    /\ history' \in Histories /\ merging' \in 0..LastStep /\ unclean' \in BOOLEAN
    /\ step' \in [Steps -> StepRecords] /\ observed' \in [Steps -> Histories \cup {None}]
    /\ batch' \in [status : BatchStates, next : 1..(LastStep + 1)]
    /\ call' \in Calls /\ bound' \in [user : 0..MaxUserCommits, cuts : 0..MaxCuts]
    => IntegrationTypeOK'
  BY DEF IntegrationTypeOK, StepRecords, StepStates, BatchStates, Calls, BatchStages

\* A batch begins with nothing merged.
LEMMA InitIntegration == IntegrationInit => IntegrationInv
  <1> SUFFICES ASSUME IntegrationInit PROVE IntegrationInv
    OBVIOUS
  <1> USE StepsAssumption, BoundsAssumption DEF IntegrationInit
  <1>1. <<>> \in Histories
    BY DEF Histories
  <1>2. IntegrationTypeOK
    <2>1. step \in [Steps -> StepRecords] /\ observed \in [Steps -> Histories \cup {None}]
      BY DEF StepRecords, StepStates
    <2>2. batch \in [status : BatchStates, next : 1..(LastStep + 1)] /\ call \in Calls
      BY DEF BatchStates, Calls, BatchStages, NoCall
    <2>3. merging \in 0..LastStep /\ bound \in [user : 0..MaxUserCommits, cuts : 0..MaxCuts]
      OBVIOUS
    <2>4. unclean \in BOOLEAN
      OBVIOUS
    <2> QED BY <1>1, <2>1, <2>2, <2>3, <2>4, Types
  <1>3. CallsRunSteps /\ StepsAdvance
    BY DEF CallsRunSteps, StepsAdvance, NoCall, Steps, S
  <1>4. PreIsPast /\ NotYetMerged /\ RestoredIsKept
    BY DEF PreIsPast, NotYetMerged, RestoredIsKept, NoCall
  <1>5. BatchesAreWhole
    BY DEF BatchesAreWhole, MergedOnceInOrder, VerifiedIsMerged
  <1> QED BY <1>2, <1>3, <1>4, <1>5 DEF IntegrationInv

\* A commit of the user, or of a step that is merged, is a commit.
LEMMA CommitTypes ==
    ASSUME IntegrationTypeOK
    PROVE  /\ [step |-> ByUser, nr |-> bound.user] \in OneCommit
           /\ S \in Steps => [step |-> S, nr |-> bound.cuts] \in OneCommit
  BY StepsAssumption, BoundsAssumption DEF IntegrationTypeOK, OneCommit, Steps, ByUser

\* Every step keeps the types.
LEMMA IntegrationTypeStep == IntegrationInv /\ [IntegrationNext]_ivars => IntegrationTypeOK'
  <1> SUFFICES ASSUME IntegrationInv, [IntegrationNext]_ivars PROVE IntegrationTypeOK'
    OBVIOUS
  <1> USE StepsAssumption, BoundsAssumption
  <1>0. /\ history \in Histories /\ merging \in 0..LastStep /\ unclean \in BOOLEAN
        /\ step \in [Steps -> StepRecords] /\ observed \in [Steps -> Histories \cup {None}]
        /\ batch \in [status : BatchStates, next : 1..(LastStep + 1)]
        /\ call \in Calls /\ bound \in [user : 0..MaxUserCommits, cuts : 0..MaxCuts]
    BY Types DEF IntegrationInv
  <1>1. call.at \notin {"idle", "next"} => S \in Steps
    BY DEF IntegrationInv, CallsRunSteps
  <1>2. ASSUME NEW at \in BatchStages PROVE GoTo(at) => call' \in Calls
    BY <1>0, <1>2 DEF GoTo, Calls
  <1>3. NoCall \in Calls /\ (GoToNext => call' \in Calls)
    BY DEF NoCall, GoToNext, Calls, BatchStages
  <1>4. ASSUME NEW status \in BatchStates, EndBatch(status)
        PROVE  batch' \in [status : BatchStates, next : 1..(LastStep + 1)] /\ call' \in Calls
    BY <1>0, <1>3, <1>4 DEF EndBatch
  <1>5. ASSUME S \in Steps, NEW status \in StepStates, NEW pre \in Histories \cup {None},
               NEW commit \in Histories \cup {None}
        PROVE  Save(status, pre, commit) => step' \in [Steps -> StepRecords]
    BY <1>0, <1>5 DEF Save, StepRecords
  <1>6. S \in Steps => /\ step[S] \in StepRecords /\ S + 1 \in 1..(LastStep + 1)
                       /\ step[S].pre \in Histories \cup {None}
                       /\ step[S].commit \in Histories \cup {None}
                       /\ observed[S] \in Histories \cup {None}
    BY <1>0 DEF Steps, StepRecords
  <1>7. CASE NextStep
    <2>1. UNCHANGED <<history, merging, unclean, step, observed, bound>>
      BY <1>7 DEF NextStep, git
    <2>2. call' \in Calls /\ batch' \in [status : BatchStates, next : 1..(LastStep + 1)]
      <3>1. CASE S > LastStep
        BY <1>4, <1>7, <3>1 DEF NextStep, BatchStates, Over
      <3>2. CASE ~(S > LastStep)
        <4>1. S \in Nat /\ S + 1 \in 1..(LastStep + 1)
          BY <1>0, <3>2 DEF S
        <4> QED BY <1>0, <1>2, <1>7, <3>2, <4>1 DEF NextStep, BatchStages
      <3> QED BY <3>1, <3>2
    <2> QED BY <1>0, <2>1, <2>2, TypesNext
  <1>8. CASE Precheck \/ Observe \/ Rolled
    <2>1. S \in Steps
      BY <1>1, <1>8 DEF Precheck, Observe, Rolled, CallAt
    <2>2. UNCHANGED <<history, merging, unclean, batch, bound>>
      BY <1>8 DEF Precheck, Observe, Rolled, git
    <2>3. call' \in Calls
      BY <1>2, <1>3, <1>8 DEF Precheck, Observe, Rolled, BatchStages
    <2>4. step' \in [Steps -> StepRecords]
      BY <1>0, <1>5, <1>6, <1>8, <2>1 DEF Precheck, Observe, Rolled, StepStates
    <2>5. observed' \in [Steps -> Histories \cup {None}]
      BY <1>0, <1>8 DEF Precheck, Observe, Rolled
    <2> QED BY <1>0, <2>2, <2>3, <2>4, <2>5, TypesNext
  <1>9. CASE MergeCheck \/ Apply \/ StepFails \/ Abort \/ ResetCheck \/ ResetSeen
    <2>1. UNCHANGED <<history, unclean, step, observed, batch, bound>>
      BY <1>9 DEF MergeCheck, Apply, StepFails, Abort, ResetCheck, ResetSeen, git, saved
    <2>2. call' \in Calls
      BY <1>2, <1>9 DEF MergeCheck, Apply, StepFails, Abort, ResetCheck, ResetSeen, BatchStages
    <2>3. merging' \in 0..LastStep
      <3>1. CASE Apply
        BY <1>1, <3>1 DEF Apply, CallAt, Steps
      <3> QED BY <1>0, <1>9, <3>1 DEF MergeCheck, StepFails, Abort, ResetCheck, ResetSeen, git
    <2> QED BY <1>0, <2>1, <2>2, <2>3, TypesNext
  <1>10. CASE Commit \/ Reset
    <2>1. S \in Steps
      BY <1>1, <1>10 DEF Commit, Reset, CallAt
    <2>2. UNCHANGED <<step, observed, batch, bound>> /\ unclean' \in BOOLEAN
      BY <1>0, <1>10 DEF Commit, Reset, saved
    <2>3. call' \in Calls /\ merging' \in 0..LastStep
      BY <1>0, <1>2, <1>10 DEF Commit, Reset, BatchStages
    <2>4. history' \in Histories
      <3>1. CASE Commit
        <4>1. [step |-> S, nr |-> bound.cuts] \in OneCommit
          BY <2>1, CommitTypes DEF IntegrationInv
        <4> QED BY <1>0, <3>1, <4>1, HistoriesAreSequences DEF Commit
      <3>2. CASE Reset
        BY <1>0, <1>6, <2>1, <3>2 DEF Reset, IntegrationInv, StepsAdvance, CallAt
      <3> QED BY <1>10, <3>1, <3>2
    <2> QED BY <1>0, <2>2, <2>3, <2>4, TypesNext
  <1>11. CASE Verify \/ Confirm
    <2>1. S \in Steps
      BY <1>1, <1>11 DEF Verify, Confirm, CallAt
    <2>2. UNCHANGED <<history, merging, unclean, observed, bound>>
      BY <1>11 DEF Verify, Confirm, git
    <2>3. call' \in Calls /\ batch' \in [status : BatchStates, next : 1..(LastStep + 1)]
      <3>1. [batch EXCEPT !.next = S + 1] \in [status : BatchStates, next : 1..(LastStep + 1)]
        BY <1>0, <1>6, <2>1
      <3> QED BY <1>0, <1>2, <1>3, <1>4, <1>11, <3>1 DEF Verify, Confirm, BatchStages, BatchStates, Over
    <2>4. step' \in [Steps -> StepRecords]
      BY <1>0, <1>5, <1>6, <1>11, <2>1 DEF Verify, Confirm, StepStates
    <2> QED BY <1>0, <2>2, <2>3, <2>4, TypesNext
  <1>12. CASE NothingToRollBack \/ RollbackFails \/ FailBatch \/ Decide
    <2>1. S \in Steps
      BY <1>1, <1>12 DEF NothingToRollBack, RollbackFails, FailBatch, Decide, CallAt
    <2>2. UNCHANGED <<history, merging, unclean, observed, bound>>
      BY <1>12 DEF NothingToRollBack, RollbackFails, FailBatch, Decide, git
    <2>3. call' \in Calls /\ batch' \in [status : BatchStates, next : 1..(LastStep + 1)]
      BY <1>0, <1>2, <1>3, <1>4, <1>12
         DEF NothingToRollBack, RollbackFails, FailBatch, Decide, BatchStages, BatchStates, Over
    <2>4. step' \in [Steps -> StepRecords]
      <3>1. CASE Decide
        <4>1. Known(S) \in Histories \cup {None}
          BY <1>6, <2>1 DEF Known
        <4> QED BY <1>0, <1>6, <2>1, <3>1, <4>1 DEF Decide, StepRecords, StepStates
      <3>2. CASE NothingToRollBack \/ RollbackFails \/ FailBatch
        BY <1>0, <1>6, <2>1, <3>2
           DEF NothingToRollBack, RollbackFails, FailBatch, StepRecords, StepStates
      <3> QED BY <1>12, <3>1, <3>2
    <2> QED BY <1>0, <2>2, <2>3, <2>4, TypesNext
  <1>13. CASE Execute \/ Recover
    <2>1. UNCHANGED <<history, merging, unclean, step, observed, bound>>
      BY <1>13 DEF Execute, Recover, git
    <2>2. call' \in Calls
      BY <1>3, <1>13 DEF Execute, Recover, Calls, BatchStages
    <2>3. batch' \in [status : BatchStates, next : 1..(LastStep + 1)]
      BY <1>0, <1>13 DEF Execute, Recover, BatchStates
    <2> QED BY <1>0, <2>1, <2>2, <2>3, TypesNext
  <1>14. CASE CutOff
    BY <1>0, <1>3, <1>14, TypesNext DEF CutOff, git, saved
  <1>15. CASE User
    <2>1. UNCHANGED <<step, observed, batch, call>>
      BY <1>15 DEF User, saved
    <2>2. merging' \in 0..LastStep /\ unclean' \in BOOLEAN
      <3>1. merging' \in {merging, 0}
        BY <1>15 DEF User
      <3>2. unclean' \in {TRUE, FALSE}
        BY <1>15 DEF User
      <3>3. unclean' \in BOOLEAN
        BY <3>2
      <3> QED BY <1>0, <3>1, <3>3
    <2>3. history' \in Histories
      <3>1. [step |-> ByUser, nr |-> bound.user] \in OneCommit
        BY CommitTypes DEF IntegrationInv
      <3>2. Append(history, [step |-> ByUser, nr |-> bound.user]) \in Histories
        BY <1>0, <3>1, HistoriesAreSequences
      <3> QED BY <1>0, <1>15, <3>2 DEF User
    <2>4. bound' \in [user : 0..MaxUserCommits, cuts : 0..MaxCuts]
      BY <1>0, <1>15 DEF User
    <2> QED BY <1>0, <2>1, <2>2, <2>3, <2>4, TypesNext
  <1>16. CASE UNCHANGED ivars
    BY <1>0, <1>16, TypesNext DEF ivars
  <1> QED
    BY <1>7, <1>8, <1>9, <1>10, <1>11, <1>12, <1>13, <1>14, <1>15, <1>16 DEF IntegrationNext

\* A call stays at its step, and the steps are verified one after the other.
LEMMA ControlStep == IntegrationInv /\ [IntegrationNext]_ivars => CallsRunSteps' /\ StepsAdvance'
  <1> SUFFICES ASSUME IntegrationInv, [IntegrationNext]_ivars PROVE CallsRunSteps' /\ StepsAdvance'
    OBVIOUS
  <1> USE StepsAssumption
  <1>0. /\ step \in [Steps -> StepRecords] /\ call \in Calls
        /\ batch \in [status : BatchStates, next : 1..(LastStep + 1)]
        /\ history \in Histories /\ S \in 1..(LastStep + 1)
    BY Types DEF IntegrationInv, S
  <1>1. CallsRunSteps /\ StepsAdvance
    BY DEF IntegrationInv
  <1>2. ASSUME NEW at, GoTo(at) PROVE call'.at = at
    BY <1>0, <1>2 DEF GoTo, Calls
  <1>3. NoCall.at = "idle" /\ (GoToNext => call'.at = "next")
    BY DEF NoCall, GoToNext
  <1>4. ASSUME NEW status, NEW pre, NEW commit, Save(status, pre, commit), S \in Steps
        PROVE  /\ step'[S].status = status /\ step'[S].pre = pre
               /\ \A s \in Steps : s # S => step'[s] = step[s]
    BY <1>0, <1>4 DEF Save
  <1>5. ASSUME NEW status, EndBatch(status)
        PROVE  /\ call' = NoCall /\ S' = S /\ batch'.status = status
    BY <1>0, <1>5 DEF EndBatch, S
  <1>6. ASSUME S' = S, \A s \in Steps : s # S => step'[s] = step[s],
               S \in Steps /\ step'[S].status = "verified" => call'.at \in {"idle", "next"},
               call'.at \in {"merge", "apply", "commit", "observe", "verify", "reset", "drop",
                             "rolled", "restored"} => step'[S].pre # None
        PROVE  StepsAdvance'
    BY <1>0, <1>1, <1>6 DEF StepsAdvance, Steps
  <1>7. ASSUME call.at \notin {"idle", "next"}
        PROVE  /\ S \in Steps /\ step[S].status # "verified"
               /\ call # NoCall /\ batch.status = "running"
    BY <1>1, <1>3, <1>7 DEF CallsRunSteps, StepsAdvance
  <1>8. CASE NextStep
    <2>1. batch.status = "running" /\ UNCHANGED step
      BY <1>1, <1>8 DEF NextStep, CallAt, NoCall, CallsRunSteps
    <2>2. CASE S > LastStep
      <3>1. EndBatch("completed") /\ S = LastStep + 1
        BY <1>0, <1>8, <2>2 DEF NextStep
      <3>2. CallsRunSteps'
        BY <1>3, <1>5, <3>1 DEF CallsRunSteps
      <3>3. StepsAdvance'
        BY <1>3, <1>5, <1>6, <2>1, <3>1
      <3> QED BY <3>2, <3>3
    <2>3. CASE S <= LastStep /\ step[S].status = "verified"
      <3>1. call' = call /\ call.at = "next" /\ S' = S + 1 /\ batch'.status = "running" /\ S \in Steps
        BY <1>0, <1>8, <2>1, <2>3 DEF NextStep, CallAt, S, Steps
      <3>2. CallsRunSteps'
        BY <3>1 DEF CallsRunSteps
      <3>3. StepsAdvance'
        BY <1>0, <1>1, <2>1, <2>3, <3>1 DEF StepsAdvance, Steps
      <3> QED BY <3>2, <3>3
    <2>4. CASE S <= LastStep /\ step[S].status # "verified"
      <3>1. call'.at = "precheck" /\ S' = S /\ batch'.status = "running" /\ S \in Steps
        BY <1>0, <1>2, <1>8, <2>1, <2>4 DEF NextStep, S, Steps
      <3>2. CallsRunSteps'
        BY <3>1 DEF CallsRunSteps
      <3>3. StepsAdvance'
        BY <1>6, <2>1, <2>4, <3>1
      <3> QED BY <3>2, <3>3
    <2> QED BY <1>0, <2>2, <2>3, <2>4
  <1>9. CASE \/ MergeCheck \/ Apply \/ Commit \/ StepFails
             \/ Abort \/ ResetCheck \/ Reset \/ ResetSeen
    <2>1. call.at \notin {"idle", "next"} /\ UNCHANGED <<step, batch>>
      BY <1>9
         DEF MergeCheck, Apply, Commit, StepFails, Abort, ResetCheck, Reset, ResetSeen, CallAt, saved
    <2>2. call'.at \in {"apply", "commit", "observe", "rollback", "reset", "drop", "rolled",
                        "restored"}
      BY <1>2, <1>9 DEF MergeCheck, Apply, Commit, StepFails, Abort, ResetCheck, Reset, ResetSeen
    <2>3. call'.at # "rollback" => step[S].pre # None
      BY <1>1, <1>2, <1>9
         DEF MergeCheck, Apply, Commit, StepFails, Abort, ResetCheck, Reset, ResetSeen, CallAt,
             StepsAdvance
    <2>4. CallsRunSteps'
      BY <1>7, <2>1, <2>2 DEF CallsRunSteps, S
    <2>5. StepsAdvance'
      BY <1>6, <1>7, <2>1, <2>2, <2>3 DEF S
    <2> QED BY <2>4, <2>5
  <1>10. CASE Precheck \/ Observe \/ Rolled \/ NothingToRollBack
    <2>1. call.at \notin {"idle", "next"} /\ UNCHANGED batch
      BY <1>10 DEF Precheck, Observe, Rolled, NothingToRollBack, CallAt
    <2>2. call' = NoCall \/ call'.at \in {"next", "merge", "verify", "fail"}
      BY <1>2, <1>3, <1>10 DEF Precheck, Observe, Rolled, NothingToRollBack
    <2>3. \A s \in Steps : s # S => step'[s] = step[s]
      BY <1>0, <1>4, <1>7, <1>10, <2>1 DEF Precheck, Observe, Rolled, NothingToRollBack
    <2>4. step'[S].status # "verified"
      <3>1. CASE step' = step
        BY <1>7, <2>1, <3>1
      <3>2. CASE \E pre, commit : \/ Save("merging", pre, commit) \/ Save("observed", pre, commit)
                                 \/ Save("rolled_back", pre, commit)
        BY <1>4, <1>7, <2>1, <3>2
      <3>3. CASE NothingToRollBack
        BY <1>0, <1>7, <2>1, <3>3 DEF NothingToRollBack, StepRecords
      <3> QED BY <1>10, <3>1, <3>2, <3>3 DEF Precheck, Observe, Rolled
    <2>5. call'.at \in {"merge", "verify"} => step'[S].pre # None
      <3>1. CASE Precheck
        <4>1. CASE Save("merging", history, step[S].commit)
          BY <1>0, <1>4, <1>7, <2>1, <4>1, HistoriesAreSequences
        <4> QED BY <1>3, <3>1, <4>1 DEF Precheck
      <3>2. CASE Observe
        <4>1. step[S].pre # None /\ Save("observed", step[S].pre, history)
          BY <1>1, <3>2 DEF Observe, StepsAdvance, CallAt
        <4> QED BY <1>4, <1>7, <2>1, <4>1
      <3>3. CASE Rolled \/ NothingToRollBack
        BY <1>2, <1>3, <3>3 DEF Rolled, NothingToRollBack
      <3> QED BY <1>10, <3>1, <3>2, <3>3
    <2>6. CallsRunSteps'
      BY <1>3, <1>7, <2>1, <2>2 DEF CallsRunSteps, S
    <2>7. StepsAdvance'
      BY <1>3, <1>6, <2>1, <2>2, <2>3, <2>4, <2>5 DEF S
    <2> QED BY <2>6, <2>7
  <1>11. CASE Verify \/ Confirm
    <2>1. call.at \notin {"idle", "next"}
      BY <1>11 DEF Verify, Confirm, CallAt
    <2>2. CASE UNCHANGED step
      <3>1. EndBatch("manual")
        BY <1>0, <1>4, <1>7, <1>11, <2>1, <2>2 DEF Verify, Confirm
      <3>2. CallsRunSteps'
        BY <1>3, <1>5, <3>1 DEF CallsRunSteps
      <3>3. StepsAdvance'
        BY <1>3, <1>5, <1>6, <2>2, <3>1
      <3> QED BY <3>2, <3>3
    <2>3. CASE \E commit : Save("verified", step[S].pre, commit)
      <3>1. step'[S].status = "verified" /\ \A s \in Steps : s # S => step'[s] = step[s]
        <4>1. PICK commit : Save("verified", step[S].pre, commit)
          BY <2>3
        <4> QED BY <1>4, <1>7, <2>1, <4>1
      <3>2. CASE batch' = [batch EXCEPT !.next = S + 1] /\ call'.at = "next"
        <4>1. S' = S + 1 /\ batch'.status = batch.status
          BY <1>0, <3>2 DEF S
        <4>2. CallsRunSteps'
          BY <1>7, <2>1, <3>2, <4>1 DEF CallsRunSteps
        <4>3. StepsAdvance'
          BY <1>0, <1>1, <1>7, <2>1, <3>1, <3>2, <4>1 DEF StepsAdvance, Steps
        <4> QED BY <4>2, <4>3
      <3>3. CASE UNCHANGED batch /\ call' = NoCall
        <4>1. CallsRunSteps'
          BY <1>3, <1>7, <2>1, <3>3 DEF CallsRunSteps, S
        <4>2. StepsAdvance'
          BY <1>3, <1>6, <3>1, <3>3 DEF S
        <4> QED BY <4>1, <4>2
      <3> QED BY <1>2, <1>3, <1>7, <1>11, <2>1, <3>1, <3>2, <3>3 DEF Verify, Confirm
    <2> QED BY <1>11, <2>2, <2>3 DEF Verify, Confirm
  <1>12. CASE RollbackFails \/ FailBatch \/ Decide
    <2>1. call.at \notin {"idle", "next"}
      BY <1>12 DEF RollbackFails, FailBatch, Decide, CallAt
    <2>2. \/ EndBatch("manual") \/ EndBatch("failed")
          \/ UNCHANGED batch /\ call'.at \in {"fail", "next", "rollback", "confirm"}
      BY <1>2, <1>3, <1>12 DEF RollbackFails, FailBatch, Decide
    <2>3. \A s \in Steps : s # S => step'[s] = step[s]
      BY <1>0, <1>12 DEF RollbackFails, FailBatch, Decide
    <2>4. step'[S].status # "verified"
      BY <1>0, <1>7, <1>12, <2>1 DEF RollbackFails, FailBatch, Decide, StepRecords
    <2>5. CallsRunSteps'
      BY <1>3, <1>5, <1>7, <2>1, <2>2 DEF CallsRunSteps, S
    <2>6. StepsAdvance'
      BY <1>3, <1>5, <1>6, <2>2, <2>3, <2>4 DEF S
    <2> QED BY <2>5, <2>6
  <1>13. CASE Execute \/ Recover
    <2>1. /\ batch'.status = "running" /\ S' = S /\ UNCHANGED step
          /\ call'.at = "next" \/ (call'.at = "recover" /\ S \in Steps /\ step[S].status \in Started)
      BY <1>0, <1>13 DEF Execute, Recover, GoToNext, S, Steps
    <2>2. CallsRunSteps'
      BY <2>1 DEF CallsRunSteps
    <2>3. StepsAdvance'
      BY <1>6, <2>1 DEF Started
    <2> QED BY <2>2, <2>3
  <1>14. CASE CutOff
    <2>1. call' = NoCall /\ UNCHANGED <<step, batch>> /\ batch.status = "running"
      BY <1>1, <1>14 DEF CutOff, saved, CallsRunSteps
    <2> QED BY <1>3, <1>6, <2>1 DEF CallsRunSteps, S
  <1>15. CASE UNCHANGED <<step, batch, call>>
    BY <1>1, <1>15 DEF CallsRunSteps, StepsAdvance, S
  <1> QED
    BY <1>8, <1>9, <1>10, <1>11, <1>12, <1>13, <1>14, <1>15
       DEF IntegrationNext, User, saved, ivars
-----------------------------------------------------------------------------
(* What is on the branch. *)

\* An action changes the record of the step at hand only.  The object id from before the
\* merge is taken before it, and a step is verified by comparing its commit with that.
LEMMA StepChanges ==
    ASSUME IntegrationInv, IntegrationNext
    PROVE  /\ \A s \in Steps : s # S => step'[s] = step[s]
           /\ S \in Steps => \/ step'[S].pre = step[S].pre
                             \/ Precheck /\ step'[S].pre = history
           /\ \A s \in Steps : step'[s].status = "verified" =>
                 \/ step'[s] = step[s]
                 \/ /\ s = S /\ IsMerge(S, history) /\ step'[S].commit = history
                    /\ step'[S].pre = step[S].pre /\ history' = history
  <1>0. step \in [Steps -> StepRecords]
    BY Types DEF IntegrationInv
  <1>1. ASSUME call.at \notin {"idle", "next"}
        PROVE  S \in Steps /\ step[S].status # "verified" /\ step[S] \in StepRecords
    BY <1>0, <1>1 DEF IntegrationInv, CallsRunSteps, StepsAdvance
  <1>2. CASE Precheck \/ Observe \/ Rolled \/ NothingToRollBack \/ RollbackFails \/ Decide
    <2>1. S \in Steps /\ step[S].status # "verified" /\ step[S] \in StepRecords
      BY <1>1, <1>2 DEF Precheck, Observe, Rolled, NothingToRollBack, RollbackFails, Decide, CallAt
    <2>2. \A s \in Steps : s # S => step'[s] = step[s]
      BY <1>0, <1>2
         DEF Precheck, Observe, Rolled, NothingToRollBack, RollbackFails, Decide, Save
    <2>3. CASE Precheck
      <3>1. \/ UNCHANGED step
            \/ step'[S] = [status |-> "merging", pre |-> history, commit |-> step[S].commit]
        BY <1>0, <2>1, <2>3 DEF Precheck, Save
      <3> QED BY <2>1, <2>2, <2>3, <3>1
    <2>4. CASE Observe \/ Rolled
      <3>1. \/ UNCHANGED step
            \/ step'[S] = [status |-> "observed", pre |-> step[S].pre, commit |-> history]
            \/ step'[S] = [status |-> "rolled_back", pre |-> step[S].pre, commit |-> step[S].commit]
        BY <1>0, <2>1, <2>4 DEF Observe, Rolled, Save
      <3> QED BY <2>1, <2>2, <3>1
    <2>5. CASE NothingToRollBack \/ RollbackFails
      <3>1. /\ step'[S].pre = step[S].pre
            /\ step'[S].status = step[S].status \/ step'[S].status \in {"failed", "manual"}
        BY <1>0, <2>1, <2>5 DEF NothingToRollBack, RollbackFails, StepRecords
      <3> QED BY <2>1, <2>2, <3>1
    <2>6. CASE Decide
      <3>1. /\ step'[S].pre = step[S].pre
            /\ step'[S].status = step[S].status \/ step'[S].status = "observed"
        BY <1>0, <2>1, <2>6 DEF Decide, StepRecords
      <3> QED BY <2>1, <2>2, <3>1
    <2> QED BY <1>2, <2>3, <2>4, <2>5, <2>6
  <1>3. CASE Verify \/ Confirm
    <2>1. S \in Steps /\ UNCHANGED history
      BY <1>1, <1>3 DEF Verify, Confirm, CallAt, git
    <2>2. UNCHANGED step \/ \E commit : Verifies(commit) /\ Save("verified", step[S].pre, commit)
      BY <1>3 DEF Verify, Confirm
    <2>3. ASSUME NEW commit, Verifies(commit), Save("verified", step[S].pre, commit)
          PROVE  /\ \A s \in Steps : s # S => step'[s] = step[s]
                 /\ step'[S].pre = step[S].pre /\ step'[S].commit = history
                 /\ IsMerge(S, history)
      BY <1>0, <2>1, <2>3 DEF Verifies, Save
    <2>4. CASE UNCHANGED step
      BY <2>4
    <2>5. CASE \E commit : Verifies(commit) /\ Save("verified", step[S].pre, commit)
      <3>1. /\ \A s \in Steps : s # S => step'[s] = step[s]
            /\ step'[S].pre = step[S].pre /\ step'[S].commit = history /\ IsMerge(S, history)
        BY <2>3, <2>5
      <3> QED BY <2>1, <3>1
    <2> QED BY <2>2, <2>4, <2>5
  <1>4. CASE UNCHANGED step
    BY <1>4
  <1> QED
    BY <1>2, <1>3, <1>4
       DEF IntegrationNext, Execute, NextStep, MergeCheck, Apply, Commit, StepFails, Abort,
           ResetCheck, Reset, ResetSeen, FailBatch, Recover, CutOff, User, saved

\* The branch, when a step finds it as expected, has the merges of all steps before.
LEMMA ExpectedIsPast ==
    ASSUME IntegrationInv, S \in Steps, history = Expected
    PROVE  /\ MergedBefore(S, history)
           /\ \A r \in Steps : r < S => IsPrefix(step[r].commit, history)
  <1>0. step \in [Steps -> StepRecords] /\ history \in Histories /\ S \in Nat
    BY Types DEF IntegrationInv, Steps
  <1>1. InOrder(history)
    BY DEF IntegrationInv, BatchesAreWhole, MergedOnceInOrder, InOrder
  <1>2. ASSUME NEW r \in Steps, r < S
        PROVE  IsPrefix(step[r].commit, history) /\ IsMerge(r, step[r].commit)
    BY <1>2 DEF IntegrationInv, StepsAdvance, BatchesAreWhole, VerifiedIsMerged
  <1>3. CASE S = 1
    <2>1. DOMAIN history = {}
      BY <1>3 DEF Expected
    <2>2. MergedBefore(S, history)
      BY <1>1, <2>1 DEF MergedBefore
    <2> QED BY <1>2, <2>2
  <1>4. CASE S # 1
    <2>1. S - 1 \in Steps /\ S - 1 < S /\ S - 1 + 1 = S
      BY <1>0, <1>4, StepsAssumption DEF Steps
    <2>2. history = step[S - 1].commit
      BY <1>4 DEF Expected
    <2>3. IsMerge(S - 1, history)
      BY <1>2, <2>1, <2>2
    <2>4. step[S - 1].pre # None /\ step[S - 1].pre \in Histories
      BY <1>0, <2>1, <2>3 DEF IsMerge, StepRecords
    <2>5. MergedBefore(S - 1, step[S - 1].pre)
      BY <2>1, <2>4 DEF IntegrationInv, PreIsPast
    <2>6. MergedBefore(S - 1 + 1, history)
      BY <1>0, <1>1, <2>1, <2>3, <2>4, <2>5, MergeIsNext
    <2> QED BY <1>2, <2>1, <2>6
  <1> QED BY <1>3, <1>4

\* What was on the branch before the merge of a step stays what it was.
LEMMA PreStep == IntegrationInv /\ [IntegrationNext]_ivars => PreIsPast'
  <1>1. CASE IntegrationInv /\ UNCHANGED ivars
    BY <1>1 DEF IntegrationInv, PreIsPast, ivars
  <1>2. ASSUME IntegrationInv, IntegrationNext, NEW s \in Steps, step'[s].pre # None
        PROVE  /\ MergedBefore(s, step'[s].pre)
               /\ \A r \in Steps : r < s => IsPrefix(step'[r].commit, step'[s].pre)
    <2>0. S \in 1..(LastStep + 1) /\ Steps \subseteq Nat
      BY <1>2, Types DEF IntegrationInv, S, Steps
    <2>1. s <= S
      BY <1>2, <2>0, StepChanges, StepsAssumption DEF IntegrationInv, StepsAdvance
    <2>2. \A r \in Steps : r < s => step'[r] = step[r]
      <3>1. ASSUME NEW r \in Steps, r < s PROVE r # S
        BY <2>0, <2>1, <3>1, StepsAssumption
      <3> QED  BY <1>2, <3>1, StepChanges
    <2>3. CASE step'[s].pre = step[s].pre
      <3>1. /\ MergedBefore(s, step[s].pre)
            /\ \A r \in Steps : r < s => IsPrefix(step[r].commit, step[s].pre)
        BY <1>2, <2>3 DEF IntegrationInv, PreIsPast
      <3> QED BY <2>2, <2>3, <3>1
    <2>4. CASE s = S /\ Precheck /\ step'[S].pre = history
      <3>1. /\ MergedBefore(S, history)
            /\ \A r \in Steps : r < S => IsPrefix(step[r].commit, history)
        BY <1>2, <2>4, ExpectedIsPast DEF Precheck
      <3> QED BY <2>2, <2>4, <3>1
    <2> QED BY <1>2, <2>3, <2>4, StepChanges
  <1> QED BY <1>1, <1>2 DEF PreIsPast, MergedBefore, InOrder

\* The branch grows by commits of the user and by merges of the step at hand, or goes
\* back to where that step found it.
LEMMA HistoryChanges ==
    ASSUME IntegrationInv, IntegrationNext
    PROVE  \/ history' = history
           \/ /\ \E c \in OneCommit : c.step = ByUser /\ history' = Append(history, c)
              /\ UNCHANGED <<step, batch, call>>
           \/ /\ call.at = "commit" /\ S \in Steps
              /\ \E c \in OneCommit : c.step = S /\ history' = Append(history, c)
           \/ call.at = "drop" /\ history' = step[S].pre
  <1>1. IntegrationTypeOK
    BY DEF IntegrationInv
  <1>2. CASE User
    <2>1. [step |-> ByUser, nr |-> bound.user] \in OneCommit
      BY <1>1, CommitTypes
    <2> QED BY <1>2, <2>1 DEF User, saved
  <1>3. CASE Commit
    <2>1. S \in Steps /\ call.at = "commit"
      BY <1>3 DEF IntegrationInv, CallsRunSteps, Commit, CallAt
    <2>2. [step |-> S, nr |-> bound.cuts] \in OneCommit
      BY <1>1, <2>1, CommitTypes
    <2> QED BY <1>3, <2>1, <2>2 DEF Commit
  <1>4. CASE Reset
    BY <1>4 DEF Reset, CallAt
  <1> QED
    BY <1>2, <1>3, <1>4
       DEF IntegrationNext, Execute, NextStep, Precheck, MergeCheck, Apply, Observe, Verify,
           StepFails, NothingToRollBack, Abort, ResetCheck, ResetSeen, Rolled, RollbackFails,
           FailBatch, Recover, Decide, Confirm, CutOff, git

\* Every step is merged once and in order.
LEMMA OrderStep == IntegrationInv /\ [IntegrationNext]_ivars => NotYetMerged' /\ MergedOnceInOrder'
  <1>1. CASE IntegrationInv /\ UNCHANGED ivars
    BY <1>1 DEF IntegrationInv, BatchesAreWhole, NotYetMerged, MergedOnceInOrder, ivars, S
  <1>2. ASSUME IntegrationInv, IntegrationNext
        PROVE  NotYetMerged' /\ MergedOnceInOrder'
    <2>0. /\ history \in Histories /\ call \in Calls /\ S \in 1..(LastStep + 1)
          /\ step \in [Steps -> StepRecords] /\ LastStep \in Nat
      BY <1>2, Types, StepsAssumption DEF IntegrationInv, S
    <2>1. InOrder(history) /\ NotYetMerged
      BY <1>2 DEF IntegrationInv, BatchesAreWhole, MergedOnceInOrder, InOrder
    <2>2. InOrder(history')
      <3>1. ASSUME NEW c \in OneCommit, c.step = ByUser \/ (c.step = S /\ call.at = "commit")
            PROVE  InOrder(Append(history, c))
        BY <2>0, <2>1, <3>1, OrderOfAppend DEF NotYetMerged
      <3>2. ASSUME call.at = "drop" PROVE InOrder(step[S].pre)
        <4>1. S \in Steps /\ step[S].pre # None
          BY <1>2, <3>2 DEF IntegrationInv, CallsRunSteps, StepsAdvance
        <4> QED BY <1>2, <4>1 DEF IntegrationInv, PreIsPast, MergedBefore
      <3> QED BY <1>2, <2>1, <3>1, <3>2, HistoryChanges
    <2>3. CASE MergeCheck
      <3>1. S \in Steps /\ step[S].pre # None /\ history = step[S].pre
        BY <1>2, <2>3 DEF MergeCheck, CallAt, IntegrationInv, CallsRunSteps, StepsAdvance
      <3>2. MergedBefore(S, history)
        BY <1>2, <3>1 DEF IntegrationInv, PreIsPast
      <3>3. UNCHANGED <<history, batch>>
        BY <2>3 DEF MergeCheck, git, saved
      <3> QED BY <2>2, <3>2, <3>3 DEF NotYetMerged, MergedOnceInOrder, InOrder, MergedBefore, S
    <2>4. CASE Apply
      <3>1. MergedBefore(S, history) /\ UNCHANGED <<history, batch>>
        BY <2>1, <2>4 DEF Apply, CallAt, saved, NotYetMerged
      <3> QED BY <2>2, <3>1 DEF NotYetMerged, MergedOnceInOrder, InOrder, MergedBefore, S
    <2>5. CASE User
      <3>1. UNCHANGED <<call, batch>> /\ S' = S
        BY <2>5 DEF User, saved, S
      <3>2. ASSUME call.at \in {"apply", "commit"}
            PROVE  MergedBefore(S, history')
        <4>1. MergedBefore(S, history) /\ S \in Steps /\ ByUser < S /\ S \in Nat
          BY <1>2, <2>1, <3>2 DEF NotYetMerged, IntegrationInv, CallsRunSteps, Steps, ByUser
        <4>2. ASSUME NEW c \in OneCommit, c.step = ByUser
              PROVE  MergedBefore(S, Append(history, c))
          BY <2>0, <2>1, <4>1, <4>2, OrderOfAppend
        <4>3. history' = history \/ \E c \in OneCommit : c.step = ByUser /\ history' = Append(history, c)
          BY <1>2, <2>5, CommitTypes DEF User, IntegrationInv
        <4> QED BY <4>1, <4>2, <4>3
      <3> QED BY <2>2, <3>1, <3>2 DEF NotYetMerged, MergedOnceInOrder, InOrder, MergedBefore
    <2>6. CASE ~(MergeCheck \/ Apply \/ User)
      <3>1. call'.at \notin {"apply", "commit"}
        BY <1>2, <2>0, <2>6
           DEF IntegrationNext, Execute, NextStep, Precheck, Commit, Observe, Verify, StepFails,
               NothingToRollBack, Abort, ResetCheck, Reset, ResetSeen, Rolled, RollbackFails,
               FailBatch, Recover, Decide, Confirm, CutOff, GoTo, GoToNext, EndBatch, NoCall,
               CallAt, Calls
      <3> QED BY <2>2, <3>1 DEF NotYetMerged, MergedOnceInOrder, InOrder
    <2> QED BY <2>3, <2>4, <2>5, <2>6
  <1> QED BY <1>1, <1>2

\* IsMerge, of values: commit merges step s, and nothing else, into pre.
MergeOf(s, pre, commit) ==
    pre # None /\ commit # pre /\ Front(commit) = pre /\ Last(commit).step = s

\* What the module says of merges, as a statement about values.
LEMMA MergeIsMergeOf ==
    /\ \A s, commit : IsMerge(s, commit) <=> MergeOf(s, step[s].pre, commit)
    /\ VerifiedIsMerged' <=>
          \A s \in Steps :
              /\ batch'.status = "completed" => step'[s].status = "verified"
              /\ step'[s].status = "verified" =>
                    IsPrefix(step'[s].commit, history') /\ MergeOf(s, step'[s].pre, step'[s].commit)
  BY DEF IsMerge, MergeOf, VerifiedIsMerged

\* What is verified is merged, and stays so.
LEMMA VerifiedStep == IntegrationInv /\ [IntegrationNext]_ivars => VerifiedIsMerged'
  <1>1. CASE IntegrationInv /\ UNCHANGED ivars
    BY <1>1 DEF IntegrationInv, BatchesAreWhole, VerifiedIsMerged, IsMerge, ivars
  <1>2. ASSUME IntegrationInv, IntegrationNext, NEW s \in Steps
        PROVE  /\ batch'.status = "completed" => step'[s].status = "verified"
               /\ step'[s].status = "verified" =>
                     IsPrefix(step'[s].commit, history') /\ MergeOf(s, step'[s].pre, step'[s].commit)
    <2>0. /\ history \in Histories /\ step \in [Steps -> StepRecords] /\ S \in 1..(LastStep + 1)
          /\ LastStep \in Nat /\ history \in Seq(AnyCommit)
      BY <1>2, Types, StepsAssumption, HistoriesAreSequences DEF IntegrationInv, S
    <2>1. batch'.status = "completed" => step'[s].status = "verified"
      <3>1. CallsRunSteps' /\ StepsAdvance'
        BY <1>2, ControlStep
      <3>2. s < LastStep + 1
        BY <2>0 DEF Steps
      <3> QED BY <3>1, <3>2 DEF CallsRunSteps, StepsAdvance
    <2>2. CASE /\ s = S /\ IsMerge(S, history) /\ step'[S].commit = history
               /\ step'[S].pre = step[S].pre /\ history' = history
      <3>1. MergeOf(s, step'[s].pre, step'[s].commit)
        BY <2>2, MergeIsMergeOf
      <3>2. IsPrefix(history, history)
        BY <2>0 DEF IsPrefix
      <3> QED BY <2>1, <2>2, <3>1, <3>2
    <2>3. ASSUME step'[s] = step[s], step[s].status = "verified"
          PROVE  IsPrefix(step'[s].commit, history') /\ MergeOf(s, step'[s].pre, step'[s].commit)
      <3>1. IsPrefix(step[s].commit, history) /\ MergeOf(s, step[s].pre, step[s].commit)
        BY <1>2, <2>3, MergeIsMergeOf DEF IntegrationInv, BatchesAreWhole, VerifiedIsMerged
      <3>2. step[s].commit \in Seq(AnyCommit)
        BY <2>0, HistoriesAreSequences DEF StepRecords
      <3>3. \A c \in OneCommit : IsPrefix(step[s].commit, Append(history, c))
        <4>1. OneCommit \subseteq AnyCommit
          BY StepsAssumption DEF OneCommit, AnyCommit, ByUser
        <4> QED BY <2>0, <3>1, <3>2, <4>1, PrefixOfAppend
      <3>4. ASSUME call.at = "drop", history' = step[S].pre
            PROVE  IsPrefix(step[s].commit, history')
        <4>1. S \in Steps /\ step[S].pre # None /\ step[S].status # "verified"
          BY <1>2, <3>4 DEF IntegrationInv, CallsRunSteps, StepsAdvance
        <4>2. s < S
          BY <1>2, <2>0, <2>3, <4>1 DEF IntegrationInv, StepsAdvance, Steps
        <4>3. IsPrefix(step[s].commit, step[S].pre)
          BY <1>2, <4>1, <4>2 DEF IntegrationInv, PreIsPast
        <4> QED BY <3>4, <4>3
      <3>5. IsPrefix(step[s].commit, history')
        BY <1>2, <3>1, <3>3, <3>4, HistoryChanges
      <3> QED BY <2>3, <3>1, <3>5
    <2> QED BY <1>2, <2>1, <2>2, <2>3, StepChanges
  <1> QED BY <1>1, <1>2, MergeIsMergeOf

\* A history is what the user has made of it, before the user's first commit and after one.
LEMMA OnlyUserSteps ==
    ASSUME NEW a \in Histories, NEW h \in Histories, IsPrefix(a, h),
           \A i \in DOMAIN h : i > Len(a) => h[i].step = ByUser,
           NEW c \in OneCommit, c.step = ByUser
    PROVE  /\ IsPrefix(a, a) /\ \A i \in DOMAIN a : ~(i > Len(a))
           /\ IsPrefix(a, Append(h, c))
           /\ \A i \in DOMAIN Append(h, c) : i > Len(a) => Append(h, c)[i].step = ByUser
  <1>1. a \in Seq(AnyCommit) /\ h \in Seq(AnyCommit) /\ c \in AnyCommit
    BY HistoriesAreSequences, StepsAssumption DEF OneCommit, AnyCommit, ByUser
  <1>2. IsPrefix(a, a) /\ \A i \in DOMAIN a : ~(i > Len(a))
    BY <1>1 DEF IsPrefix
  <1>3. IsPrefix(a, Append(h, c))
    BY <1>1, PrefixOfAppend
  <1>4. /\ DOMAIN Append(h, c) = 1..(Len(h) + 1) /\ DOMAIN h = 1..Len(h) /\ Len(h) \in Nat
        /\ \A i \in 1..Len(h) : Append(h, c)[i] = h[i]
        /\ Append(h, c)[Len(h) + 1] = c
    BY <1>1, AppendProperties
  <1>5. ASSUME NEW i \in DOMAIN Append(h, c), i > Len(a)
        PROVE  Append(h, c)[i].step = ByUser
    <2>1. CASE i \in DOMAIN h
      BY <1>4, <1>5, <2>1
    <2>2. CASE i = Len(h) + 1
      BY <1>4, <2>2
    <2> QED BY <1>4, <2>1, <2>2
  <1> QED BY <1>2, <1>3, <1>5

\* From the last look at the branch to the record of its result only the user steps in.
LEMMA RestoredStep == IntegrationInv /\ [IntegrationNext]_ivars => RestoredIsKept'
  <1> SUFFICES ASSUME IntegrationInv, [IntegrationNext]_ivars, call'.at = "restored"
               PROVE  OnlyUserSince(step[S].pre)' /\ merging' = 0
    BY DEF RestoredIsKept
  <1>0. /\ step \in [Steps -> StepRecords] /\ call \in Calls /\ history \in Histories
        /\ RestoredIsKept /\ CallsRunSteps /\ StepsAdvance
    BY Types DEF IntegrationInv
  <1>1. ASSUME call.at \in {"reset", "rolled", "restored"}
        PROVE  step[S].pre \in Histories
    BY <1>0, <1>1 DEF CallsRunSteps, StepsAdvance, StepRecords
  <1>2. CASE ResetCheck \/ ResetSeen
    <2>1. /\ UNCHANGED <<history, merging, step, batch>> /\ merging = 0
          /\ call.at \in {"reset", "rolled"} /\ history = step[S].pre
      BY <1>0, <1>2 DEF ResetCheck, ResetSeen, Quiet, CallAt, GoTo, Calls, git, saved
    <2>2. IsPrefix(history, history) /\ \A i \in DOMAIN history : ~(i > Len(history))
      <3>1. history \in Seq(AnyCommit)
        BY <1>0, HistoriesAreSequences
      <3> QED BY <3>1 DEF IsPrefix
    <2>3. step'[S'].pre = history /\ history' = history
      BY <2>1 DEF S
    <2> QED BY <2>1, <2>2, <2>3 DEF OnlyUserSince
  <1>3. CASE User
    <2>1. UNCHANGED <<step, batch, call>> /\ S' = S /\ call.at = "restored"
      BY <1>3 DEF User, saved, S
    <2>2. OnlyUserSince(step[S].pre) /\ merging = 0 /\ step[S].pre \in Histories
      BY <1>0, <1>1, <2>1 DEF RestoredIsKept
    <2>3. merging' = 0
      BY <1>3, <2>2 DEF User
    <2>4. CASE history' = history
      BY <2>1, <2>2, <2>3, <2>4 DEF OnlyUserSince
    <2>5. CASE history' = Append(history, [step |-> ByUser, nr |-> bound.user])
      <3>1. [step |-> ByUser, nr |-> bound.user] \in OneCommit
        BY CommitTypes DEF IntegrationInv
      <3>2. /\ IsPrefix(step[S].pre, history')
            /\ \A i \in DOMAIN history' : i > Len(step[S].pre) => history'[i].step = ByUser
        BY <1>0, <2>2, <2>5, <3>1, OnlyUserSteps DEF OnlyUserSince
      <3> QED BY <2>1, <2>3, <3>2 DEF OnlyUserSince
    <2> QED BY <1>3, <2>4, <2>5 DEF User
  <1>4. CASE UNCHANGED ivars
    BY <1>0, <1>4 DEF ivars, RestoredIsKept, OnlyUserSince, S
  <1>5. CASE IntegrationNext /\ ~(ResetCheck \/ ResetSeen \/ User)
    BY <1>0, <1>5
       DEF IntegrationNext, Execute, NextStep, Precheck, MergeCheck, Apply, Commit, Observe, Verify,
           StepFails, NothingToRollBack, Abort, Reset, Rolled, RollbackFails, FailBatch, Recover,
           Decide, Confirm, CutOff, GoTo, GoToNext, EndBatch, NoCall, CallAt, Calls
  <1> QED BY <1>2, <1>3, <1>4, <1>5

-----------------------------------------------------------------------------
\* Every step preserves the invariant.
LEMMA IntegrationInvStep == IntegrationInv /\ [IntegrationNext]_ivars => IntegrationInv'
  BY IntegrationTypeStep, ControlStep, PreStep, OrderStep, VerifiedStep, RestoredStep
     DEF IntegrationInv, BatchesAreWhole

\* The branch is where the batch says it is, or the user has been at work.
THEOREM IntegrationInvariant == IntegrationSpec => []IntegrationInv
  <1> QED BY InitIntegration, IntegrationInvStep, PTL DEF IntegrationSpec

\* The state of a batch and of the branch is well-typed.
THEOREM IntegrationTypes == IntegrationSpec => []IntegrationTypeOK
  <1>1. IntegrationInv => IntegrationTypeOK
    BY DEF IntegrationInv
  <1> QED BY <1>1, IntegrationInvariant, PTL

\* Wherever calls are cut off and whatever the user commits in between: every step of the
\* batch is merged once and in order, and what is reported as verified is merged.
THEOREM BatchesStayWhole == IntegrationSpec => []BatchesAreWhole
  <1>1. IntegrationInv => BatchesAreWhole
    BY DEF IntegrationInv
  <1> QED BY <1>1, IntegrationInvariant, PTL

\* A step is reported as rolled back only when nothing of its merge is left on the branch,
\* whatever the user does between the reset, the last look and the record of it.
THEOREM RollbackRestores == IntegrationSpec => RolledBackIsRestored
  <1>1. ASSUME IntegrationInv, [IntegrationNext]_ivars, NEW s \in Steps,
               step'[s].status = "rolled_back", step[s].status # "rolled_back"
        PROVE  OnlyUserSince(step[s].pre) /\ merging = 0
    <2>1. step \in [Steps -> StepRecords]
      BY <1>1, Types DEF IntegrationInv
    <2>2. Rolled
      BY <1>1, <2>1
         DEF IntegrationNext, Execute, NextStep, Precheck, MergeCheck, Apply, Commit, Observe, Verify,
             StepFails, NothingToRollBack, Abort, ResetCheck, Reset, ResetSeen, RollbackFails,
             FailBatch, Recover, Decide, Confirm, CutOff, User, Save, EndBatch, saved, ivars,
             StepRecords
    <2>3. s = S
      BY <1>1, <2>1, <2>2 DEF Rolled, Save
    <2>4. call.at = "restored" /\ RestoredIsKept
      BY <1>1, <2>2 DEF Rolled, CallAt, IntegrationInv
    <2> QED BY <2>3, <2>4 DEF RestoredIsKept
  <1>2. IntegrationInv /\ [IntegrationNext]_ivars =>
          [\A s \in Steps : step'[s].status = "rolled_back" /\ step[s].status # "rolled_back"
             => OnlyUserSince(step[s].pre) /\ merging = 0]_ivars
    BY <1>1
  <1> QED BY <1>2, IntegrationInvariant, PTL DEF IntegrationSpec, RolledBackIsRestored

-----------------------------------------------------------------------------
(* the four parts together *)

\* Each part does what its own specification allows, or nothing.
LEMMA PartsOfFiles == FilesSpec => Spec /\ WorktreeSpec /\ DeliverySpec /\ IntegrationSpec
  <1>1. FilesInit => Init /\ WorktreeInit /\ DeliveryInit /\ IntegrationInit
    BY DEF FilesInit
  <1>2. [FilesNext]_allvars => /\ [Next]_vars /\ [WorktreeNext]_wvars
                               /\ [DeliveryNext]_dvars /\ [IntegrationNext]_ivars
    BY DEF FilesNext, allvars
  <1> QED BY <1>1, <1>2, PTL DEF FilesSpec, Spec, WorktreeSpec, DeliverySpec, IntegrationSpec

\* Every variable of the four models keeps its type (roster.py, worktrees/lifecycle.py,
\* orchestration.py, integration.py).
THEOREM FilesTypes == FilesSpec => []WellTyped
  <1>1. TypeOK /\ WorktreeTypeOK /\ DeliveryTypeOK /\ IntegrationTypeOK => WellTyped
    BY DEF WellTyped
  <1> QED
    BY <1>1, PartsOfFiles, RosterTypes, WorktreeTypes, DeliveryKeepsTypes, IntegrationTypes, PTL

\* Whatever is removed, cleaned up, merged or rolled back, and wherever a process dies: a
\* member's files outlive its worktree, nobody changes a worktree under its occupant, unsaved
\* work goes only by force, and a step reported as rolled back has left nothing of its merge
\* on the branch (roster.py, worktrees/lifecycle.py, integration.py).
THEOREM WorkStaysKept == FilesSpec => WorkIsKept
  <1> QED BY PartsOfFiles, FilesStayWithTheWorktree, OccupiedIsLeftAlone, WorkSurvives,
             RollbackRestores, PTL
          DEF WorkIsKept
=============================================================================
