---------------------------- MODULE MemoryStore ----------------------------
(***************************************************************************)
(* The long-term memory: its files and the transaction that changes them   *)
(* (continuity/memory_store.py), and the update that follows a turn        *)
(* (continuity/memory_manager.py).                                         *)
(*                                                                         *)
(* Notes are kept in two places: with the project, and with the user, who  *)
(* has them in common with all projects.  An update changes both.  It      *)
(* writes a journal, with the old content in backups, replaces the files   *)
(* one by one, and marks the journal; who finds a journal completes it or  *)
(* takes it back.  The journal is the project's, also for the user's       *)
(* files.  Of a file is kept which updates it reflects.                    *)
(***************************************************************************)
EXTENDS Naturals, FiniteSets, Sequences

CONSTANTS Apps, Workspaces,
          WorkspaceOf,  \* the workspace a process works in
          MaxUpdates,   \* bound: updates
          MaxMemFaults  \* bound: crashes and errors of the file system

ASSUME MemoryAssumption == /\ WorkspaceOf \in [Apps -> Workspaces] /\ "user" \notin Workspaces
                           /\ MaxUpdates \in Nat /\ MaxMemFaults \in Nat

VARIABLES
    notes,    \* of each file the updates it reflects
    journal,  \* of each workspace
    memLock,  \* who holds the locks
    memPc,    \* where a process is in apply, load_indexes or recovery
    left,     \* the files it has still to treat
    purpose,  \* what it recovers for: "load" or "apply"
    enabled,  \* write_enabled: "yes", or why not: "busy", "error", "lost"
    view,     \* what it has loaded
    by,       \* the workspace of each update
    acked,    \* updates whose apply() returned
    memFaults,
    crossed   \* somebody worked over an update that had been interrupted

memvars == <<notes, journal, memLock, memPc, left, purpose, enabled, view, by, acked, memFaults,
             crossed>>

Files == Workspaces \cup {"user"}
Targets(p) == {WorkspaceOf[p], "user"}
None == [state |-> "none"]
Journal(p) == journal[WorkspaceOf[p]]
Nothing == [own |-> {}, user |-> {}]

Updates == 1..MaxUpdates
Journals == [state : {"open", "committed"}, update : Updates, old : [Files -> SUBSET Updates],
             backups : SUBSET Files]

MemTypeOK ==
    /\ notes \in [Files -> SUBSET Updates] /\ journal \in [Workspaces -> Journals \cup {None}]
    /\ memLock \subseteq Apps
    /\ memPc \in [Apps -> {"down", "start", "idle", "thinking", "swap", "mark", "clean", "load",
                          "undo"}]
    /\ left \in [Apps -> SUBSET Files] /\ enabled \in [Apps -> {"yes", "busy", "error", "lost"}]
    /\ purpose \in [Apps -> {"load", "apply"}]
    /\ view \in [Apps -> [own : SUBSET Updates, user : SUBSET Updates]]
    /\ by \in Seq(Workspaces) /\ Len(by) <= MaxUpdates /\ acked \subseteq Updates
    /\ memFaults \in 0..MaxMemFaults /\ crossed \in BOOLEAN

MemInit ==
    /\ notes = [f \in Files |-> {}] /\ journal = [w \in Workspaces |-> None] /\ memLock = {}
    /\ memPc = [p \in Apps |-> "start"] /\ left = [p \in Apps |-> {}]
    /\ purpose = [p \in Apps |-> "load"]
    /\ enabled = [p \in Apps |-> "yes"] /\ view = [p \in Apps |-> Nothing]
    /\ by = <<>> /\ acked = {} /\ memFaults = 0 /\ crossed = FALSE

Moves(p, where) == memPc' = [memPc EXCEPT ![p] = where]

-----------------------------------------------------------------------------
(* an update *)

\* MemoryManager.schedule and _update: after a turn, if the store may be written.
Schedules(p) ==
    /\ memPc[p] = "idle" /\ enabled[p] = "yes" /\ Moves(p, "thinking")
    /\ UNCHANGED <<notes, journal, memLock, left, purpose, enabled, view, by, acked, memFaults,
                   crossed>>

\* The model proposes nothing, or what is refused; or another process has the locks.
Refused(p) ==
    /\ memPc[p] = "thinking"
    /\ \/ Moves(p, "load") \/ Moves(p, "idle")
    /\ UNCHANGED <<notes, journal, memLock, left, purpose, enabled, view, by, acked, memFaults,
                   crossed>>

BugNewJournal(p, n) ==  \* the notes are not read again under the locks
    [state |-> "open", update |-> n,
     old |-> [f \in Files |-> IF f = "user" THEN view[p].user ELSE view[p].own],
     backups |-> {f \in Targets(p) : notes[f] # {}}]

\* What exists is copied; the new files, beside the old, are all used up when it is marked.
NewJournal(p, n) ==
    [state |-> "open", update |-> n, old |-> notes,
     backups |-> {f \in Targets(p) : notes[f] # {}}]

\* apply: the notes are read again under the locks; the journal is written last before the
\* files are replaced.
Applies(p) ==
    LET n == Len(by) + 1 IN
    /\ memPc[p] = "thinking" /\ memLock = {} /\ n <= MaxUpdates
    /\ memLock' = {p} /\ by' = Append(by, WorkspaceOf[p])
    /\ journal' = [journal EXCEPT ![WorkspaceOf[p]] = NewJournal(p, n)]
    /\ crossed' = (crossed \/ \E w \in Workspaces : journal[w] # None)
    /\ left' = [left EXCEPT ![p] = Targets(p)] /\ Moves(p, "swap")
    /\ purpose' = [purpose EXCEPT ![p] = "apply"]
    /\ UNCHANGED <<notes, enabled, view, acked, memFaults>>

Replace(p, f) ==
    /\ memPc[p] = "swap" /\ f \in left[p]
    /\ notes' = [notes EXCEPT ![f] = Journal(p).old[f] \cup {Journal(p).update}]
    /\ left' = [left EXCEPT ![p] = @ \ {f}]
    /\ Moves(p, IF left[p] = {f} THEN "mark" ELSE "swap")
    /\ UNCHANGED <<journal, memLock, purpose, enabled, view, by, acked, memFaults, crossed>>

Mark(p) ==
    /\ memPc[p] = "mark" /\ journal' = [journal EXCEPT ![WorkspaceOf[p]].state = "committed"]
    /\ Moves(p, "clean")
    /\ UNCHANGED <<notes, memLock, left, purpose, enabled, view, by, acked, memFaults, crossed>>

\* The backups, then the journal; apply returns, and the indexes are loaded again.
Cleans(p) ==
    /\ memPc[p] = "clean"
    /\ \/ /\ Journal(p).backups # {} /\ journal' = [journal EXCEPT ![WorkspaceOf[p]].backups = {}]
          /\ UNCHANGED <<memLock, memPc, acked>>
       \/ /\ Journal(p).backups = {} /\ journal' = [journal EXCEPT ![WorkspaceOf[p]] = None]
          /\ acked' = acked \cup {Journal(p).update} /\ memLock' = {} /\ Moves(p, "load")
    /\ UNCHANGED <<notes, left, purpose, enabled, view, by, memFaults, crossed>>

-----------------------------------------------------------------------------
(* recovery *)

\* Recovery begins with every file of the journal.
Undoes(p) == Moves(p, "undo") /\ left' = [left EXCEPT ![p] = Targets(p)]

\* An error while the update is written: it is taken back, or completed, at once.
UpdateFails(p) ==
    /\ memPc[p] \in {"swap", "mark", "clean"} /\ Undoes(p)
    /\ memFaults < MaxMemFaults /\ memFaults' = memFaults + 1
    /\ UNCHANGED <<notes, journal, memLock, purpose, enabled, view, by, acked, crossed>>

\* What a file has to be if the update is done; whether its old content can be had back.
Done(j, f) == notes[f] = j.old[f] \cup {j.update}
Lost(j, f) == \/ j.state = "committed" /\ ~Done(j, f)
              \/ j.state = "open" /\ j.old[f] # {} /\ f \notin j.backups

BugRestores(p, f) ==  \* a file that was not there before is left
    LET j == Journal(p) IN
    /\ memPc[p] = "undo" /\ f \in left[p] /\ ~Lost(j, f)
    /\ IF j.state = "committed" \/ f \notin j.backups THEN UNCHANGED <<notes, journal>>
       ELSE /\ notes' = [notes EXCEPT ![f] = j.old[f]]
            /\ journal' = [journal EXCEPT ![WorkspaceOf[p]].backups = @ \ {f}]
    /\ left' = [left EXCEPT ![p] = @ \ {f}]
    /\ UNCHANGED <<memLock, memPc, purpose, enabled, view, by, acked, memFaults, crossed>>

\* One file: of a committed update it is there already; of an open one it is taken back from
\* its backup, which is used up by that, or removed.
Restores(p, f) ==
    LET j == Journal(p) IN
    /\ memPc[p] = "undo" /\ f \in left[p] /\ ~Lost(j, f)
    /\ IF j.state = "committed" THEN UNCHANGED <<notes, journal>>
       ELSE /\ notes' = [notes EXCEPT ![f] = j.old[f]]
            /\ journal' = [journal EXCEPT ![WorkspaceOf[p]].backups = @ \ {f}]
    /\ left' = [left EXCEPT ![p] = @ \ {f}]
    /\ UNCHANGED <<memLock, memPc, purpose, enabled, view, by, acked, memFaults, crossed>>

\* The backup is not there, or an error, also while the indexes are loaded: what journal
\* there is stays, and memory is switched off.
SwitchesOff(p) ==
    /\ memPc[p] \in {"undo", "load"} /\ p \in memLock
    /\ \/ /\ memPc[p] = "undo" /\ \E f \in left[p] : Lost(Journal(p), f)
          /\ enabled' = [enabled EXCEPT ![p] = "lost"] /\ UNCHANGED memFaults
       \/ /\ memFaults < MaxMemFaults /\ memFaults' = memFaults + 1
          /\ enabled' = [enabled EXCEPT ![p] = "error"]
    /\ memLock' = {} /\ Moves(p, "idle") /\ left' = [left EXCEPT ![p] = {}]
    /\ UNCHANGED <<notes, journal, purpose, view, by, acked, crossed>>

\* All is restored.  After an update that failed that is all.
Recovered(p) ==
    /\ memPc[p] = "undo" /\ left[p] = {}
    /\ journal' = [journal EXCEPT ![WorkspaceOf[p]] = None]
    /\ IF purpose[p] = "load" THEN Moves(p, "load") /\ UNCHANGED memLock
       ELSE Moves(p, "idle") /\ memLock' = {}
    /\ UNCHANGED <<notes, left, purpose, enabled, view, by, acked, memFaults, crossed>>

-----------------------------------------------------------------------------
(* load_indexes *)

BugLoads(p) ==  \* what lies about is cleaned up before the journal is looked at
    /\ memPc[p] \in {"start", "load"} /\ memLock = {} /\ memLock' = {p}
    /\ purpose' = [purpose EXCEPT ![p] = "load"]
    /\ IF Journal(p) = None THEN Moves(p, "load") /\ UNCHANGED <<left, journal>>
       ELSE Undoes(p) /\ journal' = [journal EXCEPT ![WorkspaceOf[p]].backups = {}]
    /\ UNCHANGED <<notes, enabled, view, by, acked, memFaults, crossed>>

\* The locks are free, or memory is off for the rest of the run.
Loads(p) ==
    /\ memPc[p] \in {"start", "load"} /\ p \notin memLock
    /\ IF memLock # {} THEN /\ enabled' = [enabled EXCEPT ![p] = "busy"] /\ Moves(p, "idle")
                         /\ UNCHANGED <<memLock, left, purpose>>
       ELSE /\ memLock' = {p} /\ purpose' = [purpose EXCEPT ![p] = "load"] /\ UNCHANGED enabled
            /\ IF Journal(p) = None THEN Moves(p, "load") /\ UNCHANGED left ELSE Undoes(p)
    /\ UNCHANGED <<notes, journal, view, by, acked, memFaults, crossed>>

\* _cleanup_orphans: whatever lies beside the files of the process, those of the user too.
OrphansOf(p, j) ==
    IF j = None THEN j ELSE [j EXCEPT !.backups = @ \ Targets(p)]

Loaded(p) ==
    /\ memPc[p] = "load" /\ p \in memLock
    /\ journal' = [w \in Workspaces |-> OrphansOf(p, journal[w])]
    /\ crossed' = (crossed \/ \E w \in Workspaces : journal[w] # None)
    /\ view' = [view EXCEPT ![p] = [own |-> notes[WorkspaceOf[p]], user |-> notes["user"]]]
    /\ enabled' = [enabled EXCEPT ![p] = "yes"] /\ memLock' = {} /\ Moves(p, "idle")
    /\ UNCHANGED <<notes, left, purpose, by, acked, memFaults>>

\* The process dies; the next one starts.
AppDies(p) ==
    /\ memPc[p] # "down" /\ memFaults < MaxMemFaults /\ memFaults' = memFaults + 1
    /\ Moves(p, "down") /\ memLock' = memLock \ {p} /\ left' = [left EXCEPT ![p] = {}]
    /\ enabled' = [enabled EXCEPT ![p] = "yes"] /\ view' = [view EXCEPT ![p] = Nothing]
    /\ UNCHANGED <<notes, journal, purpose, by, acked, crossed>>
AppStarts(p) ==
    /\ memPc[p] = "down" /\ Moves(p, "start")
    /\ UNCHANGED <<notes, journal, memLock, left, purpose, enabled, view, by, acked, memFaults,
                   crossed>>

MemNext ==
    \E p \in Apps :
      \/ Schedules(p) \/ Refused(p) \/ Applies(p) \/ Mark(p) \/ Cleans(p) \/ UpdateFails(p)
      \/ SwitchesOff(p) \/ Recovered(p) \/ Loads(p) \/ Loaded(p) \/ AppDies(p) \/ AppStarts(p)
      \/ \E f \in Files : Replace(p, f) \/ Restores(p, f)

MemSpec == MemInit /\ [][MemNext]_memvars

-----------------------------------------------------------------------------
\* Whatever step an update is cut off at, and its recovery again: what a process has loaded
\* reflects an update in both places or in neither.
UpdatesAreWhole ==
    crossed \/ \A p \in Apps : \A n \in 1..Len(by) :
                 by[n] = WorkspaceOf[p] => (n \in view[p].own <=> n \in view[p].user)

\* After one crash or one error, wherever it falls, the next load finds what it needs to
\* recover.
OneFaultIsSurvived == memFaults <= 1 /\ ~crossed => \A p \in Apps : enabled[p] # "lost"

\* What apply() said is saved stays, whoever recovers what, as long as nobody works over an
\* interrupted update.
SavedStaysAlone == crossed \/ acked \subseteq notes["user"]

\* A memory update is loaded whole or not at all, one fault never makes the store
\* unreadable, and what was saved stays as long as nobody works over an interrupted update.
MemoryIsKept == UpdatesAreWhole /\ OneFaultIsSurvived /\ SavedStaysAlone

\* docs/phase-8-persistent-memory/spec.md:73 (N2): an update that is cut off does not
\* replace a valid state.
SavedStays == acked \subseteq notes["user"]
=============================================================================
