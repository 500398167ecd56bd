------------------------- MODULE WorktreeLifecycle --------------------------
(***************************************************************************)
(* One managed Git worktree: WorktreeLifecycleService                      *)
(* (worktrees/lifecycle.py), its record and marker (records.py), the Git   *)
(* commands it runs (git.py), rules applied to a new tree (initializer.py) *)
(* and the janitor (janitor.py), in processes that share the repository.   *)
(*                                                                         *)
(* A name has a working directory with a marker inside, a branch, a record *)
(* of its state and a file lock.  In a process the calls for a name wait   *)
(* for one another, so a process has one call (job) at most; the file lock *)
(* excludes the other processes while a worktree is entered, created or    *)
(* deleted; who enters has read the record before it has the lock.  Each   *)
(* Git command is a step: it may fail, time out before or after its        *)
(* effect, and the call may be cancelled or the process die around it.     *)
(***************************************************************************)
EXTENDS Naturals, FiniteSets

CONSTANTS Procs,       \* processes that share the repository
          MaxCommits   \* bound: commits made in the worktree

ASSUME FreeIsNobody == "free" \notin Procs
ASSUME CommitsAssumption == MaxCommits \in Nat

VARIABLES
    owner,      \* what the worktree is for: "task", or "member" (persistent); never changes
    root,       \* the directory: none, broken (git left something), bare, marked
    branch,     \* the branch exists
    commits,    \* [all, pushed]: those on the branch, those of them on a remote
    dirty,      \* there are uncommitted changes in the directory
    record,     \* state in the record file, or "none"
    lock,       \* the process that has the file lock, or Free
    lease,      \* processes that have entered the worktree: _active
    job,        \* the call each process has in progress
    outdated    \* processes about to enter with the record of a worktree that is gone

wvars == <<owner, root, branch, commits, dirty, record, lock, lease, job, outdated>>
tree == <<root, branch, commits, dirty>>

Free == "free"
NoJob == [kind |-> "none", at |-> "idle", oid |-> 0, force |-> FALSE]
Jobs == [kind : {"none", "create", "enter", "exit", "delete"},
         at : {"idle", "acquire", "record", "branch", "tree", "rules", "marked", "undo",
               "head", "status", "claim", "remove", "unref", "forget"},
         oid : 0..MaxCommits, force : BOOLEAN]

WorktreeTypeOK ==
    /\ owner \in {"task", "member"} /\ root \in {"none", "broken", "bare", "marked"}
    /\ branch \in BOOLEAN /\ dirty \in BOOLEAN
    /\ commits \in [all: 0..MaxCommits, pushed: 0..MaxCommits]
    /\ record \in {"none", "provisioning", "ready", "active", "retained", "deleting",
                  "misplaced"}
    /\ lock \in Procs \cup {Free} /\ lease \subseteq Procs /\ outdated \subseteq Procs
    /\ job \in [Procs -> Jobs]

WorktreeInit ==
    /\ owner \in {"task", "member"}
    /\ root = "none" /\ branch = FALSE /\ dirty = FALSE /\ record = "none"
    /\ commits = [all |-> 0, pushed |-> 0]
    /\ lock = Free /\ lease = {} /\ job = [p \in Procs |-> NoJob] /\ outdated = {}

\* validate_filesystem_identity: record and marker agree, the directory is on its branch.
\* A misplaced record has the identity of a worktree of this name that was there before.
Whole == record \notin {"none", "misplaced"} /\ root = "marked" /\ branch

\* async with self._lock_for(name): no other call of the process is at this name.
NameFree(p) == job[p] = NoJob
GoOn(p, at) == job' = [job EXCEPT ![p].at = at]
Ends(p) == job' = [job EXCEPT ![p] = NoJob] /\ lock' = Free /\ lease' = lease \ {p}

-----------------------------------------------------------------------------
(* create_or_recover: what exists already is only read and handed over *)

Create(p) ==
    /\ NameFree(p) /\ root = "none" /\ record = "none" /\ lock = Free
    /\ lock' = p
    /\ job' = [job EXCEPT ![p] = [NoJob EXCEPT !.kind = "create", !.at = "record"]]
    /\ UNCHANGED <<owner, tree, record, lease, outdated>>

\* HEAD is resolved and the record is written before Git changes anything.
CreateRecords(p) ==
    /\ job[p].at = "record"
    /\ record' = "provisioning" /\ GoOn(p, "branch")
    /\ outdated' = {q \in Procs : job[q].at = "acquire"}
    /\ UNCHANGED <<owner, tree, lock, lease>>

\* update-ref; a command that timed out may have had its effect.
CreateBranch(p) ==
    /\ job[p].at = "branch"
    /\ \/ branch' = TRUE /\ GoOn(p, "tree")
       \/ branch' \in BOOLEAN /\ GoOn(p, "undo")
    /\ UNCHANGED <<owner, root, commits, dirty, record, lock, lease, outdated>>

\* worktree add; if it fails, the branch is deleted, and nobody asks whether that worked.
CreateTree(p) ==
    /\ job[p].at = "tree"
    /\ \/ root' = "bare" /\ GoOn(p, "rules") /\ UNCHANGED branch
       \/ root' \in {"none", "broken"} /\ branch' \in BOOLEAN /\ GoOn(p, "undo")
    /\ UNCHANGED <<owner, commits, dirty, record, lock, lease, outdated>>

\* The rules are applied, the marker is written; a required rule may fail.
CreateMarks(p) ==
    /\ job[p].at = "rules"
    /\ \/ root' = "marked" /\ GoOn(p, "marked")
       \/ GoOn(p, "undo") /\ UNCHANGED root
    /\ UNCHANGED <<owner, branch, commits, dirty, record, lock, lease, outdated>>

CreateReady(p) ==
    /\ job[p].at = "marked"
    /\ record' = "ready" /\ Ends(p)
    /\ UNCHANGED <<owner, tree, outdated>>

\* A call that is cancelled, or that could not get the repository lock in 30 seconds.
CreateFails(p) ==
    /\ job[p].kind = "create" /\ job[p].at \in {"record", "branch", "tree", "rules"}
    /\ IF record = "none" THEN Ends(p) ELSE GoOn(p, "undo") /\ UNCHANGED <<lock, lease>>
    /\ UNCHANGED <<owner, tree, record, outdated>>

BugRollback(p) ==  \* the record goes although the branch or the tree is still there
    /\ job[p].at = "undo"
    /\ \/ root' = "none" /\ branch' = FALSE /\ record' = "none"
       \/ root' = "none" /\ record' = "none" /\ UNCHANGED branch
    /\ Ends(p)
    /\ UNCHANGED <<owner, commits, dirty, outdated>>

\* _rollback_new gives up at the first failure.  The branch must still be there: Git
\* refuses to delete one that worktree add's own cleaning up has deleted.
Rollback(p) ==
    /\ job[p].at = "undo"
    /\ \/ UNCHANGED <<root, branch, record>>
       \/ root' = "none" /\ UNCHANGED <<branch, record>>
       \/ branch /\ root' = "none" /\ branch' = FALSE /\ UNCHANGED record
       \/ branch /\ root' = "none" /\ branch' = FALSE /\ record' = "none"
    /\ Ends(p)
    /\ UNCHANGED <<owner, commits, dirty, outdated>>

-----------------------------------------------------------------------------
(* enter and suspend *)

\* What is validated here is used when a thread has acquired the lock, and not read again.
EnterChecks(p) ==
    /\ NameFree(p) /\ p \notin lease /\ Whole /\ record = "ready"
    /\ job' = [job EXCEPT ![p] = [kind |-> "enter", at |-> "acquire", oid |-> 0, force |-> FALSE]]
    /\ UNCHANGED <<owner, tree, record, lock, lease, outdated>>

BugEnter(p) ==  \* the record is taken for the occupancy
    /\ job[p].at = "acquire"
    /\ record' = IF p \in outdated THEN "misplaced" ELSE "active"
    /\ lock' = p /\ lease' = lease \cup {p}
    /\ job' = [job EXCEPT ![p] = NoJob] /\ outdated' = outdated \ {p}
    /\ UNCHANGED <<owner, tree>>

\* The record goes to the file as it was read, whatever the file has become meanwhile.
Enter(p) ==
    /\ job[p].at = "acquire" /\ lock = Free
    /\ record' = IF p \in outdated THEN "misplaced" ELSE "active"
    /\ lock' = p /\ lease' = lease \cup {p}
    /\ job' = [job EXCEPT ![p] = NoJob] /\ outdated' = outdated \ {p}
    /\ UNCHANGED <<owner, tree>>

\* The lock is another's, or the call is cancelled.
EnterFails(p) ==
    /\ job[p].at = "acquire"
    /\ job' = [job EXCEPT ![p] = NoJob] /\ outdated' = outdated \ {p}
    /\ UNCHANGED <<owner, tree, record, lock, lease>>

\* Whether the record can be updated or not, the lease is over.
Suspend(p) ==
    /\ NameFree(p) /\ p \in lease
    /\ record' = IF Whole /\ record = "active" /\ owner = "member" THEN "ready" ELSE record
    /\ lock' = Free /\ lease' = lease \ {p}
    /\ UNCHANGED <<owner, tree, job, outdated>>

-----------------------------------------------------------------------------
(* exit and delete *)

Exit(p) ==
    /\ NameFree(p) /\ p \in lease
    /\ job' = [job EXCEPT ![p] = [NoJob EXCEPT !.kind = "exit", !.at = "head"]]
    /\ UNCHANGED <<owner, tree, record, lock, lease, outdated>>

\* ACTIVE, absent and invalid worktrees are refused; a record that says active is not
\* believed: the lock is.
Delete(p, force) ==
    /\ NameFree(p) /\ p \notin lease /\ lock = Free /\ Whole
    /\ lock' = p
    /\ job' = [job EXCEPT ![p] = [NoJob EXCEPT !.kind = "delete", !.at = "head",
                                               !.force = force]]
    /\ UNCHANGED <<owner, tree, record, lease, outdated>>

\* cleanup_expired: what is old, whole and not persistent is deleted, never by force.
CleanUp(p) == owner = "task" /\ Delete(p, FALSE)

\* What exit() does with a worktree it does not delete; delete() leaves the record alone.
Keeps(p) ==
    /\ record' = IF job[p].kind = "exit" /\ record \notin {"none", "misplaced"}
                 THEN "retained" ELSE record
    /\ Ends(p)

\* protection(): rev-parse HEAD, then status and rev-list.
ReadHead(p) ==
    /\ job[p].at = "head" /\ root # "none"
    /\ job' = [job EXCEPT ![p].oid = commits.all, ![p].at = "status"]
    /\ UNCHANGED <<owner, tree, record, lock, lease, outdated>>

ReadStatus(p) ==
    /\ job[p].at = "status"
    /\ IF job[p].force \/ (~dirty /\ commits.all = commits.pushed)
       THEN GoOn(p, "claim") /\ UNCHANGED <<record, lock, lease>>
       ELSE Keeps(p)
    /\ UNCHANGED <<owner, tree, outdated>>

BugClaim(p) ==  \* the record is not marked before the tree goes
    /\ job[p].at = "claim" /\ Whole
    /\ GoOn(p, "remove")
    /\ UNCHANGED <<owner, tree, record, lock, lease, outdated>>

Claim(p) ==
    /\ job[p].at = "claim" /\ Whole
    /\ record' = "deleting" /\ GoOn(p, "remove")
    /\ UNCHANGED <<owner, tree, lock, lease, outdated>>

\* worktree remove: without --force Git refuses a tree with changes.
RemoveTree(p) ==
    /\ job[p].at = "remove" /\ (dirty => job[p].force)
    /\ root' = "none" /\ dirty' = FALSE
    /\ \/ GoOn(p, "unref") /\ UNCHANGED <<record, lock, lease>>
       \/ Keeps(p)
    /\ UNCHANGED <<owner, branch, commits, outdated>>

BugRemoveBranch(p) ==  \* update-ref -d without the object id that was checked
    /\ job[p].at = "unref" /\ branch
    /\ branch' = FALSE /\ commits' = [all |-> 0, pushed |-> 0]
    /\ GoOn(p, "forget") /\ UNCHANGED <<record, lock, lease, owner, root, dirty, outdated>>

\* update-ref -d: Git compares the branch with the object id that was checked.
RemoveBranch(p) ==
    /\ job[p].at = "unref" /\ branch /\ commits.all = job[p].oid
    /\ branch' = FALSE /\ commits' = [all |-> 0, pushed |-> 0]
    /\ \/ GoOn(p, "forget") /\ UNCHANGED <<record, lock, lease>>
       \/ Keeps(p)
    /\ UNCHANGED <<owner, root, dirty, outdated>>

Forget(p) ==
    /\ job[p].at = "forget"
    /\ record' = "none" /\ Ends(p)
    /\ UNCHANGED <<owner, tree, outdated>>

\* A check or a command fails without effect, the call is cancelled or times out.
DeleteFails(p) ==
    /\ job[p].kind \in {"exit", "delete"}
    /\ Keeps(p)
    /\ UNCHANGED <<owner, tree, outdated>>

-----------------------------------------------------------------------------
(* what goes on in the directory, and death: the locks go with the process *)

WorkInTree ==
    /\ root = "marked"
    /\ \/ ~dirty /\ dirty' = TRUE /\ UNCHANGED commits
       \/ /\ dirty /\ commits.all < MaxCommits
          /\ dirty' = FALSE /\ commits' = [commits EXCEPT !.all = @ + 1]
       \/ commits' = [commits EXCEPT !.pushed = commits.all] /\ UNCHANGED dirty
    /\ UNCHANGED <<owner, root, branch, record, lock, lease, job, outdated>>

Die(p) ==
    /\ job[p] # NoJob \/ p \in lease
    /\ job' = [job EXCEPT ![p] = NoJob] /\ lease' = lease \ {p}
    /\ lock' = IF lock = p THEN Free ELSE lock
    /\ outdated' = outdated \ {p}
    /\ UNCHANGED <<owner, tree, record>>

WorktreeNext ==
    \/ \E p \in Procs :
          \/ Create(p) \/ CreateRecords(p) \/ CreateBranch(p) \/ CreateTree(p)
          \/ CreateMarks(p) \/ CreateReady(p) \/ CreateFails(p) \/ Rollback(p)
          \/ EnterChecks(p) \/ Enter(p) \/ EnterFails(p) \/ Suspend(p) \/ Exit(p)
          \/ Delete(p, TRUE) \/ Delete(p, FALSE) \/ CleanUp(p)
          \/ ReadHead(p) \/ ReadStatus(p) \/ Claim(p) \/ RemoveTree(p)
          \/ RemoveBranch(p) \/ Forget(p) \/ DeleteFails(p) \/ Die(p)
    \/ WorkInTree

WorktreeSpec == WorktreeInit /\ [][WorktreeNext]_wvars

-----------------------------------------------------------------------------
\* One process at most is in the worktree, the one with the lock, whoever checked and waited
\* for it at the same time.
OneOccupant == \A p \in lease : lock = p /\ lease = {p}

\* A record that says a worktree can be entered tells the truth, also after a death in the
\* middle of a creation or a deletion, or an entry that came too late.
ReadyIsWhole == record = "ready" => Whole

\* Nothing that Git was made to create is ever without a record, whatever fails in a
\* creation, its rollback or a deletion: what is left over can be found.
NothingUnrecorded == root # "none" \/ branch => record # "none"

\* A worktree has one occupant, is complete when its record says that it is ready, and
\* nothing of it is there without a record to find it by.
WorktreesAreWhole == OneOccupant /\ ReadyIsWhole /\ NothingUnrecorded

\* Work is never lost but by force: a directory with changes is not removed, nor a branch
\* with commits that no remote has; not even force removes commits made after the check.
UnsavedWorkIsKept ==
    [][/\ root # "none" /\ dirty /\ root' = "none" => \E p \in Procs : job[p].force
       /\ branch /\ ~branch' /\ commits.all # commits.pushed
          => \E p \in Procs : job[p].force /\ job[p].oid = commits.all]_wvars

\* While a process is in a worktree (until it leaves itself) directory, branch and record
\* stay as they are: no deletion, clean-up, creation or entry gets between.
OccupiedStaysWhole ==
    [][\A p \in lease : job[p] = NoJob /\ Whole
                          => Whole' /\ (record' = record \/ p \notin lease')]_wvars

\* Phase 13, F22: a conflicting operation waits or fails while a worktree is entered, exited
\* or deleted, and cannot break its state: who is in a worktree finds it whole.
EnteredIsWhole == \A p \in lease : job[p] = NoJob => Whole

=============================================================================
