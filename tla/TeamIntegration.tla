-------------------------- MODULE TeamIntegration ---------------------------
(***************************************************************************)
(* Integration of the members' commits into the target branch:             *)
(* TeamIntegrationService (teams/integration.py) on CoordinatorGitBackend  *)
(* (teams/coordinator_git.py).                                             *)
(*                                                                         *)
(* A batch merges one step after the other: the state is saved, the merge  *)
(* is applied without a commit, committed, observed, verified.  Any call   *)
(* may be cut off between two of these (a cancelled tool call, a death of  *)
(* the process), and the next call, or recovery, has to find out from the  *)
(* saved step and from Git how far it got.  The branch lock admits one     *)
(* call at a time; the user, who works in the same directory, takes none.  *)
(* The object id of a commit is the history up to it; two attempts at a    *)
(* step make two commits, told apart by the calls cut off before.          *)
(***************************************************************************)
EXTENDS Naturals, Sequences, SequencesExt

CONSTANTS LastStep,         \* steps 1..LastStep of the batch, in topological order
          MaxUserCommits,   \* bound: commits of the user
          MaxCuts           \* bound: calls that are cut off

ASSUME StepsAssumption == LastStep \in Nat
ASSUME BoundsAssumption == MaxUserCommits \in Nat /\ MaxCuts \in Nat

Steps == 1..LastStep
None == <<[step |-> LastStep + 1, nr |-> 0]>>  \* no object id
ByUser == 0             \* the step of a commit of the user
Histories == Seq([step : ByUser..LastStep, nr : Nat])

VARIABLES
    history,    \* commits on the target branch since the baseline
    merging,    \* the merge in progress (MERGE_HEAD): a step, or 0
    unclean,    \* the user has uncommitted changes
    step,       \* record of each step: [status, pre, commit]
    observed,   \* the object id in the journal of each step: COMMIT_CREATED
    batch,      \* [status, next]
    call,       \* the call in progress: [at, for], "for" being what it does for whom
    bound       \* counts what MaxUserCommits and MaxCuts bound: [user, cuts]

ivars == <<history, merging, unclean, step, observed, batch, call, bound>>
git == <<history, merging, unclean>>
saved == <<step, observed, batch>>

NoCall == [at |-> "idle", for |-> "execute"]
Over == {"completed", "failed", "manual"}
Started == {"merging", "observed"}

IntegrationTypeOK ==
    /\ history \in Histories /\ merging \in 0..LastStep /\ unclean \in BOOLEAN
    /\ step \in [Steps -> [status : {"prepared", "merging", "observed", "verified",
                                     "rolled_back", "failed", "manual"},
                           pre : Histories \cup {None}, commit : Histories \cup {None}]]
    /\ observed \in [Steps -> Histories \cup {None}]
    /\ batch \in [status : {"prepared", "running"} \cup Over, next : 1..(LastStep + 1)]
    /\ call \in [at : {"idle", "next", "precheck", "merge", "apply", "commit", "observe",
                       "verify", "rollback", "reset", "drop", "rolled", "restored", "fail",
                       "recover", "confirm"},
                 for : {"execute", "recover"}]
    /\ bound \in [user : 0..MaxUserCommits, cuts : 0..MaxCuts]

IntegrationInit ==
    /\ history = <<>> /\ merging = 0 /\ unclean = FALSE
    /\ step = [s \in Steps |-> [status |-> "prepared", pre |-> None, commit |-> None]]
    /\ observed = [s \in Steps |-> None]
    /\ batch = [status |-> "prepared", next |-> 1]
    /\ call = NoCall /\ bound = [user |-> 0, cuts |-> 0]

S == batch.next     \* the step at hand
CallAt(where) == call.at = where
GoTo(where) == call' = [call EXCEPT !.at = where]
GoToNext == call' = [at |-> "next", for |-> "execute"]
\* A step saved with what changed; transition_step refuses to move a settled one.
Save(status, pre, commit) ==
    step' = [step EXCEPT ![S] = [status |-> status, pre |-> pre, commit |-> commit]]
Settled(s) == step[s].status \in {"verified", "failed", "manual"}
EndBatch(status) == batch' = [batch EXCEPT !.status = status] /\ call' = NoCall

\* target_snapshot: the working directory is clean and no operation is in progress.
Quiet == ~unclean /\ merging = 0

-----------------------------------------------------------------------------
(* execute *)

Execute ==
    /\ call = NoCall /\ batch.status \in {"prepared", "running"}
    /\ batch' = [batch EXCEPT !.status = "running"]
    /\ GoToNext
    /\ UNCHANGED <<git, step, observed, bound>>

\* The loop over the steps; a step verified before is passed over.
NextStep ==
    /\ CallAt("next")
    /\ IF S > LastStep THEN EndBatch("completed")
       ELSE IF step[S].status = "verified"
            THEN batch' = [batch EXCEPT !.next = S + 1] /\ UNCHANGED call
            ELSE GoTo("precheck") /\ UNCHANGED batch
    /\ UNCHANGED <<git, step, observed, bound>>

\* The branch must be where the batch, or the step before, left it.
Expected == IF S = 1 THEN <<>> ELSE step[S - 1].commit

BugPrecheck ==  \* the merge goes onto whatever is there
    /\ CallAt("precheck") /\ Quiet
    /\ IF Settled(S)
       THEN call' = NoCall /\ UNCHANGED step
       ELSE Save("merging", history, step[S].commit) /\ GoTo("merge")
    /\ UNCHANGED <<git, observed, batch, bound>>

Precheck ==
    /\ CallAt("precheck") /\ Quiet /\ history = Expected
    /\ IF Settled(S)
       THEN call' = NoCall /\ UNCHANGED step      \* an illegal transition: the call raises
       ELSE Save("merging", history, step[S].commit) /\ GoTo("merge")
    /\ UNCHANGED <<git, observed, batch, bound>>

\* begin_merge: the same check once more, then the merge.
MergeCheck ==
    /\ CallAt("merge") /\ Quiet /\ history = step[S].pre
    /\ GoTo("apply")
    /\ UNCHANGED <<git, saved, bound>>

\* A merge that conflicts, or times out too late, has begun as well.
Apply ==
    /\ CallAt("apply") /\ merging = 0
    /\ merging' = S
    /\ GoTo("commit") \/ GoTo("rollback")
    /\ UNCHANGED <<history, unclean, saved, bound>>

Commit ==
    /\ CallAt("commit") /\ merging = S
    /\ history' = Append(history, [step |-> S, nr |-> bound.cuts]) /\ merging' = 0
    /\ GoTo("observe") \/ GoTo("rollback")
    /\ UNCHANGED <<unclean, saved, bound>>

\* rev-parse HEAD: whatever is the head by now goes to the journal and to the step.
Observe ==
    /\ CallAt("observe")
    /\ observed' = [observed EXCEPT ![S] = history]
    /\ Save("observed", step[S].pre, history) /\ GoTo("verify")
    /\ UNCHANGED <<git, batch, bound>>

\* The commit merges step s, and nothing else, into what was there before.
IsMerge(s, commit) ==
    /\ step[s].pre # None /\ commit # step[s].pre
    /\ Front(commit) = step[s].pre /\ Last(commit).step = s

\* verify_integration_commit: the head is the merge of this step onto what was before.
Verifies(commit) ==
    Quiet /\ history = commit /\ IsMerge(S, history)

BugVerify ==  \* the parents of the commit are not compared
    /\ CallAt("verify") /\ Quiet /\ history = step[S].commit
    /\ Save("verified", step[S].pre, step[S].commit)
    /\ batch' = [batch EXCEPT !.next = S + 1] /\ GoTo("next")
    /\ UNCHANGED <<git, observed, bound>>

Verify ==
    /\ CallAt("verify") /\ Verifies(step[S].commit)
    /\ Save("verified", step[S].pre, step[S].commit)
    /\ \/ batch' = [batch EXCEPT !.next = S + 1] /\ GoTo("next")
       \/ call' = NoCall /\ UNCHANGED batch       \* cut off before the batch is saved
    /\ UNCHANGED <<git, observed, bound>>

\* A check fails, or a Git command fails or times out without effect.
StepFails ==
    /\ call.at \in {"precheck", "merge", "apply", "commit", "observe", "verify"}
    /\ GoTo("rollback")
    /\ UNCHANGED <<git, saved, bound>>

-----------------------------------------------------------------------------
(* rollback, for a step that failed and in recovery *)

\* Nothing of a step without pre_merge_oid was started.
NothingToRollBack ==
    /\ CallAt("rollback") /\ step[S].pre = None
    /\ step' = [step EXCEPT ![S].status = IF Settled(S) THEN @ ELSE "failed"]
    /\ GoTo("fail")
    /\ UNCHANGED <<git, observed, batch, bound>>

\* Any operation in progress is aborted.
Abort ==
    /\ CallAt("rollback") /\ step[S].pre # None
    /\ merging' = 0 /\ GoTo("reset")
    /\ UNCHANGED <<history, unclean, saved, bound>>

BugResetCheck ==  \* a clean directory is taken for a branch that is where it was
    /\ CallAt("reset") /\ Quiet
    /\ GoTo("restored")
    /\ UNCHANGED <<git, saved, bound>>

\* The head is read; when it is not what was there before the merge, the branch is reset.
ResetCheck ==
    /\ CallAt("reset") /\ Quiet
    /\ GoTo(IF history = step[S].pre THEN "restored" ELSE "drop")
    /\ UNCHANGED <<git, saved, bound>>

\* reset --hard: whatever is on the branch beyond that object id goes, and what the user has
\* not committed.
Reset ==
    /\ CallAt("drop")
    /\ history' = step[S].pre /\ merging' = 0 /\ unclean' = FALSE
    /\ GoTo("rolled")
    /\ UNCHANGED <<saved, bound>>

\* The branch is looked at once more ...
ResetSeen ==
    /\ CallAt("rolled") /\ Quiet /\ history = step[S].pre
    /\ GoTo("restored")
    /\ UNCHANGED <<git, saved, bound>>

\* ... and the result is saved, whatever the user has done to it since.
Rolled ==
    /\ CallAt("restored")
    /\ IF Settled(S) THEN UNCHANGED step ELSE Save("rolled_back", step[S].pre, step[S].commit)
    /\ IF call.for = "execute" THEN GoTo("fail") ELSE GoToNext
    /\ UNCHANGED <<git, observed, batch, bound>>

\* What cannot be rolled back is left to a human, unless it was rolled back before.
RollbackFails ==
    /\ call.at \in {"rollback", "reset", "drop", "rolled"} /\ step[S].pre # None
    /\ IF call.for = "execute"
       THEN /\ step' = [step EXCEPT ![S].status =
                         IF Settled(S) \/ @ = "rolled_back" THEN @ ELSE "manual"]
            /\ GoTo("fail") /\ UNCHANGED batch
       ELSE EndBatch("manual") /\ UNCHANGED step
    /\ UNCHANGED <<git, observed, bound>>

FailBatch ==
    /\ CallAt("fail") /\ EndBatch("failed")
    /\ UNCHANGED <<git, step, observed, bound>>

-----------------------------------------------------------------------------
(* recover *)

\* The object id in the journal is taken when the step has none, then Git is asked.
Known(s) == IF step[s].commit = None THEN observed[s] ELSE step[s].commit

Recover ==
    /\ call = NoCall /\ batch.status \in {"prepared", "running"} /\ S <= LastStep
    /\ call' = [at |-> IF step[S].status \in Started THEN "recover" ELSE "next",
                for |-> IF step[S].status \in Started THEN "recover" ELSE "execute"]
    /\ batch' = [batch EXCEPT !.status = "running"]
    /\ UNCHANGED <<git, step, observed, bound>>

\* recovery_decision: CONFIRM, ROLLBACK, RETRY, or MANUAL for a state nobody can explain.
Decide ==
    LET known == Known(S) IN
    /\ CallAt("recover")
    /\ step' = [step EXCEPT ![S].commit = known,
                            ![S].status = IF known # None /\ step[S].commit = None
                                          THEN "observed" ELSE @]
    /\ \/ known # None /\ history = known /\ GoTo("confirm") /\ UNCHANGED batch
       \/ /\ known = None \/ history # known
          /\ \/ merging # 0 /\ GoTo("rollback") /\ UNCHANGED batch
             \/ merging = 0 /\ history = step[S].pre /\ GoToNext /\ UNCHANGED batch
             \/ merging = 0 /\ IsMerge(S, history) /\ GoTo("confirm") /\ UNCHANGED batch
             \/ /\ merging = 0 /\ history # step[S].pre /\ ~IsMerge(S, history)
                /\ EndBatch("manual")
    /\ UNCHANGED <<git, observed, bound>>

Confirm ==
    LET commit == IF step[S].commit = None THEN history ELSE step[S].commit IN
    /\ CallAt("confirm")
    /\ IF Verifies(commit) /\ step[S].status \in Started
       THEN /\ Save("verified", step[S].pre, commit) /\ GoToNext
            /\ batch' = [batch EXCEPT !.next = S + 1]
       ELSE EndBatch("manual") /\ UNCHANGED step
    /\ UNCHANGED <<git, observed, bound>>

-----------------------------------------------------------------------------
\* The call is cancelled, or the process dies: the lock goes, what is saved stays.
CutOff ==
    /\ call # NoCall /\ bound.cuts < MaxCuts
    /\ call' = NoCall /\ bound' = [bound EXCEPT !.cuts = @ + 1]
    /\ UNCHANGED <<git, saved>>

\* The user edits, and commits; that concludes a merge in progress.
User ==
    /\ \/ ~unclean /\ unclean' = TRUE /\ UNCHANGED <<history, merging, bound>>
       \/ /\ bound.user < MaxUserCommits /\ bound' = [bound EXCEPT !.user = @ + 1]
          /\ history' = Append(history, [step |-> ByUser, nr |-> bound.user])
          /\ merging' = 0 /\ unclean' = FALSE
    /\ UNCHANGED <<saved, call>>

IntegrationNext ==
    \/ Execute \/ NextStep \/ Precheck \/ MergeCheck \/ Apply \/ Commit \/ Observe \/ Verify
    \/ StepFails \/ NothingToRollBack \/ Abort \/ ResetCheck \/ Reset \/ ResetSeen \/ Rolled
    \/ RollbackFails \/ FailBatch \/ Recover \/ Decide \/ Confirm \/ CutOff \/ User

IntegrationSpec == IntegrationInit /\ [][IntegrationNext]_ivars

-----------------------------------------------------------------------------
\* Wherever a call is cut off and whatever recovery makes of it, no step is merged twice,
\* and none before the steps it comes after.
MergedOnceInOrder ==
    \A i, j \in DOMAIN history :
        ByUser < history[i].step /\ ByUser < history[j].step /\ i < j
        => history[i].step < history[j].step

\* What is reported as merged is on the branch, as the merge of that very step: no
\* rollback of a later step takes it away.
VerifiedIsMerged ==
    \A s \in Steps :
        /\ batch.status = "completed" => step[s].status = "verified"
        /\ step[s].status = "verified" =>
              IsPrefix(step[s].commit, history) /\ IsMerge(s, step[s].commit)

\* A batch merges every step once and in order, and says verified only of what is
\* merged, wherever its calls were cut off.
BatchesAreWhole == MergedOnceInOrder /\ VerifiedIsMerged

\* On the branch there is what was there up to this commit, and then commits of the user.
OnlyUserSince(commit) ==
    /\ IsPrefix(commit, history)
    /\ \A i \in DOMAIN history : i > Len(commit) => history[i].step = ByUser

\* A step is reported as rolled back when nothing of its merge is left: the branch is where
\* it was before, but for what the user has committed since it was looked at, and no merge
\* is in progress (docs/phase-14c-team-coordinator/checklist.md, C32, C33).
RolledBackIsRestored ==
    [][\A s \in Steps : step'[s].status = "rolled_back" /\ step[s].status # "rolled_back"
          => OnlyUserSince(step[s].pre) /\ merging = 0]_ivars

\* What docs/phase-14c-team-coordinator/plan.md:381 says of the rollback: the branch is only
\* reset from the commit before the merge or from the merge commit of this very step.
OnlyOwnMergeIsReset ==
    [][IsPrefix(history, history') \/ IsMerge(S, history)]_ivars

=============================================================================
