---------------------------- MODULE MCTeamFiles -----------------------------
(* What a team does with files and with Git: the members' files             *)
(* (TeamRoster), a worktree (WorktreeLifecycle), what members deliver       *)
(* (TeamDelivery) and the branch that it is merged into (TeamIntegration).  *)
(* A behaviour is one of a single part, the others stay as they began: the  *)
(* state spaces add up, and a run searches the parts it names.              *)
(*                                                                          *)
(* A paned and an in-process member; processes and transactions alike are   *)
(* interchangeable.  The deliveries are of two tasks, of which d2 needs d1. *)
EXTENDS TeamRoster, WorktreeLifecycle, TeamDelivery, TeamIntegration, TLC

CONSTANTS Searched,                     \* of "roster", "worktree", "delivery", "integration"
          m1, m2, p1, p2, x1, x2, d1, d2

VARIABLE part

D2NeedsD1 == [t \in Tasks |-> IF t = d2 THEN {d1} ELSE {}]

allvars == <<vars, wvars, dvars, ivars, part>>

FilesInit ==
    /\ part \in Searched
    /\ Init /\ WorktreeInit /\ DeliveryInit /\ IntegrationInit
    /\ part # "worktree" => owner = "task"

FilesNext ==
    \/ part = "roster" /\ Next /\ UNCHANGED <<part, wvars, dvars, ivars>>
    \/ part = "worktree" /\ WorktreeNext
                          /\ UNCHANGED <<part, vars, dvars, ivars>>
    \/ part = "delivery" /\ DeliveryNext
                          /\ UNCHANGED <<part, vars, wvars, ivars>>
    \/ part = "integration" /\ IntegrationNext
                             /\ UNCHANGED <<part, vars, wvars, dvars>>

FilesSpec == FilesInit /\ [][FilesNext]_allvars

Symmetry == Permutations(Leads) \cup Permutations(Txs)

-----------------------------------------------------------------------------
\* Every variable of the four models keeps its type.
WellTyped == TypeOK /\ WorktreeTypeOK /\ DeliveryTypeOK /\ IntegrationTypeOK

\* A member's files go only after its worktree, an occupied worktree is left alone, commits
\* of a worktree go only when they are safe elsewhere, and a rollback leaves nothing of the
\* merge on the branch.
WorkIsKept == /\ FilesOutliveWorktree /\ OccupiedStaysWhole /\ UnsavedWorkIsKept
              /\ RolledBackIsRestored
=============================================================================
