----------------------------- MODULE MCStorage ------------------------------
(* What processes share on disk: the team state behind its lease            *)
(* (TeamLease), the log of a session (SessionLog), the memory files         *)
(* (MemoryStore), the archive of a conversation (ContextArchive), and the   *)
(* copies of active skills (SkillRuntime).  A behaviour is one of a single  *)
(* part, the others stay as they began: the state spaces add up.            *)
(*                                                                          *)
(* The lease has three processes, interchangeable: one that stalls, one     *)
(* that takes over, and one that takes over from that.  Everything else has *)
(* two, q1 and q2, in different workspaces as far as the memory goes; only  *)
(* q1's conversation is followed, while q2 starts, sweeps and dies about    *)
(* it.  There are two skills, and s is a package.                           *)
EXTENDS TeamLease, SessionLog, MemoryStore, ContextArchive, SkillRuntime, TLC

CONSTANTS Searched,       \* of "lease", "session", "memory", "archive", "skills"
          p1, p2, p3, q1, q2

VARIABLE part

allvars == <<part, vars, logvars, memvars, contextvars, skillvars>>

\* Each process works in a workspace of its own.
Homes == [q \in {q1, q2} |-> IF q = q1 THEN "w1" ELSE "w2"]

StorageInit ==
    part \in Searched /\ Init /\ LogInit /\ MemInit /\ ContextInit /\ SkillInit

StorageNext ==
    \/ part = "lease" /\ Next
       /\ UNCHANGED <<part, logvars, memvars, contextvars, skillvars>>
    \/ part = "session" /\ LogNext
       /\ UNCHANGED <<part, vars, memvars, contextvars, skillvars>>
    \/ part = "memory" /\ MemNext
       /\ UNCHANGED <<part, vars, logvars, contextvars, skillvars>>
    \/ part = "archive" /\ ContextNext
       /\ UNCHANGED <<part, vars, logvars, memvars, skillvars>>
    \/ part = "skills" /\ SkillNext
       /\ UNCHANGED <<part, vars, logvars, memvars, contextvars>>

StorageSpec == StorageInit /\ [][StorageNext]_allvars

Symmetry == Permutations(Procs)

-----------------------------------------------------------------------------
\* Every variable of the five models keeps its type.
WellTyped == TypeOK /\ LogTypeOK /\ MemTypeOK /\ ContextTypeOK /\ SkillTypeOK
=============================================================================
