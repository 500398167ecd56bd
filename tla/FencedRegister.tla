--------------------------- MODULE FencedRegister ---------------------------
(***************************************************************************)
(* What the lease and the repository promise together, without leases,     *)
(* locks, processes or time: leaders are elected in a sequence of terms,   *)
(* and the history of the team state is a sequence of commits in which     *)
(* each one is computed from its predecessor and none belongs to an        *)
(* earlier term than its predecessor.  A leader that was succeeded may     *)
(* still commit, but never after its successor has.                        *)
(***************************************************************************)
EXTENDS Naturals, Sequences

VARIABLES term,  \* terms begun so far
          log    \* the commits: [gen |-> term, base |-> revision computed from]

vars == <<term, log>>

Init == term = 0 /\ log = <<>>

Elect == term' = term + 1 /\ UNCHANGED log

Commit(g) ==
    /\ \A i \in DOMAIN log : log[i].gen <= g
    /\ log' = Append(log, [gen |-> g, base |-> Len(log)])
    /\ UNCHANGED term

Next == Elect \/ \E g \in 1..term : Commit(g)

Spec == Init /\ [][Next]_vars

=============================================================================
