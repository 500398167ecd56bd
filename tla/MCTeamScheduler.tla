-------------------------- MODULE MCTeamScheduler --------------------------
(* How members are woken and run: the scheduler, the mailbox whose flush    *)
(* wakes them (TeamMailbox), and the pane in which a member may run         *)
(* (PaneControl).  TeamScheduler takes a wake as an input that may come at  *)
(* any time and a run as one step that ends at any time, so the three are   *)
(* searched one after the other: a behaviour is one of a single part, the   *)
(* others stay as they began.  Two members compete for one capacity slot;   *)
(* m2 gets a message from m1 and a task from the Lead.                      *)
EXTENDS TeamScheduler, TeamMailbox, PaneControl, TLC

CONSTANTS Searched,    \* of "scheduler", "mailbox", "pane"
          m1, m2

VARIABLE part

Text == [from |-> m1, to |-> m2, protocol |-> "text"]
PeerOnly == {Text}
PeerAndTask == {Text, [from |-> Lead, to |-> m2, protocol |-> "task_assignment"]}

allvars == <<vars, mvars, panevars, part>>

WakeInit == part \in Searched /\ Init /\ MailInit /\ PaneInit
WakeNext ==
    \/ part = "scheduler" /\ Next /\ UNCHANGED <<part, mvars, panevars>>
    \/ part = "mailbox" /\ MailNext /\ UNCHANGED <<part, vars, panevars>>
    \/ part = "pane" /\ PaneNext /\ UNCHANGED <<part, vars, mvars>>
WakeSpec == WakeInit /\ [][WakeNext]_allvars

\* Nothing that is fair is enabled where a part begins, so the fairness of the parts
\* that do not act demands nothing.
FairWakeSpec == WakeSpec /\ Fairness /\ MailFairness /\ PaneFairness

\* Every run ends by itself as well, as in LiveSpec.
LiveWakeSpec == FairWakeSpec /\ \A m \in Members : WF_vars(DriveRunEnds(m))

-----------------------------------------------------------------------------
\* A driver that was told to stop ends, a shutdown ends, and a run in a pane is given an
\* outcome, whatever the pane does.
RunsEnd == StoppedDriversEnd /\ ShutdownEnds /\ PaneRunsEnd
=============================================================================
