---------------------------- MODULE PaneControl ----------------------------
(***************************************************************************)
(* The control plane of one team member that lives in a terminal pane:     *)
(* the lead's broker and provisioner (teams/control.py, teams/panes.py,    *)
(* the resolver in cli.py), the lead's runtime of one run after the other  *)
(* (TerminalMemberRuntime), the pane host processes and the workers they   *)
(* start (teams/pane_host.py).  A pane host connects by the member's       *)
(* control file, which names one host id and its token; every host of the  *)
(* member, old or new, reads the same file.  A link is one TCP connection  *)
(* of one host process; its two directions are FIFO.                       *)
(***************************************************************************)
EXTENDS Integers, Sequences, FiniteSets

CONSTANTS MaxPaneRuns,   \* runs of the member, and so panes provisioned for it
          MaxTries,      \* connections one host process opens
          MaxPaneFaults  \* spawns that fail, panes that die, team switches

ASSUME PaneAssumption == {MaxPaneRuns, MaxTries, MaxPaneFaults} \subseteq Nat

Runs  == 1..MaxPaneRuns
Hosts == 1..MaxPaneRuns   \* a pane process, and the host id it was made for
Links == Hosts \X (1..MaxTries)
NoLink == <<0, 0>>

VARIABLES
  driver,        \* the lead's driver: idle, provision, waiting
  paneRun, outcome, stopping,
  hid,       \* the last host id authorized
  conn,      \* MemberControlBroker._connections of the member
  mine,      \* the connection the current runtime holds
  pending, tokens, told,   \* _pending, _tokens, resolved registration waiters
  file,      \* the host id in the control file, 0 without a file
  links,     \* per link: the id it registers, both queues, both ends
  host, tries, worker,     \* per pane process
  ended,     \* runs whose worker reached its own end
  paneFaults

leadvars == <<driver, paneRun, outcome, stopping, hid, mine>>
brokervars == <<conn, pending, tokens, told, file>>
hostvars == <<host, tries, worker, ended>>
panevars == <<leadvars, brokervars, links, hostvars, paneFaults>>

Item(kind, r) == [kind |-> kind, run |-> r]
Requested == [kind : {"registered", "shutdown"}, run : {0}]
               \cup [kind : {"run", "cancel"}, run : Runs]
Reported == [kind : {"register"}, run : {0}] \cup [kind : {"done", "stopped"}, run : Runs]
Sent(q, l, dir, m) == [q EXCEPT ![l][dir] = Append(@, m)]
Read(q, l, dir) == [q EXCEPT ![l][dir] = Tail(@)]
Leave(q, S, end) ==
  [l \in Links |-> IF l \in S THEN [q[l] EXCEPT ![end] = "closed"] ELSE q[l]]
Link(p) == <<p, tries[p]>>
Faulty == paneFaults < MaxPaneFaults /\ paneFaults' = paneFaults + 1

PaneInit ==
  /\ driver = "idle" /\ paneRun = 0 /\ hid = 0 /\ mine = NoLink /\ stopping = {}
  /\ outcome = [r \in Runs |-> "none"]
  /\ conn = NoLink /\ pending = {} /\ tokens = {} /\ told = {} /\ file = 0
  /\ links = [l \in Links |-> [id |-> 0, up |-> <<>>, down |-> <<>>, events |-> <<>>,
                               lead |-> "none", host |-> "none"]]
  /\ host = [p \in Hosts |-> "absent"] /\ tries = [p \in Hosts |-> 0]
  /\ worker = [p \in Hosts |-> 0] /\ ended = {} /\ paneFaults = 0

-----------------------------------------------------------------------------
(* The lead's driver.                                                       *)

\* Every process and link end of a killed pane goes with it.
Killed(S, q) ==
  /\ host' = [p \in Hosts |-> IF p \in S THEN "gone" ELSE host[p]]
  /\ worker' = [p \in Hosts |-> IF p \in S THEN 0 ELSE worker[p]]
  /\ links' = Leave(q, {l \in Links : l[1] \in S /\ q[l].host = "open"}, "host")

Settles(kind) == outcome' = [outcome EXCEPT ![paneRun'] = kind] /\ driver' = "idle"

Requests(r) ==
  /\ links' = Sent(links, conn, "down", Item("run", r))
  /\ mine' = conn /\ driver' = "waiting" /\ UNCHANGED outcome

\* The scheduler starts a run: on the member's connection when there is one.
RunsOnHost ==
  /\ driver = "idle" /\ paneRun < MaxPaneRuns /\ conn # NoLink
  /\ paneRun' = paneRun + 1 /\ Requests(paneRun')
  /\ UNCHANGED <<stopping, hid, brokervars, hostvars, paneFaults>>

\* Without one, a fresh host id is authorized, its token written to the
\* control file, and a pane started with that file.
Provisions ==
  /\ driver = "idle" /\ paneRun < MaxPaneRuns /\ conn = NoLink
  /\ paneRun' = paneRun + 1 /\ hid' = hid + 1 /\ driver' = "provision"
  /\ pending' = pending \cup {hid'} /\ tokens' = tokens \cup {hid'} /\ file' = hid'
  /\ host' = [host EXCEPT ![hid'] = "seek"]
  /\ UNCHANGED <<outcome, stopping, mine, conn, told, links, tries, worker, ended, paneFaults>>

\* The waiter resolved: the binding is published and the connection looked
\* up again; it may be gone by then.
Provisioned ==
  /\ driver = "provision" /\ hid \in told /\ UNCHANGED paneRun
  /\ IF conn # NoLink THEN Requests(paneRun)
     ELSE Settles("failed") /\ UNCHANGED <<links, mine>>
  /\ UNCHANGED <<stopping, hid, brokervars, hostvars, paneFaults>>

\* Publishing the binding failed: the host is told to shut down, the pane
\* is killed (tmux; Windows Terminal has no handle to kill).
PublishFails ==
  /\ driver = "provision" /\ hid \in told /\ Faulty /\ UNCHANGED paneRun /\ Settles("failed")
  /\ LET told1 == conn # NoLink /\ links[conn].id = hid IN
     /\ conn' = IF told1 THEN NoLink ELSE conn
     /\ \E S \in {{}, {hid}} :
          Killed(S, IF told1
                    THEN Leave(Sent(links, conn, "down", Item("shutdown", 0)), {conn}, "lead")
                    ELSE links)
  /\ UNCHANGED <<stopping, hid, mine, pending, tokens, told, file, tries, ended>>

\* No host registered in time: the run fails, the pane is killed if it can
\* be and the control file removed; the authorization stays.
ProvisionTimesOut ==
  /\ driver = "provision" /\ hid \notin told /\ UNCHANGED paneRun /\ Settles("failed")
  /\ file' = 0 /\ \E S \in {{}, {hid}} : Killed(S, links)
  /\ UNCHANGED <<stopping, hid, mine, conn, pending, tokens, told, tries, ended, paneFaults>>

\* A stop of the running member: a cancel request to its host.
Stops ==
  /\ driver = "waiting" /\ paneRun \notin stopping /\ stopping' = stopping \cup {paneRun}
  /\ links' = IF links[mine].lead = "open"
              THEN Sent(links, mine, "down", Item("cancel", paneRun)) ELSE links
  /\ UNCHANGED <<driver, paneRun, outcome, hid, mine, brokervars, hostvars, paneFaults>>

\* TerminalMemberRuntime.events: a result of another run is refused.
Hears ==
  /\ driver = "waiting" /\ links[mine].events # <<>> /\ UNCHANGED paneRun
  /\ LET r == Head(links[mine].events) IN Settles(IF r.run = paneRun THEN r.kind ELSE "failed")
  /\ links' = Read(links, mine, "events")
  /\ UNCHANGED <<stopping, hid, mine, brokervars, hostvars, paneFaults>>

\* The connection closed before a result came.
Loses ==
  /\ driver = "waiting" /\ links[mine].events = <<>> /\ links[mine].lead = "closed"
  /\ UNCHANGED paneRun /\ Settles("failed")
  /\ UNCHANGED <<stopping, hid, mine, brokervars, links, hostvars, paneFaults>>

\* The lead leaves the team and opens it again: a run still under way is
\* cut off, every connection closed, every authorization forgotten.
Reopens ==
  /\ driver \in {"idle", "waiting"} /\ Faulty /\ UNCHANGED paneRun
  /\ IF driver = "waiting" THEN Settles("failed") ELSE UNCHANGED <<driver, outcome>>
  /\ links' = Leave(links, {l \in Links : links[l].lead \in {"new", "open"}}, "lead")
  /\ conn' = NoLink /\ pending' = {} /\ tokens' = {}
  /\ UNCHANGED <<stopping, hid, mine, told, file, hostvars>>

-----------------------------------------------------------------------------
(* The broker: one handler per link.                                        *)

\* Bug: the connected host is not looked at.
BugRegisters(l) ==
  /\ links[l].lead = "new" /\ links[l].up # <<>> /\ links[l].id \in pending
  /\ conn' = l /\ pending' = pending \ {links[l].id} /\ told' = told \cup {links[l].id}
  /\ links' = [Sent(Read(links, l, "up"), l, "down", Item("registered", 0))
                 EXCEPT ![l].lead = "open"]
  /\ UNCHANGED <<leadvars, tokens, file, hostvars, paneFaults>>

\* A registration is taken when its token is known, its id still pending
\* and no host connected; otherwise the handler ends, and with it goes the
\* connection of the host id it had named, whoever holds it.
Registers(l) ==
  /\ links[l].lead = "new" /\ links[l].up # <<>>
  /\ LET id == links[l].id IN
     IF id \in tokens /\ conn = NoLink /\ id \in pending
     THEN /\ conn' = l /\ pending' = pending \ {id} /\ told' = told \cup {id}
          /\ links' = [Sent(Read(links, l, "up"), l, "down", Item("registered", 0))
                         EXCEPT ![l].lead = "open"]
     ELSE LET out == {l} \cup {k \in {conn} \ {NoLink} : links[k].id = id} IN
          /\ links' = Leave(links, out, "lead")
          /\ conn' = IF conn \in out THEN NoLink ELSE conn
          /\ UNCHANGED <<pending, told>>
  /\ UNCHANGED <<leadvars, tokens, file, hostvars, paneFaults>>

\* A result is put into the connection's queue.
Publishes(l) ==
  /\ links[l].lead = "open" /\ links[l].up # <<>>
  /\ links' = Sent(Read(links, l, "up"), l, "events", Head(links[l].up))
  /\ UNCHANGED <<leadvars, brokervars, hostvars, paneFaults>>

\* Bug: the handler ends without disconnecting.
BugEnds(l) ==
  /\ links[l].lead = "open" /\ links[l].up = <<>> /\ links[l].host = "closed"
  /\ conn' = IF conn = l THEN NoLink ELSE conn
  /\ links' = [links EXCEPT ![l].lead = "none"]
  /\ UNCHANGED <<leadvars, pending, tokens, told, file, hostvars, paneFaults>>

\* The host's end is closed and all it sent was read.
Ends(l) ==
  /\ links[l].lead = "open" /\ links[l].up = <<>> /\ links[l].host = "closed"
  /\ links' = Leave(links, {l}, "lead")
  /\ conn' = IF conn # NoLink /\ links[conn].id = links[l].id THEN NoLink ELSE conn
  /\ UNCHANGED <<leadvars, pending, tokens, told, file, hostvars, paneFaults>>

-----------------------------------------------------------------------------
(* A pane host process.                                                     *)

\* It reads the control file as it is now and registers.
Connects(p) ==
  /\ host[p] = "seek" /\ file # 0 /\ tries[p] < MaxTries
  /\ tries' = [tries EXCEPT ![p] = @ + 1] /\ host' = [host EXCEPT ![p] = "asked"]
  /\ links' = [links EXCEPT ![<<p, tries[p] + 1>>] =
       [id |-> file, up |-> <<Item("register", 0)>>, down |-> <<>>, events |-> <<>>,
        lead |-> "new", host |-> "open"]]
  /\ UNCHANGED <<leadvars, brokervars, worker, ended, paneFaults>>

\* The host gives its link up and will connect again.
Drops(p) ==
  /\ links' = Leave(links, {Link(p)}, "host")
  /\ host' = [host EXCEPT ![p] = "seek"]

\* What it does with the next message, or with the end of the stream.
Answered(p) ==
  /\ host[p] \in {"asked", "idle"}
  /\ IF links[Link(p)].down = <<>>
     THEN links[Link(p)].lead = "closed" /\ Drops(p) /\ UNCHANGED worker
     ELSE LET m == Head(links[Link(p)].down) IN
          /\ links' = IF m.kind = "shutdown"
                      THEN Leave(Read(links, Link(p), "down"), {Link(p)}, "host")
                      ELSE Read(links, Link(p), "down")
          /\ host' = [host EXCEPT ![p] = CASE m.kind = "run" -> "busy"
                                           [] m.kind = "shutdown" -> "gone"
                                           [] OTHER -> "idle"]
          /\ worker' = [worker EXCEPT ![p] = IF m.kind = "run" THEN m.run ELSE 0]
  /\ UNCHANGED <<leadvars, brokervars, tries, ended, paneFaults>>

\* The run's descriptor or its process cannot be made: the host's loop ends
\* with that error and connects again.
SpawnFails(p) ==
  /\ host[p] = "busy" /\ Faulty /\ Drops(p)
  /\ worker' = [worker EXCEPT ![p] = 0]
  /\ UNCHANGED <<leadvars, brokervars, tries, ended>>

\* The worker ends by itself and its result is sent.
WorkerEnds(p) ==
  /\ host[p] = "busy" /\ ended' = ended \cup {worker[p]}
  /\ links' = Sent(links, Link(p), "up", Item("done", worker[p]))
  /\ worker' = [worker EXCEPT ![p] = 0] /\ host' = [host EXCEPT ![p] = "idle"]
  /\ UNCHANGED <<leadvars, brokervars, tries, paneFaults>>

\* Bug: the host reports the run stopped and then ends its worker.
BugHeeds(p) ==
  /\ host[p] = "busy" /\ links[Link(p)].down # <<>>
  /\ Head(links[Link(p)].down) = Item("cancel", worker[p])
  /\ links' = Sent(Read(links, Link(p), "down"), Link(p), "up", Item("stopped", worker[p]))
  /\ host' = [host EXCEPT ![p] = "killing for nobody"]
  /\ UNCHANGED <<leadvars, brokervars, tries, worker, ended, paneFaults>>

\* While a worker runs: its own cancel request makes the host end it (a
\* cancel of another run is dropped), and so does the end of the stream.
Heeds(p) ==
  /\ host[p] = "busy"
  /\ IF links[Link(p)].down = <<>>
     THEN /\ links[Link(p)].lead = "closed"
          /\ host' = [host EXCEPT ![p] = "killing for nobody"] /\ UNCHANGED links
     ELSE /\ links' = Read(links, Link(p), "down")
          /\ host' = [host EXCEPT ![p] =
               IF Head(links[Link(p)].down) = Item("cancel", worker[p]) THEN "killing" ELSE @]
  /\ UNCHANGED <<leadvars, brokervars, tries, worker, ended, paneFaults>>

\* The worker is terminated (or killed after five seconds); only then does
\* the host report it stopped, or give up the link.
WorkerKilled(p) ==
  /\ host[p] \in {"killing", "killing for nobody"}
  /\ worker' = [worker EXCEPT ![p] = 0]
  /\ IF host[p] = "killing"
     THEN /\ links' = Sent(links, Link(p), "up", Item("stopped", worker[p]))
          /\ host' = [host EXCEPT ![p] = "idle"]
     ELSE Drops(p)
  /\ UNCHANGED <<leadvars, brokervars, tries, ended, paneFaults>>

\* The pane is closed by hand.
PaneDies(p) ==
  /\ host[p] \notin {"absent", "gone"} /\ Faulty /\ Killed({p}, links)
  /\ UNCHANGED <<leadvars, brokervars, tries, ended>>

-----------------------------------------------------------------------------
LeadActs == \/ RunsOnHost \/ Provisions \/ Provisioned \/ PublishFails \/ ProvisionTimesOut
            \/ Stops \/ Hears \/ Loses \/ Reopens
BrokerStep(l) == Registers(l) \/ Publishes(l) \/ Ends(l)
HostStep(p) == \/ Connects(p) \/ Answered(p) \/ SpawnFails(p) \/ WorkerEnds(p)
               \/ Heeds(p) \/ WorkerKilled(p) \/ PaneDies(p)

PaneNext == LeadActs \/ (\E l \in Links : BrokerStep(l)) \/ (\E p \in Hosts : HostStep(p))

PaneSpec == PaneInit /\ [][PaneNext]_panevars

\* The lead's loop and its timer run, handlers and hosts take what arrives,
\* a worker ends or is ended.  Nothing makes the lead start or stop a run.
PaneFairness ==
  /\ WF_panevars(Provisioned) /\ WF_panevars(ProvisionTimesOut)
  /\ WF_panevars(Hears) /\ WF_panevars(Loses)
  /\ \A l \in Links : WF_panevars(BrokerStep(l))
  /\ \A p \in Hosts : /\ WF_panevars(Answered(p)) /\ WF_panevars(WorkerEnds(p))
                      /\ WF_panevars(Heeds(p)) /\ WF_panevars(WorkerKilled(p))

-----------------------------------------------------------------------------
(* Type invariant: the range of every variable. *)
PaneTypeOK ==
  /\ driver \in {"idle", "provision", "waiting"}
  /\ paneRun \in 0..MaxPaneRuns /\ hid \in 0..MaxPaneRuns /\ paneFaults \in 0..MaxPaneFaults
  /\ outcome \in [Runs -> {"none", "done", "stopped", "failed"}]
  /\ stopping \subseteq Runs /\ ended \subseteq Runs
  /\ {conn, mine} \subseteq Links \cup {NoLink}
  /\ pending \subseteq tokens /\ tokens \subseteq Hosts /\ told \subseteq Hosts
  /\ file \in 0..MaxPaneRuns
  /\ links \in [Links -> [id : 0..MaxPaneRuns, up : Seq(Reported), down : Seq(Requested),
                         events : Seq(Reported), lead : {"none", "new", "open", "closed"},
                         host : {"none", "open", "closed"}]]
  /\ host \in [Hosts -> {"absent", "seek", "asked", "idle", "busy", "killing",
                         "killing for nobody", "gone"}]
  /\ tries \in [Hosts -> 0..MaxTries] /\ worker \in [Hosts -> 0..MaxPaneRuns]

\* The connection the broker holds is an open, registered link, and the only
\* one: a second host never serves the member beside the first.
\* (MemberControlBroker.register, disconnect.)
OneHostServes == \A l \in Links : links[l].lead = "open" <=> l = conn

\* What the lead takes as the outcome of a run is that run's own: a worker of
\* that run reached its end, or it was stopped on request; and no worker of
\* the run is left in any pane.  (TerminalMemberRuntime.events, the order in
\* which a host ends its worker and reports it.)
OutcomeIsOwn == \A r \in Runs :
  /\ outcome[r] = "done" => r \in ended
  /\ outcome[r] = "stopped" => r \in stopping
  /\ outcome[r] \in {"done", "stopped"} => \A p \in Hosts : worker[p] # r

\* A member has one host at a time, and a run is given its own outcome, never that of an
\* earlier one.
PanesAreServed == PaneTypeOK /\ OneHostServes /\ OutcomeIsOwn

\* Every run the lead starts has an outcome in the end, whichever pane dies,
\* registers late or is never heard of.  (The provisioning timeout, and the
\* end of a connection ending the run that waits on it.)
PaneRunsEnd == []<>(\A r \in Runs : paneRun >= r => outcome[r] # "none")

\* docs/phase-14b-isolated-member-backends/checklist.md:27 (I04): a repeated
\* registration is rejected, and the host that serves the member stays.
DuplicateIsRejected ==
  [][(conn # NoLink /\ tokens' = tokens
        /\ \E l \in Links : links[l].lead = "new" /\ links'[l].lead = "closed")
       => conn' = conn]_panevars
=============================================================================
