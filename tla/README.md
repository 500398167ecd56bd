# A verification project for MewCode

MewCode (`src/mewcode/`) is an agent for the command line: a REPL drives a model
through turns of tool calls, and around that core it keeps sessions and memory on
disk, runs sub-agents in the background, gives each of them a Git Worktree, talks to
MCP servers, runs hooks, and lets one *Lead* direct a *team* of long-lived members
that work concurrently, survive restarts and share one persistent state.

This directory holds TLA+ models of that program, the TLC configurations that check
them on small instances, and TLAPS proofs that hold for every instance. Paths below
are relative to `src/mewcode/`; `docs/` and `tests/` are the repository's.

Running it: `tlc -config X.cfg M` in this directory for a run of the table in section
4, `tlapm M.tla` for a proof module.

## 1. The system

### 1.1 Components

| Component | Source | State it keeps | Operations | What makes it correct |
|---|---|---|---|---|
| Capacity pool | `agent/capacity.py` | `_active` tokens, `_waiters` deque, futures | `acquire`, `try_acquire`, `try_reserve`, consume, release, close | limit, FIFO, no slot lost to a cancellation, one claim per owner |
| Team scheduler | `teams/scheduler.py` | driver tasks, runtimes, reservations, startup futures | `request_wake`, `try_reserve`, `stop`, `close`, `restore`, `_drive` | one run per member, no wake lost, stale outcomes refused, shutdown ends |
| Task board, approvals | `teams/domain.py`, `tasks.py`, `approvals.py`, `policy.py` | tasks, revisions, epochs, approvals, permits | create, update, assign, claim, transition, delete, request, decide, permit | dependency graph stays live, approvals bound to epoch, side effects only when approved |
| Roster | `teams/roster.py` | members, registry, journals, Worktree/session/mailbox/pane of each | `add_member`, `remove_member`, `recover`, `stop`, `resume`, `refresh_role` | no leaked and no lost files across crashes |
| Lease and repository | `teams/leases.py`, `repository.py`, `locking.py` | lease file, state file, revision | acquire, renew, release, compare-and-swap | one Lead writes at a time, no update lost |
| Mailbox | `teams/mailbox.py`, `inbound.py`, `protocols.py` | outbox in the team state, append-only mailbox files, read receipts | send, broadcast, flush, messages, mark_read | every message once in its recipient's history, recipients are woken |
| Lead coordinator | `teams/coordinator.py` | attachment, services, maintenance task | create, attach, detach, close, maintenance | recovery before service, lease released last |
| Delivery, integration | `teams/orchestration.py`, `integration.py`, `coordinator_*.py` | delivery runs, batches, merge journal | reconcile, decide, integrate | only accepted ranges are merged, once, in order, resumably |
| Pane control | `teams/control.py`, `pane_host.py`, `panes.py`, `member_worker.py`, `runtime.py` | connections, descriptors, generations, per-run queues | authorize, register, run, cancel, result, shutdown | results reach the run they belong to, every run is given one |
| Sub-agent tasks | `subagents/tasks.py`, `control.py`, `notifications.py` | task records, drivers, notification queue | start, detach, cancel, reset, close | one terminal state, one notification |
| Isolated runs | `subagents/workspace_runtime.py`, `mcp/runtime.py`, `manager.py` | what a run holds; the MCP thread and its loop | start, run, close | whatever fails, all is given back |
| Worktree lifecycle, janitor | `worktrees/*.py` | records, markers, locks, Git worktrees and branches | create_or_recover, enter, release, delete, cleanup | no unmerged work deleted, no half state |
| Agent runner, tool scheduler | `agent/runner.py`, `agent/scheduler.py` | turn, batches, executions | ask the model, run calls, commit, cancel | every call one result, nothing starts after a cancellation |
| Providers | `providers/*.py`, `agent/streaming.py` | the stream under assembly | stream, collect, second attempt | the calls are those the model made |
| Session continuity | `continuity/session_repository.py`, `session_codec.py` | append-only session log, locks | create, commit, resume, reset, list, delete | torn tails, whole groups of messages |
| Memory store | `continuity/memory_store.py`, `memory_manager.py` | notes, journal with backups | apply, recover, load | all files of a commit or none |
| Context manager | `context/*.py` | message window, archive, summary, breaker | prepare, compact, archive, sweep | what is cut out can be reached in the archive |
| MCP client | `mcp/*.py` | pending requests, session and transport | start, call, close | each request answered once, nobody waits in vain |
| Hooks | `hooks/*.py` | once-only set, prompts, background actions | dispatch, close | once means once, shutdown ends |
| Skills | `skills/*.py` | catalog, active skills, copies on disk, the stored list | activate, refresh, restore | active is what the session lists, of one version |
| Conversation, REPL | `repl.py`, `conversation.py` | history, event queue, pump, questions | send, answer, cancel, clear, compact, exit | events in order, prompt comes back to an idle program |
| Program start and end | `cli.py` | which parts are open | main, close | users are closed before what they use |
| Permissions, tools, prompting, terminal, catalogs, codecs | `permissions/`, `tools/`, `prompting/`, `terminal/`, ... | none that outlives a call | | section 7 |

### 1.2 How they interact

* One Lead process per team holds the *lease* (`lease.json`, renewed every 10 s,
  expired after 60 s). Every write of the team state is a compare-and-swap on its
  revision *and* a check of the lease fence, so a Lead that lost its lease is refused.
* `TeamCoordinator.attach` acquires the lease, turns members that were RUNNING into
  INTERRUPTED, opens the control broker, lets the roster settle its journals, opens
  delivery, flushes the outbox, restores the scheduler, and only then starts the
  heartbeat.
* Tools of the Lead and of members call the task, approval, mailbox and roster
  services. These commit a state change together with an *outbox* entry; the flush
  appends it to the recipient's mailbox file, marks it delivered and may *wake* the
  recipient: the scheduler enqueues the member and starts a driver task.
* A driver waits for a slot of the capacity pool (shared with sub-agents), takes the
  member's recovery lock, commits RUNNING, builds the runtime (in-process, or through
  the control broker in a terminal pane), consumes its events, commits the outcome if
  the run is still its own, and closes the runtime.
* The delivery coordinator reserves slots before it assigns tasks, so that an
  assignment is never made to a member that cannot start; it freezes what members
  committed, has the Lead review it, and hands a batch to integration, which merges it
  commit by commit under a branch lock and a journal of its own.
* A turn: the REPL's pump takes events from the conversation's generator, which runs
  the agent; the agent asks the provider (through hooks and the context manager), runs
  the calls (through permissions, hooks and MCP), and commits the group to the session
  log; afterwards the memory is updated in the background, and the next turn's preflight waits for that.
* A sub-agent's task takes a slot of the same pool, may have a Worktree with MCP servers and hooks of
  its own, and announces its end through the notification queue, which the next model
  request empties.

### 1.3 What is hard

Every suspension point of a driver can meet a stop, a resume, a plan request, a second
wake, the loss of the lease or a shutdown. Two processes can both believe they lead.
A process can die between any two of the steps that create a member, deliver a
message, merge a commit, update the memory or copy a skill, and leave half a line at the end of a
file. Ctrl-C arrives at any await of four nested tasks. Answers come after the request
expired, streams end in the middle of a call, hooks are dispatched into a runtime that closes. The
hazards in `PROJECT.json` name the lines.

## 2. The modules

| Module | Models | Searched in |
|---|---|---|
| `CapacityPool` | `agent/capacity.py`, complete | `MCBackground` (and by `TeamScheduler`) |
| `TeamScheduler` | the scheduler and everything that drives it; instances `CapacityPool` with the members as callers | `MCTeamScheduler` |
| `TeamMailbox` | a message from the sender's commit to the recipient's history | `MCTeamScheduler` |
| `PaneControl` | one member in a terminal pane: broker, hosts, workers, runs | `MCTeamScheduler` |
| `TeamTasks` | the task board, approvals and the side-effect permit | `MCTeamBoard` |
| `TeamRoster` | adding and removing members, journals, recovery | `MCTeamFiles` |
| `WorktreeLifecycle` | one managed Git worktree | `MCTeamFiles` |
| `TeamDelivery` | from a goal to an integration batch | `MCTeamFiles` |
| `TeamIntegration` | the batch: merge, verify, roll back, recover | `MCTeamFiles` |
| `TeamLease`, `FencedRegister` | lease, mutation runner, `compare_and_swap`, locks; what they promise together | `MCStorage` |
| `SessionLog` | a session's file | `MCStorage` |
| `MemoryStore` | the memory's files and their transaction | `MCStorage` |
| `ContextArchive` | compaction, archive directories, the breaker | `MCStorage` |
| `SkillRuntime` | active skills and their copies | `MCStorage` |
| `SubagentTasks` | the task manager, the agent tool, notifications | `MCBackground` |
| `HookDispatch` | dispatch, once rules, prompts, background actions, close | `MCBackground` |
| `IsolatedRun` | assembly and closing of a sub-agent's own workspace and MCP thread | `MCBackground` |
| `AgentTurn` | one turn of the agent and its tool calls | `MCConversation` |
| `ReplyStream` | one request to the model | `MCConversation` |
| `ReplTurn` | the REPL, the pump, the conversation, the memory update | `MCConversation` |
| `ProgramLifecycle` | what is opened and closed between start and exit | `MCConversation` |
| `McpSession` | requests over one MCP session | `MCConversation` |
| `CapacityPoolProofs` | theorems about `CapacityPool` | |
| `LeaseAndArchiveProofs` | theorems about `TeamLease` and `ContextArchive` | |
| `TeamWorkProofs` | theorems about `TeamTasks` and `PaneControl` | |
| `TeamMemberProofs` | theorems about `TeamScheduler` and `TeamMailbox` | |
| `TeamFilesProofs` | theorems about `TeamRoster`, `WorktreeLifecycle`, `TeamDelivery`, `TeamIntegration` and `MCTeamFiles` | |
| `BackgroundProofs` | theorems about `SubagentTasks`, `HookDispatch`, `IsolatedRun` and `MCBackground` | |
| `ConversationProofs` | theorems about `AgentTurn`, `ReplyStream`, `ReplTurn`, `ProgramLifecycle`, `McpSession` and `MCConversation` | |
| `StorageProofs` | theorems about `MemoryStore`, `SessionLog` and `SkillRuntime` | |

The five `MC` modules give the constants their values and put models side by side (section
4): a model is extended where its constants are the run's, and instanced where they are
substituted. `TeamScheduler` and `CapacityPool` are composed for real: the scheduler's
drivers are the pool's callers and change its variables only by its operators. Between
the other models the interface is an input: a wake is an action of `TeamScheduler` that
may happen at any time and an effect of `TeamMailbox`'s flush; a run is one step of the scheduler and all of
`PaneControl`; a commit of the team state is one step everywhere but in `TeamLease`,
which justifies it; a batch is planned by `TeamDelivery` and carried out by
`TeamIntegration`; a turn is a generator in `ReplTurn` and the run itself in `AgentTurn`.
Each side takes the other's steps in any order, which is more than the other does.

Each module's header says what its variables stand for and where its steps end. In
asyncio code a step ends at an await that can suspend; in code that touches files or Git, at
every access another process, or a death, can come between.

### CapacityPool

One *caller* is one coroutine's request; `pc`, `future`, `waiters` and `active` are the
coroutine, its future, the deque and the dictionary of tokens. The asyncio lock is
held across no await, so each method is a step, except `acquire`, which is split at
its `await`: join the queue, then `Resume` with the grant, `CloseWaiter` answers, or a
cancellation, which also may hit a waiter whose grant is already in its future and
then gives the slot back (capacity.py:138).

### TeamScheduler

`status`, `queue`, `activeRun`, `gen`, `plan` are the persisted team state; `pc[m]` is the
await at which the driver task of `m` is suspended (the list is in the module's
header); `asked`, `cancelling`, `unanswered` are cancellation requests and startup
futures; `place`, `active`, `waiters`, `future` are the pool's variables, changed only by
the operators of `CapacityPool`. A repository mutation contains no await and is one
step. The environment sends messages, stops and resumes members, requests and decides
plans, attaches, crashes, loses the lease and shuts down. A plan is requested by the member's run,
which may do so for as long as its driver has it, whatever the status has become. `foreign` are recovery locks
that an earlier Lead process still holds.

### TeamMailbox

A file is what its reader decodes from it and the state of its last line: whole, `torn` by a
death in the middle of an append, or `junk`, when a later append continued a torn line.
`outbox` and `delivered` are in the team state; `box` are the mailbox files, `history` the
sessions of the members: one batch of message ids per inbound record. `coordinator` is the Lead
process, and `flush[f]` one flush (the heartbeat's or a send's) with the entries still to do, gone
through in the order of the outbox (`First`): look into the file, append, mark, and after
the first pass the second, which wakes members with unread mail. `binding[m]` is what a
running member has in memory: the ids of its session, and the batch that poll has at hand.
It appends to the session, then the read record; it may die in between, or before
it has repaired what an earlier death left.

### PaneControl

`conn` is the connection the broker has bound to the member, `hid` the host id in the control file, `links` the two
FIFO directions of each TCP connection, `host[p]` and `worker[p]` the processes in the panes,
which outlive the connection and the Lead. `mine` is the connection a run took when it
started: the run number, not the connection, is what protects an outcome.

### TeamTasks

One action per operation of `TeamTaskService` and `TeamApprovalService`, guarded by the
checks of `domain.py` and by `TeamRepository.validate` (a candidate that it rejects is
not committed, so for instance a task that is current for a member cannot be deleted).
`permit[m]` is the approval lock's critical section: from `side_effect_permit` to the
end of the tool. An approval is identified by member, task and plan version.

### TeamRoster

`op[p].at` is the stage of `add_member`, of the rollback, of `remove_member` or of
`recover` that process `p` performs next; `journal[x]` the provisioning journal of
transaction `x`. Every stage is a step, so every crash between two stages is explored.
`recover` carries out its journals with the same stages as the operation, except that
it neither takes the member's recovery lock nor deregisters. `LoseLease` lets a process go on
without its lease until a commit is refused: the heartbeat starts only after
`recover`, so a recovery of more than 60 s loses the lease by itself. `work[m]` abstracts
the tasks and approvals that name a member: `open`, `closed` (kept in the state,
which makes validate refuse to deregister) or `none`. `strayed` is a history variable for
the two properties that do not survive a process acting without its lease.

### WorktreeLifecycle

`root`, `branch`, `commits`, `dirty` are what Git has, `record`, `lock` and `lease` what the
lifecycle keeps about it, `job[p]` the call of process `p`. Each Git command is a step with
three outcomes: done, failed, or cut off before or after its effect. The user of the
worktree commits and leaves files in it meanwhile. An entry is two steps, the check and what
follows when a thread has acquired the lock: the code uses the record it read before. `outdated` are the
processes whose check is older than the worktree that is there; the record they write is `misplaced`, for it
names one that is gone.

### TeamDelivery and TeamIntegration

`run` is the saved delivery run, `cycle` the loop's copy with `stale` for "no longer the saved revision";
`board`, `holds`, `live`, `head` are the team's tasks, reservations, members and commits;
`asks` is a tool call of the Lead, `decided`, `review`, `accepted` what it reviewed and
what it accepted of each task. `plan` is the batch. `deleted` are tasks that somebody took off the board, and
`sees` the tasks that were there when the cycle loaded it. In `TeamIntegration`, `history` is the
branch, `merging` and `unclean` its working directory, `step` the journal, `call` the one
call that holds the branch lock, and a call may be cut off anywhere; the user, who holds no
lock, commits and edits in the same directory, also between the steps of a rollback (read the head, reset, look
again, save).

### TeamLease and FencedRegister

The other modules take a commit of the team state as one step; `TeamLease` is where that
is justified. `lease` and `log` are the two files, `leaseLock` and `stateLock` the locks
beside them. `acquire` is split at its `sleep(0)`, and a mutation at every access to a
file: load, lock, revision, fence, write. That is where another *process* can come
between; inside one process nothing awaits from the load to the commit, so a process is at
one place, `pc[p]`. `heart[p]` is the maintenance loop: not begun during the rest of
`attach`, beating, or ended after a renewal that failed (`lease_lost`) or a shutdown.
`Tick` is time, so a process that stalls for longer than an expiry is a behaviour like any
other. Operations that were in flight when a Lead was replaced keep the fence of their
actor and go on, as a slow process does here.

The fence is the pair of lease id and generation. The model compares the generation only,
which is the stronger claim, and `LeasesDiffer` is why that is enough.

`FencedRegister` has a term and a history and two actions, `Elect` and `Commit(g)`. The
refinement maps the term to the generation in the lease file and the history to itself.

### SessionLog, MemoryStore, ContextArchive, SkillRuntime

`SessionLog`: `file` is the log as its codec reads it, with a cut-off line where a write
ended early; `mem` what a process has in memory; `spoilt` remembers that a process went on after
its own write had failed. `MemoryStore`: a file is the set of updates it reflects;
`journal` is the transaction with its backups, `memPc` how far apply, recovery or loading has
got; `crossed` that an update was made over somebody else's interrupted one. `ContextArchive`:
`records` are the numbered files, `kept` and `summary` the conversation's window, `todo` and
`probe` the sweep and the choice of a directory. `SkillRuntime`: versions of a text stand
for what fingerprints tell apart; `sources` is what the user edits, `made` the copy being
written, `stored` the session's list, `active` what is in force.

### SubagentTasks, HookDispatch, IsolatedRun

A sub-agent task is a driver coroutine, the execution task under it, and perhaps the tool call
that waits for it (`caller`); `op` is who works on its end. Who is killed because its patience ran out becomes cancelled, also
when its deadline had passed before; what its driver says of the outcome may then replace that (`Closed`). `pending`, `marking` and
`told` are the notification queue and what the model was shown. `HookDispatch`: several
callers dispatch through two runtimes that share the once set and the budget of background actions; a runtime may close at any
time. `IsolatedRun`: `driver` holds what was assembled (`lease`, `hooks`, `runtime`),
`thread`, `job` and `stage` are the MCP thread, the job in it and the facade that waits for it with a
deadline, `session` and `offer` the servers and the names of their tools.

### AgentTurn, ReplyStream, ReplTurn, ProgramLifecycle, McpSession

`AgentTurn`: `working`, `extra`, `committed` are the history of the turn, `call[c]` and `result[c]` a
tool call; consecutive read-only calls run side by side, and a cancellation comes by
`AgentRun.cancel` or through the task that consumes the events. When that task waits elsewhere, with an event in its hand, the
run's generators are closed at the yield (`Close`): no code of the runner but its finally clauses goes on. `ReplyStream`: `blocks` is
what the server sent, `calls`, `done` and `tools` what the parser made of it, for the two protocols; OpenAI ends a call with two
events, each an action (`argued` says when the first of them came). `ReplTurn`:
loop, pump and generator with the queue of one between them; what a turn made is counted
as events, and `messages` and `stored` are the history in memory and in the session. A pump that is
cancelled outside the generator closes the outer generator only. The inner ones are finalized by
tasks of the event loop, in whose context a scope cannot be left, so that the active run stays: `stale` when it was complete, else `lost`
(with the hook runtime and the context scope that the program has). `ProgramLifecycle`:
`step` and `next` are where the start or the end has got, `parts` what is open, `work` what is
under way in it. `McpSession`: `place[c]`, `fut[c]`, `waiting` and `owed` are a request, its future, the peer's
table and the answers the server still owes; `reader` and `transport` the connection.

## 3. Properties and how they could fail

Each property's comment in the module says what it states and which code it is about. A
property of an MC module (`WorkIsKept`, `CallsAreServed`, `EverythingReturns`, ...) is the
conjunction of its parts' properties of one kind, named there. `DriversAccounted`, `MailIsWhole`,
`RosterIsWhole`, `WorktreesAreWhole` and `BatchesAreWhole` are such conjunctions in the
modules of the components. Each checked property has a mutant in
`PROJECT.json`: a definition replaced by its `Bug...` variant, a slip one could make in
that code, under which TLC finds the property violated. The `Bug...` variants that
`PROJECT.json` does not name do the same for the other conjuncts: with the definition replaced
by its variant, TLC finds the conjunction violated under the same config.

A few properties say more than the obvious. `OutcomeIsOwn` (PaneControl): whatever hosts
reconnect, restart and answer late, a run gets the outcome of its own worker. `MergesWhatWasAccepted`
(TeamDelivery): the range in the batch is the one the Lead accepted, although members keep committing, the
cycle works on an old copy and reviews are asked again. `MergedOnceInOrder`
(TeamIntegration) holds for calls cut off between merge, commit and save.
`StoredOnce`, `CommittedOnce` and `DeliveredIsStored` (TeamMailbox) hold for deaths in the middle of either
file's append. `UnsavedWorkIsKept` (WorktreeLifecycle): a branch with commits that nobody has merged is never
deleted. `OneFaultIsSurvived` (MemoryStore) and its neighbour `SavedStaysAlone` state
exactly how much is survived, which is less than the documents say (section 6).
`UsersStopFirst` (ProgramLifecycle): nothing still works when what it uses is closed.

## 4. The runs

| Run | Module, config | Checks | Parts and instance |
|---|---|---|---|
| `scheduler` | `MCTeamScheduler`, `TeamScheduler_safety.cfg` | one driven run per RUNNING member, queue and status agree, slots and drivers agree, stale outcomes refused, who is stopped stays so until resumed; messages once and whole | scheduler: 2 members (one gated), limit 1, 2 runs each, 2 attachments, 1 failed commit, coordinator on; mailbox: a peer message and a task assignment, 2 faults |
| `scheduler_live` | `MCTeamScheduler`, `TeamScheduler_live.cfg` | stopped drivers and shutdowns end, peers are woken; a pane has one host, its runs end with their own outcome | scheduler: 1 run each, 2 attachments, 1 failed commit; mailbox: 1 message, 2 faults; pane: 2 runs, 2 tries to connect, 2 faults |
| `background` | `MCBackground` | the pool's limit, leaks, FIFO and answers; tasks, hooks and isolated runs accounted for, and all of it ends | pool: 5 callers, 4 owners, limit 2; one foreground task and one fork; 4 dispatchers in 2 runtimes; 2 MCP servers, 2 faults |
| `board` | `MCTeamBoard` | current tasks, live dependency graph, approvals bound, changes invalidate, side effects approved | 2 members (one gated), 2 tasks; 3 revisions and 1 plan version, or 2 and 2 |
| `files` | `MCTeamFiles` | members' files and Worktrees accounted for, deliveries merge what was accepted, batches merge once, no work deleted | roster: a paned and an in-process member, 2 processes, 2 journals, 2 panes; worktree: 2 processes, 2 commits; delivery: 2 dependent tasks, 2 commits, 1 call; integration: 2 steps, 2 commits of the user, 2 calls cut off |
| `storage` | `MCStorage` | no update lost, refines `FencedRegister`; sessions, memory, archive and skills are read back whole | lease: 3 processes, expiry 2, 2 attempts, 3 leases, 3 commits; session: 2 processes, 5 lines, 2 messages, 2 faults; memory: 2 projects, 3 updates, 2 faults; archive: 2 processes, 2 directories, 3 messages and 4 records of the one whose conversation is followed, failure limit 2; skills: 2, one a package, 3 copies, 1 edit, 2 faults |
| `conversation` | `MCConversation` | calls answered once, nothing starts after a cancellation, events in order, the exit orderly, requests served, everything returns | agent: 2 calls, 3 iterations, limit 2, 1 message; reply: 3 blocks; REPL: 3 turns of 2 events, 1 fault; program: 3 faults; MCP: the start and 2 calls, 1 fault |
| `scheduler_wake` | `MCTeamScheduler`, `TeamScheduler_wake.cfg` | *violated*: `WakeNotLost` | 1 member, 2 runs |
| `roster_deregister` | `MCTeamFiles`, `TeamRoster_deregister.cfg` | *violated*: `RegisteredKeepFiles` | as in `files` |
| `permit_race` | `MCTeamBoard`, `TeamTasks_permit.cfg` | *violated*: `PermitProtects` | 1 member, 2 tasks |
| `ctrl_c` | `ReplTurn`, `ReplTurn_ctrl_c.cfg` | *violated*: `CtrlCReturns` | 1 turn |
| `exit` | `ProgramLifecycle`, `ProgramLifecycle_exit.cfg` | *violated*: `ExitCleansUp` | 3 faults |

The seven passing runs have 0.2 to 2 million states each and take half a minute to four minutes with two workers.

**One run for several parts.** Components that do not interact, or interact only through an
input of each, are searched in one run: the initial state picks a `part` out of
`Searched`, its next-state relation is the only one that acts, and the others stay as they
began. A behaviour is thus one of a single model; the state spaces add up and are not multiplied, and every property of a
part is checked on that part as if alone. It is no claim that the parts together behave so. Where the interplay is the point (slots
and drivers, wakes and runs, heartbeats and commits), it is inside one module.

**Bounds.** Limit 1 with two members makes them compete for a slot; limit 2 with five
callers lets two owners wait while both slots are taken, so that order, cancellations and a
shared owner meet. Two runs per member are what a stale outcome needs (the old run and the
new one), and likewise two runs and two connections of a pane; two attachments are what convergence and restore need. Two tasks are
enough for a dependency, a wedge and a member working on the wrong one; the third revision
lets a task be reset after it ended; the board is searched with either bound because their product has more than six million
states. Two journals allow a member's addition and removal, or two additions, with a
second process that recovers either in the middle. Three processes are a Lead that stalls
between check and write, its successor and the next one; two attempts are one retry; an
expiry of two ticks lets a heartbeat come in time or not. Two faults allow a crash in the
recovery of a crash, which is where memory, sessions and mailboxes differ from one
another. In `TeamDelivery` the bounded calls are those that undo something: a rejection, a
reassignment, a stop, a cancelled, reopened or deleted task; accepting and integrating are free, so one such call still leaves
room for the whole way from the goal to the batch. With two calls the part has 8.6 million states; TLC
finds no error there either, in more time than a run should take. Two commits of a member are one that was accepted and one that came later; two steps of a batch are an order, two
cut-off calls a recovery that is cut off itself. Two calls of an agent's response are a parallel batch or
two serial ones, with three iterations to reach the limit of two. Three blocks of a reply are a text between
two calls; two events a turn fill the queue of one. Two requests beside the start of an MCP session are one that expires while the
other waits. All bounds are guards on counters named `Max...` (or `...Faults`) in the modules.

**Deadlock** checking is off: a closed pool, a team at its bounds, a detached Lead, a program
that ended may really stop.

**Symmetry** is used for tasks, processes and transaction ids, in runs without fairness only.

**Fairness.** asyncio resumes every ready task, so whatever only needs to be resumed is
weakly fair, and so is whatever has a timeout or a limit of its own; nothing is fair that only a user, a
server or a process outside could do.
`CapacityPool`: a holder releases its slot and a resolved future resumes its coroutine.
`TeamScheduler`: each prompt step of a driver (one whose await cannot block for ever: a pool
critical section, a non-blocking file lock, a runtime being cancelled or closed), the
coordinator's hand-over, the restore loop, the five-second timeout of `close`, the death of
a previous Lead that still holds a recovery lock. `TeamMailbox`: the heartbeat and the steps of a flush.
`PaneControl`: the provisioning's timeout, the broker's reader, the lead's detection of a lost connection, a host's answer, and the end of a worker,
which has limits of its own. `SubagentTasks`: the steps of each driver, whose deadline ends the run. `HookDispatch`: an action ends, by its
timeout if not otherwise. `IsolatedRun`: the waits of the facade, each with a deadline. `AgentTurn`: runner
and schedule go on, where the model's answers and the tools have timeouts, and generators that were closed are finalized by the event loop. `ReplTurn`: loop,
generator and memory update. `McpSession`: the request's own timeout, the close of the
transport. Nothing fair is enabled in an initial state, so the fairness of the parts that do
not act in a behaviour demands nothing of it. Nothing assumes that a member's run ends by itself, except
`LiveWakeSpec`, used by `scheduler_wake` to refute the strongest excuse: a run has at most 20 iterations and each has
timeouts.

## 5. What is proved

All theorems hold for every set of members, callers, tasks, processes and every limit and
bound.

* `CapacityPoolProofs`: type correctness, `WithinLimit`, `NoLeakedSlot`, `NoForgottenWaiter`,
  `OneClaimPerOwner`, `WorkConserving` (together `SlotsAccounted`) and the action property `FifoGrants`. The
  conjunction is inductive together with `ClosedIsEmpty`; each property alone is not: the limit needs
  that a grant moves a waiter whose owner holds nothing, which needs
  `OneClaimPerOwner` and `NoForgottenWaiter`. One lemma per operation on the queue, then one step per action.
* `TeamMemberProofs`, of `TeamScheduler`: type correctness, `RunningIsDriven`, `QueueMatchesStatus`,
  `SlotsMatchDrivers` and the pool's own properties (together `DriversAccounted`), and the action properties
  `StaleResultRejected` and `StoppedUntilResumed`. The invariant has a part for each pair of
  records that must agree: `GoodPool` is the pool's invariant, taken from
  `CapacityPoolProofs` by instantiation, because every step of the scheduler is a step of
  the pool, a stutter, or (a new Lead process) a fresh pool; `RunInv` ties a driver that has begun a run to
  the generation it began; `SlotsMatchDrivers` ties it to its slot; `NothingDetached` says that a process
  that does not lead drives nobody. No part is inductive alone: that queue and status agree after a driver's step needs
  that the driver had its slot and its run before it. `StoppedUntilResumed` holds because a wake does not enqueue a stopped member, every outcome and refusal goes through the
  table, which leads from STOPPED to QUEUED only, and an attach takes RUNNING members alone; its exception, a plan request, is
  where `TransitionsAreLegal` fails (section 6).
* `TeamMemberProofs`, of `TeamMailbox`: type correctness, `StoredOnce`, `CommittedOnce`, `DeliveredIsStored`,
  `ReadIsCommitted` (together `MailIsWhole`). What is added is the memory of a run: `KnownIsCommitted`
  (the ids it knows are those of its session file, unless the file is undecodable, because no
  other run writes to it) and `BatchAtHand` (what waits to be appended is new, what waits to be acknowledged is
  committed). The lemmas about files say that an append, whole or torn, only adds, and that a
  file that cannot be read stays so.
* `TeamWorkProofs`, of `TeamTasks`: type correctness, `CurrentIsAssigned`, `OpenApprovalsMatch` (together `AssignmentsMatch`),
  `SomeTaskUnblocked`, and the action properties `ChangesInvalidate` and `SideEffectsApproved`. The last one
  needs the strengthening `LatestOpen` (the approval that is open for a task is the newest
  version of its member), which rests on the version check of `request_approval`.
  That some task is unblocked follows from `GraphIsSound` (the dependencies are acyclic and a live task waits
  for live ones): if all unfinished tasks were blocked, they would be a set in which
  each waits for another of the set, which is a cycle.
* `TeamWorkProofs`, of `PaneControl`: `PanesAreServed`. A run the Lead asks for is in one place at a time (`InOnePlace`): a
  request in one queue and once in it, or a worker, or a report; it is nowhere before it is
  asked for (`Unknown`), and what is said of it is true (`ReportsAreTrue`). Queues are seen as the set of what is in
  them, so that a lost, refused or forgotten message is a step that only makes these sets smaller
  (`Quieter`, `RunsStayTraced`); four steps are not (request, start of a worker, report,
  cancellation), with one lemma each.
* `TeamFilesProofs`, of `TeamRoster`: type correctness, `FilesAccounted`, `RunsAreWhole` (together `RosterIsWhole`) and the action
  property `FilesOutliveWorktree`. The invariant says what there is at each stage of an addition, its rollback and
  a removal (`AddStages`, `RemoveStages`), that an operation has a journal of its own
  (`OpsHaveJournals`), that a member which no process touched after losing its lease is in the
  hands of the holder alone (`HolderOperates`), and that an addition whose member the others know
  is settled or about to be (`PublishedIsSettled`).
* `TeamFilesProofs`, of `WorktreeLifecycle`: type correctness, `OneOccupant`, `ReadyIsWhole`,
  `NothingUnrecorded` (together `WorktreesAreWhole`) and the action properties `UnsavedWorkIsKept` and `OccupiedStaysWhole`. The lock admits one
  process (`LockGuards`), so it is enough to say what that process finds at each stage of its
  call (`CreateStage`, `DeleteStage`) and what anyone finds who gets the lock. Whoever waits for the lock with an old check finds
  nothing that the invariant promises, so what is said of an occupant is said of its steps: while it is in a
  whole worktree, nobody else's step takes anything from it.
* `TeamFilesProofs`, of `TeamDelivery`: type correctness, `MergesWhatWasAccepted`,
  `PublishedWhole` (together `DeliveriesAreSound`). The cycle and the Lead's calls work on copies that may be
  old, so the invariant says of every copy that its verdicts are ones the Lead gave
  (`VerdictsAreGiven`); a copy may be old because what was accepted stays accepted. For the
  publication, while a cycle runs no task is missing from the board but those that somebody deleted.
* `TeamFilesProofs`, of `TeamIntegration`: type correctness, `MergedOnceInOrder`, `VerifiedIsMerged` (together
  `BatchesAreWhole`) and the action property `RolledBackIsRestored`. The argument rests on the
  object id saved before a merge (`PreIsPast`): the branch is only extended or put back to
  that one, and every step verified before is already part of it. Between a reset and the save of its result the user may commit, so
  what a rollback restores is that object id, followed by commits of the user and nothing else (`OnlyUserSince`, kept by `RestoredIsKept`).
* `LeaseAndArchiveProofs`, of `TeamLease`: type correctness, `NoLostUpdate`, `GenerationsInOrder`, `LeasesDiffer` (together `LeaseIsFenced`), and
  that `TeamLease` implements `FencedRegister`. The strengthening `IInv` adds who holds the locks
  in which critical section, that every fence and every commit is of a generation that was
  granted, and `Checked`: what a commit has verified about the *log* is still true when
  it writes. Nothing is claimed about the *lease* at that point, because nothing is true. Every
  step is a grant, a check, a write, or `Minor` (the log and the generation stay, no lock
  of another process is touched), with one lemma each.
* `LeaseAndArchiveProofs`, of `ContextArchive`: type correctness and `ArchiveIsKept`. What can be reached from a summary is the smallest
  set of records that has its record and, with a record, the one it names (`Linked`, `Reach`). A record is
  numbered after all the others and names an earlier one (`Ordered`), so nothing that is written or
  discarded after the summary's record changes what is reached from it (`ReachSame`), and
  adopting a summary adds its record to what was reached before (`ReachStep`). Between its first write and
  its adoption a compaction therefore owes only what `Whole` says of its record. That no other
  session's records go with a directory rests on `Placed`: no two have the same. For the breaker: an automatic
  request begins below the limit (`Underway`), so its failure reaches it at most (`Broken`).
* `TeamFilesProofs`, of `MCTeamFiles`: `WellTyped` and `WorkIsKept` of the run's own specification
  (`FilesTypes`, `WorkStaysKept`). A behaviour of the run is one of each part's own specification, because the parts
  that do not act stutter (`PartsOfFiles`).
* `BackgroundProofs`, of `SubagentTasks`: `TasksAreAccounted`. What has to be added is who ends a task. A coroutine that is
  not over belongs to an active task (`DrivenIsActive`), and the agent works only under it
  (`WorkIsDriven`). When it is cut off without a commit, somebody who called cancel is still
  there to commit (`SomebodyCommits`). A task that outlived its deadline was not cancelled and will not be
  (`LateIsFailing`), so that no one can turn the verdict around but the reset or close that kills it. For the notifications:
  what is queued has ended and was not told (`QueuedIsKept`), and what was told is over
  (`ToldIsOver`).
* `BackgroundProofs`, of `HookDispatch`: `HooksFireOnce`. Once means once because a rule is noted before the lock of its
  runtime is left (`OnceIsNoted`). That a prompt is in its own request rests on the lock: what a dispatch queued
  cannot leave its owner's queue while it holds the lock (`OwnPromptsWait`). A dispatch
  goes through its rules once, so whatever it started lies behind it (`Passed`), and that makes
  the next thing it starts new, for the count of background actions (`ActionsAreCounted`)
  as for the prompts (`PromptsAreApart`).
* `BackgroundProofs`, of `IsolatedRun`: `RunsAreGivenBack`. The invariant says what each place of the driver implies of the thread
  (`ThreadIsOwned`, `FacadeIsBusy`) and of what it holds (`BundleIsKept`), that a stop which
  was not late follows the manager's last answer (`ClosingIsAnswered`), and that the tools are those of the
  servers that were ready (`ToolsAreTheCatalog`).
* `BackgroundProofs`, of `MCBackground`: `WellTyped`, from the conjunction of the four invariants, the pool's included.
* `ConversationProofs`, of `AgentTurn`: `TurnsAreWhole`. A call has yielded a result just when it is over
  (`YieldedWhenDone`); the history in memory is that of the session, or it and the user's message
  (`CommittedIsWorking`), so that every commit extends what was committed.
* `ConversationProofs`, of `ReplyStream`: `RepliesAreWhole`. Three records of one thing agree: the blocks the server
  sent, the calls the parser has open (`OpenIsKept`) and those it handed on
  (`ClosedIsCollected`); `EndIsTold` says what may be known of the end of the stream. A call is handed on twice only
  when the end of its arguments came after that of its item, which `argued` remembers.
* `ConversationProofs`, of `ReplTurn`: `PromptsAreWhole`. The order of the events is the content of `EventsInOrder` (made =
  shown + in the reader's hand + in the queue + in the pump's hand), the idle prompt that of
  `EndsAreLast` (the end of a turn is the last item, and no generator goes on behind it) and `LeftBehind` (a run that is
  left active was interrupted or failed, and the prompt comes back with a lost one only after a failure), the
  stored history that of `StoredIsAhead` (at most the turn at hand is stored and not yet remembered).
* `ConversationProofs`, of `ProgramLifecycle`: `ExitIsOrderly`. As long as nothing fails, what the close has passed does not work any more
  (`PassedIsStopped`), and what the finally clause has passed is not open (`PassedIsClosed`); the
  two lists of the code are unfolded as facts (`TeardownIs`, `FinallyIs`).
* `ConversationProofs`, of `McpSession`: `CallsAreServed`. Whoever waits is registered, so whoever fails the session finds it
  (`WaitersAreRegistered`), and a session that is being closed has failed first (`ClosedIsFailed`).
* `ConversationProofs`, of `MCConversation`: `WellTyped` of the run's own specification.
* `StorageProofs`, of `MemoryStore`: `MemoryIsKept`. There is at most one journal, each file it covers has its old or its
  new content, and all of them the new one once it is marked (`JournalsAreTrue`); each step of apply, recovery or loading has done what lies before it
  (`StepIsTrue`), and the first recovery can bring back everything that was recorded
  before the interrupted update (`Recoverable`).
* `StorageProofs`, of `SessionLog`: `SessionsAreKept`. The file is a log at every moment (`FileIsALog`: it begins
  with the start line and only its last line may be cut off), an open session holds its lock
  and has a whole last line unless its own write has failed (`OpenIsHeld`). The rest are lemmas about
  files: what the replay of an extended, repaired or cut-off file is.
* `StorageProofs`, of `SkillRuntime`: `SkillsAreKept`. A copy belongs to one activation (`CopiesAreOwn`), and because versions only
  grow, what a reader has seen lies between its fingerprint and the present (`ReadingIsTrue`):
  two equal fingerprints leave it no choice.

The replay of a log, and the copying of a list of files, are recursive functions. What is needed of them
is proved by induction over a set: a set of naturals that has 0 and is closed under + 1 is the whole of them
(`NatSets`, from well-foundedness), so a function given step by step exists and is unique (`Iteration`).

The theorems named for a component are about its own specification; the runs search the same actions inside the
MC modules. Each inductive invariant was model-checked before it was proved. Assumptions used are the
named `ASSUME`s of the modules, which TLC evaluates in the runs that extend them; they say that bounds are
numbers, that sets the code keeps in memory are finite, that the lists the code is given are
lists, and that the values for "nobody" are not somebody.

Only model-checked:

* everything temporal under fairness (`PeersAreWoken`, `RunsEnd`, `EverythingEnds`,
  `EverythingReturns`): the installed provers do neither liveness nor ENABLED;
* `WellTyped` of `MCStorage`. Its five conjuncts are each proved of the component's own specification (they are
  part of the invariants above); only their conjunction over the run's specification is not stated.

## 6. Where the code and its documents disagree

### Shown by runs (`findings` in `PROJECT.json`)

* **A wake can be lost** (`scheduler_wake`). A wake that arrives while the previous driver has
  committed its outcome and still closes its runtime finds a driver that is not
  done and starts none; nobody looks at the queue again until the next attach
  (scheduler.py:194), and detach refuses because a member is QUEUED.
* **A permit does not protect** (`permit_race`). Nothing that starts a new epoch takes the approval lock.
* **A removal that never happened is carried out** (`roster_deregister`). See
  `RegisteredKeepFiles`. Deregistration always fails when a finished task still
  names the member, so an ordinary `remove_member` is enough to lose the member's
  session at the next attach. With two processes even a running member can lose it.
* **Ctrl-C can hang the REPL** (`ctrl_c`). The cancelled pump goes on, puts the run's last event into the
  queue of one, and waits for ever for room for the end of the stream (repl.py:349, 551-569).
* **A cancelled memory update makes the exit skip the rest** (`exit`, cli.py:982).

### Stated as properties, violated, not run

These are defined in their modules, with the document they come from. They are violated by
what the code does; run the part alone with one of them as its property to see how. Six have a config for that:
`TeamScheduler_table.cfg` (with `MCTeamScheduler`), `SubagentTasks_late.cfg` (with `MCBackground`), `WorktreeLifecycle_enter.cfg`,
`ReplyStream_twice.cfg`, `ReplTurn_next.cfg` and `AgentTurn_close.cfg` (with the module itself).

| Property | Module | The code | The document |
|---|---|---|---|
| `OnlyOwnMergeIsReset` | `TeamIntegration` | a rollback aborts whatever merge is in progress and resets whatever the head is (coordinator_git.py:317-323), commits of the user included | docs/phase-14c-team-coordinator/plan.md:381 |
| `DispatchIsDecided` | `TeamDelivery` | the assignment is committed before its decision is saved (orchestration.py:393-403); a cycle that is cut off or whose copy is stale loses the decision | docs/phase-14c-team-coordinator/spec.md:64 |
| `NoDanglingCalls` | `AgentTurn` | calls that a cancellation cut off have no result in the history (agent/scheduler.py:321) | docs/phase-3-agent-loop/checklist.md:57 |
| `OnlyExpiredIsDeleted` | `SessionLog` | the age is read before the lock is taken (session_repository.py:328-337) | docs/phase-8-persistent-memory/spec.md:83 |
| `SavedStays` | `MemoryStore` | the journal of a workspace also covers the files that all workspaces share, so taking an old one back undoes what another workspace has saved since (memory_store.py:186) | docs/phase-8-persistent-memory/spec.md:73 |
| `LateAnswersAreIsolated` | `McpSession` | an answer to a request whose future is cancelled raises in the reader and fails the session (jsonrpc.py:127, stdio.py:162) | docs/phase-6-mcp-client/spec.md:125 |
| `DuplicateIsRejected` | `PaneControl` | a repeated registration of the host is refused, but its clean-up disconnects the host that serves the member (control.py:455) | docs/phase-14b-isolated-member-backends/checklist.md:27 |
| `LiveIsNotSwept` | `ContextArchive` | a directory exists before it is locked (archive.py:46, 167) | docs/phase-7-context-management/spec.md:32 |
| `CutRunsNothing` | `ReplyStream` | a stream that ends early after a call was complete counts as finished with tool calls (anthropic_provider.py:352) | docs/phase-3-agent-loop/spec.md:27 |
| `TransitionsAreLegal` | `TeamScheduler` | a plan request sets AWAITING_APPROVAL without the table (domain.py:342), also from STOPPED when the run has not heard of its stop | docs/phase-14a-team-core/spec.md:42 |
| `LateMeansFailed` | `SubagentTasks` | a task that expired and is then killed by a reset or close becomes CANCELLED (tasks.py:396-400), which only a driver with an outcome of its own takes back (416-427) | docs/phase-12-subagent-liveness/spec.md:19 |
| `EnteredIsWhole` | `WorktreeLifecycle` | the record is validated before the wait for the lock and not read again (lifecycle.py:202, 212), so an entry may come after a deletion | docs/phase-13-worktree-isolation/spec.md:51 |
| `ToldTwiceRunsOnce` | `ReplyStream` | the end of the arguments does not look whether the item was a call already (openai_provider.py:307-316) | docs/phase-2-tool-system/tool-call-debugging.md:112 |
| `NextIsTaken` | `ReplTurn` | the cancelled pump closes the outer generator only (repl.py:563-567); the inner one raises before the active run is reset (conversation.py:627-630), and the next message is refused | docs/phase-3-agent-loop/spec.md:99 |
| `CancelStops` | `AgentTurn` | a run closed at a yield never sets its end (runner.py:732-734), for which `cancel` waits (756) | docs/phase-3-agent-loop/plan.md:767 |
| `LogsStayReadable` | `TeamMailbox` | an append after a torn line makes the file unreadable (mailbox.py:120) | docs/phase-14a-team-core/checklist.md:82 |

### Seen while modelling

Team:

* A decision by the `plan_decision` tool writes the approval and an outbox entry, but a
  member in AWAITING_APPROVAL is not woken by the flush (mailbox.py:340) and cannot be
  resumed: it waits until it is stopped.
* A capacity reservation is kept when the member is stopped between reservation and
  wake (orchestration.py:397).
* `stop` and `close` may cancel a driver before its first step; the wake that started it
  is then never answered (scheduler.py:155).
* A run that was stopped and asks for a plan approval takes its member from STOPPED to AWAITING_APPROVAL
  (`TransitionsAreLegal` above), from which no resume leads back.
* A terminal transition or a reassignment clears the assignee's current task even when
  that is another task (domain.py:187, 268; docs/phase-14a-team-core/plan.md:272).
* Starting the approved task raises its revision, which voids the approval it was started
  under (approvals.py:159; docs/phase-14a-team-core/plan.md:1622).
* "旧代际写入即使拿到状态锁也必须失败" (docs/phase-14a-team-core/plan.md:444: a write of an old
  generation must fail even if it gets the state lock) is not quite what the code
  does: the fence is checked before the write (repository.py:147, 154) and the lease has
  a lock of its own, so a Lead that stalls in between commits after its successor was
  granted the lease. What does hold, and is proved, is that it never does so after the successor's
  first commit; the convergence in `attach` is that commit.
* A heartbeat that finds the lock of the lease busy, because another process is trying
  to attach, counts as the loss of the lease (leases.py:119, coordinator.py:340). The
  file still names the old Lead, which can then neither go on nor detach
  (`_require_attachment`), until it is closed or the lease expires.
* `terminate()` fails for a tmux pane that is gone (panes.py:85). A removal interrupted
  there makes `recover`, and so every later attach, raise (roster.py:453).
* A torn last line of a mailbox is tolerated by the reader, but the next append continues that
  line, after which `messages()` raises: the heartbeat takes it for the loss of the lease, and attach
  fails. A member's session file has the same weakness and can then not be opened.
* Task notices of the Lead to a member that sleeps are delivered, but the second pass of a later flush does not
  wake it for them; the `mark_read` tool lets a model mark messages it never saw (tools.py:371); a flush
  makes the mailbox of a removed member anew; appends are not fenced.
* `validate_team_state` (domain.py:38) and `invalidate_for_task` (approvals.py) are called by tests only.
* Delivery: a reassigned Git task has no start commit and a task a member claimed has no decision, so
  neither can be frozen; a task that was deleted from the board wedges its run, because every cycle then
  raises KeyError (orchestration.py:364); an error in decompose marks the run FAILED although its tasks may be on the board.
* Integration: a step saved MANUAL and a death before the batch is saved FAILED make every later execute, recover and open
  raise; a batch whose steps are all verified but that was not saved COMPLETED is skipped by recovery.
* Panes: a host that lost its connection can never register again and goes on trying; a cancelled `_next_or_closed` loses the item it was waiting
  for (control.py:261); a pane given up by the Lead keeps its worker for up to five seconds while a new one may start.

Worktrees and sub-agents:

* When `git worktree add` fails and its own clean-up already removed the branch, `update-ref -d` fails
  and the rollback leaves a PROVISIONING record: the name can never be used again. After a deletion whose branch could not be deleted
  every later deletion is rejected and every create raises (lifecycle.py:426).
* The hook runtime is not closed when the MCP start of a worktree sub-agent fails (workspace_runtime.py:108).
  `McpRuntime.start` and `close` block the program's single event loop, for longer than a lease lives when several servers hang.
* Records of sub-agents that finished in the foreground are kept until a reset.

Agent, MCP, hooks:

* A control tool starts after `AgentRun.cancel` when the cancellation falls in its `tool.before` hook
  (agent/scheduler.py:153). In plan mode a team message before the finalization makes the run fail.
* `close` of the hook runtime does not wait for dispatches in flight, which could start background actions
  afterwards; `compact.before` has no `compact.after` when the consumer is cancelled at a yield (context/manager.py:266).
* After a failed Ctrl-B, a run that the pump left in the middle stays active: the next message is refused, a Ctrl-C during it and the
  exit wait for that run's end, which does not come, and only a second Ctrl-C leaves.
* After Ctrl-C in the preflight the cancelled memory task stays pending (memory_manager.py:77): the next
  message waits for ever.
* Ctrl-C during the trust prompt or the start of the conversation skips `Conversation.close`; the skill runtime is not closed by main's
  finally.

Storage:

* After an append that failed half way in a process that goes on, the next commit continues that line, is
  reported as a success, and is lost.
* A recovery of the memory that is interrupted after it moved a backup fails for ever (memory_store.py:453).
  An update made over another process's journal makes a half-applied update permanent.
* A resumed session's placeholders name archive files that were deleted at close. A failed summary whose after-hook is cancelled is not
  counted by the breaker.
* A failed activation of a skill leaves its copy until close; an edit that keeps a file's size, between fingerprint and read, is not
  noticed; a nested isolated skill replaces the activation of an outer one of the same name.

## 7. Not modelled

* Text formats, JSON codecs, prompts, rendering, argument parsing, definitions of sub-agents, commands: no interleaving and no state of their own.
* Permissions: a decision is a pure function of rules and text patterns. That a call waits for one, and what the answer does, is in `AgentTurn` and `ReplTurn`.
* Tools: one file or process operation behind one call each; their concurrency is the scheduler's.
* HTTP, Git, tmux and the terminals themselves are external: modelled by how the code uses them.
* In `TeamScheduler` the content of messages, the 30 s wake receipts' timing and member roles; in `TeamTasks`
  titles, results, `create_batch` (in `TeamDelivery`) and `invalidate_for_task` (dead code); in `TeamRoster` role
  snapshots and names; in `ReplTurn` a second Ctrl-C; in `IsolatedRun` a thread that never
  becomes ready; in `SkillRuntime` the isolated execution of a skill; the choice of which worktrees the janitor finds expired.

## 8. What is left

Proofs: the liveness properties, when a prover can do them. Each run is near its limit, so a
larger instance means a part of its own: three members, or two panes. To model: the assembly of a member's
runtime (`teams/runtime.py`, much like `IsolatedRun`), and `refresh_role`.
