---------------------------- MODULE HookDispatch ----------------------------
(***************************************************************************)
(* Hooks (hooks/runtime.py, hooks/actions.py, hooks/provider.py): events   *)
(* dispatched by concurrent callers through the hook runtimes of a process *)
(* (the root's and those of worktree sub-agents), which share the consumed *)
(* once rules and the budget of background actions.  Prompts a hook queues *)
(* are taken by the next model request of the same owner.                  *)
(***************************************************************************)
EXTENDS Integers, Sequences, FiniteSets, FiniteSetsExt, SequencesExt

CONSTANTS
  Dispatchers,        \* who dispatches events
  Runtimes, RuntimeOf,
  PromptOwners, PromptOwnerOf,   \* whose prompts: the root's or a sub-agent task's
  EventOf,            \* "message" (a model request) or "tool"
  Forkers,            \* those whose first request must keep its prefix
  HookRules,          \* per event a sequence of rules [kind, once, project]
  Budget,             \* background actions at a time
  Room,               \* prompts that may be queued in a runtime
  Rounds              \* bound: the events one of them dispatches

Rules == [kind : {"prompt", "background", "sync"}, once : BOOLEAN, project : BOOLEAN]
RuleIds == UNION {{e} \X (1..Len(HookRules[e])) : e \in DOMAIN HookRules}

\* A dispatcher acts in one runtime, and so does all that speaks for one owner: a
\* sub-agent with a runtime of its own is an owner of its own.
ASSUME HookAssumption ==
  /\ RuntimeOf \in [Dispatchers -> Runtimes]
  /\ PromptOwnerOf \in [Dispatchers -> PromptOwners]
  /\ \A c, d \in Dispatchers : PromptOwnerOf[c] = PromptOwnerOf[d] => RuntimeOf[c] = RuntimeOf[d]
  /\ EventOf \in [Dispatchers -> DOMAIN HookRules]
  /\ HookRules \in [DOMAIN HookRules -> Seq(Rules)]
  /\ Budget \in Nat /\ Rounds \in Nat

VARIABLES
  trusted,    \* the user's decision about the project's hooks
  lock,       \* per runtime: the holder of _dispatch_lock, then its waiters
  at,         \* per caller: rules it has gone through, 0 before the first
  running,    \* per caller: a synchronous action is under way
  round, taken, queuedBy,
  once, attempts,   \* consumed rules; how often each rule was started
  prompts,    \* per owner
  count,      \* HookProcessState.background_count
  live, finished,   \* background tasks <<who, round, rule>>; those with their callback due
  closing     \* per runtime: open, closing, cancelling, closed

hookvars == <<trusted, lock, at, running, round, taken, queuedBy, once, attempts,
              prompts, count, live, finished, closing>>
process == <<once, attempts, prompts, count, live, finished>>

RulesOf(c) == HookRules[EventOf[c]]
Rule(c) == RulesOf(c)[at[c] + 1]
InLine(c) == Contains(lock[RuntimeOf[c]], c)
Holds(c) == lock[RuntimeOf[c]] # <<>> /\ Head(lock[RuntimeOf[c]]) = c
Releases(c) == \E i \in DOMAIN lock[RuntimeOf[c]] :
  /\ lock[RuntimeOf[c]][i] = c
  /\ lock' = [lock EXCEPT ![RuntimeOf[c]] = RemoveAt(@, i)]
OwnersOf(r) == {PromptOwnerOf[c] : c \in {d \in Dispatchers : RuntimeOf[d] = r}}
PromptsIn(r) == MapThenSumSet(LAMBDA o : Len(prompts[o]), OwnersOf(r))
Action(c) == <<c, round[c], at[c] + 1>>     \* the rule that c has come to
LiveIn(r) == {x \in live : RuntimeOf[x[1]] = r}

HookInit ==
  /\ trusted \in BOOLEAN /\ lock = [r \in Runtimes |-> <<>>]
  /\ at = [c \in Dispatchers |-> 0] /\ running = {} /\ round = [c \in Dispatchers |-> 0]
  /\ taken = [c \in Dispatchers |-> {}] /\ queuedBy = [c \in Dispatchers |-> {}]
  /\ once = {} /\ attempts = [i \in RuleIds |-> 0] /\ prompts = [o \in PromptOwners |-> <<>>]
  /\ count = 0 /\ live = {} /\ finished = {}
  /\ closing = [r \in Runtimes |-> "open"]

-----------------------------------------------------------------------------
\* dispatch: the caller queues for the runtime's lock.  A closed runtime
\* returns at once.
Dispatches(c) ==
  /\ ~InLine(c) /\ round[c] < Rounds /\ closing[RuntimeOf[c]] = "open"
  /\ round' = [round EXCEPT ![c] = @ + 1]
  /\ lock' = [lock EXCEPT ![RuntimeOf[c]] = Append(@, c)]
  /\ at' = [at EXCEPT ![c] = 0] /\ queuedBy' = [queuedBy EXCEPT ![c] = {}]
  /\ UNCHANGED <<trusted, running, taken, process, closing>>

Goes(c) == at' = [at EXCEPT ![c] = @ + 1]

\* The project's command and HTTP rules need the user's trust; a once rule
\* is consumed before its action is tried.
Skipped(c) ==
  \/ Rule(c).project /\ Rule(c).kind # "prompt" /\ ~trusted
  \/ Rule(c).once /\ <<EventOf[c], at[c] + 1>> \in once
Consumes(c) ==
  /\ once' = IF Rule(c).once THEN once \cup {<<EventOf[c], at[c] + 1>>} ELSE once
  /\ attempts' = [attempts EXCEPT ![<<EventOf[c], at[c] + 1>>] = @ + 1]

Turn(c) == Holds(c) /\ c \notin running /\ at[c] < Len(RulesOf(c))

\* A rule whose condition does not hold (any may not), or that is skipped.
Passes(c) ==
  /\ Turn(c) /\ Goes(c)
  /\ UNCHANGED <<trusted, lock, running, round, taken, queuedBy, process, closing>>

\* A prompt rule: its text is queued for the caller's owner if there is room.
QueuesPrompt(c) ==
  /\ Turn(c) /\ ~Skipped(c) /\ Rule(c).kind = "prompt" /\ Consumes(c) /\ Goes(c)
  /\ IF PromptsIn(RuntimeOf[c]) < Room
     THEN /\ prompts' = [prompts EXCEPT ![PromptOwnerOf[c]] = Append(@, Action(c))]
          /\ queuedBy' = [queuedBy EXCEPT ![c] = @ \cup {Action(c)}]
     ELSE UNCHANGED <<prompts, queuedBy>>
  /\ UNCHANGED <<trusted, lock, running, round, taken, count, live, finished, closing>>

\* A background rule: started if the budget has room.
StartsBackground(c) ==
  /\ Turn(c) /\ ~Skipped(c) /\ Rule(c).kind = "background" /\ Consumes(c) /\ Goes(c)
  /\ IF count < Budget
     THEN count' = count + 1 /\ live' = live \cup {Action(c)}
     ELSE UNCHANGED <<count, live>>
  /\ UNCHANGED <<trusted, lock, running, round, taken, queuedBy, prompts, finished, closing>>

\* Bug: a once rule is not consumed when its action is tried.
BugStartsAction(c) ==
  /\ Turn(c) /\ ~Skipped(c) /\ Rule(c).kind = "sync"
  /\ attempts' = [attempts EXCEPT ![<<EventOf[c], at[c] + 1>>] = @ + 1]
  /\ running' = running \cup {c}
  /\ UNCHANGED <<trusted, lock, at, round, taken, queuedBy, once, prompts, count, live, finished, closing>>

\* A synchronous rule: the dispatch waits for the command or the request,
\* holding the lock.
StartsAction(c) ==
  /\ Turn(c) /\ ~Skipped(c) /\ Rule(c).kind = "sync" /\ Consumes(c)
  /\ running' = running \cup {c}
  /\ UNCHANGED <<trusted, lock, at, round, taken, queuedBy, prompts, count, live, finished, closing>>

\* It completes, fails or runs into its timeout; a well-formed deny of
\* tool.before skips the rules that remain.
ActionEnds(c) ==
  /\ c \in running /\ running' = running \ {c}
  /\ \/ Goes(c)
     \/ EventOf[c] = "tool" /\ at' = [at EXCEPT ![c] = Len(RulesOf(c))]
  /\ UNCHANGED <<trusted, lock, round, taken, queuedBy, process, closing>>

\* Bug: the prompts are taken before message.before is dispatched.
BugReturns(c) ==
  /\ Holds(c) /\ c \notin running /\ at[c] = Len(RulesOf(c)) /\ Releases(c)
  /\ LET old(p) == p \notin queuedBy[c]
         mine(p) == p \in queuedBy[c] IN
     /\ taken' = [taken EXCEPT ![c] = @ \cup ToSet(SelectSeq(prompts[PromptOwnerOf[c]], old))]
     /\ prompts' = [prompts EXCEPT ![PromptOwnerOf[c]] = SelectSeq(@, mine)]
  /\ UNCHANGED <<trusted, at, running, round, queuedBy, once, attempts, count, live, finished, closing>>

\* dispatch returns.  A model request takes the prompts of its owner without
\* suspending in between, unless it is the first request of a fork.
Returns(c) ==
  /\ Holds(c) /\ c \notin running /\ at[c] = Len(RulesOf(c)) /\ Releases(c)
  /\ IF EventOf[c] = "message" /\ ~(c \in Forkers /\ round[c] = 1)
     THEN /\ taken' = [taken EXCEPT ![c] = @ \cup ToSet(prompts[PromptOwnerOf[c]])]
          /\ prompts' = [prompts EXCEPT ![PromptOwnerOf[c]] = <<>>]
     ELSE UNCHANGED <<taken, prompts>>
  /\ UNCHANGED <<trusted, at, running, round, queuedBy, once, attempts, count, live, finished, closing>>

\* The caller is cancelled while it waits for the lock or for an action (the
\* command is stopped); what it queued stays for the next request.
Cancelled(c) ==
  /\ InLine(c) /\ (Holds(c) => c \in running) /\ Releases(c)
  /\ running' = running \ {c} /\ queuedBy' = [queuedBy EXCEPT ![c] = {}]
  /\ UNCHANGED <<trusted, at, round, taken, process, closing>>

-----------------------------------------------------------------------------
\* Bug: an action that close cancels goes on.
BugBackgroundEnds(r) ==
  /\ closing[r] # "cancelling"
  /\ \E x \in LiveIn(r) : live' = live \ {x} /\ finished' = finished \cup {x}
  /\ UNCHANGED <<trusted, lock, at, running, round, taken, queuedBy, once, attempts,
                 prompts, count, closing>>

\* A background action ends by itself, at its timeout, or cancelled ...
BackgroundEnds(r) ==
  /\ \E x \in LiveIn(r) : live' = live \ {x} /\ finished' = finished \cup {x}
  /\ UNCHANGED <<trusted, lock, at, running, round, taken, queuedBy, once, attempts,
                 prompts, count, closing>>

\* ... and its done callback gives the slot back.
BackgroundDone(r) ==
  /\ \E x \in finished : RuntimeOf[x[1]] = r /\ finished' = finished \ {x}
  /\ count' = IF count > 0 THEN count - 1 ELSE 0
  /\ UNCHANGED <<trusted, lock, at, running, round, taken, queuedBy, once, attempts,
                 prompts, live, closing>>

\* close: the owner closes the runtime when none of its callers dispatches
\* (Conversation.close ends runs, teams, tasks and memory first); prompts
\* left over are dropped.
Closes(r) ==
  /\ closing[r] = "open" /\ lock[r] = <<>>
  /\ closing' = [closing EXCEPT ![r] = "closing"]
  /\ prompts' = [o \in PromptOwners |-> IF o \in OwnersOf(r) THEN <<>> ELSE prompts[o]]
  /\ UNCHANGED <<trusted, lock, at, running, round, taken, queuedBy, once, attempts,
                 count, live, finished>>

\* Bug: close cancels the late ones and does not wait for them.
BugCloseTimesOut(r) ==
  /\ closing[r] = "closing" /\ LiveIn(r) # {}
  /\ closing' = [closing EXCEPT ![r] = "closed"]
  /\ UNCHANGED <<trusted, lock, at, running, round, taken, queuedBy, process>>

\* It waits for the background actions, cancels the late ones and waits for
\* those too.
CloseTimesOut(r) ==
  /\ closing[r] = "closing" /\ LiveIn(r) # {}
  /\ closing' = [closing EXCEPT ![r] = "cancelling"]
  /\ UNCHANGED <<trusted, lock, at, running, round, taken, queuedBy, process>>

CloseIsOver(r) ==
  /\ closing[r] \in {"closing", "cancelling"} /\ LiveIn(r) = {}
  /\ closing' = [closing EXCEPT ![r] = "closed"]
  /\ UNCHANGED <<trusted, lock, at, running, round, taken, queuedBy, process>>

CallerStep(c) == \/ Dispatches(c) \/ Passes(c) \/ QueuesPrompt(c) \/ StartsBackground(c)
                 \/ StartsAction(c) \/ ActionEnds(c) \/ Returns(c) \/ Cancelled(c)
RuntimeStep(r) == \/ BackgroundEnds(r) \/ BackgroundDone(r) \/ Closes(r)
                  \/ CloseTimesOut(r) \/ CloseIsOver(r)
HookNext == (\E c \in Dispatchers : CallerStep(c)) \/ (\E r \in Runtimes : RuntimeStep(r))

HookSpec == HookInit /\ [][HookNext]_hookvars

\* A dispatch goes through its rules, an action or a background task ends at
\* its timeout at the latest, callbacks run.
HookFairness ==
  /\ \A c \in Dispatchers : WF_hookvars(Passes(c) \/ ActionEnds(c) \/ Returns(c))
  /\ \A r \in Runtimes : WF_hookvars(BackgroundEnds(r) \/ BackgroundDone(r) \/ CloseIsOver(r))

-----------------------------------------------------------------------------
(* Type invariant: the range of every variable. *)
Tries == Dispatchers \X (1..Rounds) \X Nat
HookTypeOK ==
  /\ trusted \in BOOLEAN
  /\ lock \in [Runtimes -> Seq(Dispatchers)] /\ \A r \in Runtimes : IsInjective(lock[r])
  /\ at \in [Dispatchers -> Nat] /\ \A c \in Dispatchers : at[c] <= Len(RulesOf(c))
  /\ running \subseteq Dispatchers /\ round \in [Dispatchers -> 0..Rounds]
  /\ taken \in [Dispatchers -> SUBSET Tries] /\ queuedBy \in [Dispatchers -> SUBSET Tries]
  /\ once \subseteq RuleIds /\ attempts \in [RuleIds -> Nat]
  /\ prompts \in [PromptOwners -> Seq(Tries)]
  /\ count \in 0..Budget /\ live \subseteq Tries /\ finished \subseteq Tries
  /\ closing \in [Runtimes -> {"open", "closing", "cancelling", "closed"}]

\* A once rule is tried at most once in the process, whichever runtimes and
\* callers meet it at the same time.  (docs: F46, F47; runtime.py:166-171.)
OnceOnly == \A i \in RuleIds : HookRules[i[1]][i[2]].once => attempts[i] <= 1

\* A prompt queued by a request's own message.before is in that very request,
\* another request of the same owner in between or not, and no prompt goes
\* into two requests.  (The lock held until dispatch returns, and no
\* suspension between the return and consume_prompt_context.)
PromptsReachOneRequest ==
  /\ \A c \in Dispatchers :
       (EventOf[c] = "message" /\ ~InLine(c) /\ ~(c \in Forkers /\ round[c] = 1))
         => queuedBy[c] \subseteq taken[c]
  /\ \A c, d \in Dispatchers : c # d => taken[c] \cap taken[d] = {}

\* The background actions of all runtimes together stay within the budget,
\* no slot is lost, and a closed runtime has none left.
\* (HookProcessState, _background_done, close.)
BackgroundIsTracked ==
  /\ count = Cardinality(live) + Cardinality(finished)
  /\ \A r \in Runtimes : closing[r] = "closed" => LiveIn(r) = {}

\* A rule marked once starts once in the process, a prompt goes into one request, and a
\* background action is counted and tracked until it is over.
HooksFireOnce == OnceOnly /\ PromptsReachOneRequest /\ BackgroundIsTracked

\* Every dispatch returns, whatever is cancelled around it, and every close
\* ends.  (Actions end by their timeout; a cancelled caller leaves the lock.)
DispatchesReturn ==
  []<>(/\ \A c \in Dispatchers : ~InLine(c)
       /\ \A r \in Runtimes : closing[r] \in {"open", "closed"})
=============================================================================
