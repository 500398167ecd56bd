----------------------------- MODULE SessionLog -----------------------------
(***************************************************************************)
(* The file of a session (continuity/session_repository.py) and how it is  *)
(* read back (continuity/session_codec.py).                                *)
(*                                                                         *)
(* A session is a file of lines, one per committed change; the process     *)
(* that works with it holds a lock.  A line may be cut off by a crash, or  *)
(* by a write that fails in a process that goes on.  Old sessions are      *)
(* deleted by whichever process comes along.  Of the times in the lines    *)
(* only the age of the last activity is kept.                              *)
(***************************************************************************)
EXTENDS Naturals, FiniteSets, SequencesExt

CONSTANTS Programs,     \* processes that open the session
          MaxLines,     \* bound: lines of the file
          MaxLogged,    \* bound: messages ever committed
          MaxLogFaults  \* bound: crashes and failed writes

ASSUME LogAssumption == {MaxLines, MaxLogged, MaxLogFaults} \subseteq Nat

VARIABLES
    file,       \* the lines; Gone when there is no file
    age,        \* of the last activity: "recent", "gap" (a day), "expired" (30 days)
    logHolder,  \* who holds the lock
    logAt,      \* where a process is: "out", "found", "in", "sweeping"
    mem,        \* the SessionBinding of a process
    logCount,   \* messages so far: each is a number of its own
    logFaults,
    spoilt      \* a write failed and its process went on

logvars == <<file, age, logHolder, logAt, mem, logCount, logFaults, spoilt>>

Gone == <<[what |-> "gone"]>>

\* A message: `whole` is FALSE of a response of which a tool call has no result.
Message == [n : 1..MaxLogged, whole : BOOLEAN, inbound : BOOLEAN]
Binding == [messages : Seq(Message), plan : 0..MaxLogged, ids : SUBSET (1..MaxLogged)]
Empty == [messages |-> <<>>, plan |-> 0, ids |-> {}]

LogTypeOK ==
    /\ age \in {"recent", "gap", "expired"} /\ logHolder \subseteq Programs
    /\ logAt \in [Programs -> {"out", "found", "in", "sweeping"}]
    /\ mem \in [Programs -> Binding]
    /\ logCount \in 0..MaxLogged /\ logFaults \in 0..MaxLogFaults /\ spoilt \in BOOLEAN

-----------------------------------------------------------------------------
(* reading *)

Start == [what |-> "start"]
Torn == [what |-> "torn"]         \* the last line has no end
Garbage == [what |-> "garbage"]   \* a line that cannot be decoded
History(op, messages) == [what |-> "history", op |-> op, messages |-> messages, ids |-> {}]
Inbound(message) ==
    [what |-> "inbound", op |-> "append", messages |-> <<message>>, ids |-> {message.n}]
PlanState(plan) == [what |-> "plan", plan |-> plan]
Cleared == [what |-> "inbound", op |-> "replace", messages |-> <<>>, ids |-> {}]

\* replay_file: a line changes the state, or is skipped.
Replayed(state, line) ==
    CASE line.what \in {"history", "inbound"} ->
            [state EXCEPT !.messages = IF line.op = "append" THEN @ \o line.messages
                                       ELSE line.messages,
                          !.ids = CASE line.what = "history" -> @
                                    [] line.op = "append" -> @ \cup line.ids
                                    [] OTHER -> line.ids]
      [] line.what = "plan" -> [state EXCEPT !.plan = line.plan]
      [] OTHER -> state
Replay(lines) ==
    LET state[n \in 0..Len(lines)] == IF n = 0 THEN Empty ELSE Replayed(state[n - 1], lines[n])
    IN state[Len(lines)]

BugValidPrefix(messages) ==  \* only the last incomplete response is looked for
    LET cut == {i \in 1..Len(messages) : ~messages[i].whole} IN
    IF cut = {} THEN messages ELSE SubSeq(messages, 1, Max(cut) - 1)

\* valid_tool_prefix: up to the first response of which a call has no result.
ValidPrefix(messages) ==
    LET cut == {i \in 1..Len(messages) : ~messages[i].whole} IN
    IF cut = {} THEN messages ELSE SubSeq(messages, 1, Min(cut) - 1)

-----------------------------------------------------------------------------
(* writing *)

\* _append_record: what was cut off before runs into the new line.
Whole(lines, line) == IF lines # <<>> /\ Last(lines) = Torn THEN Append(Front(lines), Garbage)
                      ELSE Append(lines, line)
Broken(lines) == IF lines # <<>> /\ Last(lines) = Torn THEN lines ELSE Append(lines, Torn)

CanAppend == Len(file) < MaxLines

\* The append, or a write error after part of it: then the binding is left as it was.
Appends(p, line, binding) ==
    /\ logAt[p] = "in" /\ CanAppend
    /\ \/ file' = Whole(file, line) /\ mem' = [mem EXCEPT ![p] = binding]
          /\ age' = (IF Last(file) = Torn THEN age ELSE "recent")
          /\ UNCHANGED <<logFaults, spoilt>>
       \/ logFaults < MaxLogFaults /\ logFaults' = logFaults + 1 /\ spoilt' = TRUE
          /\ file' \in {file, Broken(file)} /\ UNCHANGED <<mem, age>>
    /\ UNCHANGED <<logHolder, logAt>>

\* commit_history: what extends the history is appended, anything else replaces it.
Extends(longer, shorter) == Len(longer) > Len(shorter) /\ IsPrefix(shorter, longer)

LineOf(old, messages) ==
    IF Extends(messages, old) THEN History("append", SubSeq(messages, Len(old) + 1, Len(messages)))
    ELSE History("replace", messages)

CommitHistory(p, messages) ==
    /\ messages # mem[p].messages
    /\ Appends(p, LineOf(mem[p].messages, messages), [mem[p] EXCEPT !.messages = messages])

NewMessage(whole, inbound) == [n |-> logCount + 1, whole |-> whole, inbound |-> inbound]

\* A turn commits a message, or a response with the results of its calls.
TurnCommits(p) ==
    /\ logCount < MaxLogged /\ logCount' = logCount + 1
    /\ \E whole \in BOOLEAN : CommitHistory(p, Append(mem[p].messages, NewMessage(whole, FALSE)))

\* compact: a summary, and what was recent.
Compacts(p) ==
    /\ logCount < MaxLogged /\ logCount' = logCount + 1 /\ mem[p].messages # <<>>
    /\ \E recent \in {<<>>, <<Last(mem[p].messages)>>} :
         CommitHistory(p, <<NewMessage(TRUE, FALSE)>> \o recent)

CommitInbound(p) ==
    /\ logCount < MaxLogged /\ logCount' = logCount + 1
    /\ LET m == NewMessage(TRUE, TRUE) IN
       Appends(p, Inbound(m), [mem[p] EXCEPT !.messages = Append(@, m), !.ids = @ \cup {m.n}])

\* plan, execute_plan: a plan is pending, or done with.
CommitPlan(p) ==
    /\ \E plan \in {0, logCount} : /\ plan # mem[p].plan
                                /\ Appends(p, PlanState(plan), [mem[p] EXCEPT !.plan = plan])
    /\ UNCHANGED logCount

\* reset_state: a new file in the place of the old one; it is there before its directory is
\* known to be on disk.
ResetsLog(p) ==
    /\ logAt[p] = "in" /\ file' = <<Start, Cleared>> /\ age' = "recent"
    /\ \/ mem' = [mem EXCEPT ![p] = Empty] /\ spoilt' = FALSE /\ UNCHANGED logFaults
       \/ logFaults < MaxLogFaults /\ logFaults' = logFaults + 1 /\ spoilt' = TRUE /\ UNCHANGED mem
    /\ UNCHANGED <<logHolder, logAt, logCount>>

-----------------------------------------------------------------------------
(* opening, closing, dying *)

\* _create: the lock, then the file.
Creates(p) ==
    /\ logAt[p] = "out" /\ logHolder = {} /\ file = Gone /\ logCount = 0
    /\ file' = <<Start>> /\ age' = "recent" /\ logHolder' = {p}
    /\ logAt' = [logAt EXCEPT ![p] = "in"] /\ mem' = [mem EXCEPT ![p] = Empty]
    /\ UNCHANGED <<logCount, logFaults, spoilt>>

\* open: the file is there, and by its lines has not expired.
Finds(p) ==
    /\ logAt[p] = "out" /\ file # Gone
    /\ logAt' = [logAt EXCEPT ![p] = "found"]
    /\ UNCHANGED <<file, age, logHolder, mem, logCount, logFaults, spoilt>>
FindsNothing(p) ==
    /\ logAt[p] = "found" /\ (logHolder # {} \/ file = Gone \/ age = "expired")
    /\ logAt' = [logAt EXCEPT ![p] = "out"]
    /\ UNCHANGED <<file, age, logHolder, mem, logCount, logFaults, spoilt>>

BugRepaired(lines) == lines  \* the line that was cut off is left there

\* _open_existing: a line that was cut off is removed; incomplete responses are, with all
\* that follows; after a pause a notice is added.
Repaired(lines) == IF Last(lines) = Torn THEN Front(lines) ELSE lines
Resumes(p) ==
    LET read == Replay(file)
        valid == ValidPrefix(read.messages)
        cleaned == IF valid = read.messages THEN Repaired(file)
                   ELSE Append(Repaired(file), LineOf(read.messages, valid))
        notice == Append(valid, NewMessage(TRUE, FALSE)) IN
    /\ logAt[p] = "found" /\ logHolder = {} /\ file # Gone /\ age # "expired"
    /\ Len(cleaned) < MaxLines /\ (age = "gap" => logCount < MaxLogged)
    /\ logHolder' = {p} /\ logAt' = [logAt EXCEPT ![p] = "in"] /\ spoilt' = FALSE
    /\ IF age = "gap"
       THEN /\ file' = Append(cleaned, LineOf(valid, notice)) /\ age' = "recent"
            /\ logCount' = logCount + 1
            /\ mem' = [mem EXCEPT ![p] = [read EXCEPT !.messages = notice]]
       ELSE /\ file' = cleaned /\ UNCHANGED logCount
            /\ mem' = [mem EXCEPT ![p] = [read EXCEPT !.messages = valid]]
            /\ age' = IF valid = read.messages THEN age ELSE "recent"
    /\ UNCHANGED logFaults

Leaves(p) == /\ logHolder' = logHolder \ {p}
             /\ logAt' = [logAt EXCEPT ![p] = "out"] /\ mem' = [mem EXCEPT ![p] = Empty]
ClosesLog(p) ==
    /\ logAt[p] = "in" /\ Leaves(p)
    /\ UNCHANGED <<file, age, logCount, logFaults, spoilt>>

\* The process dies, perhaps in the middle of a write; the lock goes with it.
Crashes(p) ==
    /\ logAt[p] = "in" /\ logFaults < MaxLogFaults /\ logFaults' = logFaults + 1 /\ Leaves(p)
    /\ file' \in {file} \cup {Broken(f) : f \in {g \in {file} : CanAppend}}
    /\ UNCHANGED <<age, logCount, spoilt>>

-----------------------------------------------------------------------------
(* maintain: what has expired is deleted, under its lock *)

SeesExpired(p) ==
    /\ logAt[p] = "out" /\ file # Gone /\ age = "expired"
    /\ logAt' = [logAt EXCEPT ![p] = "sweeping"]
    /\ UNCHANGED <<file, age, logHolder, mem, logCount, logFaults, spoilt>>

BugDeletes(p) ==  \* without the lock
    /\ logAt[p] = "sweeping" /\ logAt' = [logAt EXCEPT ![p] = "out"]
    /\ file' = Gone
    /\ UNCHANGED <<age, logHolder, mem, logCount, logFaults, spoilt>>
Deletes(p) ==
    /\ logAt[p] = "sweeping" /\ logAt' = [logAt EXCEPT ![p] = "out"]
    /\ file' = IF logHolder = {} THEN Gone ELSE file
    /\ UNCHANGED <<age, logHolder, mem, logCount, logFaults, spoilt>>

\* Time passes, also while a session is open.
TimePasses ==
    /\ file # Gone /\ age # "expired" /\ age' = IF age = "recent" THEN "gap" ELSE "expired"
    /\ UNCHANGED <<file, logHolder, logAt, mem, logCount, logFaults, spoilt>>

LogInit ==
    /\ file = Gone /\ age = "recent" /\ logHolder = {} /\ logAt = [p \in Programs |-> "out"]
    /\ mem = [p \in Programs |-> Empty] /\ logCount = 0 /\ logFaults = 0 /\ spoilt = FALSE

LogNext ==
    \/ TimePasses
    \/ \E p \in Programs :
         \/ Creates(p) \/ Finds(p) \/ FindsNothing(p) \/ Resumes(p) \/ ClosesLog(p) \/ Crashes(p)
         \/ TurnCommits(p) \/ Compacts(p) \/ CommitInbound(p) \/ CommitPlan(p) \/ ResetsLog(p)
         \/ SeesExpired(p) \/ Deletes(p)

LogSpec == LogInit /\ [][LogNext]_logvars

-----------------------------------------------------------------------------
\* Over any order of turns, compactions, resets, crashes in the middle of a write, and
\* resumptions: what a process holds as committed is what the file says.
BoundIsStored == \A p \in Programs : logAt[p] = "in" /\ ~spoilt => Replay(file) = mem[p]

\* A session that is open is held by one process, and no other deletes its file.
OpenIsThere == \A p \in Programs : logAt[p] = "in" => logHolder = {p} /\ file # Gone

\* A conversation is resumed with a prefix of what was committed in which no tool call lacks
\* its result.
ResumedIsWhole ==
    [][\A p \in Programs : logAt[p] = "found" /\ logAt'[p] = "in" =>
         \A i \in 1..Len(mem'[p].messages) : mem'[p].messages[i].whole]_logvars

\* A session is held by one process, whose history is what the file says, and it is
\* resumed with whole groups of messages only.
SessionsAreKept == []BoundIsStored /\ []OpenIsThere /\ ResumedIsWhole

\* docs/phase-8-persistent-memory/spec.md:83 (N12): the clean-up deletes no session that has
\* not expired.
OnlyExpiredIsDeleted == [][file # Gone /\ file' = Gone => age = "expired"]_logvars

=============================================================================
