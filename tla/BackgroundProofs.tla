--------------------------- MODULE BackgroundProofs ---------------------------
(***************************************************************************)
(* What runs beside the conversation, for every set of tasks, dispatchers,  *)
(* runtimes, rules and servers and every limit.                             *)
(*                                                                          *)
(* Tasks are accounted for because it is settled who ends one: a driver     *)
(* coroutine that is not over belongs to an active task, and where one left *)
(* without a commit, a call of cancel() still stands behind it and will     *)
(* commit.  A deadline and a cancellation exclude each other, so neither    *)
(* can turn the other's verdict around.                                     *)
(*                                                                          *)
(* Hooks fire once because of the lock of a runtime: what a dispatch queued *)
(* stays in the queue of its owner while it holds the lock, because nobody  *)
(* else can take it, and so it is there when it returns.  And nothing is    *)
(* counted or taken twice because a dispatch goes through its rules once:   *)
(* what it started lies behind it (Passed).                                 *)
(*                                                                          *)
(* An isolated run is given back because its parts are closed in one order, *)
(* and the program's thread, which waits for the servers' thread, leaves it *)
(* only when that was told to stop.                                         *)
(***************************************************************************)
EXTENDS MCBackground, CapacityPoolProofs

-----------------------------------------------------------------------------
(* tasks *)

\* A task that was not started is not known and has told nothing.
Untouched(t) ==
    task[t].drive = "none" => ~task[t].known /\ caller[t] = "none" /\ told[t] = <<>>

\* Before its first step a coroutine has neither an agent nor a cancellation; a reset or
\* a close ends those that are there at once, and no other starts meanwhile.
NewIsFresh(t) ==
    task[t].drive = "new" =>
        /\ manager = "open" /\ task[t].exec = "none"
        /\ ~task[t].cancel /\ ~task[t].driver

\* Only a commit makes a task inactive, and it ends the coroutine.
DrivenIsActive(t) ==
    task[t].drive \notin {"none", "over"} => IsActive(t)

\* The agent works only while the coroutine waits for it.
WorkIsDriven(t) ==
    task[t].exec \in {"starts", "works", "stops"}
        => task[t].drive \in {"waits", "expires", "unwinds", "leaves"}

\* A coroutine that leaves, or has left, without a commit has a caller that commits: the
\* second cancellation that makes it leave cannot be that of a reset alone.
SomebodyCommits(t) ==
    /\ task[t].drive = "unwinds" => caller[t] # "none" \/ task[t].shut
    /\ task[t].drive = "leaves" => caller[t] # "none"
    /\ task[t].drive = "over" /\ IsActive(t) => caller[t] # "none"
    /\ caller[t] # "none" => task[t].cancel

\* How a late task may end: it has failed, or a reset or a close has killed it.
LateVerdict(outcome, shut) == outcome = "failed" \/ (outcome = "cancelled" /\ shut)

\* A task that is late was not cancelled before, nor can be after, and will fail unless it
\* is killed.
LateIsFailing(t) ==
    task[t].late =>
        /\ ~task[t].cancel /\ LateVerdict(task[t].outcome, task[t].shut)
        /\ task[t].drive \notin {"none", "new", "waits"}
        /\ task[t].exec \in {"stops", "done"}

\* What is queued has ended in the background, has its record, and was not told.
QueuedIsKept(t) ==
    t \in Range(pending) =>
        /\ task[t].known /\ task[t].pend /\ task[t].status \in Ended
        /\ task[t].place = "background" /\ told[t] = <<>>

\* What was told of has ended, and the tool call that started it will not tell it again.
ToldIsOver(t) ==
    /\ told[t] # <<>> => ~IsActive(t) /\ (op[t] # "waits" \/ task[t].place = "background")
    /\ t \in marking => told[t] # <<>>

\* No task is queued twice.
QueueIsDistinct == \A i, j \in 1..Len(pending) : pending[i] = pending[j] => i = j

\* What is so of each task.
TaskSteady(t) ==
    /\ Untouched(t) /\ NewIsFresh(t) /\ DrivenIsActive(t) /\ WorkIsDriven(t)
    /\ SomebodyCommits(t) /\ LateIsFailing(t) /\ QueuedIsKept(t) /\ ToldIsOver(t)

\* The inductive invariant.
TasksInv == /\ TasksTypeOK /\ QueueIsDistinct /\ TasksAreAccounted
            /\ \A t \in Tasks : TaskSteady(t)

-----------------------------------------------------------------------------
(* Records *)

\* What a record of a task is made of.
LEMMA RecordFields ==
    ASSUME NEW r \in TaskRecords
    PROVE  /\ r.known \in BOOLEAN /\ r.status \in Active \cup Ended
           /\ r.place \in {"foreground", "background"} /\ r.pend \in BOOLEAN
           /\ r.cancel \in BOOLEAN /\ r.late \in BOOLEAN
           /\ r.drive \in {"none", "new", "waits", "expires", "unwinds", "leaves", "closes",
                           "commits", "over"}
           /\ r.exec \in {"none", "starts", "works", "stops", "done"}
           /\ r.driver \in BOOLEAN /\ r.outcome \in Ended /\ r.shut \in BOOLEAN
  BY DEF TaskRecords

\* Killed changes where the coroutines are, and the outcome, and nothing else.
LEMMA KilledRecord ==
    ASSUME NEW r \in TaskRecords
    PROVE  /\ Killed(r) \in TaskRecords
           /\ Killed(r).known = r.known /\ Killed(r).status = r.status
           /\ Killed(r).place = r.place /\ Killed(r).pend = r.pend
           /\ Killed(r).cancel = r.cancel /\ Killed(r).late = r.late
           /\ Killed(r).driver = r.driver /\ Killed(r).shut = r.shut
           /\ Killed(r).outcome \in {r.outcome, "cancelled"}
           /\ Killed(r).exec = IF r.drive = "waits" /\ r.exec # "done" THEN "stops"
                               ELSE r.exec
           /\ Killed(r).drive = IF r.drive = "new" THEN "over"
                                ELSE IF r.drive \in {"waits", "expires"} THEN "unwinds"
                                ELSE IF r.drive = "unwinds" THEN "leaves" ELSE r.drive
  <1>1. CASE r.drive = "new"
    BY <1>1 DEF Killed, TaskRecords
  <1>2. CASE r.drive = "waits"
    BY <1>2 DEF Killed, TaskRecords, Ended
  <1>3. CASE r.drive = "expires"
    BY <1>3 DEF Killed, TaskRecords, Ended
  <1>4. CASE r.drive = "unwinds"
    BY <1>4 DEF Killed, TaskRecords
  <1>5. CASE r.drive \notin {"new", "waits", "expires", "unwinds"}
    BY <1>5 DEF Killed
  <1> QED BY <1>1, <1>2, <1>3, <1>4, <1>5

\* CancelRecord asks, and kills what has no driver yet.
LEMMA CancelledRecord ==
    ASSUME NEW r \in TaskRecords
    PROVE  /\ CancelRecord(r) \in TaskRecords
           /\ CancelRecord(r).known = r.known /\ CancelRecord(r).status = r.status
           /\ CancelRecord(r).place = r.place /\ CancelRecord(r).pend = r.pend
           /\ CancelRecord(r).cancel /\ CancelRecord(r).late = r.late
           /\ CancelRecord(r).shut = r.shut
           /\ CancelRecord(r).exec \in {r.exec, "stops"}
           /\ CancelRecord(r).exec = r.exec \/ r.drive = "waits" \/ r.exec = "works"
           /\ r.driver => CancelRecord(r).drive = r.drive
           /\ ~r.driver => CancelRecord(r).drive =
                              IF r.drive = "new" THEN "over"
                              ELSE IF r.drive \in {"waits", "expires"} THEN "unwinds"
                              ELSE IF r.drive = "unwinds" THEN "leaves" ELSE r.drive
  <1> DEFINE asked == [r EXCEPT !.cancel = TRUE]
  <1>1. /\ asked \in TaskRecords /\ asked.known = r.known /\ asked.status = r.status
        /\ asked.place = r.place /\ asked.pend = r.pend /\ asked.cancel /\ asked.late = r.late
        /\ asked.driver = r.driver /\ asked.shut = r.shut /\ asked.outcome = r.outcome
        /\ asked.exec = r.exec /\ asked.drive = r.drive
    BY DEF TaskRecords
  <1>2. CASE r.driver
    <2> DEFINE e == IF asked.exec = "works" THEN "stops" ELSE asked.exec
    <2>1. CancelRecord(r) = [asked EXCEPT !.exec = e]
      BY <1>1, <1>2 DEF CancelRecord
    <2>2. e \in {"none", "starts", "works", "stops", "done"} /\ e \in {r.exec, "stops"}
          /\ (e = r.exec \/ r.exec = "works")
      BY <1>1, RecordFields
    <2> HIDE DEF asked, e
    <2> QED BY <1>1, <1>2, <2>1, <2>2 DEF TaskRecords
  <1>3. CASE ~r.driver
    <2>1. CancelRecord(r) = Killed(asked)
      BY <1>1, <1>3 DEF CancelRecord
    <2> HIDE DEF asked
    <2> QED BY <1>1, <1>3, <2>1, KilledRecord, RecordFields
  <1> QED BY <1>2, <1>3, RecordFields

-----------------------------------------------------------------------------
(* Queues *)

\* Range of a queue: the tasks at its positions.
LEMMA QueueRange ==
    ASSUME NEW q \in Seq(Tasks), NEW t
    PROVE  /\ t \in Range(q) <=> \E i \in 1..Len(q) : q[i] = t
           /\ Range(q) \subseteq Tasks
  BY LenProperties DEF Range

\* Enqueuing a task.
LEMMA QueueAppended ==
    ASSUME NEW q \in Seq(Tasks), NEW t \in Tasks
    PROVE  /\ Append(q, t) \in Seq(Tasks)
           /\ Range(Append(q, t)) = Range(q) \cup {t}
           /\ ((\A i, j \in 1..Len(q) : q[i] = q[j] => i = j) /\ t \notin Range(q))
              => \A i, j \in 1..Len(Append(q, t)) :
                    Append(q, t)[i] = Append(q, t)[j] => i = j
  <1> DEFINE a == Append(q, t)
  <1>1. /\ a \in Seq(Tasks) /\ Len(a) = Len(q) + 1 /\ Len(q) \in Nat
        /\ \A i \in 1..Len(q) : a[i] = q[i]
        /\ a[Len(q) + 1] = t
    BY AppendProperties, LenProperties
  <1>2. Range(a) = Range(q) \cup {t}
    <2> HIDE DEF a
    <2>1. ASSUME NEW x \in Range(a) PROVE x \in Range(q) \cup {t}
      <3>1. PICK i \in 1..Len(a) : a[i] = x
        BY <1>1, <2>1, QueueRange
      <3> QED BY <1>1, <3>1, QueueRange
    <2>2. ASSUME NEW x \in Range(q) PROVE x \in Range(a)
      <3>1. PICK i \in 1..Len(q) : q[i] = x
        BY <2>2, QueueRange
      <3> QED BY <1>1, <3>1, QueueRange
    <2>3. t \in Range(a)
      <3>1. Len(q) + 1 \in 1..Len(a)
        BY <1>1
      <3> QED BY <1>1, <3>1, QueueRange
    <2> QED BY <2>1, <2>2, <2>3
  <1>3. ASSUME \A i, j \in 1..Len(q) : q[i] = q[j] => i = j, t \notin Range(q),
               NEW i \in 1..Len(a), NEW j \in 1..Len(a), a[i] = a[j]
        PROVE  i = j
    <2> HIDE DEF a
    <2>1. \A k \in 1..Len(q) : q[k] # t
      BY <1>3, QueueRange
    <2> QED BY <1>1, <1>3, <2>1
  <1> QED BY <1>1, <1>2, <1>3

\* A batch is taken from the front of the queue: what stays is not in it.
LEMMA QueueTaken ==
    ASSUME NEW q \in Seq(Tasks), NEW n \in 1..Len(q),
           \A i, j \in 1..Len(q) : q[i] = q[j] => i = j
    PROVE  LET rest == SubSeq(q, n + 1, Len(q)) IN
           /\ rest \in Seq(Tasks)
           /\ Range(rest) \subseteq Range(q) \ {q[i] : i \in 1..n}
           /\ {q[i] : i \in 1..n} \subseteq Range(q)
           /\ Range(q) \subseteq Range(rest) \cup {q[i] : i \in 1..n}
           /\ \A i, j \in 1..Len(rest) : rest[i] = rest[j] => i = j
  <1> DEFINE rest == SubSeq(q, n + 1, Len(q))
  <1>0. Len(q) \in Nat /\ \A i \in 1..Len(q) : q[i] \in Tasks
    BY LenProperties
  <1>1. rest \in Seq(Tasks) /\ Len(rest) = Len(q) - n
        /\ \A i \in 1..(Len(q) - n) : rest[i] = q[n + i]
    BY <1>0, SubSeqProperties
  <1> HIDE DEF rest
  <1>2. ASSUME NEW x \in Range(rest) PROVE x \in Range(q) \ {q[i] : i \in 1..n}
    <2>1. PICK i \in 1..Len(rest) : rest[i] = x
      BY <1>1, <1>2, QueueRange
    <2>2. n + i \in 1..Len(q) /\ q[n + i] = x
      BY <1>0, <1>1, <2>1
    <2> QED BY <1>0, <2>2, QueueRange
  <1>3. ASSUME NEW x \in {q[i] : i \in 1..n} PROVE x \in Range(q)
    BY <1>0, QueueRange
  <1>4. ASSUME NEW x \in Range(q), x \notin {q[i] : i \in 1..n} PROVE x \in Range(rest)
    <2>1. PICK i \in 1..Len(q) : q[i] = x
      BY QueueRange
    <2>2. i \notin 1..n
      BY <1>4, <2>1
    <2>3. i - n \in 1..Len(rest) /\ n + (i - n) = i
      BY <1>0, <1>1, <2>2
    <2>4. rest[i - n] = x
      BY <1>1, <2>1, <2>3
    <2> QED BY <1>1, <2>3, <2>4, QueueRange
  <1>5. ASSUME NEW i \in 1..Len(rest), NEW j \in 1..Len(rest), rest[i] = rest[j] PROVE i = j
    <2>1. n + i \in 1..Len(q) /\ n + j \in 1..Len(q) /\ q[n + i] = q[n + j]
      BY <1>0, <1>1, <1>5
    <2>2. n + i = n + j
      BY <2>1
    <2> QED BY <2>2, <1>0
  <1> QED BY <1>1, <1>2, <1>3, <1>4, <1>5 DEF rest

-----------------------------------------------------------------------------
(* Steps *)

\* Nothing of the model is touched but the records and the calls of cancel().
OnlyRecords == UNCHANGED <<held, foreground, manager, op, reports>>

\* A step of one active task, by its driver, its agent or whoever cancels it, that leaves
\* it active: the new record and call keep to what is said of them alone.
LEMMA ActiveStep ==
    ASSUME TasksInv, NEW t \in Tasks, NEW r \in TaskRecords,
           NEW c \in {"none", "waits", "killed"},
           IsActive(t), OnlyRecords,
           task' = [task EXCEPT ![t] = r], caller' = [caller EXCEPT ![t] = c],
           r.known, r.status \in Active, r.place = task[t].place, r.drive \notin {"none", "new"},
           r.exec \in {"starts", "works", "stops"}
             => r.drive \in {"waits", "expires", "unwinds", "leaves"},
           r.drive = "unwinds" => c # "none" \/ r.shut,
           r.drive \in {"leaves", "over"} => c # "none",
           c # "none" => r.cancel,
           r.late => /\ ~r.cancel /\ LateVerdict(r.outcome, r.shut)
                     /\ r.drive # "waits" /\ r.exec \in {"stops", "done"}
    PROVE  TasksInv'
  <1> USE DEF TasksInv
  <1>1. UNCHANGED <<held, foreground, manager, op, pending, marking, retired, told>>
    BY DEF OnlyRecords, reports
  <1>2. TasksTypeOK'
    BY <1>1 DEF TasksTypeOK
  <1>3. /\ task'[t] = r /\ caller'[t] = c
        /\ \A x \in Tasks : x # t => task'[x] = task[x] /\ caller'[x] = caller[x]
    BY DEF TasksTypeOK
  <1>4. ASSUME NEW x \in Tasks
        PROVE  /\ IsActive(x)' <=> IsActive(x)
               /\ task'[x].place = task[x].place
    BY <1>3 DEF IsActive
  <1>5. t \notin Range(pending) /\ told[t] = <<>> /\ t \notin marking
    <2>1. task[t].status \notin Ended
      BY DEF IsActive, Active, Ended
    <2> QED BY <2>1 DEF TaskSteady, QueuedIsKept, ToldIsOver
  <1>6. QueueIsDistinct'
    BY <1>1 DEF QueueIsDistinct
  <1>7. r.status \notin Ended
    BY DEF Active, Ended
  <1>8. TasksAreAccounted'
    <2>1. ToldOnce'
      BY <1>1 DEF TasksAreAccounted, ToldOnce
    <2>2. BackgroundIsAnnounced'
      BY <1>1, <1>3, <1>5, <1>7 DEF TasksAreAccounted, BackgroundIsAnnounced
    <2>3. SlotsCoverWork'
      <3>1. \A x \in Tasks : x \in held' <=> IsActive(x)'
        BY <1>1, <1>4 DEF TasksAreAccounted, SlotsCoverWork
      <3>2. t \in held
        BY DEF TasksAreAccounted, SlotsCoverWork
      <3> QED BY <1>1, <1>3, <3>1, <3>2 DEF TasksAreAccounted, SlotsCoverWork
    <2>4. ForegroundIsBound'
      BY <1>1, <1>4 DEF TasksAreAccounted, ForegroundIsBound
    <2>5. LateEndsOnce'
      BY <1>3, <1>7 DEF TasksAreAccounted, LateEndsOnce
    <2> QED BY <2>1, <2>2, <2>3, <2>4, <2>5 DEF TasksAreAccounted
  <1>9. TaskSteady(t)'
    <2>1. IsActive(t)'
      BY <1>4
    <2>2. Untouched(t)' /\ NewIsFresh(t)' /\ DrivenIsActive(t)' /\ WorkIsDriven(t)'
      BY <1>3, <2>1 DEF Untouched, NewIsFresh, DrivenIsActive, WorkIsDriven
    <2>3. SomebodyCommits(t)' /\ LateIsFailing(t)'
      BY <1>3 DEF SomebodyCommits, LateIsFailing
    <2>4. QueuedIsKept(t)' /\ ToldIsOver(t)'
      BY <1>1, <1>5 DEF QueuedIsKept, ToldIsOver
    <2> QED BY <2>2, <2>3, <2>4 DEF TaskSteady
  <1>10. ASSUME NEW x \in Tasks, x # t PROVE TaskSteady(x)'
    <2>1. TaskSteady(x) /\ task'[x] = task[x] /\ caller'[x] = caller[x]
      BY <1>3, <1>10
    <2> QED BY <1>1, <2>1 DEF TaskSteady, Untouched, NewIsFresh, DrivenIsActive, WorkIsDriven,
                              SomebodyCommits, LateIsFailing, QueuedIsKept, ToldIsOver, IsActive
  <1> QED BY <1>2, <1>6, <1>8, <1>9, <1>10

\* A step of a driver or an agent calls nothing of cancel().
LEMMA DriverStep ==
    ASSUME TasksInv, NEW t \in Tasks, NEW r \in TaskRecords,
           IsActive(t), OnlyTask,
           task' = [task EXCEPT ![t] = r],
           r.known, r.status \in Active, r.place = task[t].place,
           r.cancel = task[t].cancel, r.drive \notin {"none", "new"},
           r.exec \in {"starts", "works", "stops"}
             => r.drive \in {"waits", "expires", "unwinds", "leaves"},
           r.drive = "unwinds" => caller[t] # "none" \/ r.shut,
           r.drive \in {"leaves", "over"} => caller[t] # "none",
           r.late => /\ ~r.cancel /\ LateVerdict(r.outcome, r.shut)
                     /\ r.drive # "waits" /\ r.exec \in {"stops", "done"}
    PROVE  TasksInv'
  <1>1. caller[t] \in {"none", "waits", "killed"} /\ caller' = [caller EXCEPT ![t] = caller[t]]
    BY DEF OnlyTask, TasksInv, TasksTypeOK
  <1>2. caller[t] # "none" => r.cancel
    BY DEF TasksInv, TaskSteady, SomebodyCommits
  <1>3. OnlyRecords
    BY DEF OnlyTask, OnlyRecords
  <1> QED BY <1>1, <1>2, <1>3, ActiveStep

-----------------------------------------------------------------------------
(* The driver *)

\* The driver coroutine begins: a record that is there is active.
LEMMA DriveBeginsStep ==
    ASSUME TasksInv, NEW t \in Tasks, DriveBegins(t)
    PROVE  TasksInv'
  <1> DEFINE s == IF task[t].cancel THEN task[t].status ELSE "running"
             r == [task[t] EXCEPT !.drive = "waits", !.exec = "starts", !.status = s]
  <1>1. task[t] \in TaskRecords /\ TaskSteady(t)
    BY DEF TasksInv, TasksTypeOK
  <1>2. IsActive(t) /\ task[t].drive = "new" /\ ~task[t].late
    BY <1>1, RecordFields DEF DriveBegins, TaskSteady, DrivenIsActive, LateIsFailing
  <1>3. task' = [task EXCEPT ![t] = r] /\ OnlyTask
    BY <1>1, <1>2 DEF DriveBegins, IsActive
  <1>4. s \in Active
    BY <1>2 DEF IsActive, Active
  <1> HIDE DEF s
  <1>5. r \in TaskRecords /\ r.known = task[t].known /\ r.status = s
        /\ r.place = task[t].place /\ r.cancel = task[t].cancel /\ r.drive = "waits"
        /\ r.late = task[t].late
    BY <1>1, <1>4 DEF TaskRecords
  <1> HIDE DEF r
  <1> QED BY <1>2, <1>3, <1>4, <1>5, DriverStep DEF IsActive

\* The agent is there, and works unless it was cancelled before.
LEMMA DriverCreatedStep ==
    ASSUME TasksInv, NEW t \in Tasks, DriverCreated(t)
    PROVE  TasksInv'
  <1> DEFINE e == IF task[t].cancel THEN "stops" ELSE "works"
             r == [task[t] EXCEPT !.driver = TRUE, !.exec = e]
  <1>1. task[t] \in TaskRecords /\ TaskSteady(t)
    BY DEF TasksInv, TasksTypeOK
  <1>2. IsActive(t) /\ task[t].exec = "starts" /\ ~task[t].late
        /\ task[t].drive \in {"waits", "expires", "unwinds", "leaves"}
    BY <1>1 DEF DriverCreated, TaskSteady, DrivenIsActive, WorkIsDriven, LateIsFailing
  <1>3. task' = [task EXCEPT ![t] = r] /\ OnlyTask
    BY <1>1 DEF DriverCreated
  <1>4. e \in {"stops", "works"}
    OBVIOUS
  <1> HIDE DEF e
  <1>5. r \in TaskRecords /\ r.known = task[t].known /\ r.status = task[t].status
        /\ r.place = task[t].place /\ r.cancel = task[t].cancel /\ r.drive = task[t].drive
        /\ r.late = task[t].late /\ r.shut = task[t].shut
    BY <1>1, <1>4 DEF TaskRecords
  <1> HIDE DEF r
  <1>6. r.drive \in {"unwinds", "leaves"} => caller[t] # "none" \/ (r.drive = "unwinds" /\ r.shut)
    BY <1>1, <1>5 DEF TaskSteady, SomebodyCommits
  <1> QED BY <1>2, <1>3, <1>5, <1>6, DriverStep DEF IsActive

\* The execution is over, and its outcome noted: where that is the driver's to decide.
LEMMA ExecIsDone ==
    ASSUME TasksInv, NEW t \in Tasks, NEW o \in Ended, OnlyTask,
           task[t].exec \in {"starts", "works", "stops"},
           task[t].exec = "stops" => task[t].drive = "waits" \/ o = task[t].outcome,
           task' = [task EXCEPT ![t] = [task[t] EXCEPT !.exec = "done", !.outcome = o]]
    PROVE  TasksInv'
  <1> DEFINE r == [task[t] EXCEPT !.exec = "done", !.outcome = o]
  <1>1. task[t] \in TaskRecords /\ TaskSteady(t)
    BY DEF TasksInv, TasksTypeOK
  <1>2. IsActive(t) /\ task[t].drive \in {"waits", "expires", "unwinds", "leaves"}
    BY <1>1 DEF TaskSteady, DrivenIsActive, WorkIsDriven
  <1>3. r \in TaskRecords /\ r.known = task[t].known /\ r.status = task[t].status
        /\ r.place = task[t].place /\ r.cancel = task[t].cancel /\ r.drive = task[t].drive
        /\ r.late = task[t].late /\ r.shut = task[t].shut /\ r.exec = "done" /\ r.outcome = o
    BY <1>1 DEF TaskRecords
  <1>4. task' = [task EXCEPT ![t] = r]
    OBVIOUS
  <1> HIDE DEF r
  <1>5. r.drive \in {"unwinds", "leaves"} => caller[t] # "none" \/ (r.drive = "unwinds" /\ r.shut)
    BY <1>1, <1>3 DEF TaskSteady, SomebodyCommits
  <1>6. r.late => ~r.cancel /\ LateVerdict(r.outcome, r.shut) /\ r.drive # "waits"
    BY <1>1, <1>3 DEF TaskSteady, LateIsFailing
  <1> QED BY <1>2, <1>3, <1>4, <1>5, <1>6, DriverStep DEF IsActive

\* The agent ends by itself.
LEMMA ExecEndsStep ==
    ASSUME TasksInv, NEW t \in Tasks, ExecEnds(t)
    PROVE  TasksInv'
  <1>1. task[t] \in TaskRecords
    BY DEF TasksInv, TasksTypeOK
  <1>2. PICK o \in {"failed", "completed"} :
          task' = [task EXCEPT ![t].exec = "done", ![t].outcome = o]
    BY DEF ExecEnds
  <1>3. task' = [task EXCEPT ![t] = [task[t] EXCEPT !.exec = "done", !.outcome = o]]
    BY <1>2
  <1>4. o \in Ended /\ OnlyTask /\ task[t].exec \in {"starts", "works"}
    BY DEF Ended, ExecEnds
  <1> QED BY <1>3, <1>4, ExecIsDone

\* The agent has heard of its cancellation.
LEMMA ExecStopsStep ==
    ASSUME TasksInv, NEW t \in Tasks, ExecStops(t)
    PROVE  TasksInv'
  <1>1. task[t] \in TaskRecords
    BY DEF TasksInv, TasksTypeOK
  <1>2. PICK o \in {"completed", "cancelled"} :
          task' = [task EXCEPT ![t].exec = "done",
                               ![t].outcome = IF task[t].drive = "waits" THEN o ELSE @]
    BY DEF ExecStops
  <1> DEFINE v == IF task[t].drive = "waits" THEN o ELSE task[t].outcome
  <1>3. task' = [task EXCEPT ![t] = [task[t] EXCEPT !.exec = "done", !.outcome = v]]
    BY <1>1, <1>2
  <1>4. /\ v \in Ended /\ OnlyTask /\ task[t].exec = "stops"
        /\ task[t].drive = "waits" \/ v = task[t].outcome
    BY <1>1, RecordFields DEF Ended, ExecStops
  <1> HIDE DEF v
  <1> QED BY <1>3, <1>4, ExecIsDone

\* The driver coroutine is where nothing of the agent runs any more: it closes the driver,
\* commits, or leaves that to a caller.
LEMMA DriveGoesOn ==
    ASSUME TasksInv, NEW t \in Tasks, OnlyTask,
           NEW d \in {"closes", "commits", "over"}, NEW o \in Ended,
           task[t].drive \notin {"none", "new", "over"},
           task[t].exec \notin {"starts", "works", "stops"},
           d = "over" => caller[t] # "none",
           o = task[t].outcome \/ o = "failed" \/ ~task[t].late,
           task[t].late => task[t].drive # "waits",
           task' = [task EXCEPT ![t] = [task[t] EXCEPT !.drive = d, !.outcome = o]]
    PROVE  TasksInv'
  <1> DEFINE r == [task[t] EXCEPT !.drive = d, !.outcome = o]
  <1>1. task[t] \in TaskRecords /\ TaskSteady(t)
    BY DEF TasksInv, TasksTypeOK
  <1>2. IsActive(t)
    BY <1>1 DEF TaskSteady, DrivenIsActive
  <1>3. r \in TaskRecords /\ r.known = task[t].known /\ r.status = task[t].status
        /\ r.place = task[t].place /\ r.cancel = task[t].cancel /\ r.exec = task[t].exec
        /\ r.late = task[t].late /\ r.drive = d /\ r.outcome = o /\ r.shut = task[t].shut
    BY <1>1 DEF TaskRecords
  <1>4. task' = [task EXCEPT ![t] = r]
    OBVIOUS
  <1> HIDE DEF r
  <1>5. r.late => ~r.cancel /\ LateVerdict(r.outcome, r.shut) /\ r.exec \in {"stops", "done"}
    BY <1>1, <1>3 DEF TaskSteady, LateIsFailing, LateVerdict
  <1> QED BY <1>2, <1>3, <1>4, <1>5, DriverStep DEF IsActive

\* asyncio.wait returns with the execution done.
LEMMA DriveWakesStep ==
    ASSUME TasksInv, NEW t \in Tasks, DriveWakes(t)
    PROVE  TasksInv'
  <1>1. task[t] \in TaskRecords /\ TaskSteady(t)
    BY DEF TasksInv, TasksTypeOK
  <1>2. task[t].outcome \in Ended
    BY <1>1, RecordFields
  <1>3. task' = [task EXCEPT ![t] = [task[t] EXCEPT !.drive = "closes",
                                                    !.outcome = task[t].outcome]]
    BY <1>1 DEF DriveWakes, TaskRecords
  <1>4. task[t].late => task[t].drive # "waits"
    BY <1>1 DEF TaskSteady, LateIsFailing
  <1> QED BY <1>2, <1>3, <1>4, DriveGoesOn DEF DriveWakes

\* The finally is through with the execution.
LEMMA DriveUnwoundStep ==
    ASSUME TasksInv, NEW t \in Tasks, DriveUnwound(t)
    PROVE  TasksInv'
  <1> DEFINE d == IF task[t].drive = "leaves" THEN "over" ELSE "closes"
  <1>1. task[t] \in TaskRecords /\ TaskSteady(t)
    BY DEF TasksInv, TasksTypeOK
  <1>2. task[t].outcome \in Ended
    BY <1>1, RecordFields
  <1>3. task' = [task EXCEPT ![t].drive = d]
    BY DEF DriveUnwound
  <1>4. d = "over" => caller[t] # "none"
    BY <1>1 DEF TaskSteady, SomebodyCommits
  <1>5. d \in {"closes", "over"}
    OBVIOUS
  <1> HIDE DEF d
  <1>6. task' = [task EXCEPT ![t] = [task[t] EXCEPT !.drive = d,
                                                    !.outcome = task[t].outcome]]
    BY <1>1, <1>3 DEF TaskRecords
  <1>7. /\ OnlyTask /\ task[t].drive \notin {"none", "new", "over", "waits"}
        /\ task[t].exec \notin {"starts", "works", "stops"}
    BY DEF DriveUnwound
  <1> QED BY <1>2, <1>4, <1>5, <1>6, <1>7, DriveGoesOn

\* driver.close() returns, or fails.
LEMMA DriverClosesStep ==
    ASSUME TasksInv, NEW t \in Tasks, DriverCloses(t)
    PROVE  TasksInv'
  <1>1. task[t] \in TaskRecords /\ TaskSteady(t)
    BY DEF TasksInv, TasksTypeOK
  <1>2. PICK o \in Closed(task[t]) :
          task' = [task EXCEPT ![t].drive = "commits", ![t].outcome = o]
    BY DEF DriverCloses
  <1>3. o \in Ended /\ (o = task[t].outcome \/ o = "failed" \/ ~task[t].late)
    BY <1>1, RecordFields DEF Closed, Ended
  <1>4. task' = [task EXCEPT ![t] = [task[t] EXCEPT !.drive = "commits", !.outcome = o]]
    BY <1>2
  <1>5. task[t].exec \notin {"starts", "works", "stops"}
    BY <1>1 DEF DriverCloses, TaskSteady, WorkIsDriven
  <1> QED BY <1>3, <1>4, <1>5, DriveGoesOn DEF DriverCloses

\* The deadline passes: it is late unless it was cancelled, and then its verdict stands.
LEMMA DeadlineStep ==
    ASSUME TasksInv, NEW t \in Tasks, Deadline(t)
    PROVE  TasksInv'
  <1> DEFINE o == IF task[t].cancel THEN "cancelled" ELSE "failed"
             l == ~task[t].cancel
             r == [task[t] EXCEPT !.drive = "expires", !.exec = "stops", !.late = l,
                                  !.outcome = o]
  <1>1. task[t] \in TaskRecords /\ TaskSteady(t)
    BY DEF TasksInv, TasksTypeOK
  <1>2. IsActive(t)
    BY <1>1 DEF Deadline, TaskSteady, DrivenIsActive
  <1>3. task' = [task EXCEPT ![t] = r] /\ OnlyTask
    BY <1>1 DEF Deadline
  <1>4. o \in Ended /\ l \in BOOLEAN
        /\ (l => ~task[t].cancel /\ LateVerdict(o, task[t].shut))
    BY <1>1, RecordFields DEF Ended, LateVerdict
  <1> HIDE DEF o, l
  <1>5. r \in TaskRecords /\ r.known = task[t].known /\ r.status = task[t].status
        /\ r.place = task[t].place /\ r.cancel = task[t].cancel /\ r.exec = "stops"
        /\ r.late = l /\ r.drive = "expires" /\ r.outcome = o /\ r.shut = task[t].shut
    BY <1>1, <1>4 DEF TaskRecords
  <1> HIDE DEF r
  <1> QED BY <1>2, <1>3, <1>4, <1>5, DriverStep DEF IsActive

-----------------------------------------------------------------------------
(* Cancellation *)

\* What CancelRecord makes of a task that can be cancelled keeps to the rules of a step.
LEMMA CancelKeeps ==
    ASSUME TasksInv, NEW t \in Tasks, CanCancel(t)
    PROVE  LET r == CancelRecord(task[t]) IN
           /\ r \in TaskRecords /\ r.known /\ r.status = task[t].status
           /\ r.place = task[t].place /\ r.cancel /\ ~r.late
           /\ r.drive \notin {"none", "new"}
           /\ r.exec \in {"starts", "works", "stops"}
                => r.drive \in {"waits", "expires", "unwinds", "leaves"}
  <1> DEFINE r == CancelRecord(task[t])
  <1>1. task[t] \in TaskRecords /\ TaskSteady(t)
    BY DEF TasksInv, TasksTypeOK
  <1>2. IsActive(t) /\ ~task[t].late /\ task[t].known
    BY DEF CanCancel, IsActive
  <1>3. task[t].drive # "none" /\ (task[t].drive = "new" => task[t].exec = "none"
                                                    /\ ~task[t].driver)
    BY <1>1, <1>2 DEF TaskSteady, Untouched, NewIsFresh, IsActive
  <1>4. task[t].exec \in {"starts", "works", "stops"}
          => task[t].drive \in {"waits", "expires", "unwinds", "leaves"}
    BY <1>1 DEF TaskSteady, WorkIsDriven
  <1>5. /\ r \in TaskRecords /\ r.known = task[t].known /\ r.status = task[t].status
        /\ r.place = task[t].place /\ r.cancel /\ r.late = task[t].late
        /\ r.exec = task[t].exec \/ task[t].drive = "waits" \/ task[t].exec = "works"
        /\ task[t].driver => r.drive = task[t].drive
        /\ ~task[t].driver => r.drive =
                              IF task[t].drive = "new" THEN "over"
                              ELSE IF task[t].drive \in {"waits", "expires"} THEN "unwinds"
                              ELSE IF task[t].drive = "unwinds" THEN "leaves"
                              ELSE task[t].drive
    BY <1>1, CancelledRecord
  <1> HIDE DEF r
  <1>6. r.drive \notin {"none", "new"}
    BY <1>1, <1>3, <1>5, RecordFields
  <1>7. r.exec \in {"starts", "works", "stops"}
          => r.drive \in {"waits", "expires", "unwinds", "leaves"}
    BY <1>1, <1>3, <1>4, <1>5, RecordFields
  <1> QED BY <1>2, <1>5, <1>6, <1>7 DEF r

\* cancel() marks the task and reaches its driver, or the coroutine that has none yet.
LEMMA CancelStep ==
    ASSUME TasksInv, NEW t \in Tasks, Cancel(t)
    PROVE  TasksInv'
  <1> DEFINE r == CancelRecord(task[t])
  <1>1. /\ CanCancel(t) /\ IsActive(t)
        /\ task' = [task EXCEPT ![t] = r] /\ caller' = [caller EXCEPT ![t] = "waits"]
        /\ OnlyRecords
    BY DEF Cancel, CanCancel, OnlyRecords
  <1>2. /\ r \in TaskRecords /\ r.known /\ r.status = task[t].status
        /\ r.place = task[t].place /\ r.cancel /\ ~r.late
        /\ r.drive \notin {"none", "new"}
        /\ r.exec \in {"starts", "works", "stops"}
             => r.drive \in {"waits", "expires", "unwinds", "leaves"}
    BY <1>1, CancelKeeps
  <1> HIDE DEF r
  <1> QED BY <1>1, <1>2, ActiveStep DEF IsActive

\* What Killed makes of a task that is at work keeps to the rules of a step.
LEMMA KilledKeeps ==
    ASSUME TasksInv, NEW t \in Tasks, IsActive(t), task[t].drive \notin {"new", "over"}
    PROVE  LET r == Killed(task[t]) IN
           /\ r \in TaskRecords /\ r.known /\ r.status \in Active
           /\ r.place = task[t].place /\ r.cancel = task[t].cancel /\ r.shut = task[t].shut
           /\ r.drive \in {"unwinds", "leaves", "closes", "commits"}
           /\ r.drive = "leaves" => task[t].drive \in {"unwinds", "leaves"}
           /\ r.exec \in {"starts", "works", "stops"}
                => r.drive \in {"waits", "expires", "unwinds", "leaves"}
           /\ r.late => /\ ~r.cancel /\ LateVerdict(r.outcome, TRUE)
                        /\ r.drive # "waits" /\ r.exec \in {"stops", "done"}
  <1> DEFINE r == Killed(task[t])
  <1>1. task[t] \in TaskRecords /\ TaskSteady(t)
    BY DEF TasksInv, TasksTypeOK
  <1>2. task[t].drive \in {"waits", "expires", "unwinds", "leaves", "closes", "commits"}
    BY <1>1, RecordFields DEF TaskSteady, Untouched, IsActive
  <1>3. /\ r \in TaskRecords /\ r.known = task[t].known /\ r.status = task[t].status
        /\ r.place = task[t].place /\ r.cancel = task[t].cancel /\ r.late = task[t].late
        /\ r.shut = task[t].shut
        /\ r.outcome \in {task[t].outcome, "cancelled"}
        /\ r.exec = IF task[t].drive = "waits" /\ task[t].exec # "done" THEN "stops"
                    ELSE task[t].exec
        /\ r.drive = IF task[t].drive = "new" THEN "over"
                     ELSE IF task[t].drive \in {"waits", "expires"} THEN "unwinds"
                     ELSE IF task[t].drive = "unwinds" THEN "leaves" ELSE task[t].drive
    BY <1>1, KilledRecord
  <1> HIDE DEF r
  <1>4. r.drive \in {"unwinds", "leaves", "closes", "commits"}
        /\ (r.drive = "leaves" => task[t].drive \in {"unwinds", "leaves"})
    BY <1>2, <1>3
  <1>5. r.exec \in {"starts", "works", "stops"}
          => r.drive \in {"waits", "expires", "unwinds", "leaves"}
    BY <1>1, <1>2, <1>3 DEF TaskSteady, WorkIsDriven
  <1>6. r.late => /\ ~r.cancel /\ LateVerdict(r.outcome, TRUE)
                  /\ r.drive # "waits" /\ r.exec \in {"stops", "done"}
    BY <1>1, <1>2, <1>3, <1>4 DEF TaskSteady, LateIsFailing, LateVerdict
  <1> QED BY <1>3, <1>4, <1>5, <1>6 DEF r, IsActive

\* The caller has waited long enough.
LEMMA CallerKillsStep ==
    ASSUME TasksInv, NEW t \in Tasks, CallerKills(t)
    PROVE  TasksInv'
  <1> DEFINE r == Killed(task[t])
  <1>1. task[t] \in TaskRecords /\ TaskSteady(t)
    BY DEF TasksInv, TasksTypeOK
  <1>2. /\ caller[t] = "waits" /\ task[t].drive # "over"
        /\ task' = [task EXCEPT ![t] = r] /\ caller' = [caller EXCEPT ![t] = "killed"]
        /\ OnlyRecords
    BY DEF CallerKills, OnlyRecords
  <1>3. IsActive(t) /\ task[t].drive # "new" /\ task[t].cancel
    BY <1>1, <1>2 DEF TaskSteady, Untouched, NewIsFresh, DrivenIsActive, SomebodyCommits
  <1>4. /\ r \in TaskRecords /\ r.known /\ r.status \in Active
        /\ r.place = task[t].place /\ r.cancel = task[t].cancel
        /\ r.drive \in {"unwinds", "leaves", "closes", "commits"}
        /\ r.exec \in {"starts", "works", "stops"}
                => r.drive \in {"waits", "expires", "unwinds", "leaves"}
        /\ r.late => ~r.cancel
    BY <1>2, <1>3, KilledKeeps
  <1> HIDE DEF r
  <1> QED BY <1>2, <1>3, <1>4, ActiveStep

\* _cancel_many has waited long enough for a driver that another call is ending.
LEMMA ShutKillsStep ==
    ASSUME TasksInv, NEW t \in Tasks, ShutKills(t)
    PROVE  TasksInv'
  <1> DEFINE k == Killed(task[t])
             r == [k EXCEPT !.shut = TRUE]
  <1>1. task[t] \in TaskRecords /\ TaskSteady(t)
    BY DEF TasksInv, TasksTypeOK
  <1>2. /\ manager # "open" /\ task[t].drive \notin {"none", "over"} /\ ~task[t].shut
        /\ task' = [task EXCEPT ![t] = r] /\ OnlyTask
    BY DEF ShutKills
  <1>3. IsActive(t) /\ task[t].drive # "new"
        /\ (task[t].drive \in {"unwinds", "leaves"} => caller[t] # "none")
    BY <1>1, <1>2 DEF TaskSteady, NewIsFresh, DrivenIsActive, SomebodyCommits
  <1>4. /\ k \in TaskRecords /\ k.known /\ k.status \in Active
        /\ k.place = task[t].place /\ k.cancel = task[t].cancel
        /\ k.drive \in {"unwinds", "leaves", "closes", "commits"}
        /\ k.drive = "leaves" => task[t].drive \in {"unwinds", "leaves"}
        /\ k.exec \in {"starts", "works", "stops"}
                => k.drive \in {"waits", "expires", "unwinds", "leaves"}
        /\ k.late => /\ ~k.cancel /\ LateVerdict(k.outcome, TRUE)
                     /\ k.drive # "waits" /\ k.exec \in {"stops", "done"}
    BY <1>2, <1>3, KilledKeeps
  <1> HIDE DEF k
  <1>5. /\ r \in TaskRecords /\ r.known = k.known /\ r.status = k.status
        /\ r.place = k.place /\ r.cancel = k.cancel /\ r.drive = k.drive /\ r.exec = k.exec
        /\ r.late = k.late /\ r.outcome = k.outcome /\ r.shut
    BY <1>4 DEF TaskRecords
  <1> HIDE DEF r
  <1> QED BY <1>2, <1>3, <1>4, <1>5, DriverStep

-----------------------------------------------------------------------------
(* The ends of tasks *)

\* _commit_terminal of a task that is over already: nothing happens.
LEMMA CommitTwice ==
    ASSUME TasksInv, NEW t \in Tasks, NEW c \in {"none", caller[t]}, ~IsActive(t),
           task[t].drive \in {"commits", "over"},
           UNCHANGED <<held, foreground, pending, manager, op, marking, retired, told>>,
           task' = [task EXCEPT ![t].drive = "over"],
           caller' = [caller EXCEPT ![t] = c]
    PROVE  TasksInv'
  <1> USE DEF TasksInv
  <1>1. task[t] \in TaskRecords /\ TaskSteady(t) /\ task \in [Tasks -> TaskRecords]
    BY DEF TasksTypeOK
  <1>2. task[t].drive = "over"
    BY <1>1 DEF TaskSteady, DrivenIsActive
  <1>3. [task[t] EXCEPT !.drive = "over"] = task[t]
    BY <1>1, <1>2 DEF TaskRecords
  <1>4. task' = task
    BY <1>1, <1>3
  <1>5. /\ caller' \in [Tasks -> {"none", "waits", "killed"}]
        /\ caller'[t] = c
        /\ \A x \in Tasks : x # t => caller'[x] = caller[x]
    BY DEF TasksTypeOK
  <1>6. TasksTypeOK' /\ QueueIsDistinct'
    BY <1>4, <1>5 DEF TasksTypeOK, QueueIsDistinct
  <1>7. TasksAreAccounted'
    BY <1>4 DEF TasksAreAccounted, ToldOnce, BackgroundIsAnnounced, SlotsCoverWork,
                ForegroundIsBound, LateEndsOnce, IsActive
  <1>8. ASSUME NEW x \in Tasks PROVE TaskSteady(x)'
    <2>1. TaskSteady(x)
      OBVIOUS
    <2>2. x = t => SomebodyCommits(x)' /\ Untouched(x)'
      BY <1>2, <1>4, <1>5, <2>1 DEF TaskSteady, SomebodyCommits, Untouched, IsActive
    <2>3. x # t => SomebodyCommits(x)' /\ Untouched(x)'
      BY <1>4, <1>5, <2>1 DEF TaskSteady, SomebodyCommits, Untouched, IsActive
    <2> QED BY <1>4, <2>1, <2>2, <2>3
         DEF TaskSteady, NewIsFresh, DrivenIsActive, WorkIsDriven, LateIsFailing, QueuedIsKept,
             ToldIsOver, IsActive
  <1> QED BY <1>6, <1>7, <1>8

\* _commit_terminal of a task that is active: it gets its verdict, gives its slot and the
\* foreground back, and is announced where nobody waits for it.
LEMMA CommitOnce ==
    ASSUME TasksInv, NEW t \in Tasks, NEW c \in {"none", caller[t]}, IsActive(t),
           NEW outcome \in Ended, NEW preserve \in BOOLEAN,
           Commit(t, outcome, preserve),
           task[t].drive \in {"commits", "over"},
           task[t].late => LateVerdict(outcome, task[t].shut),
           UNCHANGED <<manager, op, marking, retired, told>>,
           caller' = [caller EXCEPT ![t] = c]
    PROVE  TasksInv'
  <1> USE DEF TasksInv
  <1> DEFINE bg == task[t].place = "background" /\ manager = "open"
             s == IF task[t].cancel /\ outcome # "completed" /\ ~preserve
                  THEN "cancelled" ELSE outcome
             r == [task[t] EXCEPT !.drive = "over", !.pend = bg, !.status = s]
  <1>1. task[t] \in TaskRecords /\ TaskSteady(t) /\ task \in [Tasks -> TaskRecords]
    BY DEF TasksTypeOK
  <1>2. /\ task' = [task EXCEPT ![t] = r]
        /\ foreground' = IF foreground = t THEN NoTask ELSE foreground
        /\ held' = held \ {t}
        /\ pending' = IF bg /\ t \notin Range(pending) \cup Announced
                      THEN Append(pending, t) ELSE pending
    BY <1>1 DEF Commit
  <1>3. s \in Ended /\ bg \in BOOLEAN /\ (task[t].late => LateVerdict(s, task[t].shut))
    BY <1>1 DEF Ended, TaskSteady, LateIsFailing
  <1>4. t \notin Range(pending) /\ told[t] = <<>> /\ t \notin marking
    <2>1. task[t].status \notin Ended
      BY DEF IsActive, Active, Ended
    <2> QED BY <1>1, <2>1 DEF TaskSteady, QueuedIsKept, ToldIsOver
  <1>5. t \notin Announced
    BY <1>4 DEF Announced, Range
  <1>6. pending \in Seq(Tasks)
    BY DEF TasksTypeOK
  <1>7. /\ bg => pending' = Append(pending, t)
        /\ ~bg => pending' = pending
    BY <1>2, <1>4, <1>5
  <1>8. bg <=> (task[t].place = "background" /\ manager = "open")
    OBVIOUS
  <1> HIDE DEF bg, s
  <1>9. /\ r \in TaskRecords /\ r.known = task[t].known /\ r.status = s
        /\ r.place = task[t].place /\ r.cancel = task[t].cancel /\ r.exec = task[t].exec
        /\ r.late = task[t].late /\ r.drive = "over" /\ r.pend = bg
        /\ r.outcome = task[t].outcome /\ r.shut = task[t].shut
    BY <1>1, <1>3 DEF TaskRecords
  <1> HIDE DEF r
  <1>10. /\ task'[t] = r /\ caller'[t] = c /\ task' \in [Tasks -> TaskRecords]
         /\ caller' \in [Tasks -> {"none", "waits", "killed"}]
         /\ \A x \in Tasks : x # t => task'[x] = task[x] /\ caller'[x] = caller[x]
    BY <1>1, <1>2, <1>9 DEF TasksTypeOK
  <1>11. pending' \in Seq(Tasks) /\ QueueIsDistinct'
         /\ Range(pending') = IF bg THEN Range(pending) \cup {t} ELSE Range(pending)
    <2>1. CASE bg
      <3>1. QueueIsDistinct => \A i, j \in 1..Len(Append(pending, t)) :
                    Append(pending, t)[i] = Append(pending, t)[j] => i = j
        BY <1>4, <1>6, QueueAppended DEF QueueIsDistinct
      <3>2. Append(pending, t) \in Seq(Tasks)
            /\ Range(Append(pending, t)) = Range(pending) \cup {t}
        BY <1>6, QueueAppended
      <3> QED BY <1>7, <2>1, <3>1, <3>2 DEF QueueIsDistinct
    <2>2. CASE ~bg
      BY <1>6, <1>7, <2>2 DEF QueueIsDistinct
    <2> QED BY <2>1, <2>2
  <1>12. TasksTypeOK'
    BY <1>2, <1>10, <1>11 DEF TasksTypeOK
  <1>13. ~IsActive(t)' /\ \A x \in Tasks : x # t => (IsActive(x)' <=> IsActive(x))
    BY <1>3, <1>9, <1>10 DEF IsActive, Active, Ended
  <1>14. TasksAreAccounted'
    <2>1. ToldOnce'
      BY DEF TasksAreAccounted, ToldOnce
    <2>2. BackgroundIsAnnounced'
      <3>1. \A x \in Tasks : x # t => (x \in Range(pending') <=> x \in Range(pending))
        BY <1>11
      <3>2. t \in Range(pending') <=> bg
        BY <1>4, <1>11
      <3>3. task[t].known
        BY DEF IsActive
      <3> QED BY <1>8, <1>9, <1>10, <3>1, <3>2, <3>3 DEF TasksAreAccounted, BackgroundIsAnnounced
    <2>3. SlotsCoverWork'
      <3>1. \A x \in Tasks : x \in held' <=> IsActive(x)'
        BY <1>2, <1>13 DEF TasksAreAccounted, SlotsCoverWork
      <3>2. task[t].exec \notin {"starts", "works", "stops"}
        BY <1>1 DEF TaskSteady, WorkIsDriven
      <3> QED BY <1>2, <1>9, <1>10, <3>1, <3>2 DEF TasksAreAccounted, SlotsCoverWork
    <2>4. ForegroundIsBound'
      <3>1. NoTask \notin Tasks
        BY TaskAssumption
      <3> QED BY <1>2, <1>10, <1>13, <3>1 DEF TasksAreAccounted, ForegroundIsBound
    <2>5. LateEndsOnce'
      BY <1>3, <1>9, <1>10 DEF TasksAreAccounted, LateEndsOnce, LateVerdict
    <2> QED BY <2>1, <2>2, <2>3, <2>4, <2>5 DEF TasksAreAccounted
  <1>15. TaskSteady(t)'
    <2>1. task[t].exec \notin {"starts", "works", "stops"}
      BY <1>1 DEF TaskSteady, WorkIsDriven
    <2>2. Untouched(t)' /\ NewIsFresh(t)' /\ DrivenIsActive(t)' /\ WorkIsDriven(t)'
      BY <1>9, <1>10, <2>1 DEF Untouched, NewIsFresh, DrivenIsActive, WorkIsDriven
    <2>3. SomebodyCommits(t)'
      BY <1>1, <1>9, <1>10, <1>13 DEF TaskSteady, SomebodyCommits
    <2>4. LateIsFailing(t)'
      BY <1>1, <1>9, <1>10 DEF TaskSteady, LateIsFailing
    <2>5. QueuedIsKept(t)'
      BY <1>3, <1>4, <1>8, <1>9, <1>10, <1>11 DEF QueuedIsKept, IsActive
    <2>6. ToldIsOver(t)'
      BY <1>4 DEF ToldIsOver
    <2> QED BY <2>2, <2>3, <2>4, <2>5, <2>6 DEF TaskSteady
  <1>16. ASSUME NEW x \in Tasks, x # t PROVE TaskSteady(x)'
    <2>1. TaskSteady(x) /\ task'[x] = task[x] /\ caller'[x] = caller[x]
      BY <1>10, <1>16
    <2>2. x \in Range(pending') <=> x \in Range(pending)
      BY <1>11, <1>16
    <2> QED BY <2>1, <2>2 DEF TaskSteady, Untouched, NewIsFresh, DrivenIsActive, WorkIsDriven,
                              SomebodyCommits, LateIsFailing, QueuedIsKept, ToldIsOver, IsActive
  <1> QED BY <1>11, <1>12, <1>14, <1>15, <1>16

\* The driver coroutine commits what it ended with.
LEMMA DriveCommitsStep ==
    ASSUME TasksInv, NEW t \in Tasks, DriveCommits(t)
    PROVE  TasksInv'
  <1>1. /\ task[t] \in TaskRecords /\ TaskSteady(t)
        /\ caller' = [caller EXCEPT ![t] = caller[t]]
    BY DEF TasksInv, TasksTypeOK, DriveCommits
  <1>2. IsActive(t) /\ (task[t].late => LateVerdict(task[t].outcome, task[t].shut))
    BY <1>1 DEF DriveCommits, TaskSteady, DrivenIsActive, LateIsFailing
  <1>3. task[t].outcome \in Ended /\ task[t].late \in BOOLEAN
    BY <1>1, RecordFields
  <1> QED BY <1>1, <1>2, <1>3, CommitOnce DEF DriveCommits

\* The caller commits a cancellation, unless the coroutine has committed.
LEMMA CallerCommitsStep ==
    ASSUME TasksInv, NEW t \in Tasks, CallerCommits(t)
    PROVE  TasksInv'
  <1>1. /\ task[t] \in TaskRecords /\ TaskSteady(t)
        /\ caller' = [caller EXCEPT ![t] = "none"]
    BY DEF TasksInv, TasksTypeOK, CallerCommits
  <1>2. ~task[t].late
    BY <1>1 DEF CallerCommits, TaskSteady, SomebodyCommits, LateIsFailing
  <1>3. CASE IsActive(t)
    <2>1. "cancelled" \in Ended
      BY DEF Ended
    <2> QED BY <1>1, <1>2, <1>3, <2>1, CommitOnce DEF CallerCommits
  <1>4. CASE ~IsActive(t)
    BY <1>1, <1>4, CommitTwice DEF CallerCommits, Commit
  <1> QED BY <1>3, <1>4

-----------------------------------------------------------------------------
(* Starting, detaching and answering *)

\* A task is started once, with its slot, and with the foreground if that is free.
LEMMA StartStep ==
    ASSUME TasksInv, NEW t \in Tasks, NEW place \in {"foreground", "background"},
           Start(t, place)
    PROVE  TasksInv'
  <1> USE DEF TasksInv
  <1> DEFINE r == [Fresh EXCEPT !.known = TRUE, !.place = place, !.drive = "new"]
             w == IF place = "foreground" THEN "waits" ELSE "answered"
  <1>1. task[t] \in TaskRecords /\ TaskSteady(t) /\ task \in [Tasks -> TaskRecords]
    BY DEF TasksTypeOK
  <1>2. /\ task' = [task EXCEPT ![t] = r] /\ held' = held \cup {t}
        /\ foreground' = IF place = "foreground" THEN t ELSE foreground
        /\ op' = [op EXCEPT ![t] = w]
        /\ UNCHANGED <<manager, caller, pending, marking, retired, told>>
        /\ task[t].drive = "none" /\ manager = "open"
        /\ place = "foreground" => foreground = NoTask
    BY DEF Start, reports
  <1>3. /\ r \in TaskRecords /\ r.known /\ r.status = "registered" /\ r.place = place
        /\ r.drive = "new" /\ r.exec = "none" /\ ~r.cancel /\ ~r.driver /\ ~r.late
    BY DEF Fresh, TaskRecords, Active, Ended
  <1>4. w \in {"waits", "answered"}
    OBVIOUS
  <1> HIDE DEF r, w
  <1>5. ~task[t].known /\ caller[t] = "none" /\ told[t] = <<>> /\ t \notin Range(pending)
        /\ t \notin marking /\ ~IsActive(t)
    BY <1>1, <1>2 DEF TaskSteady, Untouched, QueuedIsKept, ToldIsOver, IsActive
  <1>6. /\ task'[t] = r /\ task' \in [Tasks -> TaskRecords]
        /\ op' \in [Tasks -> {"none", "waits", "answered"}]
        /\ \A x \in Tasks : x # t => task'[x] = task[x] /\ op'[x] = op[x]
    BY <1>1, <1>2, <1>3, <1>4 DEF TasksTypeOK
  <1>7. TasksTypeOK' /\ QueueIsDistinct'
    BY <1>2, <1>6 DEF TasksTypeOK, QueueIsDistinct
  <1>8. IsActive(t)' /\ \A x \in Tasks : x # t => (IsActive(x)' <=> IsActive(x))
    BY <1>3, <1>6 DEF IsActive, Active
  <1>9. r.status \notin Ended
    BY <1>3 DEF Ended
  <1>10. TasksAreAccounted'
    <2>1. ToldOnce'
      BY <1>2 DEF TasksAreAccounted, ToldOnce
    <2>2. BackgroundIsAnnounced'
      BY <1>2, <1>5, <1>6, <1>9 DEF TasksAreAccounted, BackgroundIsAnnounced
    <2>3. SlotsCoverWork'
      BY <1>2, <1>3, <1>6, <1>8 DEF TasksAreAccounted, SlotsCoverWork
    <2>4. ForegroundIsBound'
      <3>1. NoTask \notin Tasks
        BY TaskAssumption
      <3>2. CASE place = "foreground"
        <4>1. \A x \in Tasks : ~(IsActive(x) /\ task[x].place = "foreground")
          BY <1>2, <3>1, <3>2 DEF TasksAreAccounted, ForegroundIsBound
        <4> QED BY <1>2, <1>3, <1>6, <1>8, <3>2, <4>1 DEF ForegroundIsBound
      <3>3. CASE place # "foreground"
        <4>1. foreground # t
          BY <1>5 DEF TasksAreAccounted, ForegroundIsBound
        <4> QED BY <1>2, <1>3, <1>6, <1>8, <3>3, <4>1 DEF TasksAreAccounted, ForegroundIsBound
      <3> QED BY <3>2, <3>3
    <2>5. LateEndsOnce'
      BY <1>3, <1>6 DEF TasksAreAccounted, LateEndsOnce
    <2> QED BY <2>1, <2>2, <2>3, <2>4, <2>5 DEF TasksAreAccounted
  <1>11. TaskSteady(t)'
    BY <1>2, <1>3, <1>5, <1>6, <1>8
    DEF TaskSteady, Untouched, NewIsFresh, DrivenIsActive, WorkIsDriven, SomebodyCommits,
        LateIsFailing, QueuedIsKept, ToldIsOver
  <1>12. ASSUME NEW x \in Tasks, x # t PROVE TaskSteady(x)'
    <2>1. TaskSteady(x) /\ task'[x] = task[x] /\ op'[x] = op[x]
      BY <1>6, <1>12
    <2> QED BY <1>2, <2>1 DEF TaskSteady, Untouched, NewIsFresh, DrivenIsActive, WorkIsDriven,
                              SomebodyCommits, LateIsFailing, QueuedIsKept, ToldIsOver, IsActive
  <1> QED BY <1>7, <1>10, <1>11, <1>12

\* A detached task leaves the foreground, and stays active.
LEMMA DetachStep ==
    ASSUME TasksInv, NEW t \in Tasks, Detach(t)
    PROVE  TasksInv'
  <1> USE DEF TasksInv
  <1> DEFINE r == [task[t] EXCEPT !.place = "background"]
  <1>1. task[t] \in TaskRecords /\ TaskSteady(t) /\ task \in [Tasks -> TaskRecords]
    BY DEF TasksTypeOK
  <1>2. /\ task' = [task EXCEPT ![t] = r] /\ IsActive(t)
        /\ foreground' = IF foreground = t THEN NoTask ELSE foreground
        /\ UNCHANGED <<held, manager, caller, op, pending, marking, retired, told>>
    BY DEF Detach, CanDetach, reports
  <1>3. /\ r \in TaskRecords /\ r.known = task[t].known /\ r.status = task[t].status
        /\ r.place = "background" /\ r.cancel = task[t].cancel /\ r.exec = task[t].exec
        /\ r.late = task[t].late /\ r.drive = task[t].drive /\ r.outcome = task[t].outcome
        /\ r.driver = task[t].driver /\ r.shut = task[t].shut
    BY <1>1 DEF TaskRecords
  <1> HIDE DEF r
  <1>4. /\ task'[t] = r /\ task' \in [Tasks -> TaskRecords]
        /\ \A x \in Tasks : x # t => task'[x] = task[x]
    BY <1>1, <1>2, <1>3
  <1>5. TasksTypeOK' /\ QueueIsDistinct'
    BY <1>2, <1>4 DEF TasksTypeOK, QueueIsDistinct
  <1>6. task[t].status \notin Ended /\ t \notin Range(pending) /\ told[t] = <<>>
        /\ t \notin marking
    BY <1>1, <1>2 DEF IsActive, Active, Ended, TaskSteady, QueuedIsKept, ToldIsOver
  <1>7. \A x \in Tasks : IsActive(x)' <=> IsActive(x)
    BY <1>3, <1>4 DEF IsActive
  <1>8. TasksAreAccounted'
    <2>1. ToldOnce'
      BY <1>2 DEF TasksAreAccounted, ToldOnce
    <2>2. BackgroundIsAnnounced'
      BY <1>2, <1>3, <1>4, <1>6 DEF TasksAreAccounted, BackgroundIsAnnounced
    <2>3. SlotsCoverWork'
      BY <1>2, <1>3, <1>4, <1>7 DEF TasksAreAccounted, SlotsCoverWork
    <2>4. ForegroundIsBound'
      <3>1. NoTask \notin Tasks
        BY TaskAssumption
      <3> QED BY <1>2, <1>3, <1>4, <1>7, <3>1 DEF TasksAreAccounted, ForegroundIsBound
    <2>5. LateEndsOnce'
      BY <1>3, <1>4 DEF TasksAreAccounted, LateEndsOnce
    <2> QED BY <2>1, <2>2, <2>3, <2>4, <2>5 DEF TasksAreAccounted
  <1>9. TaskSteady(t)'
    BY <1>1, <1>2, <1>3, <1>4, <1>6
    DEF TaskSteady, Untouched, NewIsFresh, DrivenIsActive, WorkIsDriven,
                              SomebodyCommits, LateIsFailing, QueuedIsKept, ToldIsOver, IsActive
  <1>10. ASSUME NEW x \in Tasks, x # t PROVE TaskSteady(x)'
    <2>1. TaskSteady(x) /\ task'[x] = task[x]
      BY <1>4, <1>10
    <2> QED BY <1>2, <2>1 DEF TaskSteady, Untouched, NewIsFresh, DrivenIsActive, WorkIsDriven,
                              SomebodyCommits, LateIsFailing, QueuedIsKept, ToldIsOver, IsActive
  <1> QED BY <1>5, <1>8, <1>9, <1>10

\* What was told of a task, and what is told now.
LEMMA ToldMore ==
    ASSUME NEW q \in Seq({"result", "notice"}), NEW what \in {"result", "notice"}
    PROVE  /\ Append(q, what) \in Seq({"result", "notice"})
           /\ Append(q, what) # <<>>
           /\ q = <<>> => Len(Append(q, what)) <= 1
  BY AppendProperties, EmptySeq

\* The tool call answers: with the result, where the task ended in the foreground.
LEMMA AnswerStep ==
    ASSUME TasksInv, NEW t \in Tasks, Answer(t)
    PROVE  TasksInv'
  <1> USE DEF TasksInv
  <1> DEFINE tells == task[t].known /\ task[t].place = "foreground"
             w == IF tells THEN Append(told[t], "result") ELSE told[t]
  <1>1. TaskSteady(t) /\ told \in [Tasks -> Seq({"result", "notice"})]
        /\ op \in [Tasks -> {"none", "waits", "answered"}]
    BY DEF TasksTypeOK
  <1>2. /\ op[t] = "waits" /\ op' = [op EXCEPT ![t] = "answered"]
        /\ ~task[t].known \/ task[t].status \in Ended \/ task[t].place = "background"
        /\ told' = [told EXCEPT ![t] = w]
        /\ UNCHANGED <<task, held, foreground, manager, caller, pending, marking, retired>>
    BY <1>1 DEF Answer, Tell
  <1>3. tells => /\ told[t] = <<>> /\ ~IsActive(t) /\ t \notin Range(pending)
                 /\ task[t].drive # "none"
    <2> HAVE tells
    <2>1. told[t] = <<>>
      BY <1>1, <1>2 DEF TaskSteady, ToldIsOver
    <2>2. task[t].status \in Ended
      BY <1>2
    <2>3. ~IsActive(t)
      BY <2>2 DEF IsActive, Active, Ended
    <2>4. t \notin Range(pending) /\ task[t].drive # "none"
      BY <1>1 DEF TaskSteady, QueuedIsKept, Untouched
    <2> QED BY <2>1, <2>3, <2>4
  <1>4. /\ w \in Seq({"result", "notice"})
        /\ tells => w # <<>> /\ Len(w) <= 1
        /\ ~tells => w = told[t]
    BY <1>1, <1>3, ToldMore
  <1> HIDE DEF tells, w
  <1>5. /\ told'[t] = w /\ told' \in [Tasks -> Seq({"result", "notice"})]
        /\ op'[t] = "answered" /\ op' \in [Tasks -> {"none", "waits", "answered"}]
        /\ \A x \in Tasks : x # t => told'[x] = told[x] /\ op'[x] = op[x]
    BY <1>1, <1>2, <1>4
  <1>6. TasksTypeOK' /\ QueueIsDistinct'
    BY <1>2, <1>5 DEF TasksTypeOK, QueueIsDistinct
  <1>7. TasksAreAccounted'
    <2>1. ToldOnce'
      <3>1. Len(w) <= 1
        BY <1>4 DEF TasksAreAccounted, ToldOnce
      <3> QED BY <1>5, <3>1 DEF TasksAreAccounted, ToldOnce
    <2>2. BackgroundIsAnnounced'
      BY <1>2, <1>4, <1>5 DEF TasksAreAccounted, BackgroundIsAnnounced
    <2>3. SlotsCoverWork' /\ ForegroundIsBound' /\ LateEndsOnce'
      BY <1>2 DEF TasksAreAccounted, SlotsCoverWork, ForegroundIsBound, LateEndsOnce, IsActive
    <2> QED BY <2>1, <2>2, <2>3 DEF TasksAreAccounted
  <1>8. TaskSteady(t)'
    <2>1. Untouched(t)' /\ NewIsFresh(t)' /\ DrivenIsActive(t)' /\ WorkIsDriven(t)'
          /\ SomebodyCommits(t)' /\ LateIsFailing(t)'
      BY <1>1, <1>2, <1>3, <1>4, <1>5
      DEF TaskSteady, Untouched, NewIsFresh, DrivenIsActive, WorkIsDriven, SomebodyCommits,
          LateIsFailing, IsActive
    <2>2. QueuedIsKept(t)'
      BY <1>1, <1>2, <1>3, <1>4, <1>5 DEF TaskSteady, QueuedIsKept
    <2>3. ToldIsOver(t)'
      BY <1>1, <1>2, <1>3, <1>4, <1>5 DEF TaskSteady, ToldIsOver, IsActive
    <2> QED BY <2>1, <2>2, <2>3 DEF TaskSteady
  <1>9. ASSUME NEW x \in Tasks, x # t PROVE TaskSteady(x)'
    <2>1. TaskSteady(x) /\ told'[x] = told[x] /\ op'[x] = op[x]
      BY <1>5, <1>9
    <2> QED BY <1>2, <2>1 DEF TaskSteady, Untouched, NewIsFresh, DrivenIsActive, WorkIsDriven,
                              SomebodyCommits, LateIsFailing, QueuedIsKept, ToldIsOver, IsActive
  <1> QED BY <1>6, <1>7, <1>8, <1>9

-----------------------------------------------------------------------------
(* Notifications *)

\* A batch leaves the queue and is told, each task of it for the first time.
LEMMA ConsumeStep ==
    ASSUME TasksInv, ConsumeBatch
    PROVE  TasksInv'
  <1> USE DEF TasksInv
  <1>1. PICK n \in 1..Len(pending) :
          LET batch == {pending[i] : i \in 1..n} IN
          /\ pending' = SubSeq(pending, n + 1, Len(pending))
          /\ marking' = marking \cup batch
          /\ told' = [t \in Tasks |-> IF t \in batch THEN Append(told[t], "notice")
                                      ELSE told[t]]
    BY DEF ConsumeBatch
  <1> DEFINE batch == {pending[i] : i \in 1..n}
  <1>2. /\ pending' \in Seq(Tasks) /\ QueueIsDistinct'
        /\ Range(pending') \subseteq Range(pending) \ batch
        /\ batch \subseteq Range(pending)
        /\ Range(pending) \subseteq Range(pending') \cup batch
    <2>1. pending \in Seq(Tasks) /\ \A i, j \in 1..Len(pending) : pending[i] = pending[j] => i = j
      BY DEF TasksTypeOK, QueueIsDistinct
    <2> QED BY <1>1, <2>1, QueueTaken DEF QueueIsDistinct
  <1>3. batch \subseteq Tasks
    BY <1>2, QueueRange DEF TasksTypeOK
  <1> HIDE DEF batch
  <1>4. /\ marking' = marking \cup batch
        /\ told' = [t \in Tasks |-> IF t \in batch THEN Append(told[t], "notice") ELSE told[t]]
        /\ UNCHANGED <<task, held, foreground, manager, caller, op, retired>>
    BY <1>1 DEF batch, ConsumeBatch
  <1>5. ASSUME NEW x \in Tasks
        PROVE  /\ told[x] \in Seq({"result", "notice"})
               /\ x \notin batch => told'[x] = told[x]
               /\ x \in batch => /\ told'[x] \in Seq({"result", "notice"})
                                 /\ told'[x] # <<>> /\ Len(told'[x]) <= 1
                                 /\ task[x].known /\ task[x].status \in Ended /\ ~IsActive(x)
                                 /\ task[x].place = "background" /\ x \notin Range(pending')
    <2>1. told[x] \in Seq({"result", "notice"})
      BY DEF TasksTypeOK
    <2>2. x \notin batch => told'[x] = told[x]
      BY <1>4
    <2>3. ASSUME x \in batch
          PROVE  /\ task[x].known /\ task[x].status \in Ended /\ told[x] = <<>>
                 /\ task[x].place = "background" /\ x \notin Range(pending')
      BY <1>2, <2>3 DEF TaskSteady, QueuedIsKept
    <2>4. x \in batch => ~IsActive(x)
      BY <2>3 DEF IsActive, Active, Ended
    <2>5. x \in batch => told'[x] = Append(told[x], "notice")
      BY <1>4
    <2> QED BY <2>1, <2>2, <2>3, <2>4, <2>5, ToldMore
  <1>6. told' \in [Tasks -> Seq({"result", "notice"})]
    <2>1. \A x \in Tasks : told'[x] \in Seq({"result", "notice"})
      BY <1>5
    <2> QED BY <1>4, <2>1
  <1>7. TasksTypeOK'
    BY <1>2, <1>3, <1>4, <1>6 DEF TasksTypeOK
  <1>8. TasksAreAccounted'
    <2>1. ToldOnce'
      <3>1. ASSUME NEW x \in Tasks PROVE Len(told'[x]) <= 1
        <4>1. CASE x \in batch
          BY <1>5, <4>1
        <4>2. CASE x \notin batch
          BY <1>5, <4>2 DEF TasksAreAccounted, ToldOnce
        <4> QED BY <4>1, <4>2
      <3> QED BY <3>1 DEF ToldOnce
    <2>2. BackgroundIsAnnounced'
      BY <1>2, <1>4, <1>5 DEF TasksAreAccounted, BackgroundIsAnnounced
    <2>3. SlotsCoverWork' /\ ForegroundIsBound' /\ LateEndsOnce'
      BY <1>4 DEF TasksAreAccounted, SlotsCoverWork, ForegroundIsBound, LateEndsOnce, IsActive
    <2> QED BY <2>1, <2>2, <2>3 DEF TasksAreAccounted
  <1>9. ASSUME NEW x \in Tasks PROVE TaskSteady(x)'
    <2>1. TaskSteady(x)
      OBVIOUS
    <2>2. NewIsFresh(x)' /\ DrivenIsActive(x)' /\ WorkIsDriven(x)'
          /\ SomebodyCommits(x)' /\ LateIsFailing(x)'
      BY <1>4, <2>1
      DEF TaskSteady, NewIsFresh, DrivenIsActive, WorkIsDriven, SomebodyCommits, LateIsFailing,
          IsActive
    <2>3. Untouched(x)'
      BY <1>4, <1>5, <2>1 DEF TaskSteady, Untouched
    <2>4. QueuedIsKept(x)'
      BY <1>2, <1>4, <1>5, <2>1 DEF TaskSteady, QueuedIsKept
    <2>5. ToldIsOver(x)'
      BY <1>4, <1>5, <2>1 DEF TaskSteady, ToldIsOver, IsActive
    <2> QED BY <2>2, <2>3, <2>4, <2>5 DEF TaskSteady
  <1> QED BY <1>2, <1>7, <1>8, <1>9

\* The oldest of the delivered tasks lose their records, and they are delivered.
LEMMA MarkDeliveredStep ==
    ASSUME TasksInv, NEW t \in Tasks, MarkDelivered(t)
    PROVE  TasksInv'
  <1> USE DEF TasksInv
  <1> DEFINE done == Append(retired, t)
             extra == IF Len(done) > Retention THEN Len(done) - Retention ELSE 0
             given == {done[i] : i \in 1..extra}
  <1>1. t \in marking /\ TaskSteady(t) /\ t \notin Range(pending) /\ task \in [Tasks -> TaskRecords]
    BY DEF MarkDelivered, TaskSteady, ToldIsOver, QueuedIsKept, TasksTypeOK
  <1>2. /\ marking' = marking \ {t}
        /\ UNCHANGED <<held, foreground, manager, caller, op, pending, told>>
    BY DEF MarkDelivered
  <1>3. ASSUME NEW x \in Tasks
        PROVE  /\ task'[x] \in TaskRecords
               /\ task'[x].status = task[x].status /\ task'[x].place = task[x].place
               /\ task'[x].cancel = task[x].cancel /\ task'[x].late = task[x].late
               /\ task'[x].drive = task[x].drive /\ task'[x].exec = task[x].exec
               /\ task'[x].driver = task[x].driver /\ task'[x].outcome = task[x].outcome
               /\ task'[x].shut = task[x].shut
               /\ task'[x].known = task[x].known
                  \/ (task[x].known /\ ~task'[x].known /\ task[x].status \in Ended
                      /\ x \notin Range(pending))
               /\ x = t \/ task'[x].pend = task[x].pend
    <2>1. CASE task' = task
      BY <1>1, <2>1
    <2>2. CASE task' = [y \in Tasks |->
                  LET r == IF y = t THEN [task[y] EXCEPT !.pend = FALSE] ELSE task[y] IN
                  IF y \in given /\ r.status \in Ended /\ ~r.pend
                  THEN [r EXCEPT !.known = FALSE] ELSE r]
      <3> DEFINE r == IF x = t THEN [task[x] EXCEPT !.pend = FALSE] ELSE task[x]
      <3> HIDE DEF given
      <3>1. /\ r \in TaskRecords /\ r.known = task[x].known /\ r.status = task[x].status
            /\ r.place = task[x].place /\ r.cancel = task[x].cancel /\ r.exec = task[x].exec
            /\ r.late = task[x].late /\ r.drive = task[x].drive
            /\ r.outcome = task[x].outcome /\ r.driver = task[x].driver
            /\ r.shut = task[x].shut /\ (x = t \/ r.pend = task[x].pend)
        <4>1. task[x] \in TaskRecords
          BY <1>1
        <4>2. CASE x = t
          BY <4>1, <4>2 DEF TaskRecords
        <4>3. CASE x # t
          BY <4>1, <4>3
        <4> QED BY <4>2, <4>3
      <3>0. task[x].known \in BOOLEAN
        BY <1>1, RecordFields
      <3>2. task'[x] = IF x \in given /\ r.status \in Ended /\ ~r.pend
                       THEN [r EXCEPT !.known = FALSE] ELSE r
        BY <2>2
      <3> HIDE DEF r
      <3>3. CASE x \in given /\ r.status \in Ended /\ ~r.pend
        <4>1. task'[x] = [r EXCEPT !.known = FALSE]
          BY <3>2, <3>3
        <4>2. /\ task'[x] \in TaskRecords /\ ~task'[x].known /\ task'[x].status = r.status
              /\ task'[x].place = r.place /\ task'[x].cancel = r.cancel
              /\ task'[x].exec = r.exec /\ task'[x].late = r.late
              /\ task'[x].drive = r.drive /\ task'[x].outcome = r.outcome
              /\ task'[x].driver = r.driver /\ task'[x].shut = r.shut
              /\ task'[x].pend = r.pend
          BY <3>1, <4>1 DEF TaskRecords
        <4>3. x \notin Range(pending)
          <5>1. x = t \/ ~task[x].pend
            BY <3>1, <3>3
          <5> QED BY <1>1, <5>1 DEF TaskSteady, QueuedIsKept
        <4>4. task'[x].known = task[x].known \/ (task[x].known /\ ~task'[x].known)
          <5>1. ~task'[x].known /\ task'[x].known \in BOOLEAN
            BY <4>2, RecordFields
          <5> QED BY <3>0, <5>1
        <4> QED BY <3>1, <3>3, <4>2, <4>3, <4>4
      <3>4. CASE ~(x \in given /\ r.status \in Ended /\ ~r.pend)
        BY <3>1, <3>2, <3>4
      <3> QED BY <3>3, <3>4
    <2> QED BY <2>1, <2>2 DEF MarkDelivered
  <1>4. task' \in [Tasks -> TaskRecords] /\ retired' \in Seq(Tasks)
    <2>1. \/ UNCHANGED <<task, retired>>
          \/ /\ retired' = SubSeq(done, extra + 1, Len(done))
             /\ task' = [y \in Tasks |->
                  LET r == IF y = t THEN [task[y] EXCEPT !.pend = FALSE] ELSE task[y] IN
                  IF y \in given /\ r.status \in Ended /\ ~r.pend
                  THEN [r EXCEPT !.known = FALSE] ELSE r]
      BY DEF MarkDelivered
    <2>2. done \in Seq(Tasks) /\ Len(done) \in Nat
      BY AppendProperties, LenProperties DEF TasksTypeOK
    <2>3. extra \in Nat /\ Retention \in Nat
      BY <2>2, TaskAssumption
    <2> HIDE DEF done, extra, given
    <2>4. CASE UNCHANGED <<task, retired>>
      BY <1>1, <2>4 DEF TasksTypeOK
    <2>5. CASE /\ retired' = SubSeq(done, extra + 1, Len(done))
               /\ task' = [y \in Tasks |->
                  LET r == IF y = t THEN [task[y] EXCEPT !.pend = FALSE] ELSE task[y] IN
                  IF y \in given /\ r.status \in Ended /\ ~r.pend
                  THEN [r EXCEPT !.known = FALSE] ELSE r]
      <3>1. task' = [y \in Tasks |-> task'[y]]
        BY <2>5
      <3>2. \A i \in (extra + 1)..Len(done) : i \in 1..Len(done)
        BY <2>2, <2>3
      <3>3. SubSeq(done, extra + 1, Len(done)) \in Seq(Tasks)
        BY <2>2, <2>3, <3>2, SubSeqProperties
      <3> QED BY <1>3, <2>5, <3>1, <3>3
    <2> QED BY <2>1, <2>4, <2>5
  <1> HIDE DEF done, extra, given
  <1>5. TasksTypeOK' /\ QueueIsDistinct'
    BY <1>2, <1>4 DEF TasksTypeOK, QueueIsDistinct
  <1>6. ASSUME NEW x \in Tasks PROVE IsActive(x)' <=> IsActive(x)
    BY <1>3 DEF IsActive, Active, Ended
  <1>7. TasksAreAccounted'
    <2>1. ToldOnce'
      BY <1>2 DEF TasksAreAccounted, ToldOnce
    <2>2. BackgroundIsAnnounced'
      BY <1>2, <1>3 DEF TasksAreAccounted, BackgroundIsAnnounced
    <2>3. SlotsCoverWork'
      BY <1>2, <1>3, <1>6 DEF TasksAreAccounted, SlotsCoverWork
    <2>4. ForegroundIsBound' /\ LateEndsOnce'
      BY <1>2, <1>3, <1>6 DEF TasksAreAccounted, ForegroundIsBound, LateEndsOnce
    <2> QED BY <2>1, <2>2, <2>3, <2>4 DEF TasksAreAccounted
  <1>8. ASSUME NEW x \in Tasks PROVE TaskSteady(x)'
    <2>1. TaskSteady(x)
      OBVIOUS
    <2>2. Untouched(x)' /\ NewIsFresh(x)' /\ WorkIsDriven(x)' /\ LateIsFailing(x)'
      BY <1>2, <1>3, <2>1 DEF TaskSteady, Untouched, NewIsFresh, WorkIsDriven, LateIsFailing
    <2>3. DrivenIsActive(x)' /\ SomebodyCommits(x)'
      BY <1>2, <1>3, <1>6, <2>1 DEF TaskSteady, DrivenIsActive, SomebodyCommits
    <2>4. QueuedIsKept(x)'
      BY <1>1, <1>2, <1>3, <2>1 DEF TaskSteady, QueuedIsKept
    <2>5. ToldIsOver(x)'
      BY <1>2, <1>3, <1>6, <2>1 DEF TaskSteady, ToldIsOver
    <2> QED BY <2>2, <2>3, <2>4, <2>5 DEF TaskSteady
  <1> QED BY <1>5, <1>7, <1>8

-----------------------------------------------------------------------------
(* Reset and close *)

\* Every active task is asked to end at once.
LEMMA ShutStep ==
    ASSUME TasksInv, NEW how \in {"resetting", "closing"}, Shut(how)
    PROVE  TasksInv'
  <1> USE DEF TasksInv
  <1>1. /\ manager' = how /\ task \in [Tasks -> TaskRecords]
        /\ task' = [t \in Tasks |-> IF CanCancel(t) THEN CancelRecord(task[t]) ELSE task[t]]
        /\ caller' = [t \in Tasks |-> IF CanCancel(t) THEN "waits" ELSE caller[t]]
        /\ UNCHANGED <<held, foreground, op, pending, marking, retired, told>>
    BY DEF Shut, reports, TasksTypeOK
  <1>2. ASSUME NEW x \in Tasks, CanCancel(x)
        PROVE  /\ task'[x] \in TaskRecords /\ task'[x].known
               /\ task'[x].status = task[x].status
               /\ task'[x].place = task[x].place /\ task'[x].cancel /\ ~task'[x].late
               /\ task'[x].drive \notin {"none", "new"}
               /\ task'[x].exec \in {"starts", "works", "stops"}
                     => task'[x].drive \in {"waits", "expires", "unwinds", "leaves"}
               /\ caller'[x] = "waits"
               /\ IsActive(x) /\ x \in held /\ task[x].status \notin Ended
               /\ x \notin Range(pending) /\ told[x] = <<>> /\ x \notin marking
    <2>1. task'[x] = CancelRecord(task[x]) /\ caller'[x] = "waits"
      BY <1>1, <1>2
    <2>2. IsActive(x) /\ task[x].status \notin Ended
      BY <1>2 DEF CanCancel, IsActive, Active, Ended
    <2>3. x \in held /\ x \notin Range(pending) /\ told[x] = <<>> /\ x \notin marking
      BY <2>2
      DEF TasksAreAccounted, SlotsCoverWork, TaskSteady, QueuedIsKept, ToldIsOver
    <2> QED BY <1>2, <2>1, <2>2, <2>3, CancelKeeps
  <1>3. ASSUME NEW x \in Tasks, ~CanCancel(x)
        PROVE  task'[x] = task[x] /\ caller'[x] = caller[x] /\ task[x].drive # "new"
    <2>1. task'[x] = task[x] /\ caller'[x] = caller[x]
      BY <1>1, <1>3
    <2>2. ASSUME task[x].drive = "new" PROVE FALSE
      <3>1. IsActive(x) /\ ~task[x].cancel /\ ~task[x].late
        BY <2>2 DEF TaskSteady, NewIsFresh, DrivenIsActive, LateIsFailing
      <3> QED BY <1>3, <3>1 DEF CanCancel
    <2> QED BY <2>1, <2>2
  <1>4. TasksTypeOK' /\ QueueIsDistinct'
    <2>1. \A x \in Tasks : task'[x] \in TaskRecords
                           /\ caller'[x] \in {"none", "waits", "killed"}
      BY <1>1, <1>2, <1>3 DEF TasksTypeOK
    <2>2. task' \in [Tasks -> TaskRecords] /\ caller' \in [Tasks -> {"none", "waits", "killed"}]
      BY <1>1, <2>1
    <2> QED BY <1>1, <2>2 DEF TasksTypeOK, QueueIsDistinct
  <1>5. ASSUME NEW x \in Tasks PROVE IsActive(x)' <=> IsActive(x)
    BY <1>2, <1>3 DEF IsActive
  <1>6. TasksAreAccounted'
    <2>1. ToldOnce'
      BY <1>1 DEF TasksAreAccounted, ToldOnce
    <2>2. BackgroundIsAnnounced'
      BY <1>1, <1>2, <1>3 DEF TasksAreAccounted, BackgroundIsAnnounced
    <2>3. SlotsCoverWork'
      BY <1>1, <1>2, <1>3, <1>5 DEF TasksAreAccounted, SlotsCoverWork
    <2>4. ForegroundIsBound'
      BY <1>1, <1>2, <1>3, <1>5 DEF TasksAreAccounted, ForegroundIsBound
    <2>5. LateEndsOnce'
      BY <1>2, <1>3 DEF TasksAreAccounted, LateEndsOnce
    <2> QED BY <2>1, <2>2, <2>3, <2>4, <2>5 DEF TasksAreAccounted
  <1>7. ASSUME NEW x \in Tasks PROVE TaskSteady(x)'
    <2>1. TaskSteady(x)
      OBVIOUS
    <2>2. CASE CanCancel(x)
      <3>1. Untouched(x)' /\ NewIsFresh(x)' /\ WorkIsDriven(x)' /\ LateIsFailing(x)'
        BY <1>2, <2>2 DEF Untouched, NewIsFresh, WorkIsDriven, LateIsFailing
      <3>2. DrivenIsActive(x)' /\ SomebodyCommits(x)'
        BY <1>2, <1>5, <2>2 DEF DrivenIsActive, SomebodyCommits
      <3>3. QueuedIsKept(x)' /\ ToldIsOver(x)'
        BY <1>1, <1>2, <2>2 DEF QueuedIsKept, ToldIsOver
      <3> QED BY <3>1, <3>2, <3>3 DEF TaskSteady
    <2>3. CASE ~CanCancel(x)
      <3>1. task'[x] = task[x] /\ caller'[x] = caller[x] /\ task[x].drive # "new"
        BY <1>3, <2>3
      <3> QED BY <1>1, <2>1, <3>1 DEF TaskSteady, Untouched, NewIsFresh, DrivenIsActive, WorkIsDriven,
                              SomebodyCommits, LateIsFailing, QueuedIsKept, ToldIsOver, IsActive
    <2> QED BY <2>2, <2>3
  <1> QED BY <1>4, <1>6, <1>7

\* When all drivers and calls are over, no task is active: whatever a driver did not
\* commit, its caller has.
LEMMA NoneIsActive ==
    ASSUME TasksInv, AllOver, NEW x \in Tasks
    PROVE  ~IsActive(x)
  <1>1. TaskSteady(x) /\ task[x].drive \in {"none", "over"} /\ caller[x] = "none"
    BY DEF TasksInv, AllOver
  <1> QED BY <1>1 DEF TaskSteady, Untouched, SomebodyCommits, IsActive

\* A reset forgets every task.
LEMMA ResetEndsStep ==
    ASSUME TasksInv, ResetEnds
    PROVE  TasksInv'
  <1> USE DEF TasksInv
  <1>1. /\ AllOver /\ task \in [Tasks -> TaskRecords]
        /\ task' = [t \in Tasks |-> [task[t] EXCEPT !.known = FALSE]]
        /\ foreground' = NoTask /\ retired' = <<>> /\ pending' = <<>>
        /\ manager' = "open"
        /\ UNCHANGED <<held, caller, op, marking, told>>
    BY DEF ResetEnds, TasksTypeOK
  <1>2. Len(pending') = 0 /\ pending' \in Seq(Tasks) /\ retired' \in Seq(Tasks)
        /\ \A x : x \notin Range(pending')
    <2>1. DOMAIN <<>> = {} /\ Len(<<>>) = 0 /\ <<>> \in Seq(Tasks)
      BY EmptySeq
    <2> QED BY <1>1, <2>1 DEF Range
  <1>3. ASSUME NEW x \in Tasks
        PROVE  /\ task'[x] \in TaskRecords /\ ~task'[x].known
               /\ task'[x].status = task[x].status /\ task'[x].place = task[x].place
               /\ task'[x].cancel = task[x].cancel /\ task'[x].late = task[x].late
               /\ task'[x].drive = task[x].drive /\ task'[x].exec = task[x].exec
               /\ task'[x].driver = task[x].driver /\ task'[x].outcome = task[x].outcome
               /\ task'[x].shut = task[x].shut
               /\ ~IsActive(x) /\ ~IsActive(x)' /\ x \notin held
               /\ task[x].drive \in {"none", "over"} /\ caller[x] = "none"
    <2>1. task'[x] = [task[x] EXCEPT !.known = FALSE] /\ task[x] \in TaskRecords
      BY <1>1
    <2>2. ~IsActive(x)
      BY <1>1, NoneIsActive
    <2>3. x \notin held
      BY <2>2 DEF TasksAreAccounted, SlotsCoverWork
    <2>4. task[x].drive \in {"none", "over"} /\ caller[x] = "none"
      BY <1>1 DEF AllOver
    <2>5. /\ task'[x] \in TaskRecords /\ ~task'[x].known
          /\ task'[x].status = task[x].status /\ task'[x].place = task[x].place
          /\ task'[x].cancel = task[x].cancel /\ task'[x].late = task[x].late
          /\ task'[x].drive = task[x].drive /\ task'[x].exec = task[x].exec
          /\ task'[x].driver = task[x].driver /\ task'[x].outcome = task[x].outcome
          /\ task'[x].shut = task[x].shut
      BY <2>1 DEF TaskRecords
    <2>6. ~IsActive(x)'
      BY <2>5 DEF IsActive
    <2> QED BY <2>2, <2>3, <2>4, <2>5, <2>6
  <1>4. TasksTypeOK' /\ QueueIsDistinct'
    <2>1. task' \in [Tasks -> TaskRecords]
      BY <1>1, <1>3
    <2>2. \A i, j \in 1..0 : FALSE
      OBVIOUS
    <2>3. QueueIsDistinct'
      BY <1>2, <2>2 DEF QueueIsDistinct
    <2> QED BY <1>1, <1>2, <2>1, <2>3 DEF TasksTypeOK
  <1>5. TasksAreAccounted'
    <2>1. ToldOnce'
      BY <1>1 DEF TasksAreAccounted, ToldOnce
    <2>2. BackgroundIsAnnounced'
      BY <1>2, <1>3 DEF BackgroundIsAnnounced
    <2>3. SlotsCoverWork'
      BY <1>1, <1>3 DEF TasksAreAccounted, SlotsCoverWork
    <2>4. ForegroundIsBound'
      BY <1>1, <1>3, TaskAssumption DEF ForegroundIsBound
    <2>5. LateEndsOnce'
      BY <1>3 DEF TasksAreAccounted, LateEndsOnce
    <2> QED BY <2>1, <2>2, <2>3, <2>4, <2>5 DEF TasksAreAccounted
  <1>6. ASSUME NEW x \in Tasks PROVE TaskSteady(x)'
    <2>1. TaskSteady(x)
      OBVIOUS
    <2>2. Untouched(x)' /\ NewIsFresh(x)' /\ DrivenIsActive(x)' /\ WorkIsDriven(x)'
      BY <1>1, <1>3, <2>1 DEF TaskSteady, Untouched, NewIsFresh, DrivenIsActive, WorkIsDriven
    <2>3. SomebodyCommits(x)' /\ LateIsFailing(x)'
      BY <1>1, <1>3, <2>1 DEF TaskSteady, SomebodyCommits, LateIsFailing
    <2>4. QueuedIsKept(x)' /\ ToldIsOver(x)'
      BY <1>1, <1>2, <1>3, <2>1 DEF TaskSteady, QueuedIsKept, ToldIsOver
    <2> QED BY <2>2, <2>3, <2>4 DEF TaskSteady
  <1> QED BY <1>4, <1>5, <1>6

\* close drops what is queued, and the manager never opens again.
LEMMA CloseEndsStep ==
    ASSUME TasksInv, CloseEnds
    PROVE  TasksInv'
  <1> USE DEF TasksInv
  <1>1. /\ AllOver /\ pending' = <<>> /\ manager' = "closed"
        /\ UNCHANGED <<task, held, foreground, caller, op, marking, retired, told>>
    BY DEF CloseEnds
  <1>2. Len(pending') = 0 /\ pending' \in Seq(Tasks) /\ \A x : x \notin Range(pending')
    <2>1. DOMAIN <<>> = {} /\ Len(<<>>) = 0 /\ <<>> \in Seq(Tasks)
      BY EmptySeq
    <2> QED BY <1>1, <2>1 DEF Range
  <1>3. TasksTypeOK' /\ QueueIsDistinct'
    <2>1. \A i, j \in 1..0 : FALSE
      OBVIOUS
    <2> QED BY <1>1, <1>2, <2>1 DEF TasksTypeOK, QueueIsDistinct
  <1>4. TasksAreAccounted'
    BY <1>1, <1>2 DEF TasksAreAccounted, ToldOnce, BackgroundIsAnnounced, SlotsCoverWork,
                      ForegroundIsBound, LateEndsOnce, IsActive
  <1>5. ASSUME NEW x \in Tasks PROVE TaskSteady(x)'
    <2>1. TaskSteady(x) /\ task[x].drive # "new"
      BY <1>1 DEF AllOver
    <2> QED BY <1>1, <1>2, <2>1 DEF TaskSteady, Untouched, NewIsFresh, DrivenIsActive, WorkIsDriven,
                              SomebodyCommits, LateIsFailing, QueuedIsKept, ToldIsOver, IsActive
  <1> QED BY <1>3, <1>4, <1>5

-----------------------------------------------------------------------------
(* The specification *)

\* At the beginning there is no task.
LEMMA TasksBegin ==
    ASSUME TasksInit
    PROVE  TasksInv
  <1>1. /\ task = [t \in Tasks |-> Fresh]
        /\ held = {} /\ foreground = NoTask /\ manager = "open"
        /\ caller = [t \in Tasks |-> "none"] /\ op = [t \in Tasks |-> "none"]
        /\ pending = <<>> /\ marking = {} /\ retired = <<>>
        /\ told = [t \in Tasks |-> <<>>]
    BY DEF TasksInit
  <1>2. Fresh \in TaskRecords /\ ~Fresh.known /\ Fresh.drive = "none" /\ Fresh.exec = "none"
        /\ ~Fresh.late
    BY DEF Fresh, TaskRecords, Active, Ended
  <1>3. DOMAIN <<>> = {} /\ Len(<<>>) = 0 /\ <<>> \in Seq(Tasks)
        /\ <<>> \in Seq({"result", "notice"})
    BY EmptySeq
  <1>4. \A x : x \notin Range(pending)
    BY <1>1, <1>3 DEF Range
  <1> HIDE DEF Fresh
  <1>5. TasksTypeOK
    BY <1>1, <1>2, <1>3 DEF TasksTypeOK
  <1>6. QueueIsDistinct
    <2>1. \A i, j \in 1..0 : FALSE
      OBVIOUS
    <2> QED BY <1>1, <1>3, <2>1 DEF QueueIsDistinct
  <1>7. ASSUME NEW x \in Tasks
        PROVE  task[x] = Fresh /\ caller[x] = "none" /\ told[x] = <<>> /\ ~IsActive(x)
    BY <1>1, <1>2 DEF IsActive
  <1>8. TasksAreAccounted
    <2>1. ToldOnce
      <3>1. Len(<<>>) <= 1
        BY <1>3
      <3> QED BY <1>7, <3>1 DEF ToldOnce
    <2>2. BackgroundIsAnnounced /\ SlotsCoverWork /\ LateEndsOnce
      BY <1>1, <1>2, <1>4, <1>7 DEF BackgroundIsAnnounced, SlotsCoverWork, LateEndsOnce
    <2>3. ForegroundIsBound
      BY <1>1, <1>7, TaskAssumption DEF ForegroundIsBound
    <2> QED BY <2>1, <2>2, <2>3 DEF TasksAreAccounted
  <1>9. ASSUME NEW x \in Tasks PROVE TaskSteady(x)
    BY <1>1, <1>2, <1>4, <1>7
    DEF TaskSteady, Untouched, NewIsFresh, DrivenIsActive, WorkIsDriven, SomebodyCommits,
        LateIsFailing, QueuedIsKept, ToldIsOver
  <1> QED BY <1>5, <1>6, <1>8, <1>9 DEF TasksInv

\* Every step of the task manager keeps the invariant.
LEMMA TasksStep ==
    ASSUME TasksInv, [TasksNext]_tvars
    PROVE  TasksInv'
  <1>1. ASSUME NEW t \in Tasks, DriveStep(t) PROVE TasksInv'
    BY <1>1, DriveBeginsStep, DriverCreatedStep, ExecStopsStep, DriveWakesStep, DeadlineStep,
       DriveUnwoundStep, DriverClosesStep, DriveCommitsStep, CallerCommitsStep DEF DriveStep
  <1>2. CASE \E t \in Tasks, place \in {"foreground", "background"} : Start(t, place)
    BY <1>2, StartStep
  <1>3. ASSUME NEW t \in Tasks,
               \/ ExecEnds(t) \/ Cancel(t) \/ CallerKills(t) \/ ShutKills(t)
               \/ Detach(t) \/ Answer(t) \/ MarkDelivered(t)
        PROVE  TasksInv'
    BY <1>3, ExecEndsStep, CancelStep, CallerKillsStep, ShutKillsStep, DetachStep, AnswerStep,
       MarkDeliveredStep
  <1>4. CASE ConsumeBatch
    BY <1>4, ConsumeStep
  <1>5. CASE Shut("resetting") \/ Shut("closing")
    BY <1>5, ShutStep
  <1>6. CASE ResetEnds \/ CloseEnds
    BY <1>6, ResetEndsStep, CloseEndsStep
  <1>7. CASE UNCHANGED tvars
    BY <1>7 DEF tvars, TasksInv, TasksTypeOK, QueueIsDistinct, TasksAreAccounted, ToldOnce,
                BackgroundIsAnnounced, SlotsCoverWork, ForegroundIsBound, LateEndsOnce,
                TaskSteady, Untouched, NewIsFresh, DrivenIsActive, WorkIsDriven,
                              SomebodyCommits, LateIsFailing, QueuedIsKept, ToldIsOver, IsActive
  <1> QED BY <1>1, <1>2, <1>3, <1>4, <1>5, <1>6, <1>7 DEF TasksNext

\* Whatever the order of starts, ends, deadlines, detachments, cancellations, resets and
\* deliveries: the model is told of each task once at most, a background task is announced
\* and its record kept until then, a slot is held exactly while a task is active and its
\* agent works only within it, the foreground is bound to the task that runs there, and a
\* task that outlived its deadline fails.
THEOREM TasksStayAccounted == TasksSpec => []TasksAreAccounted
  <1>1. TasksInit => TasksInv
    BY TasksBegin
  <1>2. TasksInv /\ [TasksNext]_tvars => TasksInv'
    BY TasksStep
  <1>3. TasksInv => TasksAreAccounted
    BY DEF TasksInv
  <1> QED BY <1>1, <1>2, <1>3, PTL DEF TasksSpec

-----------------------------------------------------------------------------
(* hooks *)

\* The dispatcher of x has gone through the rule of x in the round of x.
Passed(x) == x[2] < round[x[1]] \/ (x[2] = round[x[1]] /\ x[3] <= at[x[1]])

\* Who runs an action holds the lock and is at a rule; who is in line dispatches; and a
\* runtime that is closed, or being closed, has nobody in line.
LinesAreKept ==
    /\ \A c \in running : Holds(c) /\ at[c] < Len(RulesOf(c))
    /\ \A c \in Dispatchers : InLine(c) => round[c] >= 1
    /\ \A r \in Runtimes : closing[r] # "open" => lock[r] = <<>>

\* A rule marked once was not tried, or once and then it is consumed.
OnceIsNoted ==
    \A i \in RuleIds : HookRules[i[1]][i[2]].once =>
        attempts[i] = 0 \/ (attempts[i] = 1 /\ i \in once)

\* Background actions are counted while they live and until their callback has run, and
\* each is one that a dispatch has started.
ActionsAreCounted ==
    /\ IsFiniteSet(live) /\ IsFiniteSet(finished) /\ live \cap finished = {}
    /\ count = Cardinality(live) + Cardinality(finished)
    /\ \A x \in live \cup finished : Passed(x)
    /\ \A r \in Runtimes : closing[r] = "closed" => LiveIn(r) = {}

\* Queued prompts are their owners', taken ones were taken by one request, and none is
\* both.
PromptsAreApart ==
    /\ \A o \in PromptOwners : \A p \in ToSet(prompts[o]) : PromptOwnerOf[p[1]] = o /\ Passed(p)
    /\ \A c \in Dispatchers : \A p \in taken[c] : Passed(p)
    /\ \A c \in Dispatchers, o \in PromptOwners : taken[c] \cap ToSet(prompts[o]) = {}
    /\ \A c, d \in Dispatchers : c # d => taken[c] \cap taken[d] = {}

\* A dispatch that has not got the lock has queued nothing, what one queued that has it
\* is still there, and what one queued that has returned is in its request.
OwnPromptsWait ==
    \A c \in Dispatchers :
        /\ InLine(c) => queuedBy[c] \subseteq ToSet(prompts[PromptOwnerOf[c]])
        /\ InLine(c) /\ ~Holds(c) => queuedBy[c] = {}
        /\ (EventOf[c] = "message" /\ ~InLine(c) /\ ~(c \in Forkers /\ round[c] = 1))
              => queuedBy[c] \subseteq taken[c]

\* The inductive invariant.
HookInv ==
    /\ HookTypeOK /\ LinesAreKept /\ OnceIsNoted /\ ActionsAreCounted /\ PromptsAreApart
    /\ OwnPromptsWait

-----------------------------------------------------------------------------
(* Lines *)

\* A line without the one at position i.
LEMMA LineWithout ==
    ASSUME NEW q \in Seq(Dispatchers), IsInjective(q), NEW i \in DOMAIN q
    PROVE  /\ RemoveAt(q, i) \in Seq(Dispatchers) /\ IsInjective(RemoveAt(q, i))
           /\ Len(RemoveAt(q, i)) = Len(q) - 1
           /\ \A k \in 1..(Len(q) - 1) : RemoveAt(q, i)[k] = IF k < i THEN q[k] ELSE q[k + 1]
  <1> DEFINE a == SubSeq(q, 1, i - 1)
             b == SubSeq(q, i + 1, Len(q))
             w == RemoveAt(q, i)
  <1>1. Len(q) \in Nat /\ DOMAIN q = 1..Len(q) /\ i \in 1..Len(q)
        /\ \A k \in 1..Len(q) : q[k] \in Dispatchers
    BY LenProperties
  <1>2. a \in Seq(Dispatchers) /\ Len(a) = i - 1 /\ \A k \in 1..(i - 1) : a[k] = q[k]
    BY <1>1, SubSeqProperties
  <1>3. b \in Seq(Dispatchers) /\ Len(b) = Len(q) - i
        /\ \A k \in 1..(Len(q) - i) : b[k] = q[i + k]
    BY <1>1, SubSeqProperties
  <1>4. w = a \o b
    BY DEF RemoveAt
  <1> HIDE DEF a, b, w
  <1>5. /\ w \in Seq(Dispatchers) /\ Len(w) = Len(a) + Len(b)
        /\ \A k \in 1..Len(a) : w[k] = a[k]
        /\ \A k \in (Len(a) + 1)..(Len(a) + Len(b)) : w[k] = b[k - Len(a)]
    BY <1>2, <1>3, <1>4, ConcatProperties
  <1>6. Len(w) = Len(q) - 1
    BY <1>1, <1>2, <1>3, <1>5
  <1>7. ASSUME NEW k \in 1..(Len(q) - 1) PROVE w[k] = IF k < i THEN q[k] ELSE q[k + 1]
    <2>1. CASE k < i
      BY <1>1, <1>2, <1>5, <2>1
    <2>2. CASE ~(k < i)
      <3>1. k \in (Len(a) + 1)..(Len(a) + Len(b)) /\ k - Len(a) \in 1..(Len(q) - i)
            /\ i + (k - Len(a)) = k + 1
        BY <1>1, <1>2, <1>3, <2>2
      <3>2. w[k] = b[k - Len(a)]
        BY <1>5, <3>1
      <3> QED BY <1>3, <2>2, <3>1, <3>2
    <2> QED BY <2>1, <2>2
  <1>8. IsInjective(w)
    <2>1. DOMAIN w = 1..(Len(q) - 1)
      BY <1>5, <1>6, LenProperties
    <2>2. ASSUME NEW k \in 1..(Len(q) - 1), NEW m \in 1..(Len(q) - 1), w[k] = w[m] PROVE k = m
      <3> DEFINE f(x) == IF x < i THEN x ELSE x + 1
      <3>1. f(k) \in DOMAIN q /\ f(m) \in DOMAIN q /\ w[k] = q[f(k)] /\ w[m] = q[f(m)]
        BY <1>1, <1>7
      <3>2. f(k) = f(m)
        BY <2>2, <3>1 DEF IsInjective
      <3> QED BY <1>1, <3>2
    <2> QED BY <2>1, <2>2 DEF IsInjective
  <1> QED BY <1>5, <1>6, <1>7, <1>8 DEF w

\* Positions in a line.
LEMMA LineFacts ==
    ASSUME HookTypeOK, NEW c \in Dispatchers
    PROVE  /\ RuntimeOf[c] \in Runtimes
           /\ lock[RuntimeOf[c]] \in Seq(Dispatchers) /\ IsInjective(lock[RuntimeOf[c]])
           /\ DOMAIN lock[RuntimeOf[c]] = 1..Len(lock[RuntimeOf[c]])
           /\ Len(lock[RuntimeOf[c]]) \in Nat
           /\ InLine(c) <=> \E i \in 1..Len(lock[RuntimeOf[c]]) : lock[RuntimeOf[c]][i] = c
           /\ Holds(c) <=> (Len(lock[RuntimeOf[c]]) >= 1 /\ lock[RuntimeOf[c]][1] = c)
           /\ Holds(c) => InLine(c)
  <1>1. RuntimeOf[c] \in Runtimes
    BY HookAssumption
  <1> DEFINE q == lock[RuntimeOf[c]]
  <1>2. q \in Seq(Dispatchers) /\ IsInjective(q)
    BY <1>1 DEF HookTypeOK
  <1>3. DOMAIN q = 1..Len(q) /\ Len(q) \in Nat /\ (q # <<>> <=> Len(q) >= 1)
    BY <1>2, LenProperties, EmptySeq
  <1>4. InLine(c) <=> \E i \in 1..Len(q) : q[i] = c
    BY DEF InLine, Contains
  <1>5. Holds(c) <=> (Len(q) >= 1 /\ q[1] = c)
    BY <1>3 DEF Holds
  <1>6. Holds(c) => InLine(c)
    BY <1>3, <1>4, <1>5
  <1> QED BY <1>1, <1>2, <1>3, <1>4, <1>5, <1>6

\* The head of a line is one.
LEMMA OneHolds ==
    ASSUME HookTypeOK, NEW c \in Dispatchers, NEW d \in Dispatchers,
           RuntimeOf[c] = RuntimeOf[d], Holds(c), Holds(d)
    PROVE  c = d
  BY LineFacts

\* Who queues goes to the end of the line.
LEMMA LineAppended ==
    ASSUME HookTypeOK, NEW c \in Dispatchers, ~InLine(c),
           lock' = [lock EXCEPT ![RuntimeOf[c]] = Append(@, c)]
    PROVE  /\ lock' \in [Runtimes -> Seq(Dispatchers)]
           /\ \A r \in Runtimes : IsInjective(lock'[r])
           /\ \A r \in Runtimes : r # RuntimeOf[c] => lock'[r] = lock[r]
           /\ \A d \in Dispatchers : d # c => (InLine(d)' <=> InLine(d))
           /\ \A d \in Dispatchers : Holds(d) => Holds(d)'
           /\ \A d \in Dispatchers : d # c /\ Holds(d)' => Holds(d)
           /\ InLine(c)'
  <1> DEFINE r == RuntimeOf[c]
             q == lock[r]
             w == Append(q, c)
  <1>1. /\ r \in Runtimes /\ q \in Seq(Dispatchers) /\ IsInjective(q) /\ Len(q) \in Nat
        /\ DOMAIN q = 1..Len(q) /\ \A i \in 1..Len(q) : q[i] # c
    BY LineFacts
  <1>2. /\ w \in Seq(Dispatchers) /\ Len(w) = Len(q) + 1 /\ w[Len(q) + 1] = c
        /\ \A i \in 1..Len(q) : w[i] = q[i]
    BY <1>1, AppendProperties
  <1>3. lock' = [lock EXCEPT ![r] = w]
    OBVIOUS
  <1>4. lock \in [Runtimes -> Seq(Dispatchers)]
    BY DEF HookTypeOK
  <1> HIDE DEF w
  <1>5. lock'[r] = w /\ \A x \in Runtimes : x # r => lock'[x] = lock[x]
    BY <1>1, <1>3, <1>4
  <1>6. lock' \in [Runtimes -> Seq(Dispatchers)]
    BY <1>1, <1>2, <1>3, <1>4
  <1>7. IsInjective(w)
    <2>1. DOMAIN w = 1..(Len(q) + 1)
      BY <1>2, LenProperties
    <2>2. ASSUME NEW i \in 1..(Len(q) + 1), NEW j \in 1..(Len(q) + 1), w[i] = w[j] PROVE i = j
      <3>1. CASE i \in 1..Len(q) /\ j \in 1..Len(q)
        BY <1>1, <1>2, <2>2, <3>1 DEF IsInjective
      <3>2. CASE ~(i \in 1..Len(q) /\ j \in 1..Len(q))
        BY <1>1, <1>2, <2>2, <3>2
      <3> QED BY <3>1, <3>2
    <2> QED BY <2>1, <2>2 DEF IsInjective
  <1>8. ASSUME NEW x \in Runtimes PROVE IsInjective(lock'[x])
    BY <1>5, <1>7 DEF HookTypeOK
  <1>9. ASSUME NEW d \in Dispatchers
        PROVE  /\ d # c => (InLine(d)' <=> InLine(d))
               /\ Holds(d) => Holds(d)'
               /\ d # c /\ Holds(d)' => Holds(d)
               /\ d = c => InLine(d)'
    <2>1. RuntimeOf[d] \in Runtimes
      BY HookAssumption
    <2>2. CASE RuntimeOf[d] # r
      <3>1. lock'[RuntimeOf[d]] = lock[RuntimeOf[d]]
        BY <1>5, <2>1, <2>2
      <3> QED BY <2>2, <3>1 DEF InLine, Holds
    <2>3. CASE RuntimeOf[d] = r
      <3>1. lock'[RuntimeOf[d]] = w /\ lock[RuntimeOf[d]] = q
        BY <1>5, <2>3
      <3>2. InLine(d)' <=> \E i \in 1..(Len(q) + 1) : w[i] = d
        BY <1>2, <3>1 DEF InLine, Contains
      <3>3. InLine(d) <=> \E i \in 1..Len(q) : q[i] = d
        BY <3>1 DEF InLine, Contains
      <3>4. w # <<>> /\ Head(w) = w[1]
        BY <1>1, <1>2, EmptySeq
      <3>5. Holds(d)' <=> w[1] = d
        BY <3>1, <3>4 DEF Holds
      <3>6. Holds(d) <=> (Len(q) >= 1 /\ q[1] = d)
        BY <2>3, LineFacts
      <3>7. d # c => (InLine(d)' <=> InLine(d))
        <4>1. ASSUME d # c, NEW i \in 1..(Len(q) + 1), w[i] = d PROVE i \in 1..Len(q) /\ q[i] = d
          BY <1>1, <1>2, <4>1
        <4>2. ASSUME NEW i \in 1..Len(q), q[i] = d PROVE i \in 1..(Len(q) + 1) /\ w[i] = d
          BY <1>1, <1>2, <4>2
        <4> QED BY <3>2, <3>3, <4>1, <4>2
      <3>8. Holds(d) => Holds(d)'
        BY <1>1, <1>2, <3>5, <3>6
      <3>9. d # c /\ Holds(d)' => Holds(d)
        BY <1>1, <1>2, <3>5, <3>6
      <3>10. d = c => InLine(d)'
        BY <1>1, <1>2, <3>2
      <3> QED BY <3>7, <3>8, <3>9, <3>10
    <2> QED BY <2>2, <2>3
  <1> QED BY <1>5, <1>6, <1>8, <1>9

\* Who releases leaves the line, and the order of the others stays.
LEMMA LineReleased ==
    ASSUME HookTypeOK, NEW c \in Dispatchers, Releases(c)
    PROVE  /\ lock' \in [Runtimes -> Seq(Dispatchers)]
           /\ \A r \in Runtimes : IsInjective(lock'[r])
           /\ \A r \in Runtimes : lock[r] = <<>> => lock'[r] = <<>>
           /\ \A d \in Dispatchers : d # c => (InLine(d)' <=> InLine(d))
           /\ \A d \in Dispatchers : d # c /\ Holds(d) => Holds(d)'
           /\ ~InLine(c)'
  <1> DEFINE r == RuntimeOf[c]
             q == lock[r]
  <1>1. /\ r \in Runtimes /\ q \in Seq(Dispatchers) /\ IsInjective(q) /\ Len(q) \in Nat
        /\ DOMAIN q = 1..Len(q)
    BY LineFacts
  <1>2. PICK i \in DOMAIN q : q[i] = c /\ lock' = [lock EXCEPT ![r] = RemoveAt(q, i)]
    BY DEF Releases
  <1> DEFINE w == RemoveAt(q, i)
  <1>3. /\ w \in Seq(Dispatchers) /\ IsInjective(w) /\ Len(w) = Len(q) - 1
        /\ \A k \in 1..(Len(q) - 1) : w[k] = IF k < i THEN q[k] ELSE q[k + 1]
    BY <1>1, LineWithout
  <1>4. lock' = [lock EXCEPT ![r] = w] /\ lock \in [Runtimes -> Seq(Dispatchers)]
    BY <1>2 DEF HookTypeOK
  <1> HIDE DEF w
  <1>5. lock'[r] = w /\ \A x \in Runtimes : x # r => lock'[x] = lock[x]
    BY <1>1, <1>4
  <1>6. lock' \in [Runtimes -> Seq(Dispatchers)]
    BY <1>1, <1>3, <1>4
  <1>7. ASSUME NEW x \in Runtimes PROVE IsInjective(lock'[x])
    BY <1>3, <1>5 DEF HookTypeOK
  <1>8. q # <<>>
    BY <1>1, <1>2, EmptySeq
  <1>9. ASSUME NEW x \in Runtimes, lock[x] = <<>> PROVE lock'[x] = <<>>
    BY <1>5, <1>8, <1>9
  <1>10. ASSUME NEW d \in Dispatchers
         PROVE  /\ d # c => (InLine(d)' <=> InLine(d))
                /\ d # c /\ Holds(d) => Holds(d)'
                /\ d = c => ~InLine(d)'
    <2>1. RuntimeOf[d] \in Runtimes
      BY HookAssumption
    <2>2. CASE RuntimeOf[d] # r
      <3>1. lock'[RuntimeOf[d]] = lock[RuntimeOf[d]]
        BY <1>5, <2>1, <2>2
      <3> QED BY <2>2, <3>1 DEF InLine, Holds
    <2>3. CASE RuntimeOf[d] = r
      <3>1. lock'[RuntimeOf[d]] = w /\ lock[RuntimeOf[d]] = q
        BY <1>5, <2>3
      <3>2. InLine(d)' <=> \E k \in 1..(Len(q) - 1) : w[k] = d
        BY <1>3, <3>1 DEF InLine, Contains
      <3>3. InLine(d) <=> \E k \in 1..Len(q) : q[k] = d
        BY <3>1 DEF InLine, Contains
      <3>4. Holds(d)' <=> (w # <<>> /\ Head(w) = d)
        BY <3>1 DEF Holds
      <3>5. Holds(d) <=> (Len(q) >= 1 /\ q[1] = d)
        BY <2>3, LineFacts
      <3>6. ASSUME d # c, InLine(d) PROVE InLine(d)'
        <4>1. PICK k \in 1..Len(q) : q[k] = d
          BY <3>3, <3>6
        <4>2. k # i
          BY <1>2, <3>6, <4>1
        <4>3. CASE k < i
          <5>1. k \in 1..(Len(q) - 1) /\ w[k] = q[k]
            BY <1>1, <1>3, <4>3
          <5> QED BY <3>2, <4>1, <5>1
        <4>4. CASE k > i
          <5>1. k - 1 \in 1..(Len(q) - 1) /\ ~(k - 1 < i) /\ (k - 1) + 1 = k
            BY <1>1, <4>4
          <5>2. w[k - 1] = q[k]
            BY <1>3, <5>1
          <5> QED BY <3>2, <4>1, <5>1, <5>2
        <4> QED BY <1>1, <4>2, <4>3, <4>4
      <3>7. ASSUME InLine(d)' PROVE InLine(d) /\ d # c
        <4>1. PICK k \in 1..(Len(q) - 1) : w[k] = d
          BY <3>2, <3>7
        <4> DEFINE n == IF k < i THEN k ELSE k + 1
        <4>2. n \in 1..Len(q) /\ n # i /\ q[n] = d
          BY <1>1, <1>3, <4>1
        <4>3. d # c
          BY <1>1, <1>2, <4>2 DEF IsInjective
        <4> QED BY <3>3, <4>2, <4>3
      <3>8. ASSUME d # c, Holds(d) PROVE Holds(d)'
        <4>1. i > 1 /\ 1 \in 1..(Len(q) - 1) /\ 1 < i
          BY <1>1, <1>2, <3>5, <3>8
        <4>2. w[1] = d
          BY <1>3, <3>5, <3>8, <4>1
        <4>3. w # <<>>
          BY <1>1, <1>3, <4>1, EmptySeq
        <4> QED BY <3>4, <4>2, <4>3
      <3> QED BY <3>6, <3>7, <3>8
    <2> QED BY <2>2, <2>3
  <1> QED BY <1>6, <1>7, <1>9, <1>10

-----------------------------------------------------------------------------
(* Rules and rounds *)

\* A dispatch goes forward: in its round, or to the next one.
LEMMA Further ==
    ASSUME HookTypeOK, NEW c \in Dispatchers,
           at' \in [Dispatchers -> Nat], round' \in [Dispatchers -> 0..Rounds],
           \A d \in Dispatchers : d # c => at'[d] = at[d] /\ round'[d] = round[d],
           (round'[c] = round[c] /\ at'[c] >= at[c]) \/ round'[c] > round[c],
           NEW x \in Tries, Passed(x)
    PROVE  Passed(x)'
  <1>1. x[1] \in Dispatchers /\ x[2] \in Nat /\ x[3] \in Nat
    BY HookAssumption DEF Tries
  <1>2. at[x[1]] \in Nat /\ at'[x[1]] \in Nat /\ round[x[1]] \in Nat /\ round'[x[1]] \in Nat
    BY <1>1, HookAssumption DEF HookTypeOK
  <1> QED BY <1>1, <1>2 DEF Passed

\* The rule that a dispatch has come to lies before it.
LEMMA ActionFacts ==
    ASSUME HookTypeOK, LinesAreKept, NEW c \in Dispatchers, Turn(c)
    PROVE  /\ InLine(c)
           /\ Action(c) \in Tries /\ ~Passed(Action(c)) /\ Action(c)[1] = c
           /\ at[c] \in Nat /\ at[c] + 1 <= Len(RulesOf(c))
           /\ Len(RulesOf(c)) \in Nat
           /\ <<EventOf[c], at[c] + 1>> \in RuleIds
           /\ Rule(c) = HookRules[EventOf[c]][at[c] + 1]
  <1>1. Holds(c) /\ at[c] < Len(RulesOf(c))
    BY DEF Turn
  <1>2. InLine(c) /\ round[c] >= 1 /\ round[c] \in 0..Rounds /\ at[c] \in Nat
    BY <1>1, LineFacts DEF LinesAreKept, HookTypeOK
  <1>3. EventOf[c] \in DOMAIN HookRules /\ Len(RulesOf(c)) \in Nat
    <2>1. EventOf[c] \in DOMAIN HookRules /\ HookRules[EventOf[c]] \in Seq(Rules)
      BY HookAssumption
    <2> QED BY <2>1, LenProperties DEF RulesOf
  <1>4. at[c] + 1 \in Nat /\ round[c] \in 1..Rounds /\ at[c] + 1 <= Len(RulesOf(c))
    BY <1>1, <1>2, <1>3, HookAssumption
  <1>5. Action(c) \in Tries
    BY <1>4 DEF Action, Tries
  <1>6. Action(c)[1] = c /\ Action(c)[2] = round[c] /\ Action(c)[3] = at[c] + 1
    BY DEF Action
  <1>7. ~Passed(Action(c))
    BY <1>2, <1>4, <1>6 DEF Passed
  <1>8. <<EventOf[c], at[c] + 1>> \in RuleIds
    <2>1. at[c] + 1 \in 1..Len(HookRules[EventOf[c]])
      BY <1>2, <1>3, <1>4 DEF RulesOf
    <2>2. <<EventOf[c], at[c] + 1>> \in {EventOf[c]} \X (1..Len(HookRules[EventOf[c]]))
      BY <2>1
    <2> QED BY <1>3, <2>2 DEF RuleIds
  <1>9. Rule(c) = HookRules[EventOf[c]][at[c] + 1]
    BY DEF Rule, RulesOf
  <1> QED BY <1>2, <1>3, <1>4, <1>5, <1>6, <1>7, <1>8, <1>9

\* It lies behind once the dispatch has gone on.
LEMMA NowPassed ==
    ASSUME HookTypeOK, NEW c \in Dispatchers, NEW a, a = Action(c),
           round' = round, at'[c] = at[c] + 1
    PROVE  Passed(a)'
  <1>1. a[1] = c /\ a[2] = round[c] /\ a[3] = at[c] + 1 /\ at[c] \in Nat
    BY DEF Action, HookTypeOK
  <1> QED BY <1>1 DEF Passed

\* How far a dispatch has come is a number up to the number of its rules.
LEMMA AtFacts ==
    ASSUME HookTypeOK, NEW c \in Dispatchers
    PROVE  at[c] \in Nat /\ Len(RulesOf(c)) \in Nat /\ at[c] <= Len(RulesOf(c))
  <1>1. HookRules[EventOf[c]] \in Seq(Rules)
    BY HookAssumption
  <1> QED BY <1>1, LenProperties DEF HookTypeOK, RulesOf

\* A rule that is tried is counted, and consumed if it is marked once.
LEMMA OnceConsumed ==
    ASSUME HookInv, NEW c \in Dispatchers, Turn(c), ~Skipped(c), Consumes(c)
    PROVE  once' \subseteq RuleIds /\ attempts' \in [RuleIds -> Nat] /\ OnceIsNoted'
  <1> DEFINE j == <<EventOf[c], at[c] + 1>>
  <1>1. HookTypeOK /\ LinesAreKept /\ OnceIsNoted
    BY DEF HookInv
  <1>2. j \in RuleIds /\ HookRules[j[1]][j[2]] = Rule(c)
    BY <1>1, ActionFacts
  <1>3. once \subseteq RuleIds /\ attempts \in [RuleIds -> Nat]
    BY <1>1 DEF HookTypeOK
  <1>4. /\ once' = IF Rule(c).once THEN once \cup {j} ELSE once
        /\ attempts' = [attempts EXCEPT ![j] = @ + 1]
        /\ Rule(c).once => j \notin once
    BY DEF Consumes, Skipped
  <1> HIDE DEF j
  <1>5. once' \subseteq RuleIds
    BY <1>2, <1>3, <1>4
  <1>6. attempts' \in [RuleIds -> Nat] /\ attempts'[j] = attempts[j] + 1 /\ attempts[j] \in Nat
        /\ \A i \in RuleIds : i # j => attempts'[i] = attempts[i]
    BY <1>2, <1>3, <1>4
  <1>7. ASSUME NEW i \in RuleIds, HookRules[i[1]][i[2]].once
        PROVE  attempts'[i] = 0 \/ (attempts'[i] = 1 /\ i \in once')
    <2>1. CASE i = j
      <3>1. Rule(c).once
        BY <1>2, <1>7, <2>1
      <3>2. attempts[j] = 0
        BY <1>1, <1>2, <1>4, <3>1 DEF OnceIsNoted
      <3> QED BY <1>4, <1>6, <2>1, <3>1, <3>2
    <2>2. CASE i # j
      BY <1>1, <1>4, <1>6, <1>7, <2>2 DEF OnceIsNoted
    <2> QED BY <2>1, <2>2
  <1> QED BY <1>5, <1>6, <1>7 DEF OnceIsNoted

-----------------------------------------------------------------------------
(* What a step leaves alone *)

\* The lines stay in order while nobody joins, leaves or closes.
LEMMA LinesStay ==
    ASSUME LinesAreKept, UNCHANGED <<lock, round, closing>>,
           \A d \in running' : d \in running /\ at'[d] = at[d]
    PROVE  LinesAreKept'
  BY DEF LinesAreKept, Holds, InLine

\* Background actions stay counted while none starts or ends.
LEMMA CountsStay ==
    ASSUME ActionsAreCounted, HookTypeOK, UNCHANGED <<count, live, finished>>,
           \A x \in Tries : Passed(x) => Passed(x)',
           \A r \in Runtimes : closing'[r] = "closed" => closing[r] = "closed" \/ LiveIn(r) = {}
    PROVE  ActionsAreCounted'
  <1>1. \A x \in live \cup finished : Passed(x)'
    BY DEF ActionsAreCounted, HookTypeOK
  <1>2. \A r \in Runtimes : LiveIn(r)' = LiveIn(r)
    BY DEF LiveIn
  <1>3. \A r \in Runtimes : closing'[r] = "closed" => LiveIn(r)' = {}
    BY <1>2 DEF ActionsAreCounted
  <1>4. /\ IsFiniteSet(live') /\ IsFiniteSet(finished') /\ live' \cap finished' = {}
        /\ count' = Cardinality(live') + Cardinality(finished')
    BY DEF ActionsAreCounted
  <1>5. \A x \in live' \cup finished' : Passed(x)'
    BY <1>1
  <1> QED BY <1>3, <1>4, <1>5 DEF ActionsAreCounted

\* Prompts stay apart while none is queued or taken.
LEMMA PromptsStay ==
    ASSUME PromptsAreApart, HookTypeOK, UNCHANGED <<prompts, taken>>,
           \A x \in Tries : Passed(x) => Passed(x)'
    PROVE  PromptsAreApart'
  <1>1. ASSUME NEW o \in PromptOwners, NEW p \in ToSet(prompts[o]) PROVE p \in Tries
    BY <1>1 DEF HookTypeOK, ToSet
  <1>2. ASSUME NEW c \in Dispatchers, NEW p \in taken[c] PROVE p \in Tries
    BY <1>2 DEF HookTypeOK
  <1>3. \A o \in PromptOwners : \A p \in ToSet(prompts'[o]) :
          PromptOwnerOf[p[1]] = o /\ Passed(p)'
    BY <1>1 DEF PromptsAreApart
  <1>4. \A c \in Dispatchers : \A p \in taken'[c] : Passed(p)'
    BY <1>2 DEF PromptsAreApart
  <1>5. /\ \A c \in Dispatchers, o \in PromptOwners : taken'[c] \cap ToSet(prompts'[o]) = {}
        /\ \A c, d \in Dispatchers : c # d => taken'[c] \cap taken'[d] = {}
    BY DEF PromptsAreApart
  <1> QED BY <1>3, <1>4, <1>5 DEF PromptsAreApart

\* What a dispatch queued waits while the lines stay.
LEMMA OwnStay ==
    ASSUME OwnPromptsWait, UNCHANGED <<prompts, taken, lock, round, queuedBy>>
    PROVE  OwnPromptsWait'
  BY DEF OwnPromptsWait, InLine, Holds

\* What lies behind stays behind when a dispatch goes on by a rule, or to the last.
LEMMA GoesOn ==
    ASSUME HookTypeOK, NEW c \in Dispatchers, NEW n \in Nat,
           n >= at[c], n <= Len(RulesOf(c)), at' = [at EXCEPT ![c] = n], round' = round
    PROVE  /\ at' \in [Dispatchers -> Nat] /\ \A d \in Dispatchers : at'[d] <= Len(RulesOf(d))
           /\ \A d \in Dispatchers : d # c => at'[d] = at[d]
           /\ at'[c] = n
           /\ \A x \in Tries : Passed(x) => Passed(x)'
  <1>1. at \in [Dispatchers -> Nat] /\ round \in [Dispatchers -> 0..Rounds]
        /\ \A d \in Dispatchers : at[d] <= Len(RulesOf(d))
    BY DEF HookTypeOK
  <1>2. at' \in [Dispatchers -> Nat] /\ at'[c] = n
        /\ \A d \in Dispatchers : d # c => at'[d] = at[d]
    BY <1>1
  <1>3. ASSUME NEW d \in Dispatchers PROVE at'[d] <= Len(RulesOf(d))
    BY <1>1, <1>2
  <1>4. round' \in [Dispatchers -> 0..Rounds] /\ round'[c] = round[c] /\ at'[c] >= at[c]
        /\ \A d \in Dispatchers : d # c => at'[d] = at[d] /\ round'[d] = round[d]
    BY <1>1, <1>2
  <1>5. ASSUME NEW x \in Tries, Passed(x) PROVE Passed(x)'
    BY <1>2, <1>4, <1>5, Further
  <1> QED BY <1>2, <1>3, <1>5

-----------------------------------------------------------------------------
(* The steps of a dispatcher *)

\* A dispatch begins with nothing behind it and nothing queued.
LEMMA DispatchesKeeps ==
    ASSUME HookInv, NEW c \in Dispatchers, Dispatches(c)
    PROVE  HookInv'
  <1>1. /\ HookTypeOK /\ LinesAreKept /\ OnceIsNoted /\ ActionsAreCounted /\ PromptsAreApart
        /\ OwnPromptsWait
    BY DEF HookInv
  <1>2. /\ ~InLine(c) /\ round[c] < Rounds /\ closing[RuntimeOf[c]] = "open"
        /\ round' = [round EXCEPT ![c] = @ + 1]
        /\ lock' = [lock EXCEPT ![RuntimeOf[c]] = Append(@, c)]
        /\ at' = [at EXCEPT ![c] = 0] /\ queuedBy' = [queuedBy EXCEPT ![c] = {}]
        /\ UNCHANGED <<trusted, running, taken, once, attempts, prompts, count, live, finished,
                       closing>>
    BY DEF Dispatches, process
  <1>3. /\ lock' \in [Runtimes -> Seq(Dispatchers)]
        /\ \A r \in Runtimes : IsInjective(lock'[r])
        /\ \A r \in Runtimes : r # RuntimeOf[c] => lock'[r] = lock[r]
        /\ \A d \in Dispatchers : d # c => (InLine(d)' <=> InLine(d))
        /\ \A d \in Dispatchers : Holds(d) => Holds(d)'
        /\ \A d \in Dispatchers : d # c /\ Holds(d)' => Holds(d)
        /\ InLine(c)'
    BY <1>1, <1>2, LineAppended
  <1>4. /\ at \in [Dispatchers -> Nat] /\ round \in [Dispatchers -> 0..Rounds]
        /\ queuedBy \in [Dispatchers -> SUBSET Tries] /\ Rounds \in Nat
    BY <1>1, HookAssumption DEF HookTypeOK
  <1>5. /\ round' \in [Dispatchers -> 0..Rounds] /\ round'[c] = round[c] + 1
        /\ round[c] \in Nat /\ \A d \in Dispatchers : d # c => round'[d] = round[d]
    BY <1>2, <1>4
  <1>6. at' \in [Dispatchers -> Nat] /\ at'[c] = 0
        /\ \A d \in Dispatchers : d # c => at'[d] = at[d]
    BY <1>2, <1>4
  <1>7. queuedBy' \in [Dispatchers -> SUBSET Tries] /\ queuedBy'[c] = {}
        /\ \A d \in Dispatchers : d # c => queuedBy'[d] = queuedBy[d]
    BY <1>2, <1>4
  <1>8. ASSUME NEW x \in Tries, Passed(x) PROVE Passed(x)'
    BY <1>1, <1>5, <1>6, <1>8, Further
  <1>9. ASSUME NEW d \in Dispatchers PROVE at'[d] <= Len(RulesOf(d))
    BY <1>1, <1>6, AtFacts
  <1>10. HookTypeOK'
    BY <1>1, <1>2, <1>3, <1>5, <1>6, <1>7, <1>9 DEF HookTypeOK
  <1>11. LinesAreKept'
    <2>1. ASSUME NEW d \in running' PROVE Holds(d)' /\ at'[d] < Len(RulesOf(d))
      <3>1. d \in running /\ d \in Dispatchers /\ Holds(d) /\ at[d] < Len(RulesOf(d))
        BY <1>1, <1>2 DEF LinesAreKept, HookTypeOK
      <3>2. d # c
        BY <1>1, <1>2, <3>1, LineFacts
      <3> QED BY <1>3, <1>6, <3>1, <3>2
    <2>2. ASSUME NEW d \in Dispatchers, InLine(d)' PROVE round'[d] >= 1
      BY <1>1, <1>3, <1>5, <2>2 DEF LinesAreKept
    <2>3. ASSUME NEW r \in Runtimes, closing'[r] # "open" PROVE lock'[r] = <<>>
      BY <1>1, <1>2, <1>3, <2>3 DEF LinesAreKept
    <2> QED BY <2>1, <2>2, <2>3 DEF LinesAreKept
  <1>12. OnceIsNoted'
    BY <1>1, <1>2 DEF OnceIsNoted
  <1>13. ActionsAreCounted'
    BY <1>1, <1>2, <1>8, CountsStay
  <1>14. PromptsAreApart'
    BY <1>1, <1>2, <1>8, PromptsStay
  <1>15. OwnPromptsWait'
    <2>1. ASSUME NEW d \in Dispatchers
          PROVE  /\ InLine(d)' => queuedBy'[d] \subseteq ToSet(prompts'[PromptOwnerOf[d]])
                 /\ InLine(d)' /\ ~Holds(d)' => queuedBy'[d] = {}
                 /\ (EventOf[d] = "message" /\ ~InLine(d)' /\ ~(d \in Forkers /\ round'[d] = 1))
                       => queuedBy'[d] \subseteq taken'[d]
      <3>1. CASE d = c
        BY <1>7, <3>1
      <3>2. CASE d # c
        BY <1>1, <1>2, <1>3, <1>5, <1>7, <3>2 DEF OwnPromptsWait
      <3> QED BY <3>1, <3>2
    <2> QED BY <2>1 DEF OwnPromptsWait
  <1> QED BY <1>10, <1>11, <1>12, <1>13, <1>14, <1>15 DEF HookInv

\* A rule that does not apply is passed.
LEMMA PassesKeeps ==
    ASSUME HookInv, NEW c \in Dispatchers, Passes(c)
    PROVE  HookInv'
  <1>1. /\ HookTypeOK /\ LinesAreKept /\ OnceIsNoted /\ ActionsAreCounted /\ PromptsAreApart
        /\ OwnPromptsWait
    BY DEF HookInv
  <1>2. /\ Turn(c) /\ at' = [at EXCEPT ![c] = @ + 1]
        /\ UNCHANGED <<trusted, lock, running, round, taken, queuedBy, once, attempts, prompts,
                       count, live, finished, closing>>
    BY DEF Passes, Goes, process
  <1>3. at[c] \in Nat /\ at[c] + 1 <= Len(RulesOf(c))
    BY <1>1, <1>2, ActionFacts
  <1> DEFINE n == at[c] + 1
  <1>4. at' = [at EXCEPT ![c] = n] /\ n \in Nat /\ n >= at[c] /\ n <= Len(RulesOf(c))
    BY <1>2, <1>3
  <1> HIDE DEF n
  <1>5. /\ at' \in [Dispatchers -> Nat] /\ \A d \in Dispatchers : at'[d] <= Len(RulesOf(d))
        /\ \A d \in Dispatchers : d # c => at'[d] = at[d]
        /\ \A x \in Tries : Passed(x) => Passed(x)'
    BY <1>1, <1>2, <1>4, GoesOn
  <1>6. HookTypeOK'
    BY <1>1, <1>2, <1>5 DEF HookTypeOK
  <1>7. LinesAreKept'
    <2>1. ASSUME NEW d \in running' PROVE d \in running /\ at'[d] = at[d]
      BY <1>1, <1>2, <1>5 DEF Turn, HookTypeOK
    <2> QED BY <1>1, <1>2, <2>1, LinesStay
  <1>8. OnceIsNoted'
    BY <1>1, <1>2 DEF OnceIsNoted
  <1>9. ActionsAreCounted'
    BY <1>1, <1>2, <1>5, CountsStay
  <1>10. PromptsAreApart'
    BY <1>1, <1>2, <1>5, PromptsStay
  <1>11. OwnPromptsWait'
    BY <1>1, <1>2, OwnStay
  <1> QED BY <1>6, <1>7, <1>8, <1>9, <1>10, <1>11 DEF HookInv

\* What a prompt rule queues is new: nobody has queued or taken it before.
LEMMA QueuesPromptKeeps ==
    ASSUME HookInv, NEW c \in Dispatchers, QueuesPrompt(c)
    PROVE  HookInv'
  <1> DEFINE o == PromptOwnerOf[c]
  <1>1. /\ HookTypeOK /\ LinesAreKept /\ OnceIsNoted /\ ActionsAreCounted /\ PromptsAreApart
        /\ OwnPromptsWait
    BY DEF HookInv
  <1>2. /\ Turn(c) /\ ~Skipped(c) /\ Consumes(c) /\ at' = [at EXCEPT ![c] = @ + 1]
        /\ UNCHANGED <<trusted, lock, running, round, taken, count, live, finished, closing>>
    BY DEF QueuesPrompt, Goes
  <1>3. PICK a : a = Action(c)
    OBVIOUS
  <1>4. \/ /\ prompts' = [prompts EXCEPT ![o] = Append(@, a)]
           /\ queuedBy' = [queuedBy EXCEPT ![c] = @ \cup {a}]
        \/ UNCHANGED <<prompts, queuedBy>>
    BY <1>3 DEF QueuesPrompt
  <1>5. /\ a \in Tries /\ ~Passed(a) /\ a[1] = c
        /\ at[c] \in Nat /\ at[c] + 1 <= Len(RulesOf(c))
    BY <1>1, <1>2, <1>3, ActionFacts
  <1> DEFINE n == at[c] + 1
  <1>6. at' = [at EXCEPT ![c] = n] /\ n \in Nat /\ n >= at[c] /\ n <= Len(RulesOf(c))
    BY <1>2, <1>5
  <1>7. at'[c] = at[c] + 1
    BY <1>1, <1>2 DEF HookTypeOK
  <1> HIDE DEF n
  <1>8. /\ at' \in [Dispatchers -> Nat] /\ \A d \in Dispatchers : at'[d] <= Len(RulesOf(d))
        /\ \A d \in Dispatchers : d # c => at'[d] = at[d]
        /\ \A x \in Tries : Passed(x) => Passed(x)'
    BY <1>1, <1>2, <1>6, GoesOn
  <1>9. Passed(a)'
    BY <1>1, <1>2, <1>3, <1>7, NowPassed
  <1>10. once' \subseteq RuleIds /\ attempts' \in [RuleIds -> Nat] /\ OnceIsNoted'
    BY <1>2, OnceConsumed
  <1>11. LinesAreKept'
    <2>1. ASSUME NEW d \in running' PROVE d \in running /\ at'[d] = at[d]
      BY <1>1, <1>2, <1>8 DEF Turn, HookTypeOK
    <2> QED BY <1>1, <1>2, <2>1, LinesStay
  <1>12. ActionsAreCounted'
    BY <1>1, <1>2, <1>8, CountsStay
  <1>13. CASE UNCHANGED <<prompts, queuedBy>>
    <2>1. HookTypeOK'
      BY <1>1, <1>2, <1>8, <1>10, <1>13 DEF HookTypeOK
    <2>2. PromptsAreApart'
      BY <1>1, <1>2, <1>8, <1>13, PromptsStay
    <2>3. OwnPromptsWait'
      BY <1>1, <1>2, <1>13, OwnStay
    <2> QED BY <1>10, <1>11, <1>12, <2>1, <2>2, <2>3 DEF HookInv
  <1>14. CASE /\ prompts' = [prompts EXCEPT ![o] = Append(@, a)]
              /\ queuedBy' = [queuedBy EXCEPT ![c] = @ \cup {a}]
    <2>1. /\ o \in PromptOwners /\ prompts \in [PromptOwners -> Seq(Tries)]
          /\ queuedBy \in [Dispatchers -> SUBSET Tries]
      BY <1>1, HookAssumption DEF HookTypeOK
    <2>2. /\ prompts[o] \in Seq(Tries) /\ Append(prompts[o], a) \in Seq(Tries)
          /\ ToSet(Append(prompts[o], a)) = ToSet(prompts[o]) \cup {a}
      <3>1. prompts[o] \in Seq(Tries)
        BY <2>1
      <3> HIDE DEF o
      <3>2. /\ Append(prompts[o], a) \in Seq(Tries)
            /\ DOMAIN Append(prompts[o], a) = 1..(Len(prompts[o]) + 1)
            /\ Len(prompts[o]) \in Nat /\ DOMAIN prompts[o] = 1..Len(prompts[o])
            /\ Append(prompts[o], a)[Len(prompts[o]) + 1] = a
            /\ \A i \in 1..Len(prompts[o]) : Append(prompts[o], a)[i] = prompts[o][i]
        BY <1>5, <3>1, AppendProperties, LenProperties
      <3> QED BY <3>1, <3>2 DEF ToSet
    <2>3. /\ prompts' \in [PromptOwners -> Seq(Tries)]
          /\ ToSet(prompts'[o]) = ToSet(prompts[o]) \cup {a}
          /\ \A x \in PromptOwners : x # o => prompts'[x] = prompts[x]
      BY <1>14, <2>1, <2>2
    <2>4. /\ queuedBy' \in [Dispatchers -> SUBSET Tries] /\ queuedBy'[c] = queuedBy[c] \cup {a}
          /\ \A d \in Dispatchers : d # c => queuedBy'[d] = queuedBy[d]
      BY <1>5, <1>14, <2>1
    <2>5. HookTypeOK'
      BY <1>1, <1>2, <1>8, <1>10, <2>3, <2>4 DEF HookTypeOK
    <2>6. PromptsAreApart'
      <3>1. ASSUME NEW x \in PromptOwners, NEW p \in ToSet(prompts[x])
            PROVE  p \in Tries /\ PromptOwnerOf[p[1]] = x /\ Passed(p)'
        <4>1. p \in Tries
          BY <2>1 DEF ToSet
        <4> QED BY <1>1, <1>8, <4>1 DEF PromptsAreApart
      <3>2. ASSUME NEW x \in PromptOwners, NEW p \in ToSet(prompts'[x])
            PROVE  PromptOwnerOf[p[1]] = x /\ Passed(p)'
        <4>1. CASE x = o /\ p = a
          BY <1>5, <1>9, <4>1
        <4>2. CASE ~(x = o /\ p = a)
          <5>1. p \in ToSet(prompts[x])
            BY <2>3, <4>2
          <5> QED BY <3>1, <5>1
        <4> QED BY <4>1, <4>2
      <3>3. ASSUME NEW d \in Dispatchers, NEW p \in taken[d] PROVE p # a /\ Passed(p)'
        <4>1. p \in Tries /\ Passed(p)
          BY <1>1 DEF PromptsAreApart, HookTypeOK
        <4> QED BY <1>5, <1>8, <4>1
      <3>4. ASSUME NEW d \in Dispatchers, NEW x \in PromptOwners
            PROVE  taken'[d] \cap ToSet(prompts'[x]) = {}
        <4>1. taken[d] \cap ToSet(prompts[x]) = {}
          BY <1>1 DEF PromptsAreApart
        <4>2. ToSet(prompts'[x]) \subseteq ToSet(prompts[x]) \cup {a}
          BY <2>3
        <4> QED BY <1>2, <3>3, <4>1, <4>2
      <3>5. \A d, e \in Dispatchers : d # e => taken'[d] \cap taken'[e] = {}
        BY <1>1, <1>2 DEF PromptsAreApart
      <3>6. \A d \in Dispatchers : \A p \in taken'[d] : Passed(p)'
        BY <1>2, <3>3
      <3> QED BY <3>2, <3>4, <3>5, <3>6 DEF PromptsAreApart
    <2>7. OwnPromptsWait'
      <3>1. \A d \in Dispatchers : (InLine(d)' <=> InLine(d)) /\ (Holds(d)' <=> Holds(d))
        BY <1>2 DEF InLine, Holds
      <3>2. Holds(c) /\ InLine(c)
        BY <1>1, <1>2, LineFacts DEF Turn
      <3>3. \A x \in PromptOwners : ToSet(prompts[x]) \subseteq ToSet(prompts'[x])
        BY <2>3
      <3>4. ASSUME NEW d \in Dispatchers
            PROVE  /\ InLine(d) => queuedBy'[d] \subseteq ToSet(prompts'[PromptOwnerOf[d]])
                   /\ InLine(d) /\ ~Holds(d) => queuedBy'[d] = {}
                   /\ (EventOf[d] = "message" /\ ~InLine(d) /\ ~(d \in Forkers /\ round[d] = 1))
                         => queuedBy'[d] \subseteq taken[d]
        <4>1. PromptOwnerOf[d] \in PromptOwners
          BY HookAssumption
        <4>2. CASE d = c
          BY <1>1, <2>3, <2>4, <3>2, <4>2 DEF OwnPromptsWait
        <4>3. CASE d # c
          <5>1. InLine(d) => queuedBy[d] \subseteq ToSet(prompts'[PromptOwnerOf[d]])
            BY <1>1, <3>3, <4>1 DEF OwnPromptsWait
          <5> QED BY <1>1, <2>4, <4>3, <5>1 DEF OwnPromptsWait
        <4> QED BY <4>2, <4>3
      <3> QED BY <1>2, <3>1, <3>4 DEF OwnPromptsWait
    <2> QED BY <1>10, <1>11, <1>12, <2>5, <2>6, <2>7 DEF HookInv
  <1> QED BY <1>4, <1>13, <1>14

\* A background action is started within the budget, and counted.
LEMMA StartsBackgroundKeeps ==
    ASSUME HookInv, NEW c \in Dispatchers, StartsBackground(c)
    PROVE  HookInv'
  <1>1. /\ HookTypeOK /\ LinesAreKept /\ OnceIsNoted /\ ActionsAreCounted /\ PromptsAreApart
        /\ OwnPromptsWait
    BY DEF HookInv
  <1>2. /\ Turn(c) /\ ~Skipped(c) /\ Consumes(c) /\ at' = [at EXCEPT ![c] = @ + 1]
        /\ UNCHANGED <<trusted, lock, running, round, taken, queuedBy, prompts, finished, closing>>
    BY DEF StartsBackground, Goes
  <1>3. PICK a : a = Action(c)
    OBVIOUS
  <1>4. \/ count < Budget /\ count' = count + 1 /\ live' = live \cup {a}
        \/ UNCHANGED <<count, live>>
    BY <1>3 DEF StartsBackground
  <1>5. /\ a \in Tries /\ ~Passed(a) /\ a[1] = c /\ InLine(c)
        /\ at[c] \in Nat /\ at[c] + 1 <= Len(RulesOf(c))
    BY <1>1, <1>2, <1>3, ActionFacts
  <1> DEFINE n == at[c] + 1
  <1>6. at' = [at EXCEPT ![c] = n] /\ n \in Nat /\ n >= at[c] /\ n <= Len(RulesOf(c))
    BY <1>2, <1>5
  <1>7. at'[c] = at[c] + 1
    BY <1>1, <1>2 DEF HookTypeOK
  <1> HIDE DEF n
  <1>8. /\ at' \in [Dispatchers -> Nat] /\ \A d \in Dispatchers : at'[d] <= Len(RulesOf(d))
        /\ \A d \in Dispatchers : d # c => at'[d] = at[d]
        /\ \A x \in Tries : Passed(x) => Passed(x)'
    BY <1>1, <1>2, <1>6, GoesOn
  <1>9. Passed(a)'
    BY <1>1, <1>2, <1>3, <1>7, NowPassed
  <1>10. once' \subseteq RuleIds /\ attempts' \in [RuleIds -> Nat] /\ OnceIsNoted'
    BY <1>2, OnceConsumed
  <1>11. LinesAreKept'
    <2>1. ASSUME NEW d \in running' PROVE d \in running /\ at'[d] = at[d]
      BY <1>1, <1>2, <1>8 DEF Turn, HookTypeOK
    <2> QED BY <1>1, <1>2, <2>1, LinesStay
  <1>12. PromptsAreApart' /\ OwnPromptsWait'
    BY <1>1, <1>2, <1>8, PromptsStay, OwnStay
  <1>13. CASE UNCHANGED <<count, live>>
    <2>1. HookTypeOK'
      BY <1>1, <1>2, <1>8, <1>10, <1>13 DEF HookTypeOK
    <2>2. ActionsAreCounted'
      BY <1>1, <1>2, <1>8, <1>13, CountsStay
    <2> QED BY <1>10, <1>11, <1>12, <2>1, <2>2 DEF HookInv
  <1>14. CASE count < Budget /\ count' = count + 1 /\ live' = live \cup {a}
    <2>1. count \in Nat /\ Budget \in Nat /\ live \subseteq Tries /\ finished \subseteq Tries
          /\ count' \in 0..Budget /\ live' \subseteq Tries
      BY <1>1, <1>5, <1>14, HookAssumption DEF HookTypeOK
    <2>2. HookTypeOK'
      BY <1>1, <1>2, <1>8, <1>10, <2>1 DEF HookTypeOK
    <2>3. /\ IsFiniteSet(live) /\ IsFiniteSet(finished) /\ live \cap finished = {}
          /\ count = Cardinality(live) + Cardinality(finished)
          /\ \A x \in live \cup finished : Passed(x)
          /\ \A r \in Runtimes : closing[r] = "closed" => LiveIn(r) = {}
      BY <1>1 DEF ActionsAreCounted
    <2>4. a \notin live /\ a \notin finished
      BY <1>5, <2>3
    <2>5. IsFiniteSet(live') /\ Cardinality(live') = Cardinality(live) + 1
      BY <1>14, <2>3, <2>4, FS_AddElement
    <2>6. Cardinality(live) \in Nat /\ Cardinality(finished) \in Nat
      BY <2>3, FS_CardinalityType
    <2>7. count' = Cardinality(live') + Cardinality(finished')
      BY <1>2, <1>14, <2>3, <2>5, <2>6
    <2>8. ASSUME NEW x \in live' \cup finished' PROVE Passed(x)'
      <3>1. CASE x = a
        BY <1>9, <3>1
      <3>2. CASE x # a
        <4>1. x \in live \cup finished /\ x \in Tries
          BY <1>2, <1>14, <2>1, <3>2
        <4> QED BY <1>8, <2>3, <4>1
      <3> QED BY <3>1, <3>2
    <2>9. ASSUME NEW r \in Runtimes, closing'[r] = "closed" PROVE LiveIn(r)' = {}
      <3>1. closing[r] = "closed" /\ LiveIn(r) = {} /\ lock[r] = <<>>
        BY <1>1, <1>2, <2>3, <2>9 DEF LinesAreKept
      <3>2. RuntimeOf[a[1]] # r
        <4>1. ~(\E i \in 1..Len(lock[r]) : lock[r][i] = c)
          BY <3>1
        <4> QED BY <1>1, <1>5, <4>1, LineFacts
      <3> QED BY <1>14, <3>1, <3>2 DEF LiveIn
    <2>10. IsFiniteSet(finished') /\ live' \cap finished' = {}
      BY <1>2, <1>14, <2>3, <2>4
    <2>11. ActionsAreCounted'
      BY <2>5, <2>7, <2>8, <2>9, <2>10 DEF ActionsAreCounted
    <2> QED BY <1>10, <1>11, <1>12, <2>2, <2>11 DEF HookInv
  <1> QED BY <1>4, <1>13, <1>14

\* A synchronous action runs while its dispatch holds the lock.
LEMMA StartsActionKeeps ==
    ASSUME HookInv, NEW c \in Dispatchers, StartsAction(c)
    PROVE  HookInv'
  <1>1. /\ HookTypeOK /\ LinesAreKept /\ OnceIsNoted /\ ActionsAreCounted /\ PromptsAreApart
        /\ OwnPromptsWait
    BY DEF HookInv
  <1>2. /\ Turn(c) /\ ~Skipped(c) /\ Consumes(c) /\ running' = running \cup {c}
        /\ UNCHANGED <<trusted, lock, at, round, taken, queuedBy, prompts, count, live, finished,
                       closing>>
    BY DEF StartsAction
  <1>3. once' \subseteq RuleIds /\ attempts' \in [RuleIds -> Nat] /\ OnceIsNoted'
    BY <1>2, OnceConsumed
  <1>4. \A x \in Tries : Passed(x) => Passed(x)'
    BY <1>2 DEF Passed
  <1>5. HookTypeOK'
    BY <1>1, <1>2, <1>3 DEF HookTypeOK
  <1>6. LinesAreKept'
    BY <1>1, <1>2 DEF LinesAreKept, Holds, InLine, Turn
  <1>7. ActionsAreCounted' /\ PromptsAreApart' /\ OwnPromptsWait'
    BY <1>1, <1>2, <1>4, CountsStay, PromptsStay, OwnStay
  <1> QED BY <1>3, <1>5, <1>6, <1>7 DEF HookInv

\* When it ends the dispatch goes on, or to the end.
LEMMA ActionEndsKeeps ==
    ASSUME HookInv, NEW c \in Dispatchers, ActionEnds(c)
    PROVE  HookInv'
  <1>1. /\ HookTypeOK /\ LinesAreKept /\ OnceIsNoted /\ ActionsAreCounted /\ PromptsAreApart
        /\ OwnPromptsWait
    BY DEF HookInv
  <1>2. /\ c \in running /\ running' = running \ {c}
        /\ \/ at' = [at EXCEPT ![c] = at[c] + 1]
           \/ at' = [at EXCEPT ![c] = Len(RulesOf(c))]
        /\ UNCHANGED <<trusted, lock, round, taken, queuedBy, once, attempts, prompts, count,
                       live, finished, closing>>
    BY DEF ActionEnds, Goes, process
  <1>3. at[c] \in Nat /\ Len(RulesOf(c)) \in Nat /\ at[c] < Len(RulesOf(c))
    BY <1>1, <1>2, AtFacts DEF LinesAreKept
  <1>4. PICK n \in Nat : n >= at[c] /\ n <= Len(RulesOf(c)) /\ at' = [at EXCEPT ![c] = n]
    <2>1. CASE at' = [at EXCEPT ![c] = Len(RulesOf(c))]
      <3> DEFINE m == Len(RulesOf(c))
      <3>1. m \in Nat /\ m >= at[c] /\ m <= Len(RulesOf(c)) /\ at' = [at EXCEPT ![c] = m]
        BY <1>3, <2>1
      <3> HIDE DEF m
      <3> QED BY <3>1
    <2>2. CASE at' = [at EXCEPT ![c] = at[c] + 1]
      <3> DEFINE m == at[c] + 1
      <3>1. m \in Nat /\ m >= at[c] /\ m <= Len(RulesOf(c)) /\ at' = [at EXCEPT ![c] = m]
        BY <1>3, <2>2
      <3> HIDE DEF m
      <3> QED BY <3>1
    <2> QED BY <1>2, <2>1, <2>2
  <1>5. /\ at' \in [Dispatchers -> Nat] /\ \A d \in Dispatchers : at'[d] <= Len(RulesOf(d))
        /\ \A d \in Dispatchers : d # c => at'[d] = at[d]
        /\ \A x \in Tries : Passed(x) => Passed(x)'
    BY <1>1, <1>2, <1>4, GoesOn
  <1>6. HookTypeOK'
    BY <1>1, <1>2, <1>5 DEF HookTypeOK
  <1>7. LinesAreKept'
    <2>1. ASSUME NEW d \in running' PROVE d \in running /\ at'[d] = at[d]
      BY <1>1, <1>2, <1>5 DEF HookTypeOK
    <2> QED BY <1>1, <1>2, <2>1, LinesStay
  <1>8. OnceIsNoted'
    BY <1>1, <1>2 DEF OnceIsNoted
  <1>9. ActionsAreCounted' /\ PromptsAreApart' /\ OwnPromptsWait'
    BY <1>1, <1>2, <1>5, CountsStay, PromptsStay, OwnStay
  <1> QED BY <1>6, <1>7, <1>8, <1>9 DEF HookInv

\* Who leaves the line, having run nothing, leaves the others as they are.
LEMMA LeavesInOrder ==
    ASSUME HookInv, NEW c \in Dispatchers, Releases(c), UNCHANGED <<round, at, closing>>,
           running' \subseteq running \ {c}
    PROVE  LinesAreKept'
  <1>1. HookTypeOK /\ LinesAreKept
    BY DEF HookInv
  <1>2. /\ \A r \in Runtimes : lock[r] = <<>> => lock'[r] = <<>>
        /\ \A d \in Dispatchers : d # c => (InLine(d)' <=> InLine(d))
        /\ \A d \in Dispatchers : d # c /\ Holds(d) => Holds(d)'
        /\ ~InLine(c)'
    BY <1>1, LineReleased
  <1>3. ASSUME NEW d \in running' PROVE Holds(d)' /\ at'[d] < Len(RulesOf(d))
    <2>1. d \in running /\ d # c /\ d \in Dispatchers
      BY <1>1 DEF HookTypeOK
    <2> QED BY <1>1, <1>2, <2>1 DEF LinesAreKept
  <1>4. ASSUME NEW d \in Dispatchers, InLine(d)' PROVE round'[d] >= 1
    BY <1>1, <1>2, <1>4 DEF LinesAreKept
  <1>5. ASSUME NEW r \in Runtimes, closing'[r] # "open" PROVE lock'[r] = <<>>
    BY <1>1, <1>2, <1>5 DEF LinesAreKept
  <1> QED BY <1>3, <1>4, <1>5 DEF LinesAreKept

\* A request that takes its owner's prompts takes its own, which are still there, and
\* nobody else's that is in line: the one that holds the lock is alone.
LEMMA ReturnsKeeps ==
    ASSUME HookInv, NEW c \in Dispatchers, Returns(c)
    PROVE  HookInv'
  <1> DEFINE o == PromptOwnerOf[c]
  <1>1. /\ HookTypeOK /\ LinesAreKept /\ OnceIsNoted /\ ActionsAreCounted /\ PromptsAreApart
        /\ OwnPromptsWait
    BY DEF HookInv
  <1>2. /\ Holds(c) /\ c \notin running /\ Releases(c)
        /\ UNCHANGED <<trusted, at, running, round, queuedBy, once, attempts, count, live,
                       finished, closing>>
    BY DEF Returns
  <1>3. \/ /\ taken' = [taken EXCEPT ![c] = @ \cup ToSet(prompts[o])]
           /\ prompts' = [prompts EXCEPT ![o] = <<>>]
        \/ /\ ~(EventOf[c] = "message" /\ ~(c \in Forkers /\ round[c] = 1))
           /\ UNCHANGED <<taken, prompts>>
    BY DEF Returns
  <1>4. /\ lock' \in [Runtimes -> Seq(Dispatchers)]
        /\ \A r \in Runtimes : IsInjective(lock'[r])
        /\ \A d \in Dispatchers : d # c => (InLine(d)' <=> InLine(d))
        /\ \A d \in Dispatchers : d # c /\ Holds(d) => Holds(d)'
        /\ ~InLine(c)'
    BY <1>1, <1>2, LineReleased
  <1>5. \A x \in Tries : Passed(x) => Passed(x)'
    BY <1>2 DEF Passed
  <1>6. LinesAreKept'
    BY <1>1, <1>2, LeavesInOrder
  <1>7. OnceIsNoted'
    BY <1>1, <1>2 DEF OnceIsNoted
  <1>8. ActionsAreCounted'
    BY <1>1, <1>2, <1>5, CountsStay
  <1>9. CASE /\ ~(EventOf[c] = "message" /\ ~(c \in Forkers /\ round[c] = 1))
             /\ UNCHANGED <<taken, prompts>>
    <2>1. HookTypeOK'
      BY <1>1, <1>2, <1>4, <1>9 DEF HookTypeOK
    <2>2. PromptsAreApart'
      BY <1>1, <1>5, <1>9, PromptsStay
    <2>3. ASSUME NEW d \in Dispatchers
          PROVE  /\ InLine(d)' => queuedBy'[d] \subseteq ToSet(prompts'[PromptOwnerOf[d]])
                 /\ InLine(d)' /\ ~Holds(d)' => queuedBy'[d] = {}
                 /\ (EventOf[d] = "message" /\ ~InLine(d)' /\ ~(d \in Forkers /\ round'[d] = 1))
                       => queuedBy'[d] \subseteq taken'[d]
      <3>1. CASE d = c
        BY <1>2, <1>4, <1>9, <3>1
      <3>2. CASE d # c
        BY <1>1, <1>2, <1>4, <1>9, <3>2 DEF OwnPromptsWait
      <3> QED BY <3>1, <3>2
    <2>4. OwnPromptsWait'
      BY <2>3 DEF OwnPromptsWait
    <2> QED BY <1>6, <1>7, <1>8, <2>1, <2>2, <2>4 DEF HookInv
  <1>10. CASE /\ taken' = [taken EXCEPT ![c] = @ \cup ToSet(prompts[o])]
              /\ prompts' = [prompts EXCEPT ![o] = <<>>]
    <2>1. /\ o \in PromptOwners /\ prompts \in [PromptOwners -> Seq(Tries)]
          /\ taken \in [Dispatchers -> SUBSET Tries]
      BY <1>1, HookAssumption DEF HookTypeOK
    <2>2. /\ prompts' \in [PromptOwners -> Seq(Tries)]
          /\ ToSet(prompts'[o]) = {} /\ ToSet(prompts[o]) \subseteq Tries
          /\ \A x \in PromptOwners : x # o => prompts'[x] = prompts[x]
      <3>1. prompts'[o] = <<>> /\ prompts' \in [PromptOwners -> Seq(Tries)]
            /\ \A x \in PromptOwners : x # o => prompts'[x] = prompts[x]
        BY <1>10, <2>1
      <3>2. prompts[o] \in Seq(Tries) /\ DOMAIN <<>> = {}
        BY <2>1
      <3> QED BY <3>1, <3>2 DEF ToSet
    <2>3. /\ taken' \in [Dispatchers -> SUBSET Tries] /\ taken'[c] = taken[c] \cup ToSet(prompts[o])
          /\ \A d \in Dispatchers : d # c => taken'[d] = taken[d]
      BY <1>10, <2>1, <2>2
    <2>4. HookTypeOK'
      BY <1>1, <1>2, <1>4, <2>2, <2>3 DEF HookTypeOK
    <2>5. PromptsAreApart'
      <3>1. ASSUME NEW x \in PromptOwners, NEW p \in ToSet(prompts'[x])
            PROVE  /\ x # o /\ p \in ToSet(prompts[x]) /\ PromptOwnerOf[p[1]] = x /\ Passed(p)'
        <4>1. x # o /\ p \in ToSet(prompts[x])
          BY <2>2
        <4>2. p \in Tries
          BY <2>1, <4>1 DEF ToSet
        <4> QED BY <1>1, <1>5, <4>1, <4>2 DEF PromptsAreApart
      <3>2. ASSUME NEW d \in Dispatchers, NEW p \in taken'[d] PROVE Passed(p)'
        <4>1. p \in Tries
          BY <2>3
        <4>2. p \in taken[d] \/ p \in ToSet(prompts[o])
          BY <2>3
        <4>3. Passed(p)
          BY <1>1, <2>1, <4>2 DEF PromptsAreApart
        <4> QED BY <1>5, <4>1, <4>3
      <3>3. ASSUME NEW d \in Dispatchers, NEW x \in PromptOwners
            PROVE  taken'[d] \cap ToSet(prompts'[x]) = {}
        <4>1. ASSUME NEW p, p \in taken'[d], p \in ToSet(prompts'[x]) PROVE FALSE
          <5>1. x # o /\ p \in ToSet(prompts[x]) /\ PromptOwnerOf[p[1]] = x
            BY <3>1, <4>1
          <5>2. p \notin taken[d]
            BY <1>1, <5>1 DEF PromptsAreApart
          <5>3. p \in ToSet(prompts[o])
            BY <2>3, <4>1, <5>2
          <5>4. PromptOwnerOf[p[1]] = o
            BY <1>1, <2>1, <5>3 DEF PromptsAreApart
          <5> QED BY <5>1, <5>4
        <4> QED BY <4>1
      <3>4. ASSUME NEW d \in Dispatchers, NEW e \in Dispatchers, d # e
            PROVE  taken'[d] \cap taken'[e] = {}
        <4>1. taken[d] \cap taken[e] = {}
          BY <1>1, <3>4 DEF PromptsAreApart
        <4>2. taken[d] \cap ToSet(prompts[o]) = {} /\ taken[e] \cap ToSet(prompts[o]) = {}
          BY <1>1, <2>1 DEF PromptsAreApart
        <4>3. CASE d = c
          BY <2>3, <3>4, <4>1, <4>2, <4>3
        <4>4. CASE e = c
          BY <2>3, <3>4, <4>1, <4>2, <4>4
        <4>5. CASE d # c /\ e # c
          BY <2>3, <4>1, <4>5
        <4> QED BY <4>3, <4>4, <4>5
      <3> QED BY <3>1, <3>2, <3>3, <3>4 DEF PromptsAreApart
    <2>6. ASSUME NEW d \in Dispatchers
          PROVE  /\ InLine(d)' => queuedBy'[d] \subseteq ToSet(prompts'[PromptOwnerOf[d]])
                 /\ InLine(d)' /\ ~Holds(d)' => queuedBy'[d] = {}
                 /\ (EventOf[d] = "message" /\ ~InLine(d)' /\ ~(d \in Forkers /\ round'[d] = 1))
                       => queuedBy'[d] \subseteq taken'[d]
      <3>1. CASE d = c
        <4>1. queuedBy[c] \subseteq ToSet(prompts[o])
          BY <1>1, <1>2, LineFacts DEF OwnPromptsWait
        <4> QED BY <1>2, <1>4, <2>3, <3>1, <4>1
      <3>2. CASE d # c
        <4>1. InLine(d)' => queuedBy[d] \subseteq ToSet(prompts'[PromptOwnerOf[d]])
          <5>1. CASE PromptOwnerOf[d] = o
            <6>1. RuntimeOf[c] = RuntimeOf[d]
              BY <5>1, HookAssumption
            <6>2. ~Holds(d)
              BY <1>1, <1>2, <3>2, <6>1, OneHolds
            <6>3. InLine(d)' => queuedBy[d] = {}
              BY <1>1, <1>4, <3>2, <6>2 DEF OwnPromptsWait
            <6> QED BY <6>3
          <5>2. CASE PromptOwnerOf[d] # o
            <6>1. prompts'[PromptOwnerOf[d]] = prompts[PromptOwnerOf[d]]
              BY <2>2, <5>2, HookAssumption
            <6> QED BY <1>1, <1>4, <3>2, <6>1 DEF OwnPromptsWait
          <5> QED BY <5>1, <5>2
        <4> QED BY <1>1, <1>2, <1>4, <2>3, <3>2, <4>1 DEF OwnPromptsWait
      <3> QED BY <3>1, <3>2
    <2>7. OwnPromptsWait'
      BY <2>6 DEF OwnPromptsWait
    <2> QED BY <1>6, <1>7, <1>8, <2>4, <2>5, <2>7 DEF HookInv
  <1> QED BY <1>3, <1>9, <1>10

\* Who is cancelled leaves its prompts to the next request.
LEMMA CancelledKeeps ==
    ASSUME HookInv, NEW c \in Dispatchers, Cancelled(c)
    PROVE  HookInv'
  <1>1. /\ HookTypeOK /\ LinesAreKept /\ OnceIsNoted /\ ActionsAreCounted /\ PromptsAreApart
        /\ OwnPromptsWait
    BY DEF HookInv
  <1>2. /\ Releases(c) /\ running' = running \ {c} /\ queuedBy' = [queuedBy EXCEPT ![c] = {}]
        /\ UNCHANGED <<trusted, at, round, taken, once, attempts, prompts, count, live, finished,
                       closing>>
    BY DEF Cancelled, process
  <1>3. /\ lock' \in [Runtimes -> Seq(Dispatchers)]
        /\ \A r \in Runtimes : IsInjective(lock'[r])
        /\ \A d \in Dispatchers : d # c => (InLine(d)' <=> InLine(d))
        /\ \A d \in Dispatchers : d # c /\ Holds(d) => Holds(d)'
    BY <1>1, <1>2, LineReleased
  <1>4. /\ queuedBy' \in [Dispatchers -> SUBSET Tries] /\ queuedBy'[c] = {}
        /\ \A d \in Dispatchers : d # c => queuedBy'[d] = queuedBy[d]
    BY <1>1, <1>2 DEF HookTypeOK
  <1>5. \A x \in Tries : Passed(x) => Passed(x)'
    BY <1>2 DEF Passed
  <1>6. HookTypeOK'
    BY <1>1, <1>2, <1>3, <1>4 DEF HookTypeOK
  <1>7. LinesAreKept'
    BY <1>1, <1>2, LeavesInOrder
  <1>8. OnceIsNoted'
    BY <1>1, <1>2 DEF OnceIsNoted
  <1>9. ActionsAreCounted' /\ PromptsAreApart'
    BY <1>1, <1>2, <1>5, CountsStay, PromptsStay
  <1>10. ASSUME NEW d \in Dispatchers
         PROVE  /\ InLine(d)' => queuedBy'[d] \subseteq ToSet(prompts'[PromptOwnerOf[d]])
                /\ InLine(d)' /\ ~Holds(d)' => queuedBy'[d] = {}
                /\ (EventOf[d] = "message" /\ ~InLine(d)' /\ ~(d \in Forkers /\ round'[d] = 1))
                      => queuedBy'[d] \subseteq taken'[d]
    <2>1. CASE d = c
      BY <1>4, <2>1
    <2>2. CASE d # c
      BY <1>1, <1>2, <1>3, <1>4, <2>2 DEF OwnPromptsWait
    <2> QED BY <2>1, <2>2
  <1>11. OwnPromptsWait'
    BY <1>10 DEF OwnPromptsWait
  <1> QED BY <1>6, <1>7, <1>8, <1>9, <1>11 DEF HookInv

-----------------------------------------------------------------------------
(* The steps of a runtime *)

\* A background action that ends is counted until its callback has run.
LEMMA BackgroundEndsKeeps ==
    ASSUME HookInv, NEW r \in Runtimes, BackgroundEnds(r)
    PROVE  HookInv'
  <1>1. /\ HookTypeOK /\ LinesAreKept /\ OnceIsNoted /\ ActionsAreCounted /\ PromptsAreApart
        /\ OwnPromptsWait
    BY DEF HookInv
  <1>2. /\ UNCHANGED <<trusted, lock, at, running, round, taken, queuedBy, once, attempts, prompts,
                       count, closing>>
    BY DEF BackgroundEnds
  <1>3. PICK x \in live : live' = live \ {x} /\ finished' = finished \cup {x}
    BY DEF BackgroundEnds, LiveIn
  <1>4. \A y : Passed(y)' <=> Passed(y)
    BY <1>2 DEF Passed
  <1>5. live \subseteq Tries /\ finished \subseteq Tries
    BY <1>1 DEF HookTypeOK
  <1>6. HookTypeOK'
    <2>1. live' \subseteq Tries /\ finished' \subseteq Tries
      BY <1>3, <1>5
    <2> QED BY <1>1, <1>2, <2>1 DEF HookTypeOK
  <1>7. LinesAreKept' /\ OnceIsNoted' /\ PromptsAreApart' /\ OwnPromptsWait'
    <2>1. LinesAreKept'
      BY <1>1, <1>2 DEF LinesAreKept, Holds, InLine
    <2>2. OnceIsNoted'
      BY <1>1, <1>2 DEF OnceIsNoted
    <2> QED BY <1>1, <1>2, <1>4, <2>1, <2>2, PromptsStay, OwnStay
  <1>8. ActionsAreCounted'
    <2>1. /\ IsFiniteSet(live) /\ IsFiniteSet(finished) /\ live \cap finished = {}
          /\ count = Cardinality(live) + Cardinality(finished)
          /\ \A y \in live \cup finished : Passed(y)
          /\ \A s \in Runtimes : closing[s] = "closed" => LiveIn(s) = {}
      BY <1>1 DEF ActionsAreCounted
    <2>2. IsFiniteSet(live') /\ Cardinality(live') = Cardinality(live) - 1
      BY <1>3, <2>1, FS_RemoveElement
    <2>3. IsFiniteSet(finished') /\ Cardinality(finished') = Cardinality(finished) + 1
      <3>1. x \notin finished
        BY <1>3, <2>1
      <3> QED BY <1>3, <2>1, <3>1, FS_AddElement
    <2>4. Cardinality(live) \in Nat /\ Cardinality(finished) \in Nat
      BY <2>1, FS_CardinalityType
    <2>5. count' = Cardinality(live') + Cardinality(finished')
      BY <1>2, <2>1, <2>2, <2>3, <2>4
    <2>6. live' \cap finished' = {} /\ \A y \in live' \cup finished' : Passed(y)'
      BY <1>3, <1>4, <2>1
    <2>7. \A s \in Runtimes : closing'[s] = "closed" => LiveIn(s)' = {}
      BY <1>2, <1>3, <2>1 DEF LiveIn
    <2> QED BY <2>2, <2>3, <2>5, <2>6, <2>7 DEF ActionsAreCounted
  <1> QED BY <1>6, <1>7, <1>8 DEF HookInv

\* The callback gives its slot back once: there is one as long as it is due.
LEMMA BackgroundDoneKeeps ==
    ASSUME HookInv, NEW r \in Runtimes, BackgroundDone(r)
    PROVE  HookInv'
  <1>1. /\ HookTypeOK /\ LinesAreKept /\ OnceIsNoted /\ ActionsAreCounted /\ PromptsAreApart
        /\ OwnPromptsWait
    BY DEF HookInv
  <1>2. /\ UNCHANGED <<trusted, lock, at, running, round, taken, queuedBy, once, attempts, prompts,
                       live, closing>>
        /\ count' = IF count > 0 THEN count - 1 ELSE 0
    BY DEF BackgroundDone
  <1>3. PICK x \in finished : finished' = finished \ {x}
    BY DEF BackgroundDone
  <1>4. \A y : Passed(y)' <=> Passed(y)
    BY <1>2 DEF Passed
  <1>5. live \subseteq Tries /\ finished \subseteq Tries /\ count \in 0..Budget /\ Budget \in Nat
    BY <1>1, HookAssumption DEF HookTypeOK
  <1>6. /\ IsFiniteSet(live) /\ IsFiniteSet(finished) /\ live \cap finished = {}
        /\ count = Cardinality(live) + Cardinality(finished)
        /\ \A y \in live \cup finished : Passed(y)
        /\ \A s \in Runtimes : closing[s] = "closed" => LiveIn(s) = {}
    BY <1>1 DEF ActionsAreCounted
  <1>7. IsFiniteSet(finished') /\ Cardinality(finished') = Cardinality(finished) - 1
    BY <1>3, <1>6, FS_RemoveElement
  <1>8. Cardinality(live) \in Nat /\ Cardinality(finished) \in Nat /\ Cardinality(finished') \in Nat
    BY <1>6, <1>7, FS_CardinalityType
  <1>9. count' = Cardinality(live) + Cardinality(finished') /\ count' \in 0..Budget
    BY <1>2, <1>5, <1>6, <1>7, <1>8
  <1>10. HookTypeOK'
    <2>1. finished' \subseteq Tries
      BY <1>3, <1>5
    <2> QED BY <1>1, <1>2, <1>9, <2>1 DEF HookTypeOK
  <1>11. LinesAreKept' /\ OnceIsNoted' /\ PromptsAreApart' /\ OwnPromptsWait'
    <2>1. LinesAreKept'
      BY <1>1, <1>2 DEF LinesAreKept, Holds, InLine
    <2>2. OnceIsNoted'
      BY <1>1, <1>2 DEF OnceIsNoted
    <2> QED BY <1>1, <1>2, <1>4, <2>1, <2>2, PromptsStay, OwnStay
  <1>12. ActionsAreCounted'
    <2>1. live' \cap finished' = {} /\ \A y \in live' \cup finished' : Passed(y)'
      BY <1>2, <1>3, <1>4, <1>6
    <2>2. \A s \in Runtimes : closing'[s] = "closed" => LiveIn(s)' = {}
      BY <1>2, <1>6 DEF LiveIn
    <2> QED BY <1>2, <1>6, <1>7, <1>9, <2>1, <2>2 DEF ActionsAreCounted
  <1> QED BY <1>10, <1>11, <1>12 DEF HookInv

\* A runtime is closed when nobody is in its line: the prompts it drops are nobody's that
\* still dispatches.
LEMMA ClosesKeeps ==
    ASSUME HookInv, NEW r \in Runtimes, Closes(r)
    PROVE  HookInv'
  <1>1. /\ HookTypeOK /\ LinesAreKept /\ OnceIsNoted /\ ActionsAreCounted /\ PromptsAreApart
        /\ OwnPromptsWait
    BY DEF HookInv
  <1>2. /\ closing[r] = "open" /\ lock[r] = <<>> /\ closing' = [closing EXCEPT ![r] = "closing"]
        /\ prompts' = [o \in PromptOwners |-> IF o \in OwnersOf(r) THEN <<>> ELSE prompts[o]]
        /\ UNCHANGED <<trusted, lock, at, running, round, taken, queuedBy, once, attempts, count,
                       live, finished>>
    BY DEF Closes
  <1>3. \A x \in Tries : Passed(x) => Passed(x)'
    BY <1>2 DEF Passed
  <1>4. /\ closing' \in [Runtimes -> {"open", "closing", "cancelling", "closed"}]
        /\ closing'[r] = "closing" /\ \A s \in Runtimes : s # r => closing'[s] = closing[s]
    BY <1>1, <1>2 DEF HookTypeOK
  <1>5. prompts \in [PromptOwners -> Seq(Tries)] /\ <<>> \in Seq(Tries) /\ ToSet(<<>>) = {}
    <2>1. DOMAIN <<>> = {}
      OBVIOUS
    <2> QED BY <1>1, <2>1 DEF HookTypeOK, ToSet
  <1>6. /\ prompts' \in [PromptOwners -> Seq(Tries)]
        /\ \A o \in PromptOwners : o \in OwnersOf(r) => ToSet(prompts'[o]) = {}
        /\ \A o \in PromptOwners : o \notin OwnersOf(r) => prompts'[o] = prompts[o]
    <2>1. ASSUME NEW o \in PromptOwners
          PROVE  /\ o \in OwnersOf(r) => prompts'[o] = <<>>
                 /\ o \notin OwnersOf(r) => prompts'[o] = prompts[o]
      BY <1>2
    <2>2. prompts' = [o \in PromptOwners |-> prompts'[o]]
      BY <1>2
    <2>3. \A o \in PromptOwners : prompts'[o] \in Seq(Tries)
      BY <1>5, <2>1
    <2>4. prompts' \in [PromptOwners -> Seq(Tries)]
      BY <2>2, <2>3
    <2> QED BY <1>5, <2>1, <2>4
  <1>7. HookTypeOK'
    BY <1>1, <1>2, <1>4, <1>6 DEF HookTypeOK
  <1>8. LinesAreKept'
    BY <1>1, <1>2, <1>4 DEF LinesAreKept, Holds, InLine
  <1>9. OnceIsNoted'
    BY <1>1, <1>2 DEF OnceIsNoted
  <1>10. ActionsAreCounted'
    BY <1>1, <1>2, <1>3, <1>4, CountsStay
  <1>11. \A o \in PromptOwners : ToSet(prompts'[o]) \subseteq ToSet(prompts[o])
    BY <1>6
  <1>12. PromptsAreApart'
    <2>1. ASSUME NEW o \in PromptOwners, NEW p \in ToSet(prompts'[o])
          PROVE  PromptOwnerOf[p[1]] = o /\ Passed(p)'
      <3>1. p \in ToSet(prompts[o])
        BY <1>11
      <3>2. p \in Tries
        BY <1>5, <3>1 DEF ToSet
      <3> QED BY <1>1, <1>3, <3>1, <3>2 DEF PromptsAreApart
    <2>2. ASSUME NEW d \in Dispatchers, NEW p \in taken'[d] PROVE Passed(p)'
      <3>1. p \in taken[d] /\ p \in Tries
        BY <1>1, <1>2 DEF HookTypeOK
      <3> QED BY <1>1, <1>3, <3>1 DEF PromptsAreApart
    <2>3. ASSUME NEW d \in Dispatchers, NEW o \in PromptOwners
          PROVE  taken'[d] \cap ToSet(prompts'[o]) = {}
      BY <1>1, <1>2, <1>11 DEF PromptsAreApart
    <2>4. \A d, e \in Dispatchers : d # e => taken'[d] \cap taken'[e] = {}
      BY <1>1, <1>2 DEF PromptsAreApart
    <2> QED BY <2>1, <2>2, <2>3, <2>4 DEF PromptsAreApart
  <1>13. ASSUME NEW d \in Dispatchers, InLine(d)
         PROVE  prompts'[PromptOwnerOf[d]] = prompts[PromptOwnerOf[d]]
    <2>1. RuntimeOf[d] # r
      <3>1. ASSUME RuntimeOf[d] = r PROVE FALSE
        <4>1. Len(lock[r]) = 0
          BY <1>2
        <4>2. PICK i \in 1..Len(lock[r]) : TRUE
          BY <1>1, <1>13, <3>1, LineFacts
        <4> QED BY <4>1, <4>2
      <3> QED BY <3>1
    <2>2. PromptOwnerOf[d] \notin OwnersOf(r)
      <3>1. ASSUME NEW e \in Dispatchers, RuntimeOf[e] = r, PromptOwnerOf[e] = PromptOwnerOf[d]
            PROVE  FALSE
        BY <2>1, <3>1, HookAssumption
      <3> QED BY <3>1 DEF OwnersOf
    <2> QED BY <1>6, <2>2, HookAssumption
  <1>14. OwnPromptsWait'
    <2>1. \A d \in Dispatchers : (InLine(d)' <=> InLine(d)) /\ (Holds(d)' <=> Holds(d))
      BY <1>2 DEF InLine, Holds
    <2>2. ASSUME NEW d \in Dispatchers
          PROVE  /\ InLine(d)' => queuedBy'[d] \subseteq ToSet(prompts'[PromptOwnerOf[d]])
                 /\ InLine(d)' /\ ~Holds(d)' => queuedBy'[d] = {}
                 /\ (EventOf[d] = "message" /\ ~InLine(d)' /\ ~(d \in Forkers /\ round'[d] = 1))
                       => queuedBy'[d] \subseteq taken'[d]
      <3>1. InLine(d) => queuedBy[d] \subseteq ToSet(prompts'[PromptOwnerOf[d]])
        BY <1>1, <1>13 DEF OwnPromptsWait
      <3> QED BY <1>1, <1>2, <2>1, <3>1 DEF OwnPromptsWait
    <2> QED BY <2>2 DEF OwnPromptsWait
  <1> QED BY <1>7, <1>8, <1>9, <1>10, <1>12, <1>14 DEF HookInv

\* Close goes on, or is over when its background actions are.
LEMMA ClosingKeeps ==
    ASSUME HookInv, NEW r \in Runtimes, CloseTimesOut(r) \/ CloseIsOver(r)
    PROVE  HookInv'
  <1>1. /\ HookTypeOK /\ LinesAreKept /\ OnceIsNoted /\ ActionsAreCounted /\ PromptsAreApart
        /\ OwnPromptsWait
    BY DEF HookInv
  <1>2. UNCHANGED <<trusted, lock, at, running, round, taken, queuedBy, once, attempts, prompts,
                    count, live, finished>>
    BY DEF CloseTimesOut, CloseIsOver, process
  <1>3. /\ closing[r] # "open"
        /\ \/ closing' = [closing EXCEPT ![r] = "cancelling"]
           \/ closing' = [closing EXCEPT ![r] = "closed"] /\ LiveIn(r) = {}
    BY DEF CloseTimesOut, CloseIsOver
  <1>4. /\ closing' \in [Runtimes -> {"open", "closing", "cancelling", "closed"}]
        /\ \A s \in Runtimes : s # r => closing'[s] = closing[s]
        /\ closing'[r] # "open" /\ (closing'[r] = "closed" => LiveIn(r) = {})
    BY <1>1, <1>3 DEF HookTypeOK
  <1>5. \A x \in Tries : Passed(x) => Passed(x)'
    BY <1>2 DEF Passed
  <1>6. HookTypeOK'
    BY <1>1, <1>2, <1>4 DEF HookTypeOK
  <1>7. LinesAreKept'
    <2>1. \A s \in Runtimes : closing'[s] # "open" => closing[s] # "open"
      BY <1>3, <1>4
    <2> QED BY <1>1, <1>2, <2>1 DEF LinesAreKept, Holds, InLine
  <1>8. OnceIsNoted'
    BY <1>1, <1>2 DEF OnceIsNoted
  <1>9. ActionsAreCounted'
    <2>1. \A s \in Runtimes : closing'[s] = "closed" => closing[s] = "closed" \/ LiveIn(s) = {}
      BY <1>4
    <2> QED BY <1>1, <1>2, <1>5, <2>1, CountsStay
  <1>10. PromptsAreApart' /\ OwnPromptsWait'
    BY <1>1, <1>2, <1>5, PromptsStay, OwnStay
  <1> QED BY <1>6, <1>7, <1>8, <1>9, <1>10 DEF HookInv

-----------------------------------------------------------------------------
(* The theorem *)

\* Nobody dispatches at first, and nothing is queued, taken or tried.
LEMMA HooksBegin == HookInit => HookInv
  <1> SUFFICES ASSUME HookInit PROVE HookInv
    OBVIOUS
  <1>1. DOMAIN <<>> = {} /\ Len(<<>>) = 0 /\ \A S : <<>> \in Seq(S)
    OBVIOUS
  <1>2. \A r \in Runtimes : lock[r] = <<>>
    BY DEF HookInit
  <1>3. \A c \in Dispatchers : ~InLine(c)
    <2>1. ASSUME NEW c \in Dispatchers PROVE ~InLine(c)
      <3>1. lock[RuntimeOf[c]] = <<>>
        BY <1>2, HookAssumption
      <3> QED BY <1>1, <3>1 DEF InLine, Contains
    <2> QED BY <2>1
  <1>4. HookTypeOK
    <2>1. \A r \in Runtimes : IsInjective(lock[r])
      BY <1>1, <1>2 DEF IsInjective
    <2>2. \A c \in Dispatchers : at[c] <= Len(RulesOf(c))
      <3>1. ASSUME NEW c \in Dispatchers PROVE at[c] <= Len(RulesOf(c))
        <4>1. HookRules[EventOf[c]] \in Seq(Rules)
          BY HookAssumption
        <4>2. Len(RulesOf(c)) \in Nat
          BY <4>1, LenProperties DEF RulesOf
        <4> QED BY <4>2 DEF HookInit
      <3> QED BY <3>1
    <2>3. lock \in [Runtimes -> Seq(Dispatchers)] /\ prompts \in [PromptOwners -> Seq(Tries)]
      BY <1>1 DEF HookInit
    <2>4. /\ trusted \in BOOLEAN /\ at \in [Dispatchers -> Nat] /\ running \subseteq Dispatchers
          /\ round \in [Dispatchers -> 0..Rounds] /\ count \in 0..Budget
      BY HookAssumption DEF HookInit
    <2>5. /\ taken \in [Dispatchers -> SUBSET Tries] /\ queuedBy \in [Dispatchers -> SUBSET Tries]
          /\ once \subseteq RuleIds /\ attempts \in [RuleIds -> Nat]
          /\ live \subseteq Tries /\ finished \subseteq Tries
          /\ closing \in [Runtimes -> {"open", "closing", "cancelling", "closed"}]
      BY DEF HookInit
    <2> QED BY <2>1, <2>2, <2>3, <2>4, <2>5 DEF HookTypeOK
  <1>5. LinesAreKept /\ OnceIsNoted
    BY <1>2, <1>3 DEF HookInit, LinesAreKept, OnceIsNoted
  <1>6. ActionsAreCounted
    <2>1. IsFiniteSet({}) /\ Cardinality({}) = 0
      BY FS_EmptySet
    <2> QED BY <2>1 DEF HookInit, ActionsAreCounted, LiveIn
  <1>7. PromptsAreApart
    <2>1. \A o \in PromptOwners : ToSet(prompts[o]) = {}
      BY <1>1 DEF HookInit, ToSet
    <2>2. \A c \in Dispatchers : taken[c] = {}
      BY DEF HookInit
    <2> QED BY <2>1, <2>2 DEF PromptsAreApart
  <1>8. OwnPromptsWait
    <2>1. \A c \in Dispatchers : queuedBy[c] = {}
      BY DEF HookInit
    <2> QED BY <2>1 DEF OwnPromptsWait
  <1> QED BY <1>4, <1>5, <1>6, <1>7, <1>8 DEF HookInv

\* Every step keeps the invariant.
LEMMA HooksGoOn == HookInv /\ [HookNext]_hookvars => HookInv'
  <1> SUFFICES ASSUME HookInv, [HookNext]_hookvars PROVE HookInv'
    OBVIOUS
  <1>1. ASSUME NEW c \in Dispatchers, CallerStep(c) PROVE HookInv'
    BY <1>1, DispatchesKeeps, PassesKeeps, QueuesPromptKeeps, StartsBackgroundKeeps,
       StartsActionKeeps, ActionEndsKeeps, ReturnsKeeps, CancelledKeeps DEF CallerStep
  <1>2. ASSUME NEW r \in Runtimes, RuntimeStep(r) PROVE HookInv'
    BY <1>2, BackgroundEndsKeeps, BackgroundDoneKeeps, ClosesKeeps, ClosingKeeps DEF RuntimeStep
  <1>3. CASE UNCHANGED hookvars
    <2>1. UNCHANGED <<trusted, lock, at, running, round, taken, queuedBy, once, attempts, prompts,
                      count, live, finished, closing>>
      BY <1>3 DEF hookvars
    <2>2. /\ HookTypeOK /\ LinesAreKept /\ OnceIsNoted /\ ActionsAreCounted /\ PromptsAreApart
          /\ OwnPromptsWait
      BY DEF HookInv
    <2>3. HookTypeOK'
      BY <2>1, <2>2 DEF HookTypeOK
    <2>4. LinesAreKept' /\ OnceIsNoted'
      BY <2>1, <2>2 DEF LinesAreKept, OnceIsNoted, Holds, InLine
    <2>5. \A x \in Tries : Passed(x) => Passed(x)'
      BY <2>1 DEF Passed
    <2>6. ActionsAreCounted' /\ PromptsAreApart' /\ OwnPromptsWait'
      BY <2>1, <2>2, <2>5, CountsStay, PromptsStay, OwnStay
    <2> QED BY <2>3, <2>4, <2>6 DEF HookInv
  <1> QED BY <1>1, <1>2, <1>3 DEF HookNext

\* A once rule is tried once in the process, a prompt a request's own hook queued is in
\* that request and in no other, and background actions are counted until they are over.
THEOREM HooksAlwaysFireOnce == HookSpec => []HooksFireOnce
  <1>1. HookInv => HooksFireOnce
    <2> SUFFICES ASSUME HookInv PROVE HooksFireOnce
      OBVIOUS
    <2>1. OnceOnly
      <3>1. ASSUME NEW i \in RuleIds, HookRules[i[1]][i[2]].once PROVE attempts[i] <= 1
        <4>1. attempts[i] = 0 \/ attempts[i] = 1
          BY <3>1 DEF HookInv, OnceIsNoted
        <4> QED BY <4>1
      <3> QED BY <3>1 DEF OnceOnly
    <2>2. PromptsReachOneRequest
      BY DEF HookInv, PromptsAreApart, OwnPromptsWait, PromptsReachOneRequest
    <2>3. BackgroundIsTracked
      BY DEF HookInv, ActionsAreCounted, BackgroundIsTracked
    <2> QED BY <2>1, <2>2, <2>3 DEF HooksFireOnce
  <1> QED BY <1>1, HooksBegin, HooksGoOn, PTL DEF HookSpec

-----------------------------------------------------------------------------
(* isolated runs *)

\* Who the program's thread waits for: the facade works only while the driver starts its
\* servers or closes them, on a thread that is there, and close is entered once.
FacadeIsBusy ==
    /\ stage = "start" => driver = "starts" /\ thread = "runs" /\ job = "start" /\ ~mcpClosed
    /\ stage = "close" => thread = "runs" /\ mcpClosed
    /\ stage = "join" => thread \in {"stops", "dead"}
    /\ stage # "none" => driver \in {"starts", "undoes", "closes"}
    /\ Free /\ driver = "starts" => thread = "none"
    /\ mcpClosed <=> job = "close"
    /\ job # "none" <=> thread # "none"
    /\ job = "none" => answer = "none"
    /\ thread \in {"stops", "dead"} => mcpClosed
    /\ Free /\ thread = "runs" => ~mcpClosed

\* The servers' thread is there only between the start and the close of them, and a call
\* only while the run goes on.
ThreadIsOwned ==
    /\ driver \in {"new", "builds"} => thread = "none"
    /\ thread = "runs" => driver \in {"starts", "binds", "undoes", "runs", "closes"}
    /\ call # "none" => driver = "runs"

\* The run is there only once it was bound, and the worktree until it is left.
BundleIsKept ==
    /\ driver = "new" => ~lease
    /\ driver \in {"new", "builds", "starts", "binds", "undoes", "backs_out"} => runtime = "none"
    /\ driver \in {"exits", "over"} /\ runtime = "open" => "run" \in failures
    /\ driver = "over" /\ lease => "exit" \in failures

\* The manager answers a close when no session is left, and a stop that was not late comes
\* after that answer.
ClosingIsAnswered ==
    /\ job = "close" /\ answer # "none" => \A s \in Ids : session[s] \in {"closed", "broken"}
    /\ thread \in {"stops", "dead"} /\ ~late => \A s \in Ids : session[s] \in {"closed", "broken"}
    /\ thread # "none" => \A s \in Ids : session[s] # "none"
    /\ thread \in {"runs", "stops"} => \A s \in Ids : session[s] # "dropped"

\* The tools are the catalog that a good start was answered with, and until the run is
\* bound just their sessions are ready.
ToolsAreTheCatalog ==
    /\ \A t, u \in tools : t[1] = u[1] => t = u
    /\ \A t \in tools : t[1] \notin Reserved
    /\ job = "start" /\ answer = "ok" => \A s \in Ids : session[s] # "starting"
    /\ job = "start" /\ answer = "ok" /\ driver \in {"starts", "binds"} => \A s \in Ids :
           session[s] = "ready" <=> \E t \in tools : t[2] = s
    /\ driver = "binds" /\ thread = "runs" => job = "start" /\ answer = "ok"

\* The inductive invariant.
IsolatedInv ==
    /\ IsolatedTypeOK /\ FacadeIsBusy /\ ThreadIsOwned /\ BundleIsKept /\ ClosingIsAnswered
    /\ ToolsAreTheCatalog

-----------------------------------------------------------------------------
(* Tools and faults *)

\* The tools of the catalog have names of their own, none of them reserved, and servers that
\* are ready.
LEMMA CatalogFacts ==
    ASSUME IsolatedTypeOK
    PROVE  /\ Catalog \subseteq Names \X Ids
           /\ \A t, u \in Catalog : t[1] = u[1] => t = u
           /\ \A t \in Catalog : t[1] \notin Reserved
           /\ \A t \in Catalog : session[t[2]] = "ready"
  <1>1. Servers \in Seq(Ids) /\ Len(Servers) \in Nat /\ DOMAIN Servers = 1..Len(Servers)
    BY IsolatedAssumption, LenProperties DEF Ids
  <1>2. ASSUME NEW s \in Ids, Offering(s)
        PROVE  ToolOf(s) \in Names \X Ids /\ ToolOf(s)[1] = offer[s][1] /\ ToolOf(s)[2] = s
    <2>1. offer[s] \in Offers \cup {<<>>}
      BY DEF IsolatedTypeOK, Listed
    <2>2. offer[s] # <<>>
      BY <1>2 DEF Offering
    <2>3. offer[s][1] \in Names
      BY <2>1, <2>2 DEF Offers
    <2> QED BY <2>3 DEF ToolOf
  <1>3. ASSUME NEW t \in Catalog
        PROVE  \E i \in 1..Len(Servers) :
                  /\ t = ToolOf(Servers[i]) /\ Servers[i] \in Ids /\ Offering(Servers[i])
                  /\ \A j \in 1..(i - 1) : Offering(Servers[j]) =>
                        offer[Servers[j]][1] # offer[Servers[i]][1]
    BY <1>1 DEF Catalog
  <1>4. ASSUME NEW t \in Catalog
        PROVE  t \in Names \X Ids /\ t[1] \notin Reserved /\ session[t[2]] = "ready"
    <2>1. PICK i \in 1..Len(Servers) :
             t = ToolOf(Servers[i]) /\ Servers[i] \in Ids /\ Offering(Servers[i])
      BY <1>3
    <2> QED BY <1>2, <2>1 DEF Offering
  <1>5. ASSUME NEW t \in Catalog, NEW u \in Catalog, t[1] = u[1] PROVE t = u
    <2>1. PICK i \in 1..Len(Servers) :
             /\ t = ToolOf(Servers[i]) /\ Servers[i] \in Ids /\ Offering(Servers[i])
             /\ \A m \in 1..(i - 1) : Offering(Servers[m]) =>
                   offer[Servers[m]][1] # offer[Servers[i]][1]
      BY <1>3
    <2>2. PICK j \in 1..Len(Servers) :
             /\ u = ToolOf(Servers[j]) /\ Servers[j] \in Ids /\ Offering(Servers[j])
             /\ \A m \in 1..(j - 1) : Offering(Servers[m]) =>
                   offer[Servers[m]][1] # offer[Servers[j]][1]
      BY <1>3
    <2>3. offer[Servers[i]][1] = offer[Servers[j]][1]
      BY <1>2, <1>5, <2>1, <2>2
    <2>4. ~(i < j) /\ ~(j < i)
      BY <2>1, <2>2, <2>3
    <2>5. i = j
      BY <2>4
    <2> QED BY <2>1, <2>2, <2>5
  <1> QED BY <1>4, <1>5

\* Exceptions are counted up to their bound.
LEMMA FaultsBounded ==
    ASSUME IsolatedTypeOK, Fault \/ UNCHANGED faults
    PROVE  faults' \in 0..MaxFaults
  <1>1. faults \in 0..MaxFaults
    BY DEF IsolatedTypeOK
  <1>2. MaxFaults \in Nat
    BY IsolatedAssumption
  <1> QED BY <1>1, <1>2 DEF Fault

-----------------------------------------------------------------------------
(* The steps *)

\* A good start leaves just the sessions with a tool in the catalog open.
LEMMA GatheredKeeps ==
    ASSUME IsolatedInv, Gathered
    PROVE  IsolatedInv'
  <1> DEFINE kept == {t[2] : t \in Catalog}
  <1>1. /\ IsolatedTypeOK /\ FacadeIsBusy /\ ThreadIsOwned /\ BundleIsKept /\ ClosingIsAnswered
        /\ ToolsAreTheCatalog
    BY DEF IsolatedInv
  <1>2. /\ thread = "runs" /\ job = "start" /\ answer = "none"
        /\ \A s \in Ids : session[s] # "starting"
        /\ UNCHANGED <<driver, lease, hooks, runtime, call, failures, stage, mcpClosed, thread, job,
                       offer, late>>
    BY DEF Gathered, facadevars
  <1>3. /\ Catalog \subseteq Names \X Ids
        /\ \A t, u \in Catalog : t[1] = u[1] => t = u
        /\ \A t \in Catalog : t[1] \notin Reserved
        /\ \A s \in kept : s \in Ids /\ session[s] = "ready"
    <2>1. /\ Catalog \subseteq Names \X Ids
          /\ \A t, u \in Catalog : t[1] = u[1] => t = u
          /\ \A t \in Catalog : t[1] \notin Reserved /\ session[t[2]] = "ready"
      BY <1>1, CatalogFacts
    <2>2. \A t \in Names \X Ids : t[2] \in Ids
      OBVIOUS
    <2> QED BY <2>1, <2>2
  <1>4. faults' \in 0..MaxFaults
    BY <1>1, FaultsBounded DEF Gathered
  <1>5. \/ /\ session' = [s \in Ids |-> IF s \in kept THEN session[s] ELSE "closed"]
           /\ tools' = Catalog /\ answer' = "ok"
        \/ /\ answer' = "raised" /\ UNCHANGED tools
           /\ \E s \in Ids \ kept : session' = [session EXCEPT ![s] = "broken"]
    BY DEF Gathered
  <1>6. FacadeIsBusy' /\ ThreadIsOwned' /\ BundleIsKept'
    BY <1>1, <1>2 DEF FacadeIsBusy, Free, ThreadIsOwned, BundleIsKept
  <1>7. CASE /\ session' = [s \in Ids |-> IF s \in kept THEN session[s] ELSE "closed"]
             /\ tools' = Catalog /\ answer' = "ok"
    <2> HIDE DEF kept
    <2>1. ASSUME NEW s \in Ids
          PROVE  /\ s \in kept => session'[s] = "ready"
                 /\ s \notin kept => session'[s] = "closed"
      BY <1>3, <1>7
    <2>2. session' \in [Ids -> {"ready", "closed"}]
      BY <1>7, <2>1
    <2>3. IsolatedTypeOK'
      <3>1. session' \in [Ids -> {"none", "starting", "ready", "failed", "closed",
                                 "broken", "dropped"}]
        BY <2>2
      <3> QED BY <1>1, <1>2, <1>3, <1>4, <1>7, <3>1 DEF IsolatedTypeOK
    <2>4. ClosingIsAnswered'
      BY <1>1, <1>2, <2>1 DEF ClosingIsAnswered, FacadeIsBusy
    <2>5. \A s \in Ids : s \in kept <=> \E t \in Catalog : t[2] = s
      BY DEF kept
    <2>6. ToolsAreTheCatalog'
      BY <1>2, <1>3, <1>7, <2>1, <2>5 DEF ToolsAreTheCatalog
    <2> QED BY <1>6, <2>3, <2>4, <2>6 DEF IsolatedInv
  <1>8. CASE /\ answer' = "raised" /\ UNCHANGED tools
             /\ \E s \in Ids \ kept : session' = [session EXCEPT ![s] = "broken"]
    <2>1. IsolatedTypeOK'
      <3>1. session' \in [Ids -> {"none", "starting", "ready", "failed", "closed",
                                 "broken", "dropped"}]
        BY <1>1, <1>8 DEF IsolatedTypeOK
      <3> QED BY <1>1, <1>2, <1>4, <1>8, <3>1 DEF IsolatedTypeOK
    <2>2. ClosingIsAnswered'
      BY <1>1, <1>2, <1>8 DEF ClosingIsAnswered, FacadeIsBusy, IsolatedTypeOK
    <2>3. ToolsAreTheCatalog'
      BY <1>1, <1>2, <1>8 DEF ToolsAreTheCatalog, FacadeIsBusy
    <2> QED BY <1>6, <2>1, <2>2, <2>3 DEF IsolatedInv
  <1> QED BY <1>5, <1>7, <1>8

\* A session that starts is ready or failed: nothing was answered before.
LEMMA SessionStartsKeeps ==
    ASSUME IsolatedInv, NEW s \in Ids, SessionStarts(s)
    PROVE  IsolatedInv'
  <1>1. /\ IsolatedTypeOK /\ FacadeIsBusy /\ ThreadIsOwned /\ BundleIsKept /\ ClosingIsAnswered
        /\ ToolsAreTheCatalog
    BY DEF IsolatedInv
  <1>2. IsolatedTypeOK'
BY <1>1 DEF IsolatedTypeOK, SessionStarts, drivervars, facadevars, Listed
  <1>3. FacadeIsBusy'
BY <1>1 DEF FacadeIsBusy, Free, SessionStarts, drivervars, facadevars
  <1>4. ThreadIsOwned'
BY <1>1 DEF ThreadIsOwned, SessionStarts, drivervars, facadevars
  <1>5. BundleIsKept'
BY <1>1 DEF BundleIsKept, SessionStarts, drivervars, facadevars
  <1>6. ClosingIsAnswered'
BY <1>1 DEF ClosingIsAnswered, IsolatedTypeOK, SessionStarts, drivervars, facadevars
  <1>7. ToolsAreTheCatalog'
BY <1>1 DEF ToolsAreTheCatalog, SessionStarts, drivervars, facadevars
  <1> QED BY <1>2, <1>3, <1>4, <1>5, <1>6, <1>7 DEF IsolatedInv

\* While a session closes the close is not answered.
LEMMA SessionClosesKeeps ==
    ASSUME IsolatedInv, NEW s \in Ids, SessionCloses(s)
    PROVE  IsolatedInv'
  <1>1. /\ IsolatedTypeOK /\ FacadeIsBusy /\ ThreadIsOwned /\ BundleIsKept /\ ClosingIsAnswered
        /\ ToolsAreTheCatalog
    BY DEF IsolatedInv
  <1>2. faults' \in 0..MaxFaults
    BY <1>1, FaultsBounded DEF SessionCloses
  <1>3. IsolatedTypeOK'
BY <1>1, <1>2 DEF IsolatedTypeOK, SessionCloses, Alive, facadevars
  <1>4. FacadeIsBusy'
BY <1>1 DEF FacadeIsBusy, Free, SessionCloses, Alive, facadevars
  <1>5. ThreadIsOwned'
BY <1>1 DEF ThreadIsOwned, SessionCloses, Alive, facadevars
  <1>6. BundleIsKept'
BY <1>1 DEF BundleIsKept, SessionCloses, Alive, facadevars
  <1>7. ClosingIsAnswered'
BY <1>1 DEF ClosingIsAnswered, IsolatedTypeOK, SessionCloses, Alive, facadevars
  <1>8. ToolsAreTheCatalog'
BY <1>1 DEF ToolsAreTheCatalog, SessionCloses, Alive, facadevars
  <1> QED BY <1>3, <1>4, <1>5, <1>6, <1>7, <1>8 DEF IsolatedInv

\* The close is answered when no session is left.
LEMMA AllClosedKeeps ==
    ASSUME IsolatedInv, AllClosed
    PROVE  IsolatedInv'
  <1>1. /\ IsolatedTypeOK /\ FacadeIsBusy /\ ThreadIsOwned /\ BundleIsKept /\ ClosingIsAnswered
        /\ ToolsAreTheCatalog
    BY DEF IsolatedInv
  <1>2. IsolatedTypeOK'
BY <1>1 DEF IsolatedTypeOK, AllClosed, Alive, drivervars, facadevars
  <1>3. FacadeIsBusy'
BY <1>1 DEF FacadeIsBusy, Free, AllClosed, Alive, drivervars, facadevars
  <1>4. ThreadIsOwned'
BY <1>1 DEF ThreadIsOwned, AllClosed, Alive, drivervars, facadevars
  <1>5. BundleIsKept'
BY <1>1 DEF BundleIsKept, AllClosed, Alive, drivervars, facadevars
  <1>6. ClosingIsAnswered'
BY <1>1 DEF ClosingIsAnswered, IsolatedTypeOK, AllClosed, Alive, drivervars, facadevars
  <1>7. ToolsAreTheCatalog'
BY <1>1 DEF ToolsAreTheCatalog, AllClosed, Alive, drivervars, facadevars
  <1> QED BY <1>2, <1>3, <1>4, <1>5, <1>6, <1>7 DEF IsolatedInv

\* What the loop drops when it stops was late.
LEMMA LoopStopsKeeps ==
    ASSUME IsolatedInv, LoopStops
    PROVE  IsolatedInv'
  <1>1. /\ IsolatedTypeOK /\ FacadeIsBusy /\ ThreadIsOwned /\ BundleIsKept /\ ClosingIsAnswered
        /\ ToolsAreTheCatalog
    BY DEF IsolatedInv
  <1>2. IsolatedTypeOK'
BY <1>1 DEF IsolatedTypeOK, LoopStops, Alive, drivervars, facadevars
  <1>3. FacadeIsBusy'
BY <1>1 DEF FacadeIsBusy, Free, LoopStops, Alive, drivervars, facadevars
  <1>4. ThreadIsOwned'
BY <1>1 DEF ThreadIsOwned, LoopStops, Alive, drivervars, facadevars
  <1>5. BundleIsKept'
BY <1>1 DEF BundleIsKept, LoopStops, Alive, drivervars, facadevars
  <1>6. ClosingIsAnswered'
BY <1>1 DEF ClosingIsAnswered, LoopStops, Alive, drivervars, facadevars
  <1>7. ToolsAreTheCatalog'
BY <1>1 DEF ToolsAreTheCatalog, FacadeIsBusy, Free, LoopStops, Alive, drivervars, facadevars
  <1> QED BY <1>2, <1>3, <1>4, <1>5, <1>6, <1>7 DEF IsolatedInv

\* A session fails in a call only while the run goes on.
LEMMA CallEndsKeeps ==
    ASSUME IsolatedInv, CallEnds
    PROVE  IsolatedInv'
  <1>1. /\ IsolatedTypeOK /\ FacadeIsBusy /\ ThreadIsOwned /\ BundleIsKept /\ ClosingIsAnswered
        /\ ToolsAreTheCatalog
    BY DEF IsolatedInv
  <1>2. IsolatedTypeOK'
BY <1>1 DEF IsolatedTypeOK, CallEnds, facadevars
  <1>3. FacadeIsBusy'
BY <1>1 DEF FacadeIsBusy, Free, CallEnds, facadevars
  <1>4. ThreadIsOwned'
BY <1>1 DEF ThreadIsOwned, CallEnds, facadevars
  <1>5. BundleIsKept'
BY <1>1 DEF BundleIsKept, CallEnds, facadevars
  <1>6. ClosingIsAnswered'
BY <1>1 DEF ClosingIsAnswered, IsolatedTypeOK, CallEnds, facadevars
  <1>7. ToolsAreTheCatalog'
BY <1>1 DEF ToolsAreTheCatalog, IsolatedTypeOK, ThreadIsOwned, CallEnds, facadevars
  <1> QED BY <1>2, <1>3, <1>4, <1>5, <1>6, <1>7 DEF IsolatedInv

\* The start is asked for once, on a new thread.
LEMMA AsksForStartKeeps ==
    ASSUME IsolatedInv, AsksForStart
    PROVE  IsolatedInv'
  <1>1. /\ IsolatedTypeOK /\ FacadeIsBusy /\ ThreadIsOwned /\ BundleIsKept /\ ClosingIsAnswered
        /\ ToolsAreTheCatalog
    BY DEF IsolatedInv
  <1>2. IsolatedTypeOK'
BY <1>1 DEF IsolatedTypeOK, AsksForStart, Free, drivervars
  <1>3. FacadeIsBusy'
BY <1>1 DEF FacadeIsBusy, AsksForStart, Free, drivervars
  <1>4. ThreadIsOwned'
BY <1>1 DEF ThreadIsOwned, AsksForStart, Free, drivervars
  <1>5. BundleIsKept'
BY <1>1 DEF BundleIsKept, AsksForStart, Free, drivervars
  <1>6. ClosingIsAnswered'
BY <1>1 DEF ClosingIsAnswered, AsksForStart, Free, drivervars
  <1>7. ToolsAreTheCatalog'
BY <1>1 DEF ToolsAreTheCatalog, FacadeIsBusy, AsksForStart, Free, drivervars
  <1> QED BY <1>2, <1>3, <1>4, <1>5, <1>6, <1>7 DEF IsolatedInv

\* A start that was not good is followed by the close.
LEMMA StartReturnsKeeps ==
    ASSUME IsolatedInv, StartReturns
    PROVE  IsolatedInv'
  <1>1. /\ IsolatedTypeOK /\ FacadeIsBusy /\ ThreadIsOwned /\ BundleIsKept /\ ClosingIsAnswered
        /\ ToolsAreTheCatalog
    BY DEF IsolatedInv
  <1>2. IsolatedTypeOK'
BY <1>1 DEF IsolatedTypeOK, StartReturns, AsksForClose, loopvars
  <1>3. FacadeIsBusy'
BY <1>1 DEF FacadeIsBusy, Free, StartReturns, AsksForClose, loopvars
  <1>4. ThreadIsOwned'
BY <1>1 DEF ThreadIsOwned, FacadeIsBusy, Free, StartReturns, AsksForClose, loopvars
  <1>5. BundleIsKept'
BY <1>1 DEF BundleIsKept, FacadeIsBusy, Free, StartReturns, AsksForClose, loopvars
  <1>6. ClosingIsAnswered'
BY <1>1 DEF ClosingIsAnswered, StartReturns, AsksForClose, loopvars
  <1>7. ToolsAreTheCatalog'
BY <1>1 DEF ToolsAreTheCatalog, FacadeIsBusy, Free, StartReturns, AsksForClose, loopvars
  <1> QED BY <1>2, <1>3, <1>4, <1>5, <1>6, <1>7 DEF IsolatedInv

\* The loop is stopped after the answer, or late.
LEMMA CloseReturnsKeeps ==
    ASSUME IsolatedInv, CloseReturns
    PROVE  IsolatedInv'
  <1>1. /\ IsolatedTypeOK /\ FacadeIsBusy /\ ThreadIsOwned /\ BundleIsKept /\ ClosingIsAnswered
        /\ ToolsAreTheCatalog
    BY DEF IsolatedInv
  <1>2. IsolatedTypeOK'
BY <1>1 DEF IsolatedTypeOK, CloseReturns, drivervars
  <1>3. FacadeIsBusy'
BY <1>1 DEF FacadeIsBusy, Free, CloseReturns, drivervars
  <1>4. ThreadIsOwned'
BY <1>1 DEF ThreadIsOwned, FacadeIsBusy, Free, CloseReturns, drivervars
  <1>5. BundleIsKept'
BY <1>1 DEF BundleIsKept, CloseReturns, drivervars
  <1>6. ClosingIsAnswered'
BY <1>1 DEF ClosingIsAnswered, FacadeIsBusy, Free, CloseReturns, drivervars
  <1>7. ToolsAreTheCatalog'
BY <1>1 DEF ToolsAreTheCatalog, CloseReturns, drivervars
  <1> QED BY <1>2, <1>3, <1>4, <1>5, <1>6, <1>7 DEF IsolatedInv

\* Who waited for the thread goes on without it.
LEMMA JoinedKeeps ==
    ASSUME IsolatedInv, Joined
    PROVE  IsolatedInv'
  <1>1. /\ IsolatedTypeOK /\ FacadeIsBusy /\ ThreadIsOwned /\ BundleIsKept /\ ClosingIsAnswered
        /\ ToolsAreTheCatalog
    BY DEF IsolatedInv
  <1>2. IsolatedTypeOK'
BY <1>1 DEF IsolatedTypeOK, Joined, loopvars
  <1>3. FacadeIsBusy'
BY <1>1 DEF FacadeIsBusy, Free, Joined, loopvars
  <1>4. ThreadIsOwned'
BY <1>1 DEF ThreadIsOwned, FacadeIsBusy, Free, Joined, loopvars
  <1>5. BundleIsKept'
BY <1>1 DEF BundleIsKept, Joined, loopvars
  <1>6. ClosingIsAnswered'
BY <1>1 DEF ClosingIsAnswered, Joined, loopvars
  <1>7. ToolsAreTheCatalog'
BY <1>1 DEF ToolsAreTheCatalog, Joined, loopvars
  <1> QED BY <1>2, <1>3, <1>4, <1>5, <1>6, <1>7 DEF IsolatedInv

\* The worktree is held from here on.
LEMMA PreparesKeeps ==
    ASSUME IsolatedInv, Prepares
    PROVE  IsolatedInv'
  <1>1. /\ IsolatedTypeOK /\ FacadeIsBusy /\ ThreadIsOwned /\ BundleIsKept /\ ClosingIsAnswered
        /\ ToolsAreTheCatalog
    BY DEF IsolatedInv
  <1>2. faults' \in 0..MaxFaults
    BY <1>1, FaultsBounded DEF Prepares
  <1>3. IsolatedTypeOK'
BY <1>1, <1>2 DEF IsolatedTypeOK, FacadeIsBusy, Free, Prepares, facadevars, loopvars
  <1>4. FacadeIsBusy'
BY <1>1 DEF FacadeIsBusy, Free, Prepares, facadevars, loopvars
  <1>5. ThreadIsOwned'
BY <1>1 DEF ThreadIsOwned, Prepares, facadevars, loopvars
  <1>6. BundleIsKept'
BY <1>1 DEF BundleIsKept, Prepares, facadevars, loopvars
  <1>7. ClosingIsAnswered'
BY <1>1 DEF ClosingIsAnswered, Prepares, facadevars, loopvars
  <1>8. ToolsAreTheCatalog'
BY <1>1 DEF ToolsAreTheCatalog, Prepares, facadevars, loopvars
  <1> QED BY <1>3, <1>4, <1>5, <1>6, <1>7, <1>8 DEF IsolatedInv

\* No thread is there before the servers are started.
LEMMA OpensHooksKeeps ==
    ASSUME IsolatedInv, OpensHooks
    PROVE  IsolatedInv'
  <1>1. /\ IsolatedTypeOK /\ FacadeIsBusy /\ ThreadIsOwned /\ BundleIsKept /\ ClosingIsAnswered
        /\ ToolsAreTheCatalog
    BY DEF IsolatedInv
  <1>2. faults' \in 0..MaxFaults
    BY <1>1, FaultsBounded DEF OpensHooks
  <1>3. IsolatedTypeOK'
BY <1>1, <1>2 DEF IsolatedTypeOK, OpensHooks, facadevars, loopvars
  <1>4. FacadeIsBusy'
BY <1>1 DEF FacadeIsBusy, ThreadIsOwned, Free, OpensHooks, facadevars, loopvars
  <1>5. ThreadIsOwned'
BY <1>1 DEF ThreadIsOwned, OpensHooks, facadevars, loopvars
  <1>6. BundleIsKept'
BY <1>1 DEF BundleIsKept, OpensHooks, facadevars, loopvars
  <1>7. ClosingIsAnswered'
BY <1>1 DEF ClosingIsAnswered, OpensHooks, facadevars, loopvars
  <1>8. ToolsAreTheCatalog'
BY <1>1 DEF ToolsAreTheCatalog, FacadeIsBusy, ThreadIsOwned, Free, OpensHooks, facadevars,
       loopvars
  <1> QED BY <1>3, <1>4, <1>5, <1>6, <1>7, <1>8 DEF IsolatedInv

\* The run is made when nobody waits.
LEMMA BindsKeeps ==
    ASSUME IsolatedInv, Binds
    PROVE  IsolatedInv'
  <1>1. /\ IsolatedTypeOK /\ FacadeIsBusy /\ ThreadIsOwned /\ BundleIsKept /\ ClosingIsAnswered
        /\ ToolsAreTheCatalog
    BY DEF IsolatedInv
  <1>2. faults' \in 0..MaxFaults
    BY <1>1, FaultsBounded DEF Binds
  <1>3. IsolatedTypeOK'
BY <1>1, <1>2 DEF IsolatedTypeOK, Binds, Free, facadevars, loopvars
  <1>4. FacadeIsBusy'
BY <1>1 DEF FacadeIsBusy, Binds, Free, facadevars, loopvars
  <1>5. ThreadIsOwned'
BY <1>1 DEF ThreadIsOwned, Binds, Free, facadevars, loopvars
  <1>6. BundleIsKept'
BY <1>1 DEF BundleIsKept, Binds, Free, facadevars, loopvars
  <1>7. ClosingIsAnswered'
BY <1>1 DEF ClosingIsAnswered, Binds, Free, facadevars, loopvars
  <1>8. ToolsAreTheCatalog'
BY <1>1 DEF ToolsAreTheCatalog, Binds, Free, facadevars, loopvars
  <1> QED BY <1>3, <1>4, <1>5, <1>6, <1>7, <1>8 DEF IsolatedInv

\* A call is made by a run.
LEMMA CallsKeeps ==
    ASSUME IsolatedInv, Calls
    PROVE  IsolatedInv'
  <1>1. /\ IsolatedTypeOK /\ FacadeIsBusy /\ ThreadIsOwned /\ BundleIsKept /\ ClosingIsAnswered
        /\ ToolsAreTheCatalog
    BY DEF IsolatedInv
  <1>2. IsolatedTypeOK'
BY <1>1 DEF IsolatedTypeOK, Calls, facadevars, loopvars
  <1>3. FacadeIsBusy'
BY <1>1 DEF FacadeIsBusy, Free, Calls, facadevars, loopvars
  <1>4. ThreadIsOwned'
BY <1>1 DEF ThreadIsOwned, Calls, facadevars, loopvars
  <1>5. BundleIsKept'
BY <1>1 DEF BundleIsKept, Calls, facadevars, loopvars
  <1>6. ClosingIsAnswered'
BY <1>1 DEF ClosingIsAnswered, Calls, facadevars, loopvars
  <1>7. ToolsAreTheCatalog'
BY <1>1 DEF ToolsAreTheCatalog, Calls, facadevars, loopvars
  <1> QED BY <1>2, <1>3, <1>4, <1>5, <1>6, <1>7 DEF IsolatedInv

\* The run's end takes its call with it.
LEMMA RunEndsKeeps ==
    ASSUME IsolatedInv, RunEnds
    PROVE  IsolatedInv'
  <1>1. /\ IsolatedTypeOK /\ FacadeIsBusy /\ ThreadIsOwned /\ BundleIsKept /\ ClosingIsAnswered
        /\ ToolsAreTheCatalog
    BY DEF IsolatedInv
  <1>2. IsolatedTypeOK'
BY <1>1 DEF IsolatedTypeOK, RunEnds, facadevars, loopvars
  <1>3. FacadeIsBusy'
BY <1>1 DEF FacadeIsBusy, Free, RunEnds, facadevars, loopvars
  <1>4. ThreadIsOwned'
BY <1>1 DEF ThreadIsOwned, RunEnds, facadevars, loopvars
  <1>5. BundleIsKept'
BY <1>1 DEF BundleIsKept, RunEnds, facadevars, loopvars
  <1>6. ClosingIsAnswered'
BY <1>1 DEF ClosingIsAnswered, RunEnds, facadevars, loopvars
  <1>7. ToolsAreTheCatalog'
BY <1>1 DEF ToolsAreTheCatalog, RunEnds, facadevars, loopvars
  <1> QED BY <1>2, <1>3, <1>4, <1>5, <1>6, <1>7 DEF IsolatedInv

\* Only a thread that runs is closed.
LEMMA ClosesServersKeeps ==
    ASSUME IsolatedInv, ClosesServers
    PROVE  IsolatedInv'
  <1>1. /\ IsolatedTypeOK /\ FacadeIsBusy /\ ThreadIsOwned /\ BundleIsKept /\ ClosingIsAnswered
        /\ ToolsAreTheCatalog
    BY DEF IsolatedInv
  <1>2. IsolatedTypeOK'
BY <1>1 DEF IsolatedTypeOK, FacadeIsBusy, ClosesServers, Free, AsksForClose, drivervars,
       facadevars, loopvars
  <1>3. FacadeIsBusy'
BY <1>1 DEF FacadeIsBusy, ClosesServers, Free, AsksForClose, drivervars, facadevars, loopvars
  <1>4. ThreadIsOwned'
BY <1>1 DEF ThreadIsOwned, FacadeIsBusy, ClosesServers, Free, AsksForClose, drivervars,
       facadevars, loopvars
  <1>5. BundleIsKept'
BY <1>1 DEF BundleIsKept, ClosesServers, Free, AsksForClose, drivervars, facadevars, loopvars
  <1>6. ClosingIsAnswered'
BY <1>1 DEF ClosingIsAnswered, ClosesServers, Free, AsksForClose, drivervars, facadevars, loopvars
  <1>7. ToolsAreTheCatalog'
BY <1>1 DEF ToolsAreTheCatalog, ClosesServers, Free, AsksForClose, drivervars, facadevars,
       loopvars
  <1> QED BY <1>2, <1>3, <1>4, <1>5, <1>6, <1>7 DEF IsolatedInv

\* A bundle that was not made has no run to close.
LEMMA ClosesHooksKeeps ==
    ASSUME IsolatedInv, ClosesHooks
    PROVE  IsolatedInv'
  <1>1. /\ IsolatedTypeOK /\ FacadeIsBusy /\ ThreadIsOwned /\ BundleIsKept /\ ClosingIsAnswered
        /\ ToolsAreTheCatalog
    BY DEF IsolatedInv
  <1>2. faults' \in 0..MaxFaults
    BY <1>1, FaultsBounded DEF ClosesHooks
  <1>3. IsolatedTypeOK'
BY <1>1, <1>2 DEF IsolatedTypeOK, FacadeIsBusy, Free, ClosesHooks, facadevars, loopvars
  <1>4. FacadeIsBusy'
BY <1>1 DEF FacadeIsBusy, Free, ClosesHooks, facadevars, loopvars
  <1>5. ThreadIsOwned'
BY <1>1 DEF ThreadIsOwned, ClosesHooks, facadevars, loopvars
  <1>6. BundleIsKept'
BY <1>1 DEF BundleIsKept, ClosesHooks, facadevars, loopvars
  <1>7. ClosingIsAnswered'
BY <1>1 DEF ClosingIsAnswered, ClosesHooks, facadevars, loopvars
  <1>8. ToolsAreTheCatalog'
BY <1>1 DEF ToolsAreTheCatalog, ClosesHooks, facadevars, loopvars
  <1> QED BY <1>3, <1>4, <1>5, <1>6, <1>7, <1>8 DEF IsolatedInv

\* The run is closed, or that failed.
LEMMA ClosesRunKeeps ==
    ASSUME IsolatedInv, ClosesRun
    PROVE  IsolatedInv'
  <1>1. /\ IsolatedTypeOK /\ FacadeIsBusy /\ ThreadIsOwned /\ BundleIsKept /\ ClosingIsAnswered
        /\ ToolsAreTheCatalog
    BY DEF IsolatedInv
  <1>2. faults' \in 0..MaxFaults
    BY <1>1, FaultsBounded DEF ClosesRun
  <1>3. IsolatedTypeOK'
BY <1>1, <1>2 DEF IsolatedTypeOK, FacadeIsBusy, Free, ClosesRun, facadevars, loopvars
  <1>4. FacadeIsBusy'
BY <1>1 DEF FacadeIsBusy, Free, ClosesRun, facadevars, loopvars
  <1>5. ThreadIsOwned'
BY <1>1 DEF ThreadIsOwned, ClosesRun, facadevars, loopvars
  <1>6. BundleIsKept'
BY <1>1 DEF BundleIsKept, ClosesRun, facadevars, loopvars
  <1>7. ClosingIsAnswered'
BY <1>1 DEF ClosingIsAnswered, ClosesRun, facadevars, loopvars
  <1>8. ToolsAreTheCatalog'
BY <1>1 DEF ToolsAreTheCatalog, ClosesRun, facadevars, loopvars
  <1> QED BY <1>3, <1>4, <1>5, <1>6, <1>7, <1>8 DEF IsolatedInv

\* The worktree is left, or that failed.
LEMMA LeavesKeeps ==
    ASSUME IsolatedInv, Leaves
    PROVE  IsolatedInv'
  <1>1. /\ IsolatedTypeOK /\ FacadeIsBusy /\ ThreadIsOwned /\ BundleIsKept /\ ClosingIsAnswered
        /\ ToolsAreTheCatalog
    BY DEF IsolatedInv
  <1>2. faults' \in 0..MaxFaults
    BY <1>1, FaultsBounded DEF Leaves
  <1>3. IsolatedTypeOK'
BY <1>1, <1>2 DEF IsolatedTypeOK, FacadeIsBusy, Free, Leaves, facadevars, loopvars
  <1>4. FacadeIsBusy'
BY <1>1 DEF FacadeIsBusy, Free, Leaves, facadevars, loopvars
  <1>5. ThreadIsOwned'
BY <1>1 DEF ThreadIsOwned, Leaves, facadevars, loopvars
  <1>6. BundleIsKept'
BY <1>1 DEF BundleIsKept, Leaves, facadevars, loopvars
  <1>7. ClosingIsAnswered'
BY <1>1 DEF ClosingIsAnswered, Leaves, facadevars, loopvars
  <1>8. ToolsAreTheCatalog'
BY <1>1 DEF ToolsAreTheCatalog, Leaves, facadevars, loopvars
  <1> QED BY <1>3, <1>4, <1>5, <1>6, <1>7, <1>8 DEF IsolatedInv

-----------------------------------------------------------------------------
(* The theorem *)

\* Nothing is held at first.
LEMMA IsolatedBegins == IsolatedInit => IsolatedInv
  <1> SUFFICES ASSUME IsolatedInit PROVE IsolatedInv
    OBVIOUS
  <1>1. IsolatedTypeOK
    <2>1. 0 \in 0..MaxFaults
      BY IsolatedAssumption
    <2> QED BY <2>1 DEF IsolatedInit, IsolatedTypeOK, Listed
  <1>2. FacadeIsBusy /\ ThreadIsOwned /\ BundleIsKept
    BY DEF IsolatedInit, FacadeIsBusy, ThreadIsOwned, BundleIsKept, Free
  <1>3. ClosingIsAnswered /\ ToolsAreTheCatalog
    BY DEF IsolatedInit, ClosingIsAnswered, ToolsAreTheCatalog
  <1> QED BY <1>1, <1>2, <1>3 DEF IsolatedInv

\* Every step keeps the invariant.
LEMMA IsolatedGoesOn == IsolatedInv /\ [IsolatedNext]_isolatedvars => IsolatedInv'
  <1> SUFFICES ASSUME IsolatedInv, [IsolatedNext]_isolatedvars PROVE IsolatedInv'
    OBVIOUS
  <1>1. CASE Loop
    BY <1>1, SessionStartsKeeps, SessionClosesKeeps, GatheredKeeps, AllClosedKeeps, LoopStopsKeeps,
       CallEndsKeeps DEF Loop
  <1>2. CASE Facade
    BY <1>2, AsksForStartKeeps, StartReturnsKeeps, CloseReturnsKeeps, JoinedKeeps DEF Facade
  <1>3. CASE Driver
    BY <1>3, PreparesKeeps, OpensHooksKeeps, BindsKeeps, CallsKeeps, RunEndsKeeps,
       ClosesServersKeeps, ClosesHooksKeeps, ClosesRunKeeps, LeavesKeeps DEF Driver
  <1>4. CASE UNCHANGED isolatedvars
    <2>1. IsolatedTypeOK'
      BY <1>4 DEF isolatedvars, drivervars, facadevars, loopvars, IsolatedInv, IsolatedTypeOK
    <2>2. FacadeIsBusy' /\ ThreadIsOwned' /\ BundleIsKept'
      BY <1>4 DEF isolatedvars, drivervars, facadevars, loopvars, IsolatedInv, FacadeIsBusy, Free,
         ThreadIsOwned, BundleIsKept
    <2>3. ClosingIsAnswered' /\ ToolsAreTheCatalog'
      BY <1>4 DEF isolatedvars, drivervars, facadevars, loopvars, IsolatedInv, ClosingIsAnswered,
         ToolsAreTheCatalog
    <2> QED BY <2>1, <2>2, <2>3 DEF IsolatedInv
  <1> QED BY <1>1, <1>2, <1>3, <1>4 DEF IsolatedNext

\* Whatever fails, a driver that is over has given back its worktree, its run and its thread,
\* or says that it could not; no session is lost to the failure of another unless a deadline
\* is missed; and the tools of a run have distinct names and are served.
THEOREM RunsAreAlwaysGivenBack == IsolatedSpec => []RunsAreGivenBack
  <1>1. IsolatedInv => RunsAreGivenBack
    <2> SUFFICES ASSUME IsolatedInv PROVE RunsAreGivenBack
      OBVIOUS
    <2>1. /\ IsolatedTypeOK /\ FacadeIsBusy /\ ThreadIsOwned /\ BundleIsKept /\ ClosingIsAnswered
          /\ ToolsAreTheCatalog
      BY DEF IsolatedInv
    <2>2. AllIsGivenBack
      BY <2>1 DEF AllIsGivenBack, BundleIsKept, ThreadIsOwned, FacadeIsBusy, Free, IsolatedTypeOK
    <2>3. OneFailureIsAlone
      BY <2>1 DEF OneFailureIsAlone, ClosingIsAnswered
    <2>4. ToolsAreServed
      BY <2>1 DEF ToolsAreServed, ToolsAreTheCatalog
    <2> QED BY <2>2, <2>3, <2>4 DEF RunsAreGivenBack
  <1> QED BY <1>1, IsolatedBegins, IsolatedGoesOn, PTL DEF IsolatedSpec

-----------------------------------------------------------------------------
(* the whole *)

\* Each part is as its own specification allows.
BackgroundInv == Inv /\ TasksInv /\ HookInv /\ IsolatedInv

\* A step is one of a single part.
LEMMA BackgroundStep == BackgroundInv /\ [BackgroundNext]_allvars => BackgroundInv'
  <1> SUFFICES ASSUME BackgroundInv, [BackgroundNext]_allvars PROVE BackgroundInv'
    OBVIOUS
  <1>1. [Next]_vars /\ [TasksNext]_tvars /\ [HookNext]_hookvars /\ [IsolatedNext]_isolatedvars
    BY DEF BackgroundNext, allvars, poolvars, vars
  <1> QED BY <1>1, StepInv, TasksStep, HooksGoOn, IsolatedGoesOn DEF BackgroundInv

\* The invariant of the whole.
LEMMA BackgroundIsSound == BackgroundSpec => []BackgroundInv
  <1>1. BackgroundInit => BackgroundInv
    BY InitInv, TasksBegin, HooksBegin, IsolatedBegins DEF BackgroundInit, BackgroundInv
  <1> QED BY <1>1, BackgroundStep, PTL DEF BackgroundSpec

\* Every variable of the pool, the tasks, the hooks and the isolated run keeps its type,
\* whichever of them acts.
THEOREM BackgroundTypes == BackgroundSpec => []WellTyped
  <1>1. BackgroundInv => WellTyped
    BY DEF BackgroundInv, Inv, TasksInv, HookInv, IsolatedInv, WellTyped
  <1> QED BY <1>1, BackgroundIsSound, PTL
=============================================================================
