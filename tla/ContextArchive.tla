--------------------------- MODULE ContextArchive ---------------------------
(***************************************************************************)
(* The context manager (mewcode/context): old history is replaced by a     *)
(* summary and large tool results by a placeholder, and the originals go   *)
(* to numbered records of a directory that belongs to the running session.   *)
(*                                                                         *)
(* Processes of one workspace share .mewcode/context: each start sweeps    *)
(* the directories whose lock nobody holds, makes one of its own and       *)
(* locks it.  Which messages a summary covers depends on token estimates:  *)
(* here any beginning of the history may be chosen, and any request may    *)
(* be too long.  A message stands for what the agent commits at once: a    *)
(* user message, or a response with all its tool results.                  *)
(***************************************************************************)
EXTENDS Naturals, FiniteSets

CONSTANTS Sessions,       \* one per process of the workspace
          Talkers,        \* those whose conversation is followed, too
          FailureLimit,   \* ContextConfig.failure_limit
          MaxDirs,        \* bound on the directories ever made
          MaxMessages,    \* bound on the messages of a conversation
          MaxRecords      \* bound on the records a session writes

ASSUME ContextAssumption ==
    /\ FailureLimit \in Nat \ {0}
    /\ MaxDirs \in Nat /\ MaxMessages \in Nat /\ MaxRecords \in Nat

VARIABLES dirs,      \* the directories under .mewcode/context
          born,      \* how many were made; they are numbered from 1
          swept,     \* those a sweep removed after their owner had locked them
          holder,    \* directory -> the process that has its lock, or Nobody
          life,      \* process -> where it is in start ... close
          mine,      \* process -> its own directory (0: none)
          todo,      \* process -> directories its sweep has still to visit
          probe,     \* process -> the directory its sweep is at (0: none)
          records,     \* process -> record number -> what the file holds
          seq,       \* process -> ContextArchive._sequence
          count,     \* process -> messages committed so far
          refs,      \* process -> message -> records its placeholders name
          kept,      \* process -> messages the active history holds
          summary,   \* process -> record its summary names (0: no summary)
          op,        \* process -> the compaction under way
          failures,  \* process -> consecutive_failures of the breaker
          isOpen,    \* process -> is_open of the breaker
          streak     \* process -> automatic requests failed in a row

dirvars == <<dirs, born, swept, holder, life, mine, todo, probe>>
textvars == <<count, refs, kept, summary>>
opvars == <<op, failures, isOpen, streak>>
contextvars == <<dirvars, records, seq, textvars, opvars>>

Nobody == "nobody"
DirIds == 1 .. MaxDirs
Messages == 1 .. MaxMessages
RecordIds == 1 .. MaxRecords
NoOp == [at |-> "idle", mode |-> "none", early |-> {}, record |-> 0]

\* A compaction under way, or none.
Operations == [at : {"idle", "asking", "failing", "adopting"},
               mode : {"none", "automatic", "manual"},
               early : SUBSET Messages, record : 0 .. MaxRecords]

ContextTypeOK ==
    /\ dirs \in SUBSET DirIds /\ swept \in SUBSET DirIds /\ born \in 0 .. MaxDirs
    /\ holder \in [DirIds -> Sessions \cup {Nobody}]
    /\ life \in [Sessions -> {"off", "sweeping", "locking", "open", "closing"}]
    /\ mine \in [Sessions -> 0 .. MaxDirs]
    /\ todo \in [Sessions -> SUBSET DirIds] /\ probe \in [Sessions -> 0 .. MaxDirs]
    /\ seq \in [Sessions -> 0 .. MaxRecords]
    /\ \A p \in Sessions : /\ DOMAIN records[p] \subseteq 1 .. seq[p]
                        /\ \A r \in DOMAIN records[p] :
                             /\ records[p][r].prev \in 0 .. MaxRecords
                             /\ records[p][r].ids \subseteq Messages
    /\ count \in [Sessions -> 0 .. MaxMessages]
    /\ refs \in [Sessions -> [Messages -> SUBSET RecordIds]]
    /\ kept \in [Sessions -> SUBSET Messages]
    /\ summary \in [Sessions -> 0 .. MaxRecords]
    /\ op \in [Sessions -> Operations]
    /\ failures \in [Sessions -> 0 .. FailureLimit + 1]
    /\ isOpen \in [Sessions -> BOOLEAN]
    /\ streak \in [Sessions -> 0 .. FailureLimit + 1]

ContextInit ==
    /\ dirs = {} /\ born = 0 /\ swept = {}
    /\ holder = [d \in DirIds |-> Nobody]
    /\ life = [p \in Sessions |-> "off"]
    /\ mine = [p \in Sessions |-> 0]
    /\ todo = [p \in Sessions |-> {}]
    /\ probe = [p \in Sessions |-> 0]
    /\ records = [p \in Sessions |-> << >>]
    /\ seq = [p \in Sessions |-> 0]
    /\ count = [p \in Sessions |-> 0]
    /\ refs = [p \in Sessions |-> [m \in Messages |-> {}]]
    /\ kept = [p \in Sessions |-> {}]
    /\ summary = [p \in Sessions |-> 0]
    /\ op = [p \in Sessions |-> NoOp]
    /\ failures = [p \in Sessions |-> 0]
    /\ isOpen = [p \in Sessions |-> FALSE]
    /\ streak = [p \in Sessions |-> 0]

(***************************************************************************)
(* The directories.                                                        *)
(***************************************************************************)

\* rmtree: the records go with the directory, a lock on its file locks nothing.
RemoveDir(d) ==
    /\ dirs' = dirs \ {d}
    /\ holder' = [holder EXCEPT ![d] = Nobody]
    /\ records' = [p \in Sessions |-> IF mine[p] = d THEN << >> ELSE records[p]]

\* FileLock.acquire makes the directory again when it is gone.
Acquire(p, d) ==
    /\ holder[d] = Nobody
    /\ dirs' = dirs \cup {d}
    /\ holder' = [holder EXCEPT ![d] = p]

\* start() lists .mewcode/context.
Lists(p) ==
    /\ life[p] = "off" /\ born < MaxDirs
    /\ life' = [life EXCEPT ![p] = "sweeping"]
    /\ todo' = [todo EXCEPT ![p] = dirs]
    /\ UNCHANGED <<dirs, born, swept, holder, mine, probe, records, seq, textvars, opvars>>

\* The sweep locks the next directory to see whether a session is alive in it.
Probes(p, d) ==
    /\ life[p] = "sweeping" /\ probe[p] = 0 /\ d \in todo[p]
    /\ todo' = [todo EXCEPT ![p] = @ \ {d}]
    /\ \/ /\ Acquire(p, d)
          /\ probe' = [probe EXCEPT ![p] = d]
       \/ /\ holder[d] # Nobody
          /\ UNCHANGED <<dirs, holder, probe>>
    /\ UNCHANGED <<born, swept, life, mine, records, seq, textvars, opvars>>

\* It gives the lock back before it removes the directory.
ClosesProbe(p) ==
    /\ life[p] = "sweeping" /\ probe[p] # 0 /\ holder[probe[p]] = p
    /\ holder' = [holder EXCEPT ![probe[p]] = Nobody]
    /\ UNCHANGED <<dirs, born, swept, life, mine, todo, probe, records, seq, textvars, opvars>>

\* The removal, which may fail: a warning then.
Sweeps(p) ==
    /\ life[p] = "sweeping" /\ probe[p] # 0 /\ holder[probe[p]] # p
    /\ \/ /\ RemoveDir(probe[p])
          /\ swept' = swept \cup {probe[p]}
       \/ UNCHANGED <<dirs, holder, swept, records>>
    /\ probe' = [probe EXCEPT ![p] = 0]
    /\ UNCHANGED <<born, life, mine, todo, seq, textvars, opvars>>

\* mkdir of the session's own directory, under a name nobody has.
Makes(p) ==
    /\ life[p] = "sweeping" /\ probe[p] = 0 /\ todo[p] = {} /\ born < MaxDirs
    /\ born' = born + 1
    /\ dirs' = dirs \cup {born'}
    /\ mine' = [mine EXCEPT ![p] = born']
    /\ life' = [life EXCEPT ![p] = "locking"]
    /\ UNCHANGED <<swept, holder, todo, probe, records, seq, textvars, opvars>>

\* The process is gone: nothing of its memory is left.
Forgets(p) ==
    /\ mine' = [mine EXCEPT ![p] = 0]
    /\ todo' = [todo EXCEPT ![p] = {}]
    /\ probe' = [probe EXCEPT ![p] = 0]
    /\ seq' = [seq EXCEPT ![p] = 0]
    /\ count' = [count EXCEPT ![p] = 0]
    /\ refs' = [refs EXCEPT ![p] = [m \in Messages |-> {}]]
    /\ kept' = [kept EXCEPT ![p] = {}]
    /\ summary' = [summary EXCEPT ![p] = 0]
    /\ op' = [op EXCEPT ![p] = NoOp]
    /\ failures' = [failures EXCEPT ![p] = 0]
    /\ isOpen' = [isOpen EXCEPT ![p] = FALSE]
    /\ streak' = [streak EXCEPT ![p] = 0]
    /\ life' = [life EXCEPT ![p] = "off"]

\* Its lock: another sweep may be probing it, and then the start fails.  A
\* directory removed before is made again.
Locks(p) ==
    /\ life[p] = "locking"
    /\ \/ /\ Acquire(p, mine[p])
          /\ life' = [life EXCEPT ![p] = "open"]
          /\ swept' = swept \ {mine[p]}
          /\ UNCHANGED <<born, mine, todo, probe, records, seq, textvars, opvars>>
       \/ /\ holder[mine[p]] # Nobody
          /\ RemoveDir(mine[p])
          /\ Forgets(p)
          /\ UNCHANGED <<born, swept>>

\* close(): the lock is released, and then the directory removed.
Closes(p) ==
    /\ life[p] = "open" /\ op[p] = NoOp
    /\ holder' = [holder EXCEPT ![mine[p]] = IF @ = p THEN Nobody ELSE @]
    /\ life' = [life EXCEPT ![p] = "closing"]
    /\ UNCHANGED <<dirs, born, swept, mine, todo, probe, records, seq, textvars, opvars>>

Closed(p) ==
    /\ life[p] = "closing"
    /\ RemoveDir(mine[p])
    /\ Forgets(p)
    /\ UNCHANGED <<born, swept>>

\* The process dies: the system drops its lock, the directory stays.
Dies(p) ==
    /\ life[p] # "off"
    /\ holder' = [d \in DirIds |-> IF holder[d] = p THEN Nobody ELSE holder[d]]
    /\ records' = [records EXCEPT ![p] = << >>]
    /\ Forgets(p)
    /\ UNCHANGED <<dirs, born, swept>>

(***************************************************************************)
(* The records.                                                            *)
(***************************************************************************)

\* _write_record takes its number first; the file replaces a temporary one, so
\* it is whole or absent.  Without its directory a write cannot succeed.
CanWrite(p) == life[p] = "open" /\ mine[p] \in dirs

Stored(p, new) ==
    records' = [records EXCEPT ![p] =
                [r \in DOMAIN records[p] \cup DOMAIN new |->
                   IF r \in DOMAIN new THEN new[r] ELSE records[p][r]]]

\* What a file holds: a tool result, or the messages of a beginning of the
\* history and the number of the record the summary among them named.
ToolRecord == [prev |-> 0, ids |-> {}]
BugHistoryRecord(p, early) == [ToolRecord EXCEPT !.ids = early]  \* mutant: the old summary is left out
HistoryRecord(p, early) == [prev |-> summary[p], ids |-> early]

Discards(p, r) ==
    records' = [records EXCEPT ![p] = [x \in DOMAIN records[p] \ {r} |-> records[p][x]]]

\* The agent commits a response; the tool results that are too large, or make
\* the batch too large, become placeholders that name their records.  When one
\* of them cannot be stored the others are discarded and nothing is committed.
Commits(p, n) ==
 LET new == seq[p] + 1 .. seq[p] + n
     m == count[p] + 1
 IN /\ p \in Talkers
    /\ life[p] = "open" /\ op[p] = NoOp
    /\ count[p] < MaxMessages /\ seq[p] + n <= MaxRecords
    /\ seq' = [seq EXCEPT ![p] = @ + n]
    /\ \/ /\ n = 0 \/ CanWrite(p)
          /\ Stored(p, [r \in new |-> ToolRecord])
          /\ count' = [count EXCEPT ![p] = m]
          /\ kept' = [kept EXCEPT ![p] = @ \cup {m}]
          /\ refs' = [refs EXCEPT ![p][m] = new]
       \/ /\ n > 0
          /\ UNCHANGED <<records, count, kept, refs>>
    /\ UNCHANGED <<dirvars, summary, opvars>>

\* What the selector may take: everything before some recent message.
Beginnings(p) == {early \in SUBSET kept[p] :
                    /\ early # {} /\ early # kept[p]
                    /\ \A x \in early, y \in kept[p] \ early : x < y}

\* A request that is too long is preceded by a compaction unless the breaker is
\* open, and then not sent; /compact always tries.
Automatic(p) == ~isOpen[p]
Allowed(p, mode) == mode = "automatic" => Automatic(p)

\* The record of the early part comes first, and the old summary is a part of
\* it; when it cannot be written the compaction has failed.
Begins(p, mode, early) ==
    /\ life[p] = "open" /\ op[p] = NoOp /\ seq[p] < MaxRecords
    /\ Allowed(p, mode)
    /\ seq' = [seq EXCEPT ![p] = @ + 1]
    /\ \/ /\ CanWrite(p)
          /\ Stored(p, [r \in {seq[p] + 1} |-> HistoryRecord(p, early)])
          /\ op' = [op EXCEPT ![p] = [at |-> "asking", mode |-> mode,
                                      early |-> early, record |-> seq[p] + 1]]
       \/ /\ op' = [op EXCEPT ![p] = [NoOp EXCEPT !.at = "failing", !.mode = mode]]
          /\ UNCHANGED records
    /\ UNCHANGED <<dirvars, textvars, failures, isOpen, streak>>

\* record_success, as soon as the summary has been read and checked.
Succeeds(p) ==
    /\ op[p].at = "asking"
    /\ op' = [op EXCEPT ![p].at = "adopting"]
    /\ failures' = [failures EXCEPT ![p] = 0]
    /\ isOpen' = [isOpen EXCEPT ![p] = FALSE]
    /\ streak' = [streak EXCEPT ![p] = 0]
    /\ UNCHANGED <<dirvars, records, seq, textvars>>

\* No summary: the record is discarded.
Fails(p) ==
    /\ op[p].at = "asking"
    /\ Discards(p, op[p].record)
    /\ op' = [op EXCEPT ![p] = [NoOp EXCEPT !.at = "failing", !.mode = op[p].mode]]
    /\ UNCHANGED <<dirvars, seq, textvars, failures, isOpen, streak>>

\* The three ways to get there: the request for the summary is itself too long;
\* the provider fails, calls a tool, or does not end by itself; the text has not
\* the shape asked for, or does not name the record.
RequestTooLong(p) == Fails(p)
StreamFails(p) == Fails(p)
Unparsable(p) == Fails(p)

\* record_failure, once the hooks have heard of the failure.
Counts(p) ==
    /\ op[p].at = "failing"
    /\ failures[p] <= FailureLimit
    /\ failures' = [failures EXCEPT ![p] = @ + 1]
    /\ isOpen' = [isOpen EXCEPT ![p] = @ \/ failures[p] + 1 >= FailureLimit]
    /\ streak' = [streak EXCEPT ![p] =
                    IF op[p].mode = "automatic" THEN @ + 1 ELSE @]
    /\ op' = [op EXCEPT ![p] = NoOp]
    /\ UNCHANGED <<dirvars, records, seq, textvars>>

\* Mutant: a cancelled attempt forgets the failures before it.
BugCancels(p) ==
    /\ op[p].at # "idle"
    /\ IF op[p].at = "asking" THEN Discards(p, op[p].record) ELSE UNCHANGED records
    /\ op' = [op EXCEPT ![p] = NoOp]
    /\ failures' = [failures EXCEPT ![p] = 0]
    /\ isOpen' = [isOpen EXCEPT ![p] = FALSE]
    /\ UNCHANGED <<dirvars, seq, textvars, streak>>

\* The user cancels: a request in flight loses its record, a failure is not
\* counted, and a summary already accepted is dropped with its record on disk.
Cancels(p) ==
    /\ op[p].at # "idle"
    /\ IF op[p].at = "asking" THEN Discards(p, op[p].record) ELSE UNCHANGED records
    /\ op' = [op EXCEPT ![p] = NoOp]
    /\ UNCHANGED <<dirvars, seq, textvars, failures, isOpen, streak>>

\* The new history replaces the active one, if the session can store it: by the
\* run that was about to send it -- and stops when even this is too long -- or by
\* the conversation, for /compact.
Adopts(p) ==
    /\ op[p].at = "adopting"
    /\ \/ /\ kept' = [kept EXCEPT ![p] = @ \ op[p].early]
          /\ summary' = [summary EXCEPT ![p] = op[p].record]
       \/ UNCHANGED <<kept, summary>>
    /\ op' = [op EXCEPT ![p] = NoOp]
    /\ UNCHANGED <<dirvars, records, seq, count, refs, failures, isOpen, streak>>

RunAdopts(p) == op[p].mode = "automatic" /\ Adopts(p)
ConversationAdopts(p) == op[p].mode = "manual" /\ Adopts(p)

\* /clear: a new conversation in the same session, and a new breaker.
Resets(p) ==
    /\ life[p] = "open" /\ op[p] = NoOp /\ count[p] > 0
    /\ count' = [count EXCEPT ![p] = 0]
    /\ refs' = [refs EXCEPT ![p] = [m \in Messages |-> {}]]
    /\ kept' = [kept EXCEPT ![p] = {}]
    /\ summary' = [summary EXCEPT ![p] = 0]
    /\ failures' = [failures EXCEPT ![p] = 0]
    /\ isOpen' = [isOpen EXCEPT ![p] = FALSE]
    /\ streak' = [streak EXCEPT ![p] = 0]
    /\ UNCHANGED <<dirvars, records, seq, op>>

ContextNext ==
    \E p \in Sessions :
      \/ Lists(p) \/ ClosesProbe(p) \/ Sweeps(p) \/ Makes(p) \/ Locks(p)
      \/ Closes(p) \/ Closed(p) \/ Dies(p)
      \/ Succeeds(p) \/ RequestTooLong(p) \/ StreamFails(p) \/ Unparsable(p)
      \/ Counts(p) \/ Cancels(p) \/ RunAdopts(p) \/ ConversationAdopts(p) \/ Resets(p)
      \/ \E d \in DirIds : Probes(p, d)
      \/ \E n \in 0 .. 2 : Commits(p, n)
      \/ \E mode \in {"automatic", "manual"}, early \in Beginnings(p) :
           Begins(p, mode, early)

ContextSpec == ContextInit /\ [][ContextNext]_contextvars

(***************************************************************************)
(* Properties.                                                             *)
(***************************************************************************)

\* The sets of records of f that hold s and, with a record, the one it names.
Linked(f, s) ==
    {S \in SUBSET DOMAIN f : /\ s \in DOMAIN f => s \in S
                             /\ \A r \in S : f[r].prev \in DOMAIN f => f[r].prev \in S}

\* The records of f one gets to from s: the smallest of those sets.
Reach(f, s) == {r \in DOMAIN f : \A S \in Linked(f, s) : r \in S}

\* The messages that can still be read: those of the history, and those of the
\* record its summary names, of the record the summary in that one names, and so on.
Chain(p) == UNION {records[p][r].ids : r \in Reach(records[p], summary[p])}

Readable(p) == {m \in kept[p] \cup Chain(p) : refs[p][m] \subseteq DOMAIN records[p]}

\* Nothing that was committed is lost by compaction: each message is in the
\* active history or in a record that can be reached from its summary, and the
\* records its placeholders name are there, however many compactions failed,
\* were cancelled half way or could not be stored -- as long as no other
\* process swept the session's directory.
NothingIsLost ==
    \A p \in Sessions : life[p] = "open" /\ mine[p] \notin swept
                       => 1 .. count[p] = Readable(p)

\* After FailureLimit failures in a row no automatic request is made, until a
\* manual one succeeds or the conversation is reset.
AutomaticGivesUp == \A p \in Sessions : streak[p] <= FailureLimit

\* What a compaction takes out of a conversation can be reached in the archive, and
\* automatic compactions stop after repeated failures.
ArchiveIsKept == NothingIsLost /\ AutomaticGivesUp

\* The directory of a running session is never swept: it has the lock.
LiveIsNotSwept == \A p \in Sessions : life[p] = "open" => mine[p] \notin swept

=============================================================================
