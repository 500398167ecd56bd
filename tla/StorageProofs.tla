--------------------------- MODULE StorageProofs ---------------------------
(***************************************************************************)
(* Proofs about what processes keep on disk: the memory files              *)
(* (MemoryStore), the log of a session (SessionLog) and the copies of      *)
(* active skills (SkillRuntime).                                           *)
(***************************************************************************)
EXTENDS MemoryStore, SessionLog, SkillRuntime, SequenceTheorems, WellFoundedInduction, TLAPS

-----------------------------------------------------------------------------
(* recursive functions *)

\* A set of numbers that has 0, and n + 1 whenever it has n, has them all.
LEMMA NatSets ==
    ASSUME NEW S, 0 \in S, \A n \in Nat : n \in S => n + 1 \in S
    PROVE  Nat \subseteq S
  <1> DEFINE R == OpToRel(<, Nat)
             T == Nat \ S
  <1>1. IsWellFoundedOn(R, Nat)
    BY NatLessThanWellFounded, Zenon
  <1>2. \A x, y \in Nat : <<x, y>> \in R <=> x < y
    BY DEF OpToRel
  <1>3. SUFFICES ASSUME T # {} PROVE FALSE
    OBVIOUS
  <1>4. T \subseteq Nat
    OBVIOUS
  <1> HIDE DEF R, T
  <1>5. \E x \in T : \A y \in T : ~ (<<y, x>> \in R)
    BY <1>1, <1>3, <1>4, WFMin
  <1>6. PICK x \in T : \A y \in T : ~(y < x)
    BY <1>5, <1>2, <1>4
  <1>7. x \in Nat /\ x # 0 /\ x \notin S
    BY <1>4 DEF T
  <1>8. x - 1 \in Nat /\ x - 1 < x /\ (x - 1) + 1 = x
    BY <1>7
  <1>9. x - 1 \in S
    BY <1>6, <1>8 DEF T
  <1> QED BY <1>7, <1>8, <1>9

\* A function that is computed step by step: what its steps may be, and what it is then.
Steps(S, N) == [S \X (1..N) -> S]
Iterates(g, S, N, base, step) ==
    /\ g \in [0..N -> S] /\ g[0] = base
    /\ \A n \in 1..N : g[n] = step[<<g[n - 1], n>>]

\* There is one, whatever the steps are.
LEMMA Iteration ==
    ASSUME NEW N \in Nat, NEW S, NEW base \in S, NEW step \in Steps(S, N)
    PROVE  \E g : Iterates(g, S, N, base, step)
  <1> USE DEF Steps
  <1> DEFINE Good(g, n) == /\ g \in [0..n -> S] /\ g[0] = base
                           /\ \A i \in 1..n : g[i] = step[<<g[i - 1], i>>]
             T == {n \in Nat : n <= N => \E g \in [0..n -> S] : Good(g, n)}
  <1>1. 0 \in T
    <2>1. Good([i \in 0..0 |-> base], 0)
      OBVIOUS
    <2> QED BY <2>1
  <1>2. ASSUME NEW n \in Nat, n \in T PROVE n + 1 \in T
    <2> SUFFICES ASSUME n + 1 <= N PROVE \E g \in [0..(n + 1) -> S] : Good(g, n + 1)
      OBVIOUS
    <2>1. PICK g \in [0..n -> S] : Good(g, n)
      BY <1>2
    <2> DEFINE h == [i \in 0..(n + 1) |-> IF i = n + 1 THEN step[<<g[n], n + 1>>] ELSE g[i]]
    <2>2. g[n] \in S /\ n + 1 \in 1..N
      BY <2>1
    <2>3. step[<<g[n], n + 1>>] \in S
      BY <2>2
    <2>4. h \in [0..(n + 1) -> S]
      BY <2>1, <2>3
    <2>5. h[0] = base
      BY <2>1
    <2>6. ASSUME NEW i \in 1..(n + 1) PROVE h[i] = step[<<h[i - 1], i>>]
      <3>1. i - 1 \in 0..n /\ h[i - 1] = g[i - 1]
        OBVIOUS
      <3>2. CASE i = n + 1
        <4>1. i - 1 = n
          BY <3>2
        <4>2. h[i - 1] = g[n]
          BY <3>1, <4>1
        <4>3. h[i] = step[<<g[n], n + 1>>]
          BY <3>2
        <4> HIDE DEF h
        <4> QED BY <3>2, <4>2, <4>3
      <3>3. CASE i # n + 1
        <4>1. i \in 1..n
          BY <3>3
        <4> QED BY <2>1, <3>1, <4>1
      <3> QED BY <3>2, <3>3
    <2> HIDE DEF h
    <2> QED BY <2>4, <2>5, <2>6
  <1> HIDE DEF T
  <1>3. N \in T
    BY <1>1, <1>2, NatSets
  <1>4. PICK g \in [0..N -> S] : Good(g, N)
    BY <1>3 DEF T
  <1> QED BY <1>4 DEF Iterates

-----------------------------------------------------------------------------
(* the memory *)

\* An update is in the notes of its workspace if and only if it is in those of the user.
Even(d) == \A n \in 1..Len(by) : n \in d[by[n]] <=> n \in d["user"]

\* What is written down of updates is of updates that were begun.
Recorded ==
    /\ \A f \in Files : notes[f] \subseteq 1..Len(by)
    /\ \A p \in Apps : view[p].own \subseteq 1..Len(by) /\ view[p].user \subseteq 1..Len(by)
    /\ \A w \in Workspaces : journal[w] # None =>
         /\ journal[w].update \in 1..Len(by)
         /\ \A f \in Files : journal[w].old[f] \subseteq 1..Len(by)

Driving == {"swap", "mark", "clean", "undo"}

\* Who changes the files is alone with them, and has a journal.
Locked ==
    /\ \A p \in memLock : memLock = {p} /\ memPc[p] \in Driving \cup {"load"}
    /\ \A p \in Apps : memPc[p] \in Driving =>
         p \in memLock /\ Journal(p) # None /\ left[p] \subseteq Targets(p)

\* What a journal says of the files of its workspace: each has its old content or the new
\* one, all the new one once it is marked; before, there is somebody at work or a fault has
\* happened; and what its first recovery has still to bring back it finds.
Backed(w, f) ==
    \/ journal[w].old[f] = {} \/ f \in journal[w].backups
    \/ \E p \in memLock : memPc[p] = "undo" /\ WorkspaceOf[p] = w /\ f \notin left[p]

Attended(w) ==
    memFaults >= 1 \/ \E p \in memLock : WorkspaceOf[p] = w /\ memPc[p] \in {"swap", "mark"}

Recoverable(w) ==
    journal[w].state = "open" =>
      Attended(w) /\ (memFaults <= 1 => \A f \in {w, "user"} : Backed(w, f))

JournalIsTrue(w) ==
    LET j == journal[w] IN
    /\ by[j.update] = w /\ \A f \in Files : j.update \notin j.old[f]
    /\ Even(j.old) /\ acked \subseteq j.old["user"]
    /\ \A f \in Files \ {w, "user"} : notes[f] = j.old[f]
    /\ \A f \in {w, "user"} : notes[f] = j.old[f] \/ Done(j, f)
    /\ j.state = "committed" => \A f \in {w, "user"} : Done(j, f)

\* How far who works on it has come.
StepIsTrue(p) ==
    LET j == Journal(p) IN
    /\ memPc[p] = "swap" => /\ j.state = "open" /\ left[p] # {}
                            /\ \A f \in Targets(p) : IF f \in left[p] THEN notes[f] = j.old[f]
                                                     ELSE Done(j, f)
    /\ memPc[p] = "mark" => j.state = "open" /\ \A f \in Targets(p) : Done(j, f)
    /\ memPc[p] = "clean" => j.state = "committed"
    /\ memPc[p] = "undo" /\ j.state = "open" =>
         \A f \in Targets(p) \ left[p] : notes[f] = j.old[f]

\* There is one journal at most, as long as nobody works over another.
JournalsAreTrue ==
    /\ \A v, w \in Workspaces : journal[v] # None /\ journal[w] # None => v = w
    /\ \A w \in Workspaces : journal[w] # None => JournalIsTrue(w) /\ Recoverable(w)
    /\ (\A w \in Workspaces : journal[w] = None) => Even(notes) /\ acked \subseteq notes["user"]
    /\ \A p \in Apps : StepIsTrue(p)

MemInv ==
    /\ MemTypeOK /\ Recorded /\ Locked
    /\ ~crossed => JournalsAreTrue /\ UpdatesAreWhole /\ OneFaultIsSurvived


\* A journal that is there is one.
LEMMA JournalFacts ==
    ASSUME MemTypeOK
    PROVE  /\ \A j \in Journals : j # None
           /\ \A p \in Apps : WorkspaceOf[p] \in Workspaces /\ Targets(p) \subseteq Files
           /\ \A w \in Workspaces : journal[w] # None => journal[w] \in Journals
           /\ \A w \in Workspaces : w \in Files /\ w # "user"
           /\ "user" \in Files
  <1>1. \A j \in Journals : j # None
    BY DEF Journals, None
  <1>2. \A p \in Apps : WorkspaceOf[p] \in Workspaces /\ Targets(p) \subseteq Files
    BY MemoryAssumption DEF Targets, Files
  <1>3. \A w \in Workspaces : journal[w] # None => journal[w] \in Journals
    BY DEF MemTypeOK
  <1> QED BY <1>1, <1>2, <1>3, MemoryAssumption DEF Files

\* A journal stays one when a field of it changes.
LEMMA JournalFields ==
    ASSUME NEW j \in Journals
    PROVE  /\ \A s \in {"open", "committed"} : [j EXCEPT !.state = s] \in Journals
           /\ \A b \in SUBSET Files : [j EXCEPT !.backups = b] \in Journals
           /\ j.update \in Updates /\ j.old \in [Files -> SUBSET Updates]
           /\ j.backups \in SUBSET Files /\ j.state \in {"open", "committed"}
  BY DEF Journals

\* What a journal is when one field of it changes.
LEMMA JournalChanges ==
    ASSUME NEW j \in Journals
    PROVE  /\ \A s : LET k == [j EXCEPT !.state = s] IN
                k.state = s /\ k.update = j.update /\ k.old = j.old /\ k.backups = j.backups
           /\ \A b : LET k == [j EXCEPT !.backups = b] IN
                k.state = j.state /\ k.update = j.update /\ k.old = j.old /\ k.backups = b
  BY DEF Journals

\* Each variable of the memory keeps its type.
LEMMA MemTypeStep == MemTypeOK /\ Locked /\ [MemNext]_memvars => MemTypeOK'
  <1> SUFFICES ASSUME MemTypeOK, Locked, MemNext PROVE MemTypeOK'
    BY DEF memvars, MemTypeOK
  <1> USE JournalFacts
  <1>0. /\ Len(by) \in Nat /\ MaxUpdates \in Nat /\ memFaults \in Nat /\ MaxMemFaults \in Nat
        /\ memFaults < MaxMemFaults => memFaults + 1 \in 0..MaxMemFaults
        /\ \A p \in Apps, to \in {"down", "start", "idle", "thinking", "swap", "mark", "clean",
                                  "load", "undo"} :
             Moves(p, to) => memPc' \in [Apps -> {"down", "start", "idle", "thinking", "swap",
                                                  "mark", "clean", "load", "undo"}]
    <2>1. /\ Len(by) \in Nat /\ MaxUpdates \in Nat /\ memFaults \in Nat /\ MaxMemFaults \in Nat
          /\ memFaults < MaxMemFaults => memFaults + 1 \in 0..MaxMemFaults
      BY MemoryAssumption DEF MemTypeOK
    <2> QED BY <2>1 DEF MemTypeOK, Moves
  <1>1. ASSUME NEW p \in Apps, Schedules(p) PROVE MemTypeOK'
    BY <1>0, <1>1 DEF Schedules, MemTypeOK
  <1>2. ASSUME NEW p \in Apps, Refused(p) PROVE MemTypeOK'
    BY <1>0, <1>2 DEF Refused, MemTypeOK
  <1>3. ASSUME NEW p \in Apps, Applies(p) PROVE MemTypeOK'
    <2> DEFINE n == Len(by) + 1
               k == NewJournal(p, n)
    <2>1. n \in Updates
      BY <1>0, <1>3 DEF Applies, Updates
    <2>2. k \in Journals
      BY <2>1 DEF NewJournal, Journals, MemTypeOK
    <2>3. journal' \in [Workspaces -> Journals \cup {None}]
      BY <1>3, <2>2 DEF Applies, MemTypeOK
    <2>4. by' \in Seq(Workspaces) /\ Len(by') = n /\ n <= MaxUpdates
      BY <1>0, <1>3 DEF Applies, MemTypeOK
    <2> QED BY <1>0, <1>3, <2>3, <2>4 DEF Applies, MemTypeOK
  <1>4. ASSUME NEW p \in Apps, NEW f \in Files, Replace(p, f) PROVE MemTypeOK'
    <2>1. Journal(p) \in Journals
      BY <1>4 DEF Replace, Locked, Driving, Journal
    <2>2. Journal(p).old[f] \cup {Journal(p).update} \in SUBSET Updates
      BY <2>1, JournalFields
    <2>3. notes' \in [Files -> SUBSET Updates]
      BY <1>4, <2>2 DEF Replace, MemTypeOK
    <2> QED BY <1>0, <1>4, <2>3 DEF Replace, MemTypeOK
  <1>5. ASSUME NEW p \in Apps, Mark(p) PROVE MemTypeOK'
    <2>1. Journal(p) \in Journals
      BY <1>5 DEF Mark, Locked, Driving, Journal
    <2>2. journal' \in [Workspaces -> Journals \cup {None}]
      BY <1>5, <2>1, JournalFields DEF Mark, MemTypeOK, Journal
    <2> QED BY <1>0, <1>5, <2>2 DEF Mark, MemTypeOK
  <1>6. ASSUME NEW p \in Apps, Cleans(p) PROVE MemTypeOK'
    <2>1. Journal(p) \in Journals
      BY <1>6 DEF Cleans, Locked, Driving, Journal
    <2>2. journal' \in [Workspaces -> Journals \cup {None}]
      <3>1. [Journal(p) EXCEPT !.backups = {}] \in Journals
        BY <2>1, JournalFields
      <3> QED BY <1>6, <3>1 DEF Cleans, MemTypeOK, Journal
    <2>3. acked' \subseteq Updates
      <3>1. Journal(p).update \in Updates
        BY <2>1, JournalFields
      <3>2. acked' \in {acked, acked \cup {Journal(p).update}}
        BY <1>6 DEF Cleans
      <3> QED BY <3>1, <3>2 DEF MemTypeOK
    <2> QED BY <1>0, <1>6, <2>2, <2>3 DEF Cleans, MemTypeOK
  <1>7. ASSUME NEW p \in Apps, UpdateFails(p) PROVE MemTypeOK'
    BY <1>0, <1>7 DEF UpdateFails, Undoes, MemTypeOK
  <1>8. ASSUME NEW p \in Apps, SwitchesOff(p) PROVE MemTypeOK'
    BY <1>0, <1>8 DEF SwitchesOff, MemTypeOK
  <1>9. ASSUME NEW p \in Apps, NEW f \in Files, Restores(p, f) PROVE MemTypeOK'
    <2>1. Journal(p) \in Journals
      BY <1>9 DEF Restores, Locked, Driving, Journal
    <2>2. journal' \in [Workspaces -> Journals \cup {None}]
      <3>1. [Journal(p) EXCEPT !.backups = Journal(p).backups \ {f}] \in Journals
        <4>1. Journal(p).backups \ {f} \in SUBSET Files
          BY <2>1, JournalFields
        <4> QED BY <2>1, <4>1, JournalFields
      <3>2. \/ journal' = journal
            \/ journal' = [journal EXCEPT ![WorkspaceOf[p]] =
                             [Journal(p) EXCEPT !.backups = Journal(p).backups \ {f}]]
        BY <1>9 DEF Restores, Journal
      <3> QED BY <3>1, <3>2 DEF MemTypeOK
    <2>3. notes' \in [Files -> SUBSET Updates]
      <3>1. Journal(p).old[f] \in SUBSET Updates
        BY <2>1, JournalFields
      <3>2. notes' = notes \/ notes' = [notes EXCEPT ![f] = Journal(p).old[f]]
        BY <1>9 DEF Restores
      <3> QED BY <3>1, <3>2 DEF MemTypeOK
    <2> QED BY <1>0, <1>9, <2>2, <2>3 DEF Restores, MemTypeOK
  <1>10. ASSUME NEW p \in Apps, Recovered(p) PROVE MemTypeOK'
    BY <1>0, <1>10 DEF Recovered, MemTypeOK
  <1>11. ASSUME NEW p \in Apps, Loads(p) PROVE MemTypeOK'
    <2>1. CASE memLock # {}
      BY <1>0, <1>11, <2>1 DEF Loads, MemTypeOK
    <2>2. CASE memLock = {} /\ Journal(p) = None
      BY <1>0, <1>11, <2>2 DEF Loads, MemTypeOK
    <2>3. CASE memLock = {} /\ Journal(p) # None
      <3>1. Moves(p, "undo") /\ left' = [left EXCEPT ![p] = Targets(p)]
        BY <1>11, <2>3 DEF Loads, Undoes
      <3>2. left' \in [Apps -> SUBSET Files]
        BY <3>1 DEF MemTypeOK
      <3> QED BY <1>0, <1>11, <2>3, <3>1, <3>2 DEF Loads, MemTypeOK
    <2> QED BY <2>1, <2>2, <2>3
  <1>12. ASSUME NEW p \in Apps, Loaded(p) PROVE MemTypeOK'
    <2>1. \A w \in Workspaces : OrphansOf(p, journal[w]) \in Journals \cup {None}
      BY JournalFields DEF OrphansOf, MemTypeOK
    <2> QED BY <1>0, <1>12, <2>1 DEF Loaded, MemTypeOK
  <1>13. ASSUME NEW p \in Apps, AppDies(p) PROVE MemTypeOK'
    BY <1>0, <1>13 DEF AppDies, MemTypeOK, Nothing
  <1>14. ASSUME NEW p \in Apps, AppStarts(p) PROVE MemTypeOK'
    BY <1>0, <1>14 DEF AppStarts, MemTypeOK
  <1> QED BY <1>1, <1>2, <1>3, <1>4, <1>5, <1>6, <1>7, <1>8, <1>9, <1>10, <1>11, <1>12, <1>13,
             <1>14 DEF MemNext

\* The list of updates only grows.
LEMMA UpdatesGrow ==
    ASSUME MemTypeOK, MemNext
    PROVE  \/ by' = by
           \/ \E p \in Apps : by' = Append(by, WorkspaceOf[p]) /\ Applies(p)
  BY DEF MemNext, Schedules, Refused, Applies, Replace, Mark, Cleans, UpdateFails, SwitchesOff,
         Restores, Recovered, Loads, Loaded, AppDies, AppStarts

\* What is written down stays that of updates that were begun.
LEMMA RecordedStep == MemTypeOK /\ Recorded /\ Locked /\ [MemNext]_memvars => Recorded'
  <1> SUFFICES ASSUME MemTypeOK, Recorded, Locked, MemNext PROVE Recorded'
    BY DEF memvars, Recorded
  <1> USE JournalFacts
  <1> DEFINE Old(j) == j.update \in 1..Len(by) /\ \A f \in Files : j.old[f] \subseteq 1..Len(by)
  <1>1. 1..Len(by) \subseteq 1..Len(by')
    <2>1. CASE by' = by
      BY <2>1
    <2>2. CASE by' # by
      <3>1. PICK p \in Apps : by' = Append(by, WorkspaceOf[p])
        BY <2>2, UpdatesGrow
      <3>2. Len(by) \in Nat /\ Len(by') = Len(by) + 1
        BY <3>1 DEF MemTypeOK
      <3> QED BY <3>2
    <2> QED BY <2>1, <2>2
  <1>2. \A f \in Files : notes'[f] \subseteq 1..Len(by)
    <2>1. CASE notes' = notes
      BY <2>1 DEF Recorded
    <2>2. ASSUME NEW p \in Apps, NEW f \in Files, Replace(p, f) \/ Restores(p, f), notes' # notes
          PROVE  \A h \in Files : notes'[h] \subseteq 1..Len(by)
      <3>1. Journal(p) \in Journals /\ Journal(p) # None
        BY <2>2 DEF Replace, Restores, Locked, Driving, Journal
      <3>2. Old(Journal(p))
        BY <3>1 DEF Recorded, Journal
      <3>3. \E c : notes' = [notes EXCEPT ![f] = c] /\ c \subseteq 1..Len(by)
        BY <2>2, <3>2 DEF Replace, Restores
      <3> QED BY <3>3 DEF MemTypeOK, Recorded
    <2> QED BY <2>1, <2>2 DEF MemNext, Schedules, Refused, Applies, Mark, Cleans, UpdateFails,
               SwitchesOff, Recovered, Loads, Loaded, AppDies, AppStarts
  <1>3. \A p \in Apps : view'[p].own \subseteq 1..Len(by) /\ view'[p].user \subseteq 1..Len(by)
    <2>1. CASE view' = view
      BY <2>1 DEF Recorded
    <2>2. ASSUME NEW p \in Apps, Loaded(p)
          PROVE  \A q \in Apps : /\ view'[q].own \subseteq 1..Len(by)
                                 /\ view'[q].user \subseteq 1..Len(by)
      BY <2>2 DEF Loaded, MemTypeOK, Recorded
    <2>3. ASSUME NEW p \in Apps, AppDies(p)
          PROVE  \A q \in Apps : /\ view'[q].own \subseteq 1..Len(by)
                                 /\ view'[q].user \subseteq 1..Len(by)
      BY <2>3 DEF AppDies, MemTypeOK, Recorded, Nothing
    <2> QED BY <2>1, <2>2, <2>3 DEF MemNext, Schedules, Refused, Applies, Replace, Mark, Cleans,
               UpdateFails, SwitchesOff, Restores, Recovered, Loads, AppStarts
  <1>4. \A w \in Workspaces : journal'[w] # None =>
          /\ journal'[w].update \in 1..Len(by')
          /\ \A f \in Files : journal'[w].old[f] \subseteq 1..Len(by')
    <2>1. ASSUME \A w \in Workspaces : journal'[w] # None =>
                   /\ journal[w] # None
                   /\ journal'[w].update = journal[w].update /\ journal'[w].old = journal[w].old
          PROVE  <1>4
      BY <1>1, <2>1 DEF Recorded
    <2>2. CASE journal' = journal
      BY <2>1, <2>2
    <2>3. ASSUME NEW p \in Apps, Journal(p) # None,
                 \/ journal' = [journal EXCEPT ![WorkspaceOf[p]] = None]
                 \/ \E s : journal' = [journal EXCEPT ![WorkspaceOf[p]].state = s]
                 \/ \E b : journal' = [journal EXCEPT ![WorkspaceOf[p]].backups = b]
          PROVE  <1>4
      <3>1. Journal(p) \in Journals
        BY <2>3 DEF Journal
      <3>2. ASSUME NEW k, k = None \/ (k.update = Journal(p).update /\ k.old = Journal(p).old),
                   journal' = [journal EXCEPT ![WorkspaceOf[p]] = k]
            PROVE  <1>4
        BY <2>1, <2>3, <3>2 DEF MemTypeOK, Journal
      <3>3. ASSUME NEW s, journal' = [journal EXCEPT ![WorkspaceOf[p]].state = s] PROVE <1>4
        <4>1. journal' = [journal EXCEPT ![WorkspaceOf[p]] = [Journal(p) EXCEPT !.state = s]]
          BY <3>3 DEF Journal
        <4> QED BY <3>1, <3>2, <4>1, JournalChanges
      <3>4. ASSUME NEW b, journal' = [journal EXCEPT ![WorkspaceOf[p]].backups = b] PROVE <1>4
        <4>1. journal' = [journal EXCEPT ![WorkspaceOf[p]] = [Journal(p) EXCEPT !.backups = b]]
          BY <3>4 DEF Journal
        <4> QED BY <3>1, <3>2, <4>1, JournalChanges
      <3> QED BY <2>3, <3>2, <3>3, <3>4
    <2>4. ASSUME NEW p \in Apps, Mark(p) \/ Cleans(p) \/ Recovered(p) PROVE <1>4
      <3>1. Journal(p) # None
        BY <2>4 DEF Mark, Cleans, Recovered, Locked, Driving
      <3> QED BY <2>3, <2>4, <3>1 DEF Mark, Cleans, Recovered
    <2>5. ASSUME NEW p \in Apps, NEW f \in Files, Restores(p, f) PROVE <1>4
      <3>1. Journal(p) # None
        BY <2>5 DEF Restores, Locked, Driving
      <3>2. \/ journal' = journal
            \/ journal' = [journal EXCEPT ![WorkspaceOf[p]].backups = Journal(p).backups \ {f}]
        BY <2>5 DEF Restores, Journal
      <3> QED BY <2>2, <2>3, <3>1, <3>2
    <2>6. ASSUME NEW p \in Apps, Loaded(p) PROVE <1>4
      <3>1. \A w \in Workspaces : journal'[w] = OrphansOf(p, journal[w])
        BY <2>6 DEF Loaded
      <3>2. \A w \in Workspaces : journal[w] # None =>
              /\ OrphansOf(p, journal[w]).update = journal[w].update
              /\ OrphansOf(p, journal[w]).old = journal[w].old
        BY JournalChanges DEF OrphansOf
      <3>3. OrphansOf(p, None) = None
        BY DEF OrphansOf
      <3> QED BY <2>1, <3>1, <3>2, <3>3
    <2>7. ASSUME NEW p \in Apps, Applies(p) PROVE <1>4
      <3> DEFINE k == NewJournal(p, Len(by) + 1)
      <3>1. Len(by) \in Nat /\ Len(by') = Len(by) + 1
        BY <2>7 DEF Applies, MemTypeOK
      <3>2. k.update = Len(by) + 1 /\ k.old = notes
        BY DEF NewJournal
      <3>3. journal' = [journal EXCEPT ![WorkspaceOf[p]] = k]
        BY <2>7 DEF Applies
      <3> HIDE DEF k
      <3>4. k.update \in 1..Len(by') /\ \A f \in Files : k.old[f] \subseteq 1..Len(by')
        BY <1>1, <3>1, <3>2 DEF Recorded
      <3> QED BY <1>1, <3>3, <3>4 DEF Recorded, MemTypeOK
    <2> QED BY <2>2, <2>4, <2>5, <2>6, <2>7 DEF MemNext, Schedules, Refused, Replace, UpdateFails,
               SwitchesOff, Loads, AppDies, AppStarts
  <1> QED BY <1>1, <1>2, <1>3, <1>4 DEF Recorded

\* Whoever changes the files stays alone with them.
LEMMA LockedStep == MemTypeOK /\ Locked /\ [MemNext]_memvars => Locked'
  <1> SUFFICES ASSUME MemTypeOK, Locked, MemNext PROVE Locked'
    BY DEF memvars, Locked, Journal
  <1> USE JournalFacts
  <1>1. ASSUME NEW p \in Apps, Schedules(p) \/ Refused(p) \/ AppStarts(p) PROVE Locked'
    BY <1>1 DEF Schedules, Refused, AppStarts, Moves, Locked, Driving, Journal, MemTypeOK
  <1>2. ASSUME NEW p \in Apps, Applies(p) PROVE Locked'
    <2>1. NewJournal(p, Len(by) + 1) # None
      BY DEF NewJournal, None
    <2>2. memLock = {} /\ memLock' = {p} /\ memPc' = [memPc EXCEPT ![p] = "swap"]
      BY <1>2 DEF Applies, Moves
    <2>3. Journal(p)' # None /\ left'[p] = Targets(p)
      BY <1>2, <2>1 DEF Applies, Journal, MemTypeOK
    <2> QED BY <2>2, <2>3 DEF Locked, Driving, MemTypeOK, Targets
  <1>3. ASSUME NEW p \in Apps, p \in memLock, memLock' = memLock,
               memPc'[p] \in Driving, Journal(p)' # None, left'[p] \subseteq Targets(p),
               \A q \in Apps \ {p} : memPc'[q] = memPc[q]
        PROVE  Locked'
    BY <1>3 DEF Locked, Driving, Targets
  <1>4. ASSUME NEW p \in Apps, NEW f \in Files, Replace(p, f) PROVE Locked'
    BY <1>3, <1>4 DEF Replace, Moves, Locked, Driving, Journal, MemTypeOK
  <1>5. ASSUME NEW p \in Apps, Mark(p) \/ UpdateFails(p) PROVE Locked'
    <2>1. p \in memLock /\ Journal(p) # None /\ left[p] \subseteq Targets(p)
      BY <1>5 DEF Mark, UpdateFails, Locked, Driving
    <2>2. memPc' \in {[memPc EXCEPT ![p] = "clean"], [memPc EXCEPT ![p] = "undo"]}
      BY <1>5 DEF Mark, UpdateFails, Undoes, Moves
    <2>3. left'[p] \subseteq Targets(p) /\ memLock' = memLock
      BY <1>5, <2>1 DEF Mark, UpdateFails, Undoes, MemTypeOK
    <2>4. Journal(p)' # None
      <3>1. [Journal(p) EXCEPT !.state = "committed"] \in Journals
        BY <2>1, JournalFields DEF Journal
      <3>2. Journal(p)' = Journal(p) \/ Journal(p)' = [Journal(p) EXCEPT !.state = "committed"]
        BY <1>5 DEF Mark, UpdateFails, Journal, MemTypeOK
      <3> QED BY <2>1, <3>1, <3>2
    <2> QED BY <1>3, <2>1, <2>2, <2>3, <2>4 DEF MemTypeOK, Driving
  <1>6. ASSUME NEW p \in Apps, p \in memLock, memLock' = {}, memPc'[p] \notin Driving,
               \A q \in Apps \ {p} : memPc'[q] = memPc[q]
        PROVE  Locked'
    BY <1>6 DEF Locked, Driving
  <1>7. ASSUME NEW p \in Apps, Cleans(p) PROVE Locked'
    <2>1. p \in memLock /\ Journal(p) # None /\ left[p] \subseteq Targets(p)
      BY <1>7 DEF Cleans, Locked, Driving
    <2>2. CASE Journal(p).backups = {}
      BY <1>6, <1>7, <2>1, <2>2 DEF Cleans, Moves, MemTypeOK, Driving
    <2>3. CASE Journal(p).backups # {}
      <3>1. [Journal(p) EXCEPT !.backups = {}] \in Journals
        BY <2>1, JournalFields DEF Journal
      <3>2. Journal(p)' = [Journal(p) EXCEPT !.backups = {}]
        BY <1>7, <2>3 DEF Cleans, Journal, MemTypeOK
      <3> QED BY <1>3, <1>7, <2>1, <2>3, <3>1, <3>2 DEF Cleans, MemTypeOK, Driving
    <2> QED BY <2>2, <2>3
  <1>8. ASSUME NEW p \in Apps, SwitchesOff(p) PROVE Locked'
    BY <1>6, <1>8 DEF SwitchesOff, Moves, MemTypeOK, Driving
  <1>9. ASSUME NEW p \in Apps, NEW f \in Files, Restores(p, f) PROVE Locked'
    <2>1. p \in memLock /\ Journal(p) # None /\ left[p] \subseteq Targets(p)
      BY <1>9 DEF Restores, Locked, Driving
    <2>2. Journal(p)' # None
      <3>1. [Journal(p) EXCEPT !.backups = Journal(p).backups \ {f}] \in Journals
        <4>1. Journal(p).backups \ {f} \in SUBSET Files
          BY <2>1, JournalFields DEF Journal
        <4> QED BY <2>1, <4>1, JournalFields DEF Journal
      <3>2. \/ Journal(p)' = Journal(p)
            \/ Journal(p)' = [Journal(p) EXCEPT !.backups = Journal(p).backups \ {f}]
        BY <1>9 DEF Restores, Journal, MemTypeOK
      <3> QED BY <2>1, <3>1, <3>2
    <2> QED BY <1>3, <1>9, <2>1, <2>2 DEF Restores, MemTypeOK, Driving
  <1>10. ASSUME NEW p \in Apps, Recovered(p) PROVE Locked'
    <2>1. p \in memLock
      BY <1>10 DEF Recovered, Locked, Driving
    <2>2. CASE purpose[p] # "load"
      BY <1>6, <1>10, <2>1, <2>2 DEF Recovered, Moves, MemTypeOK, Driving
    <2>3. CASE purpose[p] = "load"
      BY <1>10, <2>1, <2>3 DEF Recovered, Moves, MemTypeOK, Driving, Locked
    <2> QED BY <2>2, <2>3
  <1>11. ASSUME NEW p \in Apps, Loads(p) PROVE Locked'
    <2>1. CASE memLock # {}
      BY <1>11, <2>1 DEF Loads, Moves, Locked, Driving, MemTypeOK, Journal
    <2>2. CASE memLock = {} /\ Journal(p) = None
      BY <1>11, <2>2 DEF Loads, Moves, Locked, Driving, MemTypeOK, Journal
    <2>3. CASE memLock = {} /\ Journal(p) # None
      <3>1. /\ memPc' = [memPc EXCEPT ![p] = "undo"] /\ left' = [left EXCEPT ![p] = Targets(p)]
            /\ memLock' = {p} /\ journal' = journal
        BY <1>11, <2>3 DEF Loads, Undoes, Moves
      <3> QED BY <2>3, <3>1 DEF Locked, Driving, MemTypeOK, Journal, Targets
    <2> QED BY <2>1, <2>2, <2>3
  <1>12. ASSUME NEW p \in Apps, Loaded(p) PROVE Locked'
    BY <1>6, <1>12 DEF Loaded, Moves, MemTypeOK, Driving
  <1>13. ASSUME NEW p \in Apps, AppDies(p) PROVE Locked'
    BY <1>13 DEF AppDies, Moves, Locked, Driving, MemTypeOK, Journal, Targets
  <1> QED BY <1>1, <1>2, <1>4, <1>5, <1>7, <1>8, <1>9, <1>10, <1>11, <1>12, <1>13 DEF MemNext


\* While somebody is alone with the files, nobody else is at work.
LEMMA Alone ==
    ASSUME MemTypeOK, Locked, NEW p \in Apps, memPc[p] \in Driving \/ p \in memLock
    PROVE  /\ memLock = {p} /\ \A q \in Apps \ {p} : memPc[q] \notin Driving
           /\ memPc[p] \in Driving => /\ Journal(p) \in Journals /\ Journal(p) # None
                                      /\ left[p] \subseteq Targets(p)
  BY JournalFacts DEF Locked, Journal

\* What becomes of the journals when they and the notes stay as they are.
LEMMA JournalsStand ==
    ASSUME MemTypeOK, JournalsAreTrue, notes' = notes, journal' = journal, by' = by,
           acked' = acked, \A w \in Workspaces : journal[w] # None => Recoverable(w)',
           \A p \in Apps : StepIsTrue(p)'
    PROVE  JournalsAreTrue'
  BY DEF JournalsAreTrue, JournalIsTrue, Even, Done

\* A step of somebody who is not at work and does not begin.
LEMMA RestingStep ==
    ASSUME MemTypeOK, Locked, JournalsAreTrue, NEW p \in Apps, notes' = notes,
           journal' = journal, by' = by, acked' = acked, memLock' = memLock, left' = left,
           memFaults' = memFaults, \A q \in Apps \ {p} : memPc'[q] = memPc[q],
           memPc[p] \notin Driving, memPc'[p] \notin Driving
    PROVE  JournalsAreTrue'
  <1>1. \A q \in Apps : StepIsTrue(q)'
    BY DEF JournalsAreTrue, StepIsTrue, Journal, Targets, Done, Driving
  <1>2. \A w \in Workspaces : journal[w] # None => Recoverable(w)'
    <2> SUFFICES ASSUME NEW w \in Workspaces, journal[w] # None, journal[w].state = "open"
                 PROVE  Attended(w)' /\ (memFaults <= 1 => \A f \in {w, "user"} : Backed(w, f)')
      BY DEF Recoverable
    <2>1. Attended(w) /\ (memFaults <= 1 => \A f \in {w, "user"} : Backed(w, f))
      BY DEF JournalsAreTrue, Recoverable
    <2>2. \A q \in memLock : q \in Apps
      BY DEF MemTypeOK
    <2>3. Attended(w)'
      BY <2>1, <2>2 DEF Attended, Driving
    <2>4. \A f \in {w, "user"} : Backed(w, f) => Backed(w, f)'
      BY <2>2 DEF Backed, Driving
    <2> QED BY <2>1, <2>3, <2>4
  <1> QED BY <1>1, <1>2, JournalsStand

\* A step after which a fault has happened, and after which nobody restores anything: what
\* was still to be found then is found.
LEMMA FaultStep ==
    ASSUME MemTypeOK, Locked, JournalsAreTrue, NEW p \in Apps, notes' = notes,
           journal' = journal, by' = by, acked' = acked,
           \A q \in Apps \ {p} : memPc'[q] = memPc[q] /\ left'[q] = left[q],
           memPc'[p] = "undo" => left'[p] = Targets(p), memPc'[p] \notin Driving \ {"undo"},
           memFaults' >= memFaults,
           \A w \in Workspaces : journal[w] # None /\ journal[w].state = "open" =>
             /\ memFaults' >= 1
             /\ memFaults' <= 1 => \A f \in {w, "user"} :
                                     journal[w].old[f] = {} \/ f \in journal[w].backups
    PROVE  JournalsAreTrue'
  <1>1. \A q \in Apps : StepIsTrue(q)'
    BY DEF JournalsAreTrue, StepIsTrue, Journal, Targets, Done, Driving
  <1>2. \A w \in Workspaces : journal[w] # None => Recoverable(w)'
    BY DEF Recoverable, Attended, Backed
  <1> QED BY <1>1, <1>2, JournalsStand

\* Before a recovery has begun, all that it needs is there.
LEMMA Unrestored ==
    ASSUME MemTypeOK, JournalsAreTrue, NEW w \in Workspaces, journal[w] # None,
           journal[w].state = "open", memFaults <= 1, \A q \in memLock : memPc[q] # "undo"
    PROVE  \A f \in {w, "user"} : journal[w].old[f] = {} \/ f \in journal[w].backups
  BY DEF JournalsAreTrue, Recoverable, Backed

\* No recovery finds less than it needs, unless a second fault came before it.
LEMMA NothingIsMissing ==
    ASSUME MemTypeOK, Locked, JournalsAreTrue, NEW p \in Apps, memPc[p] = "undo",
           NEW f \in left[p], Lost(Journal(p), f)
    PROVE  memFaults > 1
  <1> DEFINE w == WorkspaceOf[p]
  <1>1. /\ memLock = {p} /\ Journal(p) \in Journals /\ Journal(p) # None /\ f \in {w, "user"}
        /\ w \in Workspaces
    BY Alone, JournalFacts DEF Driving, Targets
  <1>2. JournalIsTrue(w) /\ Recoverable(w)
    BY <1>1 DEF JournalsAreTrue, Journal
  <1>3. journal[w].state = "open" /\ journal[w].old[f] # {} /\ f \notin journal[w].backups
    BY <1>1, <1>2 DEF Lost, JournalIsTrue, Journal
  <1>4. ~Backed(w, f)
    BY <1>1, <1>3 DEF Backed
  <1> QED BY <1>1, <1>2, <1>3, <1>4 DEF Recoverable, MemTypeOK


\* A step of who is alone with the files, on the journal of its workspace, which stays.
LEMMA WorkingStep ==
    ASSUME MemTypeOK, Locked, JournalsAreTrue, NEW p \in Apps, p \in memLock, memLock' = memLock,
           by' = by, acked' = acked, \A q \in Apps \ {p} : memPc'[q] = memPc[q],
           NEW k \in Journals, journal' = [journal EXCEPT ![WorkspaceOf[p]] = k],
           Journal(p) # None, StepIsTrue(p)',
           JournalIsTrue(WorkspaceOf[p])', Recoverable(WorkspaceOf[p])'
    PROVE  JournalsAreTrue'
  <1> DEFINE w == WorkspaceOf[p]
  <1>1. w \in Workspaces /\ journal'[w] = k /\ k # None
        /\ \A v \in Workspaces \ {w} : journal'[v] = journal[v] /\ journal[v] = None
    BY JournalFacts DEF JournalsAreTrue, MemTypeOK, Journal
  <1>2. \A q \in Apps : StepIsTrue(q)'
    <2>1. \A q \in Apps \ {p} : memPc'[q] \notin Driving
      BY Alone
    <2> QED BY <2>1 DEF StepIsTrue, Driving
  <1> QED BY <1>1, <1>2 DEF JournalsAreTrue

\* When the journal goes, the notes are what it said.
LEMMA JournalGoes ==
    ASSUME MemTypeOK, Locked, Recorded, JournalsAreTrue, NEW p \in Apps, memPc[p] \in Driving,
           memLock' \subseteq memLock, notes' = notes, by' = by,
           \A q \in Apps \ {p} : memPc'[q] = memPc[q], memPc'[p] \notin Driving,
           journal' = [journal EXCEPT ![WorkspaceOf[p]] = None],
           \/ \A f \in Targets(p) : notes[f] = Journal(p).old[f]
           \/ \A f \in Targets(p) : Done(Journal(p), f),
           acked' = acked \/ (/\ acked' = acked \cup {Journal(p).update}
                              /\ \A f \in Targets(p) : Done(Journal(p), f))
    PROVE  JournalsAreTrue'
  <1> DEFINE w == WorkspaceOf[p]
             j == journal[w]
  <1>1. /\ w \in Workspaces /\ j # None /\ j \in Journals /\ memLock = {p}
        /\ \A q \in Apps \ {p} : memPc[q] \notin Driving
    BY Alone, JournalFacts DEF Journal
  <1>2. \A v \in Workspaces : journal'[v] = None
    BY <1>1 DEF JournalsAreTrue, MemTypeOK
  <1>3. JournalIsTrue(w)
    BY <1>1 DEF JournalsAreTrue
  <1>4. \A n \in 1..Len(by) : by[n] \in Workspaces
    BY DEF MemTypeOK
  <1>5. CASE \A f \in Targets(p) : notes[f] = j.old[f]
    <2>1. \A f \in Files : notes[f] = j.old[f]
      BY <1>3, <1>5 DEF JournalIsTrue, Targets
    <2>2. Even(notes)
      BY <1>3, <1>4, <2>1 DEF Even, JournalIsTrue, Files
    <2>3. acked \subseteq notes["user"]
      BY <1>3, <2>1 DEF JournalIsTrue, Files
    <2>4. acked' \subseteq notes["user"]
      BY <2>3 DEF Done, Targets, Journal
    <2> QED BY <1>1, <1>2, <2>2, <2>4 DEF JournalsAreTrue, StepIsTrue, Driving, Even
  <1>6. CASE \A f \in Targets(p) : Done(j, f)
    <2> DEFINE u == j.update
    <2>1. /\ \A f \in Files \ {w, "user"} : notes[f] = j.old[f]
          /\ notes[w] = j.old[w] \cup {u} /\ notes["user"] = j.old["user"] \cup {u}
      BY <1>3, <1>6 DEF JournalIsTrue, Targets, Done
    <2>2. by[u] = w /\ \A n \in 1..Len(by) : n \in j.old[by[n]] <=> n \in j.old["user"]
      BY <1>3 DEF JournalIsTrue, Even
    <2>3. \A n \in 1..Len(by) : n \in notes[by[n]] <=> n \in notes["user"]
      <3> HIDE DEF u, w, j
      <3> TAKE n \in 1..Len(by)
      <3>1. CASE n = u
        BY <3>1, <2>1, <2>2
      <3>2. CASE n # u /\ by[n] = w
        BY <3>2, <2>1, <2>2
      <3>3. CASE n # u /\ by[n] # w
        <4>1. by[n] \in Files \ {w, "user"}
          BY <3>3, <1>4, MemoryAssumption DEF Files
        <4> QED BY <3>3, <4>1, <2>1, <2>2
      <3> QED BY <3>1, <3>2, <3>3
    <2>4. acked' \subseteq notes["user"]
      BY <1>3, <2>1 DEF JournalIsTrue, Journal
    <2> QED BY <1>1, <1>2, <2>3, <2>4 DEF JournalsAreTrue, StepIsTrue, Driving, Even
  <1> QED BY <1>5, <1>6 DEF Journal

\* An update begins, and finds no journal.
LEMMA BeginningStep ==
    ASSUME MemTypeOK, Recorded, Locked, JournalsAreTrue, ~crossed', NEW p \in Apps, Applies(p)
    PROVE  JournalsAreTrue'
  <1> DEFINE n == Len(by) + 1
             w == WorkspaceOf[p]
             k == NewJournal(p, n)
  <1>1. \A v \in Workspaces : journal[v] = None
    BY DEF Applies
  <1>2. /\ w \in Workspaces /\ n \in Nat /\ n \in 1..Len(by') /\ Len(by') = n /\ by'[n] = w
        /\ \A i \in 1..Len(by) : by'[i] = by[i] /\ by[i] \in Workspaces
    BY JournalFacts DEF Applies, MemTypeOK
  <1>3. /\ k.update = n /\ k.old = notes /\ k.state = "open"
        /\ k.backups = {f \in Targets(p) : notes[f] # {}}
    BY DEF NewJournal
  <1>4. /\ journal' = [journal EXCEPT ![w] = k] /\ notes' = notes /\ acked' = acked
        /\ memLock' = {p} /\ memPc' = [memPc EXCEPT ![p] = "swap"]
        /\ left' = [left EXCEPT ![p] = Targets(p)]
    BY DEF Applies, Moves
  <1> HIDE DEF k
  <1>5. /\ journal'[w] = k /\ \A v \in Workspaces \ {w} : journal'[v] = None
    BY <1>1, <1>2, <1>4 DEF MemTypeOK
  <1>6. Even(notes) /\ acked \subseteq notes["user"] /\ \A f \in Files : n \notin notes[f]
    BY <1>1, <1>2 DEF JournalsAreTrue, Recorded
  <1>7. (Even(notes))'
    <2> SUFFICES ASSUME NEW i \in 1..Len(by') PROVE i \in notes[by'[i]] <=> i \in notes["user"]
      BY <1>4 DEF Even
    <2>1. CASE i = n
      BY <1>2, <1>6, <2>1 DEF Files
    <2>2. CASE i # n
      <3>1. i \in 1..Len(by)
        BY <1>2, <2>2 DEF MemTypeOK
      <3> QED BY <1>2, <1>6, <3>1 DEF Even
    <2> QED BY <2>1, <2>2
  <1>8. JournalIsTrue(w)'
    <2>1. (Even(journal[w].old))'
      BY <1>3, <1>4, <1>5, <1>7 DEF Even
    <2> QED BY <1>2, <1>3, <1>4, <1>5, <1>6, <2>1 DEF JournalIsTrue
  <1>9. Recoverable(w)'
    <2>1. Attended(w)'
      BY <1>4 DEF Attended, MemTypeOK
    <2>2. \A f \in {w, "user"} : Backed(w, f)'
      BY <1>3, <1>5 DEF Backed, Targets
    <2> QED BY <2>1, <2>2 DEF Recoverable
  <1>10. \A q \in Apps : StepIsTrue(q)'
    <2>1. \A q \in Apps \ {p} : memPc'[q] \notin Driving
      BY <1>4 DEF Locked, Applies, MemTypeOK
    <2>2. StepIsTrue(p)'
      <3>1. memPc'[p] = "swap" /\ left'[p] = Targets(p) /\ Journal(p)' = k
        BY <1>4, <1>5 DEF MemTypeOK, Journal
      <3> QED BY <1>3, <1>4, <3>1 DEF StepIsTrue, Targets
    <2> QED BY <2>1, <2>2 DEF StepIsTrue, Driving
  <1>11. k # None
    BY <1>3 DEF None
  <1> QED BY <1>2, <1>5, <1>8, <1>9, <1>10, <1>11 DEF JournalsAreTrue


\* The journals stay true as long as nobody works over one.
LEMMA JournalsStep ==
    ASSUME MemTypeOK, Recorded, Locked, JournalsAreTrue, MemNext, ~crossed'
    PROVE  JournalsAreTrue'
  <1> USE JournalFacts
  <1>0. ASSUME NEW p \in Apps, memPc[p] \in Driving
        PROVE  /\ memLock = {p} /\ \A q \in Apps \ {p} : memPc[q] \notin Driving
               /\ WorkspaceOf[p] \in Workspaces /\ Journal(p) \in Journals /\ Journal(p) # None
               /\ left[p] \subseteq Targets(p) /\ StepIsTrue(p)
               /\ JournalIsTrue(WorkspaceOf[p]) /\ Recoverable(WorkspaceOf[p])
    BY <1>0, Alone DEF JournalsAreTrue, Journal
  <1>1. ASSUME NEW p \in Apps, Schedules(p) \/ Refused(p) \/ AppStarts(p) PROVE JournalsAreTrue'
    <2>1. \A q \in Apps \ {p} : memPc'[q] = memPc[q]
      BY <1>1 DEF Schedules, Refused, AppStarts, Moves, MemTypeOK
    <2>2. memPc[p] \notin Driving /\ memPc'[p] \notin Driving
      BY <1>1 DEF Schedules, Refused, AppStarts, Moves, MemTypeOK, Driving
    <2> QED BY <1>1, <2>1, <2>2, RestingStep DEF Schedules, Refused, AppStarts
  <1>2. ASSUME NEW p \in Apps, Applies(p) PROVE JournalsAreTrue'
    BY <1>2, BeginningStep
  <1>3. ASSUME NEW p \in Apps, NEW f \in Files, Replace(p, f) PROVE JournalsAreTrue'
    <2> DEFINE w == WorkspaceOf[p]
               j == journal[w]
    <2>1. memPc[p] = "swap" /\ f \in left[p] /\ f \in Targets(p) /\ j = Journal(p)
      BY <1>0, <1>3 DEF Replace, Driving, Journal
    <2>2. /\ memLock = {p} /\ memLock' = memLock /\ by' = by /\ acked' = acked
          /\ memFaults' = memFaults
          /\ journal' = [journal EXCEPT ![w] = j] /\ j \in Journals /\ journal' = journal
      BY <1>0, <1>3, <2>1 DEF Replace, Driving, MemTypeOK, Journal
    <2>3. /\ left'[p] = left[p] \ {f} /\ memPc'[p] \in {"swap", "mark"}
          /\ memPc'[p] = "mark" => left[p] = {f}
          /\ memPc'[p] = "swap" => left[p] # {f}
          /\ \A q \in Apps \ {p} : memPc'[q] = memPc[q]
      BY <1>3 DEF Replace, Moves, MemTypeOK
    <2>4. notes' = [notes EXCEPT ![f] = j.old[f] \cup {j.update}]
      BY <1>3, <2>1 DEF Replace
    <2>5. notes'[f] = j.old[f] \cup {j.update} /\ \A h \in Files \ {f} : notes'[h] = notes[h]
      BY <2>4 DEF MemTypeOK
    <2>6. /\ j.state = "open" /\ \A h \in Targets(p) : IF h \in left[p] THEN notes[h] = j.old[h]
                                                      ELSE Done(j, h)
          /\ JournalIsTrue(w) /\ Recoverable(w) /\ left[p] \subseteq Targets(p)
      BY <1>0, <2>1 DEF StepIsTrue, Driving
    <2> HIDE DEF w, j
    <2>7. JournalIsTrue(w)'
      BY <2>1, <2>2, <2>5, <2>6 DEF JournalIsTrue, Done, Targets, w, j, Even
    <2>8. Recoverable(w)'
      <3>1. Attended(w)'
        BY <2>2, <2>3 DEF Attended, w
      <3>2. \A h \in {w, "user"} : Backed(w, h) => Backed(w, h)'
        BY <2>1, <2>2 DEF Backed
      <3> QED BY <3>1, <3>2, <2>2, <2>6 DEF Recoverable, j
    <2>9. \A h \in Targets(p) : IF h \in left'[p] THEN notes'[h] = j.old[h]
                                ELSE notes'[h] = j.old[h] \cup {j.update}
      BY <2>1, <2>3, <2>5, <2>6 DEF Done
    <2>10. StepIsTrue(p)'
      <3>1. Journal(p)' = j /\ Targets(p)' = Targets(p)
        BY <2>1, <2>2 DEF Journal, Targets
      <3>2. memPc'[p] = "swap" => left'[p] # {}
        BY <2>1, <2>3
      <3>3. memPc'[p] = "mark" => left'[p] = {}
        BY <2>3
      <3> QED BY <2>3, <2>6, <2>9, <3>1, <3>2, <3>3 DEF StepIsTrue, Done
    <2> QED BY <1>0, <2>1, <2>2, <2>3, <2>7, <2>8, <2>10, WorkingStep DEF w, Driving
  <1>4. ASSUME NEW p \in Apps, Mark(p) PROVE JournalsAreTrue'
    <2> DEFINE w == WorkspaceOf[p]
               j == journal[w]
               k == [j EXCEPT !.state = "committed"]
    <2>1. memPc[p] = "mark" /\ j = Journal(p) /\ j \in Journals /\ JournalIsTrue(w)
          /\ w \in Workspaces
      BY <1>0, <1>4 DEF Mark, Driving, Journal
    <2>2. \A f \in Targets(p) : Done(j, f)
      BY <1>0, <2>1 DEF StepIsTrue, Driving
    <2>3. /\ memLock = {p} /\ memLock' = memLock /\ by' = by /\ acked' = acked
          /\ notes' = notes /\ journal' = [journal EXCEPT ![w] = k]
          /\ memPc'[p] = "clean" /\ \A q \in Apps \ {p} : memPc'[q] = memPc[q]
      BY <1>0, <1>4, <2>1 DEF Mark, Driving, Moves, MemTypeOK
    <2>4. k \in Journals /\ k.state = "committed" /\ k.update = j.update /\ k.old = j.old
      <3>1. k \in Journals
        BY <2>1, JournalFields
      <3> QED BY <2>1, <3>1, JournalChanges
    <2> HIDE DEF k
    <2>5. journal'[w] = k
      BY <2>1, <2>3 DEF MemTypeOK
    <2>6. JournalIsTrue(w)'
      BY <2>1, <2>2, <2>3, <2>4, <2>5 DEF JournalIsTrue, Done, Targets, Even
    <2>7. Recoverable(w)' /\ StepIsTrue(p)'
      BY <2>3, <2>4, <2>5 DEF Recoverable, StepIsTrue, Journal
    <2> QED BY <2>1, <2>3, <2>4, <2>6, <2>7, <1>0, WorkingStep DEF Driving
  <1>5. ASSUME NEW p \in Apps, Cleans(p) PROVE JournalsAreTrue'
    <2> DEFINE w == WorkspaceOf[p]
               j == journal[w]
               k == [j EXCEPT !.backups = {}]
    <2>1. memPc[p] = "clean" /\ j = Journal(p) /\ j \in Journals /\ JournalIsTrue(w)
          /\ w \in Workspaces /\ j # None
      BY <1>0, <1>5 DEF Cleans, Driving, Journal
    <2>2. j.state = "committed" /\ \A f \in Targets(p) : Done(j, f)
      BY <1>0, <2>1 DEF StepIsTrue, Driving, JournalIsTrue, Targets
    <2>3. CASE j.backups = {}
      <3>1. /\ memLock' \subseteq memLock /\ by' = by /\ notes' = notes
            /\ journal' = [journal EXCEPT ![w] = None]
            /\ acked' = acked \cup {j.update}
            /\ memPc'[p] \notin Driving /\ \A q \in Apps \ {p} : memPc'[q] = memPc[q]
        BY <1>5, <2>1, <2>3 DEF Cleans, Moves, MemTypeOK, Driving
      <3> QED BY <2>1, <2>2, <3>1, JournalGoes DEF Driving
    <2>4. CASE j.backups # {}
      <3>1. /\ memLock = {p} /\ memLock' = memLock /\ by' = by /\ acked' = acked
            /\ notes' = notes /\ journal' = [journal EXCEPT ![w] = k] /\ memPc' = memPc
        BY <1>0, <1>5, <2>1, <2>4 DEF Cleans, Driving
      <3>2. k \in Journals /\ k.state = j.state /\ k.update = j.update /\ k.old = j.old
        <4> HIDE DEF j
        <4>1. k.state = j.state /\ k.update = j.update /\ k.old = j.old
          BY <2>1, JournalChanges
        <4>2. {} \in SUBSET Files
          OBVIOUS
        <4>3. k \in Journals
          BY <2>1, <4>2, JournalFields
        <4> QED BY <4>1, <4>3
      <3> HIDE DEF k
      <3>3. journal'[w] = k
        BY <2>1, <3>1 DEF MemTypeOK
      <3>4. JournalIsTrue(w)'
        BY <2>1, <2>2, <3>1, <3>2, <3>3 DEF JournalIsTrue, Done, Targets, Even
      <3>5. Recoverable(w)' /\ StepIsTrue(p)'
        BY <2>1, <2>2, <3>1, <3>2, <3>3 DEF Recoverable, StepIsTrue, Journal
      <3> QED BY <2>1, <3>1, <3>2, <3>4, <3>5, <1>0, WorkingStep DEF Driving
    <2> QED BY <2>3, <2>4
  <1>6. ASSUME NEW p \in Apps, UpdateFails(p) PROVE JournalsAreTrue'
    <2>1. memPc[p] \in {"swap", "mark", "clean"} /\ memPc[p] \in Driving
      BY <1>6 DEF UpdateFails, Driving
    <2>2. /\ notes' = notes /\ journal' = journal /\ by' = by /\ acked' = acked
          /\ memFaults' = memFaults + 1 /\ memFaults \in Nat
          /\ memPc'[p] = "undo" /\ left'[p] = Targets(p)
          /\ \A q \in Apps \ {p} : memPc'[q] = memPc[q] /\ left'[q] = left[q]
      BY <1>6 DEF UpdateFails, Undoes, Moves, MemTypeOK
    <2>3. \A q \in memLock : memPc[q] # "undo"
      BY <1>0, <2>1
    <2>4. memFaults' >= 1 /\ memFaults' >= memFaults /\ (memFaults' <= 1 => memFaults <= 1)
      BY <2>2
    <2> QED BY <2>2, <2>3, <2>4, Unrestored, FaultStep DEF Driving
  <1>7. ASSUME NEW p \in Apps, SwitchesOff(p) PROVE JournalsAreTrue'
    <2>1. memLock = {p} /\ memPc[p] \in {"undo", "load"}
      BY <1>7, Alone DEF SwitchesOff
    <2>2. /\ notes' = notes /\ journal' = journal /\ by' = by /\ acked' = acked
          /\ memPc'[p] = "idle" /\ memFaults \in Nat
          /\ \A q \in Apps \ {p} : memPc'[q] = memPc[q] /\ left'[q] = left[q]
      BY <1>7 DEF SwitchesOff, Moves, MemTypeOK
    <2>3. memFaults' = memFaults + 1 \/ (memFaults' = memFaults /\ memFaults > 1)
      BY <1>7, NothingIsMissing DEF SwitchesOff
    <2>4. \A w \in Workspaces : journal[w] # None /\ journal[w].state = "open" => memFaults >= 1
      BY <2>1 DEF JournalsAreTrue, Recoverable, Attended
    <2>5. \A w \in Workspaces : journal[w] # None /\ journal[w].state = "open" => memFaults' > 1
      BY <2>2, <2>3, <2>4
    <2>6. memFaults' >= memFaults /\ memFaults' \in Nat
      BY <2>2, <2>3
    <2>7. \A w \in Workspaces : journal[w] # None /\ journal[w].state = "open" =>
             memFaults' >= 1 /\ ~(memFaults' <= 1)
      BY <2>5, <2>6
    <2> QED BY <2>2, <2>6, <2>7, FaultStep DEF Driving
  <1>8. ASSUME NEW p \in Apps, NEW f \in Files, Restores(p, f) PROVE JournalsAreTrue'
    <2> DEFINE w == WorkspaceOf[p]
               j == journal[w]
    <2>1. memPc[p] = "undo" /\ f \in left[p] /\ j = Journal(p) /\ j \in Journals
          /\ w \in Workspaces /\ f \in Targets(p) /\ j # None
          /\ JournalIsTrue(w) /\ Recoverable(w) /\ StepIsTrue(p)
      BY <1>0, <1>8 DEF Restores, Driving, Journal
    <2>2. /\ memLock = {p} /\ memLock' = memLock /\ by' = by /\ acked' = acked /\ memPc' = memPc
          /\ memFaults' = memFaults /\ left' = [left EXCEPT ![p] = @ \ {f}]
          /\ left'[p] = left[p] \ {f}
      BY <1>0, <1>8, <2>1 DEF Restores, Driving, MemTypeOK
    <2>3. CASE j.state = "committed"
      <3>1. notes' = notes /\ journal' = journal /\ journal' = [journal EXCEPT ![w] = j]
        BY <1>8, <2>1, <2>3 DEF Restores, MemTypeOK
      <3>2. JournalIsTrue(w)'
        BY <2>1, <2>2, <3>1 DEF JournalIsTrue, Done, Even
      <3>3. Recoverable(w)' /\ StepIsTrue(p)'
        BY <2>1, <2>2, <2>3, <3>1 DEF Recoverable, StepIsTrue, Journal
      <3> QED BY <2>1, <2>2, <3>1, <3>2, <3>3, WorkingStep
    <2>4. CASE j.state = "open"
      <3> DEFINE k == [j EXCEPT !.backups = j.backups \ {f}]
      <3>1. /\ notes' = [notes EXCEPT ![f] = j.old[f]]
            /\ journal' = [journal EXCEPT ![w] = k]
        BY <1>8, <2>1, <2>4 DEF Restores
      <3>2. /\ k.state = j.state /\ k.update = j.update /\ k.old = j.old
            /\ k.backups = j.backups \ {f}
        BY <2>1, JournalChanges
      <3>3. k \in Journals
        <4>1. j.backups \ {f} \in SUBSET Files
          BY <2>1, JournalFields
        <4> QED BY <2>1, <4>1, JournalFields
      <3> HIDE DEF k
      <3>4. journal'[w] = k
        BY <2>1, <3>1 DEF MemTypeOK
      <3>5. notes'[f] = j.old[f] /\ \A h \in Files \ {f} : notes'[h] = notes[h]
        BY <3>1 DEF MemTypeOK
      <3>6. JournalIsTrue(w)'
        BY <2>1, <2>2, <2>4, <3>2, <3>4, <3>5 DEF JournalIsTrue, Done, Even, Targets
      <3>7. Recoverable(w)'
        <4>1. Attended(w)'
          BY <2>1, <2>2, <2>4 DEF Recoverable, Attended
        <4>2. \A h \in {w, "user"} : Backed(w, h) => Backed(w, h)'
          BY <2>1, <2>2, <3>2, <3>4 DEF Backed
        <4> QED BY <4>1, <4>2, <2>1, <2>2, <2>4 DEF Recoverable
      <3>8. StepIsTrue(p)'
        <4>1. \A h \in Targets(p) \ left'[p] : notes'[h] = j.old[h]
          BY <2>1, <2>2, <2>4, <3>5 DEF StepIsTrue
        <4> QED BY <2>1, <2>2, <3>2, <3>4, <4>1 DEF StepIsTrue, Journal, Targets
      <3> QED BY <2>1, <2>2, <3>1, <3>3, <3>6, <3>7, <3>8, WorkingStep
    <2> QED BY <2>1, <2>3, <2>4 DEF Journals
  <1>9. ASSUME NEW p \in Apps, Recovered(p) PROVE JournalsAreTrue'
    <2>1. memPc[p] = "undo" /\ left[p] = {} /\ memPc[p] \in Driving
      BY <1>9 DEF Recovered, Driving
    <2>2. \/ \A f \in Targets(p) : notes[f] = Journal(p).old[f]
          \/ \A f \in Targets(p) : Done(Journal(p), f)
      BY <1>0, <2>1 DEF StepIsTrue, JournalIsTrue, Journals, Journal, Targets
    <2>3. /\ memLock' \subseteq memLock /\ by' = by /\ notes' = notes /\ acked' = acked
          /\ journal' = [journal EXCEPT ![WorkspaceOf[p]] = None]
          /\ memPc'[p] \notin Driving /\ \A q \in Apps \ {p} : memPc'[q] = memPc[q]
      BY <1>9 DEF Recovered, Moves, MemTypeOK, Driving
    <2> QED BY <2>1, <2>2, <2>3, JournalGoes
  <1>10. ASSUME NEW p \in Apps, Loads(p) PROVE JournalsAreTrue'
    <2>1. /\ notes' = notes /\ journal' = journal /\ by' = by /\ acked' = acked
          /\ memFaults' = memFaults /\ memPc[p] \notin Driving
      BY <1>10 DEF Loads, Driving
    <2>2. CASE memLock # {}
      <3>1. /\ left' = left /\ memLock' = memLock /\ memPc'[p] \notin Driving
            /\ \A q \in Apps \ {p} : memPc'[q] = memPc[q]
        BY <1>10, <2>2 DEF Loads, Moves, MemTypeOK, Driving
      <3> QED BY <2>1, <3>1, RestingStep
    <2>3. CASE memLock = {}
      <3>1. /\ memPc'[p] \in {"load", "undo"} /\ (memPc'[p] = "undo" => left'[p] = Targets(p))
            /\ \A q \in Apps \ {p} : memPc'[q] = memPc[q] /\ left'[q] = left[q]
        <4>1. CASE Journal(p) = None
          BY <1>10, <2>3, <4>1 DEF Loads, Moves, MemTypeOK
        <4>2. CASE Journal(p) # None
          BY <1>10, <2>3, <4>2 DEF Loads, Undoes, Moves, MemTypeOK
        <4> QED BY <4>1, <4>2
      <3>2. \A w \in Workspaces : journal[w] # None /\ journal[w].state = "open" => memFaults >= 1
        BY <2>3 DEF JournalsAreTrue, Recoverable, Attended
      <3>3. memFaults' >= memFaults
        BY <2>1 DEF MemTypeOK
      <3>4. \A w \in Workspaces : journal[w] # None /\ journal[w].state = "open" =>
              /\ memFaults' >= 1
              /\ memFaults' <= 1 => \A f \in {w, "user"} :
                                      journal[w].old[f] = {} \/ f \in journal[w].backups
        BY <2>1, <2>3, <3>2, Unrestored
      <3> QED BY <2>1, <3>1, <3>3, <3>4, FaultStep DEF Driving
    <2> QED BY <2>2, <2>3
  <1>11. ASSUME NEW p \in Apps, Loaded(p) PROVE JournalsAreTrue'
    <2>1. \A w \in Workspaces : journal[w] = None
      BY <1>11 DEF Loaded
    <2>2. journal' = journal
      BY <1>11, <2>1 DEF Loaded, OrphansOf, MemTypeOK
    <2>3. /\ notes' = notes /\ by' = by /\ acked' = acked
          /\ \A q \in Apps : memPc'[q] = memPc[q] \/ memPc'[q] = "idle"
      BY <1>11 DEF Loaded, Moves, MemTypeOK
    <2>4. \A q \in Apps : memPc'[q] \notin Driving
      BY <2>1, <2>3, <1>0 DEF Driving, Journal
    <2> QED BY <2>1, <2>2, <2>3, <2>4 DEF JournalsAreTrue, StepIsTrue, Driving, Even
  <1>12. ASSUME NEW p \in Apps, AppDies(p) PROVE JournalsAreTrue'
    <2>1. /\ notes' = notes /\ journal' = journal /\ by' = by /\ acked' = acked
          /\ memFaults' = memFaults + 1 /\ memFaults \in Nat /\ memPc'[p] = "down"
          /\ \A q \in Apps \ {p} : memPc'[q] = memPc[q] /\ left'[q] = left[q]
      BY <1>12 DEF AppDies, Moves, MemTypeOK
    <2>2. memFaults' >= 1 /\ memFaults' >= memFaults
          /\ (memFaults' <= 1 => memFaults <= 1 /\ ~(memFaults >= 1))
      BY <2>1
    <2>3. ASSUME NEW w \in Workspaces, journal[w] # None, journal[w].state = "open",
                 memFaults' <= 1
          PROVE  \A f \in {w, "user"} : journal[w].old[f] = {} \/ f \in journal[w].backups
      <3>1. Attended(w)
        BY <2>3 DEF JournalsAreTrue, Recoverable
      <3>2. PICK q \in memLock : memPc[q] \in {"swap", "mark"}
        BY <2>2, <2>3, <3>1 DEF Attended
      <3>3. memLock = {q}
        BY <3>2 DEF Locked
      <3>4. \A r \in memLock : memPc[r] # "undo"
        BY <3>2, <3>3
      <3> QED BY <2>2, <2>3, <3>4, Unrestored
    <2> QED BY <2>1, <2>2, <2>3, FaultStep DEF Driving
  <1> QED BY <1>1, <1>2, <1>3, <1>4, <1>5, <1>6, <1>7, <1>8, <1>9, <1>10, <1>11, <1>12 DEF MemNext


\* What is loaded is read when there is no journal; and new updates are in nothing loaded.
LEMMA WholeStep ==
    ASSUME MemTypeOK, Recorded, Locked, JournalsAreTrue, UpdatesAreWhole, MemNext, ~crossed',
           ~crossed
    PROVE  UpdatesAreWhole'
  <1> USE JournalFacts
  <1> DEFINE Level(v, p) ==
               \A n \in 1..Len(by) : by[n] = WorkspaceOf[p] => (n \in v.own <=> n \in v.user)
  <1>1. \A p \in Apps : Level(view[p], p)
    BY DEF UpdatesAreWhole
  <1>2. \A p \in Apps : Level(view'[p], p)
    <2>1. CASE view' = view
      BY <1>1, <2>1
    <2>2. ASSUME NEW p \in Apps, Loaded(p) PROVE \A q \in Apps : Level(view'[q], q)
      <3>1. Even(notes)
        BY <2>2 DEF Loaded, JournalsAreTrue
      <3>2. view' = [view EXCEPT ![p] = [own |-> notes[WorkspaceOf[p]], user |-> notes["user"]]]
        BY <2>2 DEF Loaded
      <3> QED BY <1>1, <3>1, <3>2 DEF Even, MemTypeOK
    <2>3. ASSUME NEW p \in Apps, AppDies(p) PROVE \A q \in Apps : Level(view'[q], q)
      BY <1>1, <2>3 DEF AppDies, Nothing, MemTypeOK
    <2> QED BY <2>1, <2>2, <2>3 DEF MemNext, Schedules, Refused, Applies, Replace, Mark, Cleans,
               UpdateFails, SwitchesOff, Restores, Recovered, Loads, AppStarts
  <1>3. CASE by' = by
    BY <1>2, <1>3 DEF UpdatesAreWhole
  <1>4. ASSUME NEW p \in Apps, by' = Append(by, WorkspaceOf[p]), Applies(p) PROVE UpdatesAreWhole'
    <2>1. /\ Len(by) \in Nat /\ Len(by') = Len(by) + 1 /\ view' = view
          /\ \A n \in 1..Len(by) : by'[n] = by[n]
      BY <1>4 DEF Applies, MemTypeOK
    <2>2. ASSUME NEW q \in Apps, NEW n \in 1..Len(by'), by'[n] = WorkspaceOf[q]
          PROVE  n \in view[q].own <=> n \in view[q].user
      <3>1. CASE n \in 1..Len(by)
        BY <1>1, <2>1, <2>2, <3>1
      <3>2. CASE n \notin 1..Len(by)
        BY <3>2 DEF Recorded
      <3> QED BY <3>1, <3>2
    <2> QED BY <2>1, <2>2 DEF UpdatesAreWhole
  <1> QED BY <1>3, <1>4, UpdatesGrow

\* A store becomes unreadable after a second fault only.
LEMMA OneFaultStep ==
    ASSUME MemTypeOK, Locked, JournalsAreTrue, OneFaultIsSurvived, MemNext, ~crossed', ~crossed
    PROVE  OneFaultIsSurvived'
  <1> SUFFICES ASSUME memFaults' <= 1, NEW q \in Apps, enabled'[q] = "lost", enabled[q] # "lost"
               PROVE  FALSE
    <2>1. memFaults' = memFaults \/ memFaults' = memFaults + 1
      BY DEF MemNext, Schedules, Refused, Applies, Replace, Mark, Cleans, UpdateFails, SwitchesOff,
             Restores, Recovered, Loads, Loaded, AppDies, AppStarts
    <2>2. memFaults' <= 1 => memFaults <= 1
      <3>1. memFaults \in Nat
        BY MemoryAssumption DEF MemTypeOK
      <3> QED BY <2>1, <3>1
    <2> QED BY <2>2 DEF OneFaultIsSurvived
  <1>1. \A p \in Apps : ~Loads(p) /\ ~Loaded(p) /\ ~AppDies(p)
    BY DEF Loads, Loaded, AppDies, MemTypeOK
  <1>2. PICK p \in Apps : SwitchesOff(p)
    BY <1>1 DEF MemNext, Schedules, Refused, Applies, Replace, Mark, Cleans, UpdateFails,
                Restores, Recovered, AppStarts
  <1>3. /\ memPc[p] = "undo" /\ memFaults' = memFaults
        /\ \E f \in left[p] : Lost(Journal(p), f)
    BY <1>2 DEF SwitchesOff, MemTypeOK
  <1>4. memFaults > 1
    BY <1>3, NothingIsMissing
  <1> QED BY <1>3, <1>4 DEF MemTypeOK

\* What was saved is in the user's notes.
LEMMA SavedIsThere == MemInv => SavedStaysAlone
  <1> SUFFICES ASSUME MemInv, ~crossed PROVE acked \subseteq notes["user"]
    BY DEF SavedStaysAlone
  <1>1. CASE \A w \in Workspaces : journal[w] = None
    BY <1>1 DEF MemInv, JournalsAreTrue
  <1>2. CASE \E w \in Workspaces : journal[w] # None
    <2>1. PICK w \in Workspaces : journal[w] # None
      BY <1>2
    <2>2. JournalIsTrue(w)
      BY <2>1 DEF MemInv, JournalsAreTrue
    <2> QED BY <2>2 DEF JournalIsTrue, Done
  <1> QED BY <1>1, <1>2

\* Nothing is remembered yet.
LEMMA InitMemInv == MemInit => MemInv
  <1> SUFFICES ASSUME MemInit PROVE MemInv
    OBVIOUS
  <1>1. /\ by = <<>> /\ Len(by) = 0 /\ by \in Seq(Workspaces) /\ 1..Len(by) = {}
        /\ \A n \in 1..Len(by) : FALSE
    BY DEF MemInit
  <1>2. MemTypeOK
    <2>1. /\ notes \in [Files -> SUBSET Updates] /\ journal \in [Workspaces -> Journals \cup {None}]
          /\ memPc = [p \in Apps |-> "start"] /\ left \in [Apps -> SUBSET Files]
          /\ view \in [Apps -> [own : SUBSET Updates, user : SUBSET Updates]]
      BY DEF MemInit, Nothing
    <2>2. 0 \in 0..MaxMemFaults /\ 0 <= MaxUpdates
      BY MemoryAssumption
    <2> QED BY <1>1, <2>1, <2>2 DEF MemInit, MemTypeOK
  <1>3. Recorded /\ Locked
    BY <1>1 DEF MemInit, Recorded, Locked, Driving, Nothing, Files
  <1>4. JournalsAreTrue
    BY <1>1 DEF MemInit, JournalsAreTrue, StepIsTrue, Even, Files
  <1>5. UpdatesAreWhole /\ OneFaultIsSurvived
    BY <1>1 DEF MemInit, UpdatesAreWhole, OneFaultIsSurvived
  <1> QED BY <1>2, <1>3, <1>4, <1>5 DEF MemInv

\* Every step of the memory keeps its invariant.
LEMMA StepMemInv == MemInv /\ [MemNext]_memvars => MemInv'
  <1> SUFFICES ASSUME MemInv, [MemNext]_memvars PROVE MemInv'
    OBVIOUS
  <1>1. MemTypeOK' /\ Recorded' /\ Locked'
    BY MemTypeStep, RecordedStep, LockedStep DEF MemInv
  <1>2. CASE UNCHANGED memvars
    BY <1>1, <1>2 DEF MemInv, memvars, JournalsAreTrue, UpdatesAreWhole, OneFaultIsSurvived,
                      JournalIsTrue, Recoverable, Attended, Backed, StepIsTrue, Even, Done, Journal
  <1>3. CASE MemNext
    <2>1. ~crossed' => ~crossed
      BY <1>3 DEF MemNext, Schedules, Refused, Applies, Replace, Mark, Cleans, UpdateFails,
                  SwitchesOff, Restores, Recovered, Loads, Loaded, AppDies, AppStarts
    <2> QED BY <1>1, <1>3, <2>1, JournalsStep, WholeStep, OneFaultStep DEF MemInv
  <1> QED BY <1>2, <1>3

\* Every state of the memory, for any processes and workspaces and any number of updates and
\* faults: memory_store.py's journal says of every file what it was and what it is to become.
THEOREM MemoryInvariant == MemSpec => []MemInv
  BY InitMemInv, StepMemInv, PTL DEF MemSpec

\* Whatever step an update is cut off at, and its recovery again: it is loaded whole or not at
\* all, one fault never makes the store unreadable, and what apply() said is saved stays, as
\* long as nobody works over an update that was interrupted.
THEOREM MemoryIsKeptAlways == MemSpec => []MemoryIsKept
  <1>1. MemInv => MemoryIsKept
    BY SavedIsThere DEF MemInv, MemoryIsKept, UpdatesAreWhole, OneFaultIsSurvived, SavedStaysAlone
  <1> QED BY <1>1, MemoryInvariant, PTL

-----------------------------------------------------------------------------
(* the log of a session *)

\* What a line of the file is.
Lines == {Start, Torn, Garbage, Cleared}
           \cup {History(o, list) : o \in {"append", "replace"}, list \in Seq(Message)}
           \cup {Inbound(m) : m \in Message} \cup {PlanState(n) : n \in 0..MaxLogged}

\* A file begins with the line that it was made with, and at most its last one was cut off.
IsALog(lines) ==
    /\ lines \in Seq(Lines) /\ Len(lines) >= 1 /\ lines[1] = Start
    /\ \A i \in 1..Len(lines) - 1 : lines[i] # Torn
FileIsALog == file # Gone => IsALog(file)

\* Who has the session open has its lock and its file, the file to its last line.
OpenIsHeld ==
    /\ \A p \in logHolder : logHolder = {p}
    /\ \A p \in Programs : p \in logHolder <=> logAt[p] = "in"
    /\ \A p \in Programs : logAt[p] = "in" => file # Gone
    /\ \A p \in Programs : logAt[p] = "in" /\ ~spoilt => Last(file) # Torn

LogInv == LogTypeOK /\ FileIsALog /\ OpenIsHeld /\ BoundIsStored

\* What the kinds of lines are told apart by.
LEMMA KindsOfLines ==
    /\ Start # Torn /\ Garbage # Torn /\ Cleared # Torn /\ Start # [what |-> "gone"]
    /\ \A o, list : History(o, list) # Torn
    /\ \A m : Inbound(m) # Torn
    /\ \A n : PlanState(n) # Torn
  BY DEF Start, Torn, Garbage, Cleared, History, Inbound, PlanState

\* How each kind of line changes what was read.
LEMMA ReplayedFacts ==
    ASSUME NEW b \in Binding
    PROVE  /\ Replayed(b, Start) = b /\ Replayed(b, Torn) = b /\ Replayed(b, Garbage) = b
           /\ Replayed(b, Cleared) = [b EXCEPT !.messages = <<>>, !.ids = {}]
           /\ \A list : Replayed(b, History("append", list)) =
                          [b EXCEPT !.messages = b.messages \o list]
           /\ \A list : Replayed(b, History("replace", list)) = [b EXCEPT !.messages = list]
           /\ \A m : Replayed(b, Inbound(m)) = [b EXCEPT !.messages = b.messages \o <<m>>,
                                                         !.ids = b.ids \cup {m.n}]
           /\ \A n : Replayed(b, PlanState(n)) = [b EXCEPT !.plan = n]
  <1>1. Replayed(b, Start) = b /\ Replayed(b, Torn) = b /\ Replayed(b, Garbage) = b
    BY DEF Replayed, Start, Torn, Garbage
  <1>2. Replayed(b, Cleared) = [b EXCEPT !.messages = <<>>, !.ids = {}]
    BY DEF Replayed, Cleared
  <1>3. ASSUME NEW list
        PROVE  Replayed(b, History("append", list)) = [b EXCEPT !.messages = b.messages \o list]
    BY DEF Replayed, History, Binding
  <1>4. ASSUME NEW list
        PROVE  Replayed(b, History("replace", list)) = [b EXCEPT !.messages = list]
    BY DEF Replayed, History, Binding
  <1>5. ASSUME NEW m
        PROVE  Replayed(b, Inbound(m)) = [b EXCEPT !.messages = b.messages \o <<m>>,
                                                   !.ids = b.ids \cup {m.n}]
    BY DEF Replayed, Inbound
  <1>6. ASSUME NEW n PROVE Replayed(b, PlanState(n)) = [b EXCEPT !.plan = n]
    BY DEF Replayed, PlanState
  <1> QED BY <1>1, <1>2, <1>3, <1>4, <1>5, <1>6

\* What is read stays of its type.
LEMMA ReplayedType ==
    ASSUME NEW b \in Binding, NEW line \in Lines
    PROVE  Replayed(b, line) \in Binding
  <1>1. b.messages \in Seq(Message) /\ b.ids \subseteq 1..MaxLogged /\ b.plan \in 0..MaxLogged
    BY DEF Binding
  <1>2. CASE line \in {Start, Torn, Garbage, Cleared}
    <2>1. <<>> \in Seq(Message) /\ {} \subseteq 1..MaxLogged
      BY EmptySeq
    <2>2. [b EXCEPT !.messages = <<>>, !.ids = {}] \in Binding
      BY <1>1, <2>1 DEF Binding
    <2>3. Replayed(b, Start) = b /\ Replayed(b, Torn) = b /\ Replayed(b, Garbage) = b
          /\ Replayed(b, Cleared) = [b EXCEPT !.messages = <<>>, !.ids = {}]
      BY ReplayedFacts
    <2>4. line = Start \/ line = Torn \/ line = Garbage \/ line = Cleared
      BY <1>2
    <2> QED BY <2>2, <2>3, <2>4
  <1>3. ASSUME NEW list \in Seq(Message),
               line = History("append", list) \/ line = History("replace", list)
        PROVE  Replayed(b, line) \in Binding
    <2>1. b.messages \o list \in Seq(Message)
      BY <1>1
    <2>2. [b EXCEPT !.messages = b.messages \o list] \in Binding
          /\ [b EXCEPT !.messages = list] \in Binding
      BY <1>3, <2>1 DEF Binding
    <2>3. Replayed(b, History("append", list)) = [b EXCEPT !.messages = b.messages \o list]
          /\ Replayed(b, History("replace", list)) = [b EXCEPT !.messages = list]
      BY ReplayedFacts
    <2>4. CASE line = History("append", list)
      BY <2>2, <2>3, <2>4
    <2>5. CASE line = History("replace", list)
      BY <2>2, <2>3, <2>5
    <2> QED BY <1>3, <2>4, <2>5
  <1>4. ASSUME NEW m \in Message, line = Inbound(m) PROVE Replayed(b, line) \in Binding
    <2>1. b.messages \o <<m>> \in Seq(Message) /\ m.n \in 1..MaxLogged
      BY <1>1 DEF Message
    <2>2. [b EXCEPT !.messages = b.messages \o <<m>>, !.ids = b.ids \cup {m.n}] \in Binding
      BY <1>1, <2>1 DEF Binding
    <2> QED BY <1>4, <2>2, ReplayedFacts
  <1>5. ASSUME NEW n \in 0..MaxLogged, line = PlanState(n) PROVE Replayed(b, line) \in Binding
    <2>1. [b EXCEPT !.plan = n] \in Binding
      BY DEF Binding
    <2> QED BY <1>5, <2>1, ReplayedFacts
  <1>6. \/ line \in {Start, Torn, Garbage, Cleared}
        \/ \E o \in {"append", "replace"}, list \in Seq(Message) : line = History(o, list)
        \/ \E m \in Message : line = Inbound(m)
        \/ \E n \in 0..MaxLogged : line = PlanState(n)
    BY DEF Lines
  <1> QED BY <1>2, <1>3, <1>4, <1>5, <1>6

\* What reading the lines one after the other is.
LEMMA ReplaySteps ==
    ASSUME NEW lines \in Seq(Lines)
    PROVE  \E r : /\ r[0] = Empty /\ \A n \in 0..Len(lines) : r[n] \in Binding
                  /\ \A n \in 1..Len(lines) : r[n] = Replayed(r[n - 1], lines[n])
                  /\ Replay(lines) = r[Len(lines)]
  <1> DEFINE N == Len(lines)
             step == [a \in Binding \X (1..N) |-> Replayed(a[1], lines[a[2]])]
             Rest(g) == [n \in 0..N |-> IF n = 0 THEN Empty ELSE Replayed(g[n - 1], lines[n])]
             r == CHOOSE f : f = Rest(f)
  <1>1. N \in Nat /\ Empty \in Binding /\ \A n \in 1..N : lines[n] \in Lines
    <2>1. 0 \in 0..MaxLogged
      BY LogAssumption
    <2> QED BY <2>1 DEF Empty, Binding
  <1>2. step \in Steps(Binding, N)
    <2>1. ASSUME NEW q \in Binding, NEW n \in 1..N PROVE step[<<q, n>>] \in Binding
      BY <1>1, ReplayedType
    <2> QED BY <2>1 DEF Steps
  <1>3. \A q \in Binding, n \in 1..N : step[<<q, n>>] = Replayed(q, lines[n])
    OBVIOUS
  <1> HIDE DEF step, N
  <1>4. PICK g : Iterates(g, Binding, N, Empty, step)
    BY <1>1, <1>2, Iteration
  <1>5. g = Rest(g)
    <2>1. g \in [0..N -> Binding] /\ g[0] = Empty /\ \A n \in 1..N : g[n] = step[<<g[n - 1], n>>]
      BY <1>4 DEF Iterates
    <2>2. ASSUME NEW n \in 0..N PROVE g[n] = Rest(g)[n]
      <3>1. CASE n = 0
        BY <2>1, <3>1
      <3>2. CASE n # 0
        <4>1. n \in 1..N /\ n - 1 \in 0..N
          BY <1>1, <3>2
        <4>2. g[n - 1] \in Binding /\ g[n] = step[<<g[n - 1], n>>]
          BY <2>1, <4>1
        <4> QED BY <1>3, <3>2, <4>1, <4>2
      <3> QED BY <3>1, <3>2
    <2> QED BY <2>1, <2>2
  <1>6. r = Rest(r)
    BY <1>5
  <1>7. Replay(lines) = r[N]
    BY DEF Replay, N
  <1> HIDE DEF r
  <1>8. \A n \in 0..N : r[n] = IF n = 0 THEN Empty ELSE Replayed(r[n - 1], lines[n])
    BY <1>6
  <1>9. r[0] = Empty /\ \A n \in 1..N : r[n] = Replayed(r[n - 1], lines[n])
    <2>1. 0 \in 0..N /\ \A n \in 1..N : n \in 0..N /\ n # 0
      BY <1>1
    <2> QED BY <1>8, <2>1
  <1> DEFINE T == {n \in Nat : n <= N => r[n] \in Binding}
  <1>10. 0 \in T
    BY <1>1, <1>9
  <1>11. ASSUME NEW n \in Nat, n \in T PROVE n + 1 \in T
    <2> SUFFICES ASSUME n + 1 <= N PROVE r[n + 1] \in Binding
      OBVIOUS
    <2>1. n + 1 \in 1..N /\ (n + 1) - 1 = n /\ n <= N
      BY <1>1
    <2>2. r[n] \in Binding /\ lines[n + 1] \in Lines
      BY <1>1, <1>11, <2>1
    <2>3. r[n + 1] = Replayed(r[n], lines[n + 1])
      BY <1>9, <2>1
    <2> QED BY <2>2, <2>3, ReplayedType
  <1> HIDE DEF T
  <1>12. Nat \subseteq T
    BY <1>10, <1>11, NatSets
  <1>13. \A n \in 0..N : r[n] \in Binding
    BY <1>1, <1>12 DEF T
  <1> QED BY <1>7, <1>9, <1>13 DEF N

\* What is read of a file, and of one that is a line longer.
LEMMA ReplayFacts ==
    ASSUME NEW lines \in Seq(Lines)
    PROVE  /\ Replay(lines) \in Binding
           /\ \A line \in Lines : Replay(Append(lines, line)) = Replayed(Replay(lines), line)
  <1>1. PICK r : /\ r[0] = Empty /\ \A n \in 0..Len(lines) : r[n] \in Binding
                 /\ \A n \in 1..Len(lines) : r[n] = Replayed(r[n - 1], lines[n])
                 /\ Replay(lines) = r[Len(lines)]
    BY ReplaySteps
  <1>2. Replay(lines) \in Binding
    BY <1>1
  <1>3. ASSUME NEW line \in Lines PROVE Replay(Append(lines, line)) = Replayed(Replay(lines), line)
    <2> DEFINE more == Append(lines, line)
               N == Len(lines)
    <2>1. /\ more \in Seq(Lines) /\ Len(more) = N + 1 /\ more[N + 1] = line /\ N \in Nat
          /\ \A n \in 1..N : more[n] = lines[n]
      OBVIOUS
    <2> HIDE DEF more, N
    <2>2. PICK q : /\ q[0] = Empty /\ \A n \in 0..Len(more) : q[n] \in Binding
                   /\ \A n \in 1..Len(more) : q[n] = Replayed(q[n - 1], more[n])
                   /\ Replay(more) = q[Len(more)]
      BY <2>1, ReplaySteps
    <2> DEFINE T == {n \in Nat : n <= N => q[n] = r[n]}
    <2>3. 0 \in T
      BY <1>1, <2>2
    <2>4. ASSUME NEW n \in Nat, n \in T PROVE n + 1 \in T
      <3> SUFFICES ASSUME n + 1 <= N PROVE q[n + 1] = r[n + 1]
        OBVIOUS
      <3>1. n + 1 \in 1..N /\ n + 1 \in 1..Len(more) /\ (n + 1) - 1 = n /\ n <= N
        BY <2>1
      <3>2. q[n + 1] = Replayed(q[n], more[n + 1])
        BY <2>2, <3>1
      <3>3. r[n + 1] = Replayed(r[n], lines[n + 1])
        BY <1>1, <3>1 DEF N
      <3> QED BY <2>1, <2>4, <3>1, <3>2, <3>3
    <2> HIDE DEF T
    <2>5. Nat \subseteq T
      BY <2>3, <2>4, NatSets
    <2>6. q[N] = r[N]
      BY <2>1, <2>5 DEF T
    <2>7. N + 1 \in 1..Len(more) /\ (N + 1) - 1 = N
      BY <2>1
    <2>8. q[N + 1] = Replayed(q[N], line)
      BY <2>1, <2>2, <2>7
    <2> QED BY <1>1, <2>1, <2>2, <2>6, <2>8 DEF more, N
  <1> QED BY <1>2, <1>3

\* An empty file has nothing to read.
LEMMA ReplayNothing == Replay(<<>>) = Empty
  <1>1. <<>> \in Seq(Lines) /\ Len(<<>>) = 0
    BY EmptySeq
  <1> QED BY <1>1, ReplaySteps

\* The line of each kind of change is a line that is whole.
LEMMA LinesOfChanges ==
    /\ \A o \in {"append", "replace"}, list \in Seq(Message) :
         History(o, list) \in Lines /\ History(o, list) # Torn
    /\ \A m \in Message : Inbound(m) \in Lines /\ Inbound(m) # Torn
    /\ \A n \in 0..MaxLogged : PlanState(n) \in Lines /\ PlanState(n) # Torn
  <1>1. ASSUME NEW o \in {"append", "replace"}, NEW list \in Seq(Message)
        PROVE  History(o, list) \in Lines
    BY DEF Lines
  <1>2. ASSUME NEW m \in Message PROVE Inbound(m) \in Lines
    BY DEF Lines
  <1>3. ASSUME NEW n \in 0..MaxLogged PROVE PlanState(n) \in Lines
    BY DEF Lines
  <1> QED BY <1>1, <1>2, <1>3, KindsOfLines

\* commit_history: reading the line gives the history that was committed.
LEMMA LineOfFacts ==
    ASSUME NEW b \in Binding, NEW list \in Seq(Message)
    PROVE  /\ LineOf(b.messages, list) \in Lines /\ LineOf(b.messages, list) # Torn
           /\ Replayed(b, LineOf(b.messages, list)) = [b EXCEPT !.messages = list]
  <1> DEFINE old == b.messages
             rest == SubSeq(list, Len(old) + 1, Len(list))
  <1>1. old \in Seq(Message) /\ Len(old) \in Nat /\ Len(list) \in Nat
    BY LenProperties DEF Binding
  <1>2. rest \in Seq(Message)
    <2>1. \A i \in (Len(old) + 1)..Len(list) : list[i] \in Message
      BY <1>1, ElementOfSeq
    <2> QED BY <1>1, <2>1, SubSeqProperties
  <1>3. CASE Extends(list, old)
    <2>1. Len(old) < Len(list) /\ SubSeq(old, 1, Len(old)) = SubSeq(list, 1, Len(old))
      BY <1>1, <1>3 DEF Extends, IsPrefix
    <2>2. SubSeq(list, 1, Len(old)) \o rest = SubSeq(list, 1, Len(list))
      <3>1. Len(old) \in (1 - 1)..Len(list) /\ Len(list) \in Len(old)..Len(list)
            /\ 1 \in 1..(Len(list) + 1)
        BY <1>1, <2>1
      <3> QED BY <3>1, ConcatAdjacentSubSeq
    <2>3. old \o rest = list
      BY <1>1, <2>1, <2>2, SubSeqFull
    <2>4. LineOf(old, list) = History("append", rest)
      BY <1>3 DEF LineOf
    <2> HIDE DEF rest
    <2>5. History("append", rest) \in Lines /\ History("append", rest) # Torn
      BY <1>2, LinesOfChanges
    <2>6. Replayed(b, History("append", rest)) = [b EXCEPT !.messages = old \o rest]
      BY ReplayedFacts
    <2> QED BY <2>3, <2>4, <2>5, <2>6
  <1>4. CASE ~Extends(list, old)
    <2>1. LineOf(old, list) = History("replace", list)
      BY <1>4 DEF LineOf
    <2>2. History("replace", list) \in Lines /\ History("replace", list) # Torn
      BY LinesOfChanges
    <2>3. Replayed(b, History("replace", list)) = [b EXCEPT !.messages = list]
      BY ReplayedFacts
    <2> QED BY <2>1, <2>2, <2>3
  <1> QED BY <1>3, <1>4

\* A line is added to a file that ends well.
LEMMA AppendedFacts ==
    ASSUME NEW lines, IsALog(lines), Last(lines) # Torn, NEW line \in Lines
    PROVE  /\ IsALog(Append(lines, line)) /\ Last(Append(lines, line)) = line
           /\ Replay(Append(lines, line)) = Replayed(Replay(lines), line)
  <1> DEFINE more == Append(lines, line)
  <1>1. lines \in Seq(Lines) /\ Len(lines) \in Nat /\ Len(lines) >= 1 /\ lines[1] = Start
        /\ \A i \in 1..Len(lines) : lines[i] # Torn
    BY LenProperties DEF IsALog, Last
  <1>2. /\ more \in Seq(Lines) /\ Len(more) = Len(lines) + 1 /\ more[Len(lines) + 1] = line
        /\ \A i \in 1..Len(lines) : more[i] = lines[i]
    BY <1>1, AppendProperties
  <1> HIDE DEF more
  <1>3. IsALog(more) /\ Last(more) = line
    BY <1>1, <1>2 DEF IsALog, Last
  <1> QED BY <1>1, <1>3, ReplayFacts DEF more

\* The line that was cut off can be removed: nothing was read of it.
LEMMA FrontFacts ==
    ASSUME NEW lines, IsALog(lines), Last(lines) = Torn
    PROVE  /\ IsALog(Front(lines)) /\ Last(Front(lines)) # Torn
           /\ Replay(lines) = Replay(Front(lines))
  <1> DEFINE front == Front(lines)
  <1>1. lines \in Seq(Lines) /\ Len(lines) \in Nat /\ Len(lines) >= 1 /\ lines[1] = Start
        /\ lines[Len(lines)] = Torn /\ \A i \in 1..(Len(lines) - 1) : lines[i] # Torn
    BY LenProperties DEF IsALog, Last
  <1>2. Len(lines) >= 2
    BY <1>1, KindsOfLines
  <1>3. /\ front \in Seq(Lines) /\ Len(front) = Len(lines) - 1
        /\ \A i \in 1..(Len(lines) - 1) : front[i] = lines[i]
    <2>1. \A i \in 1..(Len(lines) - 1) : lines[i] \in Lines
      BY <1>1, ElementOfSeq
    <2> QED BY <1>1, <1>2, <2>1, SubSeqProperties DEF Front
  <1> HIDE DEF front
  <1>4. IsALog(front) /\ Last(front) # Torn
    BY <1>1, <1>2, <1>3 DEF IsALog, Last
  <1>5. Torn \in Lines
    BY DEF Lines
  <1>6. lines = Append(front, Torn)
    <2>1. /\ Append(front, Torn) \in Seq(Lines) /\ Len(Append(front, Torn)) = Len(lines)
          /\ \A i \in 1..(Len(lines) - 1) : Append(front, Torn)[i] = lines[i]
          /\ Append(front, Torn)[Len(lines)] = lines[Len(lines)]
      BY <1>1, <1>3, <1>5, AppendProperties
    <2>2. \A i \in 1..Len(lines) : lines[i] = Append(front, Torn)[i]
      BY <1>1, <2>1
    <2> QED BY <1>1, <2>1, <2>2, SeqEqual
  <1>7. Replay(front) \in Binding /\ Replay(Append(front, Torn)) = Replayed(Replay(front), Torn)
    BY <1>3, <1>5, ReplayFacts
  <1>8. Replay(lines) = Replay(front)
    BY <1>6, <1>7, ReplayedFacts
  <1> QED BY <1>4, <1>8 DEF front

\* A file that was only begun, or begun again, has nothing to read.
LEMMA FreshFacts ==
    /\ IsALog(<<Start>>) /\ Last(<<Start>>) # Torn /\ Replay(<<Start>>) = Empty
    /\ IsALog(<<Start, Cleared>>) /\ Last(<<Start, Cleared>>) # Torn
    /\ Replay(<<Start, Cleared>>) = Empty
  <1>1. Start \in Lines /\ Cleared \in Lines /\ Start # Torn /\ Cleared # Torn
    BY KindsOfLines DEF Lines
  <1>2. Empty \in Binding
    BY ReplayNothing, ReplayFacts, EmptySeq
  <1>3. IsALog(<<Start>>) /\ Last(<<Start>>) # Torn
    BY <1>1 DEF IsALog, Last
  <1>4. Replay(<<Start>>) = Empty
    <2>1. <<>> \in Seq(Lines) /\ Append(<<>>, Start) = <<Start>>
      OBVIOUS
    <2>2. Replay(Append(<<>>, Start)) = Replayed(Empty, Start)
      BY <1>1, <2>1, ReplayFacts, ReplayNothing
    <2> QED BY <1>2, <2>1, <2>2, ReplayedFacts
  <1>5. Append(<<Start>>, Cleared) = <<Start, Cleared>>
    <2> DEFINE two == <<Start, Cleared>>
               more == Append(<<Start>>, Cleared)
    <2>1. two \in Seq(Lines) /\ Len(two) = 2 /\ two[1] = Start /\ two[2] = Cleared
      BY <1>1
    <2>2. <<Start>> \in Seq(Lines) /\ Len(<<Start>>) = 1 /\ <<Start>>[1] = Start
      BY <1>1
    <2>3. more \in Seq(Lines) /\ Len(more) = 2 /\ more[1] = Start /\ more[2] = Cleared
      BY <1>1, <2>2, AppendProperties
    <2> HIDE DEF two, more
    <2>4. \A i \in 1..Len(more) : more[i] = two[i]
      BY <2>1, <2>3
    <2>5. more = two
      BY <2>1, <2>3, <2>4, SeqEqual
    <2> QED BY <2>5 DEF two, more
  <1>6. /\ IsALog(Append(<<Start>>, Cleared)) /\ Last(Append(<<Start>>, Cleared)) = Cleared
        /\ Replay(Append(<<Start>>, Cleared)) = Replayed(Empty, Cleared)
    BY <1>1, <1>3, <1>4, AppendedFacts
  <1>7. Replayed(Empty, Cleared) = Empty
    <2>1. Replayed(Empty, Cleared) = [Empty EXCEPT !.messages = <<>>, !.ids = {}]
      BY <1>2, ReplayedFacts
    <2> QED BY <2>1 DEF Empty
  <1> QED BY <1>1, <1>3, <1>4, <1>5, <1>6, <1>7

\* _append_record: the file stays one, and where it ends well the line is read.
LEMMA WholeFacts ==
    ASSUME NEW lines, IsALog(lines), NEW line \in Lines, line # Torn
    PROVE  /\ IsALog(Whole(lines, line)) /\ Last(Whole(lines, line)) # Torn
           /\ Last(lines) # Torn => Replay(Whole(lines, line)) = Replayed(Replay(lines), line)
  <1>1. lines # <<>>
    BY LenProperties, EmptySeq DEF IsALog
  <1>2. Garbage \in Lines /\ Garbage # Torn
    BY KindsOfLines DEF Lines
  <1>3. CASE Last(lines) = Torn
    <2>1. Whole(lines, line) = Append(Front(lines), Garbage)
      BY <1>1, <1>3 DEF Whole
    <2>2. IsALog(Front(lines)) /\ Last(Front(lines)) # Torn
      BY <1>3, FrontFacts
    <2> QED BY <1>2, <1>3, <2>1, <2>2, AppendedFacts
  <1>4. CASE Last(lines) # Torn
    <2>1. Whole(lines, line) = Append(lines, line)
      BY <1>4 DEF Whole
    <2> QED BY <1>4, <2>1, AppendedFacts
  <1> QED BY <1>3, <1>4

\* What a crash or an error in the middle of a write leaves is a file, too.
LEMMA BrokenFacts ==
    ASSUME NEW lines, IsALog(lines)
    PROVE  IsALog(Broken(lines))
  <1>1. Torn \in Lines
    BY DEF Lines
  <1>2. CASE lines # <<>> /\ Last(lines) = Torn
    BY <1>2 DEF Broken
  <1>3. CASE ~(lines # <<>> /\ Last(lines) = Torn)
    <2>1. lines # <<>>
      BY LenProperties, EmptySeq DEF IsALog
    <2> QED BY <1>1, <1>3, <2>1, AppendedFacts DEF Broken
  <1> QED BY <1>2, <1>3

\* _open_existing: what is repaired is read as before, and ends well.
LEMMA RepairedFacts ==
    ASSUME NEW lines, IsALog(lines)
    PROVE  /\ IsALog(Repaired(lines)) /\ Last(Repaired(lines)) # Torn
           /\ Replay(Repaired(lines)) = Replay(lines)
  BY FrontFacts DEF Repaired

\* A set of numbers that has one has a least one.
LEMMA LeastNumber ==
    ASSUME NEW S \in SUBSET Nat, S # {}
    PROVE  Min(S) \in S /\ \A n \in S : Min(S) <= n
  <1> DEFINE R == OpToRel(<, Nat)
  <1>1. IsWellFoundedOn(R, Nat)
    BY NatLessThanWellFounded, Zenon
  <1>2. \A x, y \in Nat : <<x, y>> \in R <=> x < y
    BY DEF OpToRel
  <1> HIDE DEF R
  <1>3. \E x \in S : \A y \in S : ~ (<<y, x>> \in R)
    BY <1>1, WFMin
  <1>4. \E x \in S : \A y \in S : x <= y
    <2>1. PICK x \in S : \A y \in S : ~ (<<y, x>> \in R)
      BY <1>3
    <2>2. ASSUME NEW y \in S PROVE x <= y
      <3>1. x \in Nat /\ y \in Nat /\ ~(y < x)
        BY <1>2, <2>1
      <3> QED BY <3>1
    <2> QED BY <2>2
  <1> QED BY <1>4 DEF Min

\* valid_tool_prefix: only whole messages, all of which were there.
LEMMA ValidPrefixFacts ==
    ASSUME NEW list \in Seq(Message)
    PROVE  /\ ValidPrefix(list) \in Seq(Message)
           /\ \A i \in 1..Len(ValidPrefix(list)) : ValidPrefix(list)[i].whole
  <1> DEFINE cut == {i \in 1..Len(list) : ~list[i].whole}
  <1>1. Len(list) \in Nat /\ \A i \in 1..Len(list) : list[i] \in Message
    BY LenProperties, ElementOfSeq
  <1>2. CASE cut = {}
    BY <1>1, <1>2 DEF ValidPrefix
  <1>3. CASE cut # {}
    <2> DEFINE m == Min(cut)
               kept == SubSeq(list, 1, m - 1)
    <2>1. cut \in SUBSET Nat
      BY <1>1
    <2>2. m \in cut /\ \A n \in cut : m <= n
      BY <1>3, <2>1, LeastNumber
    <2>3. ValidPrefix(list) = kept
      BY <1>3 DEF ValidPrefix
    <2> HIDE DEF m
    <2>4. m \in 1..Len(list) /\ \A i \in 1..(m - 1) : i \in 1..Len(list) /\ list[i].whole
      <3>1. m \in 1..Len(list)
        BY <2>2
      <3>2. ASSUME NEW i \in 1..(m - 1) PROVE i \in 1..Len(list) /\ list[i].whole
        <4>1. i \in 1..Len(list) /\ ~(m <= i)
          BY <1>1, <3>1
        <4> QED BY <2>2, <4>1
      <3> QED BY <3>1, <3>2
    <2> HIDE DEF cut
    <2>5. \A i \in 1..(m - 1) : list[i] \in Message
      BY <1>1, <2>4
    <2>6. /\ kept \in Seq(Message) /\ Len(kept) = IF 1 <= m - 1 THEN (m - 1) - 1 + 1 ELSE 0
          /\ \A i \in 1..((m - 1) - 1 + 1) : kept[i] = list[1 + i - 1]
      BY <1>1, <2>4, <2>5, SubSeqProperties
    <2> HIDE DEF kept
    <2>7. \A i \in 1..Len(kept) : i \in 1..(m - 1) /\ kept[i] = list[i]
      BY <1>1, <2>4, <2>6
    <2> QED BY <2>3, <2>4, <2>6, <2>7
  <1> QED BY <1>2, <1>3

\* Initially there is no session.
LEMMA InitLogInv == LogInit => LogInv
  <1> SUFFICES ASSUME LogInit PROVE LogInv
    OBVIOUS
  <1>1. Empty \in Binding
    BY ReplayNothing, ReplayFacts, EmptySeq
  <1>2. LogTypeOK
    <2>1. 0 \in 0..MaxLogged /\ 0 \in 0..MaxLogFaults
      BY LogAssumption
    <2>2. /\ mem \in [Programs -> Binding]
          /\ logAt \in [Programs -> {"out", "found", "in", "sweeping"}]
      BY <1>1 DEF LogInit
    <2> QED BY <2>1, <2>2 DEF LogInit, LogTypeOK
  <1>3. FileIsALog
    BY DEF LogInit, FileIsALog
  <1>4. OpenIsHeld /\ BoundIsStored
    BY DEF LogInit, OpenIsHeld, BoundIsStored
  <1> QED BY <1>2, <1>3, <1>4 DEF LogInv

\* Where nobody has the session open, nothing is said of a binding.
LEMMA ClosedIsKept ==
    ASSUME logHolder' = {}, \A p \in Programs : logAt'[p] # "in", LogTypeOK',
           file' # Gone => IsALog(file')
    PROVE  LogInv'
  BY DEF LogInv, FileIsALog, OpenIsHeld, BoundIsStored

\* A change that is written to the file, or not.
LEMMA AppendsStep ==
    ASSUME LogInv, NEW p \in Programs, NEW line \in Lines, line # Torn, NEW binding \in Binding,
           binding = Replayed(mem[p], line), Appends(p, line, binding), logCount' \in 0..MaxLogged
    PROVE  LogInv'
  <1>1. /\ LogTypeOK /\ FileIsALog /\ OpenIsHeld /\ BoundIsStored
        /\ logAt[p] = "in" /\ logHolder' = logHolder /\ logAt' = logAt
    BY DEF LogInv, Appends
  <1>2. /\ file # Gone /\ IsALog(file) /\ logHolder = {p}
        /\ \A q \in Programs : logAt[q] = "in" => q = p
    BY <1>1 DEF OpenIsHeld, FileIsALog
  <1>3. \A lines : IsALog(lines) => lines # Gone
    BY KindsOfLines DEF IsALog, Gone
  <1>4. CASE /\ file' = Whole(file, line) /\ mem' = [mem EXCEPT ![p] = binding]
             /\ age' = (IF Last(file) = Torn THEN age ELSE "recent")
             /\ UNCHANGED <<logFaults, spoilt>>
    <2>1. IsALog(file') /\ Last(file') # Torn
          /\ (Last(file) # Torn => Replay(file') = Replayed(Replay(file), line))
      BY <1>2, <1>4, WholeFacts
    <2>2. LogTypeOK'
      BY <1>1, <1>4 DEF LogTypeOK
    <2>3. FileIsALog'
      BY <2>1 DEF FileIsALog
    <2>4. OpenIsHeld'
      BY <1>1, <1>2, <1>3, <1>4, <2>1 DEF OpenIsHeld
    <2>5. mem'[p] = binding
      BY <1>1, <1>4 DEF LogTypeOK
    <2>6. ~spoilt => Last(file) # Torn /\ Replay(file) = mem[p]
      BY <1>1 DEF OpenIsHeld, BoundIsStored
    <2>7. BoundIsStored'
      BY <1>1, <1>2, <1>4, <2>1, <2>5, <2>6 DEF BoundIsStored
    <2> QED BY <2>2, <2>3, <2>4, <2>7 DEF LogInv
  <1>5. CASE /\ logFaults < MaxLogFaults /\ logFaults' = logFaults + 1 /\ spoilt' = TRUE
             /\ file' \in {file, Broken(file)} /\ UNCHANGED <<mem, age>>
    <2>1. IsALog(file')
      BY <1>2, <1>5, BrokenFacts
    <2>2. LogTypeOK'
      BY <1>1, <1>5, LogAssumption DEF LogTypeOK
    <2>3. FileIsALog'
      BY <2>1 DEF FileIsALog
    <2>4. OpenIsHeld'
      BY <1>1, <1>2, <1>3, <1>5, <2>1 DEF OpenIsHeld
    <2>5. BoundIsStored'
      BY <1>5 DEF BoundIsStored
    <2> QED BY <2>2, <2>3, <2>4, <2>5 DEF LogInv
  <1> QED BY <1>4, <1>5 DEF Appends

\* commit_history, whatever the history is.
LEMMA CommitStep ==
    ASSUME LogInv, NEW p \in Programs, NEW list \in Seq(Message), CommitHistory(p, list),
           logCount' \in 0..MaxLogged
    PROVE  LogInv'
  <1>1. mem[p] \in Binding
    BY DEF LogInv, LogTypeOK
  <1> DEFINE line == LineOf(mem[p].messages, list)
             binding == [mem[p] EXCEPT !.messages = list]
  <1>2. line \in Lines /\ line # Torn /\ binding = Replayed(mem[p], line)
    BY <1>1, LineOfFacts
  <1>3. binding \in Binding
    BY <1>1, <1>2, ReplayedType
  <1>4. Appends(p, line, binding)
    BY DEF CommitHistory
  <1> HIDE DEF line, binding
  <1> QED BY <1>2, <1>3, <1>4, AppendsStep

\* A process that does not have the session open looks for it, or looks away.
LEMMA OutsideStep ==
    ASSUME LogInv, NEW p \in Programs, logAt[p] # "in", NEW x \in {"out", "found", "sweeping"},
           logAt' = [logAt EXCEPT ![p] = x],
           UNCHANGED <<file, age, logHolder, mem, logCount, logFaults, spoilt>>
    PROVE  LogInv'
  <1>1. LogTypeOK /\ FileIsALog /\ OpenIsHeld /\ BoundIsStored
    BY DEF LogInv
  <1>2. LogTypeOK'
    BY <1>1 DEF LogTypeOK
  <1>3. \A q \in Programs : logAt'[q] = "in" <=> logAt[q] = "in"
    BY <1>1 DEF LogTypeOK
  <1>4. OpenIsHeld'
    BY <1>1, <1>3 DEF OpenIsHeld
  <1>5. FileIsALog'
    BY <1>1 DEF FileIsALog
  <1>6. BoundIsStored'
    BY <1>1, <1>3 DEF BoundIsStored
  <1> QED BY <1>2, <1>4, <1>5, <1>6 DEF LogInv

\* A process gets the session: its lock, its file, and what the file says.
LEMMA OpenedStep ==
    ASSUME LogInv, NEW p \in Programs, logHolder = {}, logHolder' = {p},
           logAt' = [logAt EXCEPT ![p] = "in"], IsALog(file'), Last(file') # Torn,
           NEW binding \in Binding, Replay(file') = binding, mem' = [mem EXCEPT ![p] = binding],
           age' \in {"recent", "gap", "expired"}, logCount' \in 0..MaxLogged,
           logFaults' = logFaults, spoilt' \in BOOLEAN
    PROVE  LogInv'
  <1>1. LogTypeOK /\ OpenIsHeld
    BY DEF LogInv
  <1>2. \A q \in Programs : logAt[q] # "in"
    BY <1>1 DEF OpenIsHeld
  <1>3. /\ \A q \in Programs : logAt'[q] = "in" <=> q = p
        /\ mem'[p] = binding
    BY <1>1, <1>2 DEF LogTypeOK
  <1>4. LogTypeOK'
    BY <1>1 DEF LogTypeOK
  <1>5. file' # Gone
    BY KindsOfLines DEF IsALog, Gone
  <1>6. FileIsALog'
    BY DEF FileIsALog
  <1>7. OpenIsHeld'
    BY <1>3, <1>5 DEF OpenIsHeld
  <1>8. BoundIsStored'
    BY <1>3 DEF BoundIsStored
  <1> QED BY <1>4, <1>6, <1>7, <1>8 DEF LogInv

\* A process that has the session open leaves it.
LEMMA LeftStep ==
    ASSUME LogInv, NEW p \in Programs, logAt[p] = "in", Leaves(p), IsALog(file'),
           age' = age, logCount' = logCount, logFaults' \in 0..MaxLogFaults, spoilt' = spoilt
    PROVE  LogInv'
  <1>1. LogTypeOK /\ OpenIsHeld /\ Empty \in Binding
    BY ReplayNothing, ReplayFacts, EmptySeq DEF LogInv
  <1>2. logHolder = {p} /\ \A q \in Programs : logAt[q] = "in" => q = p
    BY <1>1 DEF OpenIsHeld
  <1>3. logHolder' = {} /\ \A q \in Programs : logAt'[q] # "in"
    BY <1>1, <1>2 DEF Leaves, LogTypeOK
  <1>4. LogTypeOK'
    BY <1>1, <1>3 DEF Leaves, LogTypeOK
  <1> QED BY <1>3, <1>4, ClosedIsKept

\* What _open_existing makes of a file: it says what is kept of the history.
LEMMA CleanedFacts ==
    ASSUME IsALog(file),
           NEW valid, valid = ValidPrefix(Replay(file).messages),
           NEW cleaned, cleaned = IF valid = Replay(file).messages THEN Repaired(file)
                                  ELSE Append(Repaired(file), LineOf(Replay(file).messages, valid))
    PROVE  /\ valid \in Seq(Message) /\ \A i \in 1..Len(valid) : valid[i].whole
           /\ IsALog(cleaned) /\ Last(cleaned) # Torn
           /\ Replay(file) \in Binding
           /\ Replay(cleaned) = [Replay(file) EXCEPT !.messages = valid]
           /\ Replay(cleaned) \in Binding
  <1> DEFINE read == Replay(file)
             line == LineOf(read.messages, valid)
  <1>1. read \in Binding /\ read.messages \in Seq(Message)
    BY ReplayFacts DEF IsALog, Binding
  <1>2. valid \in Seq(Message) /\ \A i \in 1..Len(valid) : valid[i].whole
    BY <1>1, ValidPrefixFacts
  <1>3. IsALog(Repaired(file)) /\ Last(Repaired(file)) # Torn /\ Replay(Repaired(file)) = read
    BY RepairedFacts
  <1>4. line \in Lines /\ line # Torn /\ Replayed(read, line) = [read EXCEPT !.messages = valid]
    BY <1>1, <1>2, LineOfFacts
  <1> HIDE DEF read, line
  <1>5. CASE valid = read.messages
    <2>1. cleaned = Repaired(file)
      BY <1>5 DEF read
    <2>2. read = [read EXCEPT !.messages = valid]
      BY <1>1, <1>5 DEF Binding
    <2> QED BY <1>1, <1>2, <1>3, <2>1, <2>2 DEF read
  <1>6. CASE valid # read.messages
    <2>1. cleaned = Append(Repaired(file), line)
      BY <1>6 DEF read, line
    <2>2. /\ IsALog(cleaned) /\ Last(cleaned) = line
          /\ Replay(cleaned) = Replayed(read, line)
      BY <1>3, <1>4, <2>1, AppendedFacts
    <2>3. Replayed(read, line) \in Binding
      BY <1>1, <1>4, ReplayedType
    <2> QED BY <1>1, <1>2, <1>4, <2>2, <2>3 DEF read
  <1> QED BY <1>5, <1>6

\* A session that is resumed, and what of its history.
LEMMA ResumesStep ==
    ASSUME LogInv, NEW p \in Programs, Resumes(p)
    PROVE  LogInv' /\ \A i \in 1..Len(mem'[p].messages) : mem'[p].messages[i].whole
  <1> DEFINE read == Replay(file)
             valid == ValidPrefix(read.messages)
             cleaned == IF valid = read.messages THEN Repaired(file)
                        ELSE Append(Repaired(file), LineOf(read.messages, valid))
             new == NewMessage(TRUE, FALSE)
             notice == Append(valid, new)
             line == LineOf(valid, notice)
  <1>1. LogTypeOK /\ FileIsALog
    BY DEF LogInv
  <1>2. /\ logHolder = {} /\ file # Gone /\ (age = "gap" => logCount < MaxLogged)
        /\ logHolder' = {p} /\ logAt' = [logAt EXCEPT ![p] = "in"] /\ spoilt' = FALSE
        /\ logFaults' = logFaults
        /\ \/ /\ age = "gap" /\ file' = Append(cleaned, line) /\ age' = "recent"
              /\ logCount' = logCount + 1
              /\ mem' = [mem EXCEPT ![p] = [read EXCEPT !.messages = notice]]
           \/ /\ file' = cleaned /\ UNCHANGED logCount
              /\ mem' = [mem EXCEPT ![p] = [read EXCEPT !.messages = valid]]
              /\ age' \in {age, "recent"}
    BY DEF Resumes
  <1>3. IsALog(file)
    BY <1>1, <1>2 DEF FileIsALog
  <1>4. /\ valid \in Seq(Message) /\ \A i \in 1..Len(valid) : valid[i].whole
        /\ IsALog(cleaned) /\ Last(cleaned) # Torn /\ read \in Binding
        /\ Replay(cleaned) = [read EXCEPT !.messages = valid] /\ Replay(cleaned) \in Binding
    BY <1>3, CleanedFacts
  <1> HIDE DEF read, valid, cleaned
  <1>5. CASE /\ age = "gap" /\ file' = Append(cleaned, line) /\ age' = "recent"
             /\ logCount' = logCount + 1
             /\ mem' = [mem EXCEPT ![p] = [read EXCEPT !.messages = notice]]
    <2>1. new \in Message /\ new.whole /\ logCount + 1 \in 0..MaxLogged
      BY <1>1, <1>2, <1>5, LogAssumption DEF NewMessage, Message, LogTypeOK
    <2> HIDE DEF new
    <2>2. /\ notice \in Seq(Message) /\ Len(notice) = Len(valid) + 1
          /\ \A i \in 1..Len(valid) : notice[i] = valid[i]
          /\ notice[Len(valid) + 1] = new
      BY <1>4, <2>1, AppendProperties
    <2> HIDE DEF notice
    <2>3. \A i \in 1..Len(notice) : notice[i].whole
      BY <1>4, <2>1, <2>2, LenProperties
    <2> DEFINE before == Replay(cleaned)
               binding == [read EXCEPT !.messages = notice]
    <2>4. before.messages = valid /\ binding = [before EXCEPT !.messages = notice]
      BY <1>4 DEF Binding
    <2>5. LineOf(before.messages, notice) \in Lines /\ LineOf(before.messages, notice) # Torn
          /\ Replayed(before, LineOf(before.messages, notice)) = [before EXCEPT !.messages = notice]
      BY <1>4, <2>2, LineOfFacts
    <2>6. line \in Lines /\ line # Torn /\ Replayed(before, line) = binding
      BY <2>4, <2>5
    <2> HIDE DEF line, binding
    <2>7. binding \in Binding
      BY <1>4, <2>6, ReplayedType
    <2>8. IsALog(file') /\ Last(file') # Torn /\ Replay(file') = binding
      BY <1>4, <1>5, <2>6, AppendedFacts
    <2>9. mem' = [mem EXCEPT ![p] = binding]
      BY <1>5 DEF binding
    <2>10. LogInv'
      BY <1>2, <1>5, <2>1, <2>7, <2>8, <2>9, OpenedStep
    <2>11. mem'[p].messages = notice
      BY <1>1, <1>4, <2>9 DEF LogTypeOK, binding, Binding
    <2> QED BY <2>3, <2>10, <2>11
  <1>6. CASE /\ file' = cleaned /\ UNCHANGED logCount
             /\ mem' = [mem EXCEPT ![p] = [read EXCEPT !.messages = valid]]
             /\ age' \in {age, "recent"}
    <2> DEFINE binding == [read EXCEPT !.messages = valid]
    <2>1. binding \in Binding /\ Replay(file') = binding /\ IsALog(file') /\ Last(file') # Torn
      BY <1>4, <1>6
    <2>2. binding.messages = valid
      BY <1>4 DEF Binding
    <2> HIDE DEF binding
    <2>3. mem' = [mem EXCEPT ![p] = binding]
      BY <1>6 DEF binding
    <2>4. logCount' \in 0..MaxLogged /\ age' \in {"recent", "gap", "expired"}
      BY <1>1, <1>6 DEF LogTypeOK
    <2>5. LogInv'
      BY <1>2, <2>1, <2>3, <2>4, OpenedStep
    <2>6. mem'[p].messages = valid
      BY <1>1, <2>2, <2>3 DEF LogTypeOK
    <2> QED BY <1>4, <2>5, <2>6
  <1> QED BY <1>2, <1>5, <1>6

\* A session is begun.
LEMMA CreatesStep ==
    ASSUME LogInv, NEW p \in Programs, Creates(p)
    PROVE  LogInv'
  <1>1. Empty \in Binding /\ LogTypeOK
    BY ReplayNothing, ReplayFacts, EmptySeq DEF LogInv
  <1>2. /\ logHolder = {} /\ file' = <<Start>> /\ age' = "recent" /\ logHolder' = {p}
        /\ logAt' = [logAt EXCEPT ![p] = "in"] /\ mem' = [mem EXCEPT ![p] = Empty]
        /\ logCount' = logCount /\ logFaults' = logFaults /\ spoilt' = spoilt
    BY DEF Creates
  <1>3. logCount' \in 0..MaxLogged /\ spoilt' \in BOOLEAN
    BY <1>1, <1>2 DEF LogTypeOK
  <1>4. IsALog(file') /\ Last(file') # Torn /\ Replay(file') = Empty
    BY <1>2, FreshFacts
  <1> QED BY <1>1, <1>2, <1>3, <1>4, OpenedStep

\* A session is begun again: its file says nothing, and so does its binding.
LEMMA ResetsLogStep ==
    ASSUME LogInv, NEW p \in Programs, ResetsLog(p)
    PROVE  LogInv'
  <1>1. LogTypeOK /\ OpenIsHeld /\ Empty \in Binding
    BY ReplayNothing, ReplayFacts, EmptySeq DEF LogInv
  <1>2. /\ logAt[p] = "in" /\ file' = <<Start, Cleared>> /\ age' = "recent"
        /\ \/ /\ mem' = [mem EXCEPT ![p] = Empty] /\ spoilt' = FALSE /\ logFaults' = logFaults
           \/ /\ logFaults < MaxLogFaults /\ logFaults' = logFaults + 1
              /\ spoilt' = TRUE /\ mem' = mem
        /\ logHolder' = logHolder /\ logAt' = logAt /\ logCount' = logCount
    BY DEF ResetsLog
  <1>3. IsALog(file') /\ Last(file') # Torn /\ Replay(file') = Empty
    BY <1>2, FreshFacts
  <1>4. file' # Gone
    BY <1>3, KindsOfLines DEF IsALog, Gone
  <1>5. \A q \in Programs : logAt[q] = "in" => q = p
    BY <1>1, <1>2 DEF OpenIsHeld
  <1>6. logFaults' \in 0..MaxLogFaults
    BY <1>1, <1>2, LogAssumption DEF LogTypeOK
  <1>7. mem' \in [Programs -> Binding]
    BY <1>1, <1>2 DEF LogTypeOK
  <1>8. LogTypeOK'
    BY <1>1, <1>2, <1>6, <1>7 DEF LogTypeOK
  <1>9. FileIsALog'
    BY <1>3 DEF FileIsALog
  <1>10. OpenIsHeld'
    BY <1>1, <1>2, <1>3, <1>4 DEF OpenIsHeld
  <1>11. ~spoilt' => mem'[p] = Empty
    BY <1>1, <1>2 DEF LogTypeOK
  <1>12. BoundIsStored'
    BY <1>2, <1>3, <1>5, <1>11 DEF BoundIsStored
  <1> QED BY <1>8, <1>9, <1>10, <1>12 DEF LogInv

\* A turn, a compaction, a message that came in, a plan.
LEMMA ChangesStep ==
    ASSUME LogInv, NEW p \in Programs,
           TurnCommits(p) \/ Compacts(p) \/ CommitInbound(p) \/ CommitPlan(p)
    PROVE  LogInv'
  <1>1. /\ LogTypeOK /\ mem[p] \in Binding /\ mem[p].messages \in Seq(Message)
        /\ logCount \in 0..MaxLogged /\ MaxLogged \in Nat
    BY LogAssumption DEF LogInv, LogTypeOK, Binding
  <1>2. ASSUME logCount < MaxLogged
        PROVE  /\ \A whole, inbound \in BOOLEAN : NewMessage(whole, inbound) \in Message
               /\ logCount + 1 \in 0..MaxLogged
    BY <1>1, <1>2 DEF NewMessage, Message
  <1>3. CASE TurnCommits(p)
    <2>1. PICK whole \in BOOLEAN :
            CommitHistory(p, Append(mem[p].messages, NewMessage(whole, FALSE)))
      BY <1>3 DEF TurnCommits
    <2>2. logCount < MaxLogged /\ logCount' = logCount + 1
      BY <1>3 DEF TurnCommits
    <2>3. NewMessage(whole, FALSE) \in Message /\ logCount' \in 0..MaxLogged
      BY <1>2, <2>2
    <2>4. Append(mem[p].messages, NewMessage(whole, FALSE)) \in Seq(Message)
      BY <1>1, <2>3, AppendProperties
    <2> QED BY <2>1, <2>3, <2>4, CommitStep
  <1>4. CASE Compacts(p)
    <2>1. PICK recent \in {<<>>, <<Last(mem[p].messages)>>} :
            CommitHistory(p, <<NewMessage(TRUE, FALSE)>> \o recent)
      BY <1>4 DEF Compacts
    <2>2. logCount < MaxLogged /\ logCount' = logCount + 1 /\ mem[p].messages # <<>>
      BY <1>4 DEF Compacts
    <2>3. NewMessage(TRUE, FALSE) \in Message /\ logCount' \in 0..MaxLogged
      BY <1>2, <2>2
    <2>4. Last(mem[p].messages) \in Message
      <3>1. Len(mem[p].messages) \in 1..Len(mem[p].messages)
        BY <1>1, <2>2, LenProperties, EmptySeq
      <3> QED BY <1>1, <3>1, ElementOfSeq DEF Last
    <2>5. recent \in Seq(Message) /\ <<NewMessage(TRUE, FALSE)>> \in Seq(Message)
      <3>1. \A m \in Message : <<m>> \in Seq(Message)
        OBVIOUS
      <3>2. CASE recent = <<>>
        BY <2>3, <3>1, <3>2, EmptySeq
      <3>3. CASE recent = <<Last(mem[p].messages)>>
        BY <2>3, <2>4, <3>1, <3>3
      <3> QED BY <2>1, <3>2, <3>3
    <2>6. <<NewMessage(TRUE, FALSE)>> \o recent \in Seq(Message)
      BY <2>5, ConcatProperties
    <2> QED BY <2>1, <2>3, <2>6, CommitStep
  <1>5. CASE CommitInbound(p)
    <2> DEFINE m == NewMessage(TRUE, TRUE)
               line == Inbound(m)
               binding == [mem[p] EXCEPT !.messages = Append(mem[p].messages, m),
                                         !.ids = mem[p].ids \cup {m.n}]
    <2>1. logCount < MaxLogged /\ logCount' = logCount + 1 /\ Appends(p, line, binding)
      BY <1>5 DEF CommitInbound
    <2>2. m \in Message /\ logCount' \in 0..MaxLogged
      BY <1>2, <2>1
    <2> HIDE DEF m
    <2>3. line \in Lines /\ line # Torn
      BY <2>2, LinesOfChanges
    <2>4. Append(mem[p].messages, m) = mem[p].messages \o <<m>>
      BY <1>1, <2>2, AppendIsConcat
    <2>5. binding = Replayed(mem[p], line)
      <3>1. Replayed(mem[p], line) = [mem[p] EXCEPT !.messages = mem[p].messages \o <<m>>,
                                                    !.ids = mem[p].ids \cup {m.n}]
        BY <1>1, ReplayedFacts
      <3> QED BY <2>4, <3>1
    <2> HIDE DEF line, binding
    <2>6. binding \in Binding
      BY <1>1, <2>3, <2>5, ReplayedType
    <2> QED BY <2>1, <2>2, <2>3, <2>5, <2>6, AppendsStep
  <1>6. CASE CommitPlan(p)
    <2>1. PICK plan \in {0, logCount} :
            Appends(p, PlanState(plan), [mem[p] EXCEPT !.plan = plan])
      BY <1>6 DEF CommitPlan
    <2>2. plan \in 0..MaxLogged /\ logCount' \in 0..MaxLogged
      BY <1>1, <1>6, <2>1 DEF CommitPlan
    <2> DEFINE line == PlanState(plan)
               binding == [mem[p] EXCEPT !.plan = plan]
    <2>3. line \in Lines /\ line # Torn
      BY <2>2, LinesOfChanges
    <2>4. binding = Replayed(mem[p], line)
      BY <1>1, ReplayedFacts
    <2>5. Appends(p, line, binding)
      BY <2>1
    <2> HIDE DEF line, binding
    <2>6. binding \in Binding
      BY <1>1, <2>3, <2>4, ReplayedType
    <2> QED BY <2>2, <2>3, <2>4, <2>5, <2>6, AppendsStep
  <1> QED BY <1>3, <1>4, <1>5, <1>6

\* A process leaves, or dies in the middle of a write.
LEMMA LeavesStep ==
    ASSUME LogInv, NEW p \in Programs, ClosesLog(p) \/ Crashes(p)
    PROVE  LogInv'
  <1>1. LogTypeOK /\ FileIsALog /\ OpenIsHeld
    BY DEF LogInv
  <1>2. logAt[p] = "in" /\ Leaves(p) /\ age' = age /\ logCount' = logCount /\ spoilt' = spoilt
    BY DEF ClosesLog, Crashes
  <1>3. IsALog(file)
    BY <1>1, <1>2 DEF OpenIsHeld, FileIsALog
  <1>4. IsALog(file') /\ logFaults' \in 0..MaxLogFaults
    <2>1. CASE ClosesLog(p)
      BY <1>1, <1>3, <2>1 DEF ClosesLog, LogTypeOK
    <2>2. CASE Crashes(p)
      <3>1. file' = file \/ file' = Broken(file)
        BY <2>2 DEF Crashes
      <3>2. logFaults' \in 0..MaxLogFaults
        BY <1>1, <2>2, LogAssumption DEF Crashes, LogTypeOK
      <3> QED BY <1>3, <3>1, <3>2, BrokenFacts
    <2> QED BY <2>1, <2>2
  <1> QED BY <1>2, <1>4, LeftStep

\* Others look for the session, delete it under its lock, or wait.
LEMMA OthersStep ==
    ASSUME LogInv, NEW p \in Programs,
           Finds(p) \/ FindsNothing(p) \/ SeesExpired(p) \/ Deletes(p) \/ TimePasses
    PROVE  LogInv'
  <1>1. LogTypeOK /\ FileIsALog /\ OpenIsHeld /\ BoundIsStored
    BY DEF LogInv
  <1>2. CASE Finds(p)
    <2>1. logAt[p] # "in" /\ logAt' = [logAt EXCEPT ![p] = "found"]
          /\ UNCHANGED <<file, age, logHolder, mem, logCount, logFaults, spoilt>>
      BY <1>2 DEF Finds
    <2> QED BY <2>1, OutsideStep
  <1>3. CASE FindsNothing(p)
    <2>1. logAt[p] # "in" /\ logAt' = [logAt EXCEPT ![p] = "out"]
          /\ UNCHANGED <<file, age, logHolder, mem, logCount, logFaults, spoilt>>
      BY <1>3 DEF FindsNothing
    <2> QED BY <2>1, OutsideStep
  <1>4. CASE SeesExpired(p)
    <2>1. logAt[p] # "in" /\ logAt' = [logAt EXCEPT ![p] = "sweeping"]
          /\ UNCHANGED <<file, age, logHolder, mem, logCount, logFaults, spoilt>>
      BY <1>4 DEF SeesExpired
    <2> QED BY <2>1, OutsideStep
  <1>5. CASE Deletes(p)
    <2>1. logAt[p] # "in" /\ logAt' = [logAt EXCEPT ![p] = "out"]
          /\ UNCHANGED <<age, logHolder, mem, logCount, logFaults, spoilt>>
      BY <1>5 DEF Deletes
    <2>2. CASE logHolder = {}
      <3>1. file' = Gone /\ logHolder' = {}
        BY <1>5, <2>2 DEF Deletes
      <3>2. \A q \in Programs : logAt'[q] # "in"
        BY <1>1, <2>1, <2>2 DEF OpenIsHeld, LogTypeOK
      <3>3. LogTypeOK'
        BY <1>1, <2>1 DEF LogTypeOK
      <3> QED BY <3>1, <3>2, <3>3, ClosedIsKept
    <2>3. CASE logHolder # {}
      <3>1. file' = file
        BY <1>5, <2>3 DEF Deletes
      <3> QED BY <2>1, <3>1, OutsideStep
    <2> QED BY <2>2, <2>3
  <1>6. CASE TimePasses
    <2>1. age' \in {"recent", "gap", "expired"}
          /\ UNCHANGED <<file, logHolder, logAt, mem, logCount, logFaults, spoilt>>
      BY <1>6 DEF TimePasses
    <2>2. LogTypeOK'
      BY <1>1, <2>1 DEF LogTypeOK
    <2>3. FileIsALog' /\ OpenIsHeld' /\ BoundIsStored'
      BY <1>1, <2>1 DEF FileIsALog, OpenIsHeld, BoundIsStored
    <2> QED BY <2>2, <2>3 DEF LogInv
  <1> QED BY <1>2, <1>3, <1>4, <1>5, <1>6

\* Every step keeps the invariant, and opens a session with whole messages only.
LEMMA StepLogInv ==
    ASSUME LogInv, [LogNext]_logvars
    PROVE  /\ LogInv'
           /\ \A p \in Programs : logAt[p] = "found" /\ logAt'[p] = "in" =>
                \A i \in 1..Len(mem'[p].messages) : mem'[p].messages[i].whole
  <1>1. LogTypeOK
    BY DEF LogInv
  <1>2. CASE UNCHANGED logvars
    BY <1>2 DEF logvars, LogInv, LogTypeOK, FileIsALog, OpenIsHeld, BoundIsStored
  <1>3. CASE TimePasses
    <2>1. LogInv'
      <3>1. CASE Programs = {}
        <4>1. age' \in {"recent", "gap", "expired"}
              /\ UNCHANGED <<file, logHolder, logAt, mem, logCount, logFaults, spoilt>>
          BY <1>3 DEF TimePasses
        <4> QED BY <4>1 DEF LogInv, LogTypeOK, FileIsALog, OpenIsHeld, BoundIsStored
      <3>2. CASE Programs # {}
        BY <1>3, <3>2, OthersStep
      <3> QED BY <3>1, <3>2
    <2>2. logAt' = logAt
      BY <1>3 DEF TimePasses
    <2> QED BY <2>1, <2>2
  <1>4. ASSUME NEW q \in Programs,
               \/ Creates(q) \/ Finds(q) \/ FindsNothing(q) \/ ClosesLog(q) \/ Crashes(q)
               \/ TurnCommits(q) \/ Compacts(q) \/ CommitInbound(q) \/ CommitPlan(q)
               \/ ResetsLog(q) \/ SeesExpired(q) \/ Deletes(q)
        PROVE  /\ LogInv'
               /\ \A p \in Programs : logAt[p] = "found" => logAt'[p] # "in"
    <2>1. LogInv'
      BY <1>4, CreatesStep, ResetsLogStep, ChangesStep, LeavesStep, OthersStep
    <2>2. \/ logAt' = logAt
          \/ logAt[q] = "out" /\ logAt' = [logAt EXCEPT ![q] = "in"]
          \/ \E x \in {"out", "found", "sweeping"} : logAt' = [logAt EXCEPT ![q] = x]
      BY <1>4 DEF Creates, Finds, FindsNothing, ClosesLog, Crashes, Leaves, TurnCommits, Compacts,
                  CommitInbound, CommitPlan, CommitHistory, Appends, ResetsLog, SeesExpired, Deletes
    <2> QED BY <1>1, <2>1, <2>2 DEF LogTypeOK
  <1>5. ASSUME NEW q \in Programs, Resumes(q)
        PROVE  /\ LogInv'
               /\ \A p \in Programs : logAt[p] = "found" /\ logAt'[p] = "in" =>
                    \A i \in 1..Len(mem'[p].messages) : mem'[p].messages[i].whole
    <2>1. LogInv' /\ \A i \in 1..Len(mem'[q].messages) : mem'[q].messages[i].whole
      BY <1>5, ResumesStep
    <2>2. logAt' = [logAt EXCEPT ![q] = "in"]
      BY <1>5 DEF Resumes
    <2>3. \A p \in Programs : logAt[p] = "found" /\ logAt'[p] = "in" => p = q
      BY <1>1, <2>2 DEF LogTypeOK
    <2> QED BY <2>1, <2>3
  <1> QED BY <1>2, <1>3, <1>4, <1>5 DEF LogNext

\* The log of a session: the file of a session that was begun is whole up to its last line,
\* which was cut off at most; it is open in one process at most, and what that holds is what
\* reading the file would give, however the lines came to be there.
THEOREM LogInvariant == LogSpec => []LogInv
  <1>1. LogInv /\ [LogNext]_logvars => LogInv'
    BY StepLogInv
  <1> QED BY InitLogInv, <1>1, PTL DEF LogSpec

\* SessionsAreKept (continuity/session_repository.py): a session is held by one process, whose
\* history is what the file says, and it is resumed with whole groups of messages only.
THEOREM SessionsAreKeptAlways == LogSpec => SessionsAreKept
  <1>1. LogInv => BoundIsStored
    BY DEF LogInv
  <1>2. LogInv => OpenIsThere
    <2> SUFFICES ASSUME LogInv, NEW p \in Programs, logAt[p] = "in"
                 PROVE  logHolder = {p} /\ file # Gone
      BY DEF OpenIsThere
    <2> QED BY DEF LogInv, OpenIsHeld
  <1>3. LogInv /\ [LogNext]_logvars =>
          [\A p \in Programs : logAt[p] = "found" /\ logAt'[p] = "in" =>
             \A i \in 1..Len(mem'[p].messages) : mem'[p].messages[i].whole]_logvars
    BY StepLogInv
  <1>4. LogSpec => []BoundIsStored
    BY <1>1, LogInvariant, PTL
  <1>5. LogSpec => []OpenIsThere
    BY <1>2, LogInvariant, PTL
  <1>6. LogSpec => ResumedIsWhole
    BY <1>3, LogInvariant, PTL DEF LogSpec, ResumedIsWhole
  <1> QED BY <1>4, <1>5, <1>6 DEF SessionsAreKept

-----------------------------------------------------------------------------
(* the skills *)

\* No list names a skill twice; one that is prepared is not to be prepared any more.
OneEach(list) == \A i, j \in 1..Len(list) : list[i].name = list[j].name => i = j
OneEntry(list) == \A i, j \in 1..Len(list) : list[i][1] = list[j][1] => i = j

NamedOnce ==
    /\ OneEach(active) /\ OneEach(made) /\ OneEntry(stored) /\ OneEntry(skillTodo)
    /\ \A i \in 1..Len(made), j \in 1..Len(skillTodo) : made[i].name # skillTodo[j][1]

\* A package that is prepared or in force has a copy, of its version, and its own.
Copied(a, dirs) == IF a.name \in Packaged
                   THEN a.body = a.def /\ a.pack \in DOMAIN dirs /\ dirs[a.pack] = <<a.def, a.def>>
                   ELSE a.pack = 0
OwnPacks(list) == \A i, j \in 1..Len(list) : list[i].pack = list[j].pack => list[i].pack = 0 \/ i = j

CopiesAreOwn ==
    /\ \A i \in 1..Len(active) : Copied(active[i], copyDirs)
    /\ \A i \in 1..Len(made) : Copied(made[i], copyDirs)
    /\ OwnPacks(active) /\ OwnPacks(made) /\ Packs(active) \cap Packs(made) \subseteq {0}
    /\ DOMAIN copyDirs \subseteq 1..copies

\* What is known is not newer than what is there; what was read of the skill that is being
\* prepared lies between the two.
Reading == stage \in {"read", "before", "first", "second"}

ReadingIsTrue ==
    /\ \A s \in Skills : catalog[s] <= sources[s] /\ fresh[s] <= sources[s]
    /\ Reading => Preparing
    /\ stage = "before" => fresh[NextSkill] <= body /\ body <= sources[NextSkill]
    /\ stage \in {"first", "second"} =>
         /\ NextSkill \in Packaged /\ body = fresh[NextSkill]
         /\ copies >= 1 /\ copies \notin Packs(active) \cup Packs(made)
    /\ stage = "second" => \E c \in Versions :
         /\ copies \in DOMAIN copyDirs /\ copyDirs[copies] = <<c, 0>>
         /\ fresh[NextSkill] <= c /\ c <= sources[NextSkill]

\* What an operation has done, and what the session says meanwhile.
Operations == {"activate", "refresh", "restore"}

OperationIsTrue ==
    /\ skillOp \in {"none", "down"} => skillTodo = <<>> /\ made = <<>> /\ stage = "check"
    /\ skillOp \in {"restore", "down"} => active = <<>>
    /\ skillOp = "activate" => Len(made) + Len(skillTodo) = 1 /\ fresh = catalog
    /\ skillOp # "restore" /\ skillOp # "down" /\ stage # "publish" => stored = Entries(active)
    /\ stage = "publish" => skillTodo = <<>> /\ stored = Entries(Projected)
    /\ \A i \in 1..Len(active) : active[i].def = catalog[active[i].name]
    /\ \A i \in 1..Len(made) : made[i].def = fresh[made[i].name]

SkillInv == SkillTypeOK /\ NamedOnce /\ CopiesAreOwn /\ ReadingIsTrue /\ OperationIsTrue


\* Of a list of entries that names no skill twice, those that remain do not, either.
LEMMA RemainingFacts ==
    ASSUME NEW list \in Seq(Skills \X Inputs), NEW now, OneEntry(list)
    PROVE  Remaining(list, now) \in Seq(Skills \X Inputs) /\ OneEntry(Remaining(list, now))
  <1> DEFINE N == Len(list)
             S == Seq(Skills \X Inputs)
             step == [a \in S \X (1..N) |-> IF now[list[a[2]][1]] # Absent
                                            THEN Append(a[1], list[a[2]]) ELSE a[1]]
             Rest(g) == [n \in 0..N |-> IF n = 0 THEN <<>>
                                        ELSE IF now[list[n][1]] # Absent
                                             THEN Append(g[n - 1], list[n]) ELSE g[n - 1]]
             r == CHOOSE f : f = Rest(f)
  <1>1. N \in Nat /\ <<>> \in S /\ \A n \in 1..N : list[n] \in Skills \X Inputs
    OBVIOUS
  <1>2. step \in Steps(S, N)
    <2>1. ASSUME NEW q \in S, NEW n \in 1..N PROVE step[<<q, n>>] \in S
      <3>1. Append(q, list[n]) \in S
        BY <1>1
      <3> QED BY <3>1
    <2> QED BY <2>1 DEF Steps
  <1>3. \A q \in S, n \in 1..N :
          step[<<q, n>>] = IF now[list[n][1]] # Absent THEN Append(q, list[n]) ELSE q
    OBVIOUS
  <1> HIDE DEF step, S, N
  <1>4. PICK g : Iterates(g, S, N, <<>>, step)
    BY <1>1, <1>2, Iteration
  <1>5. g = Rest(g)
    <2>1. g \in [0..N -> S] /\ g[0] = <<>> /\ \A n \in 1..N : g[n] = step[<<g[n - 1], n>>]
      BY <1>4 DEF Iterates
    <2>2. ASSUME NEW n \in 0..N PROVE g[n] = Rest(g)[n]
      <3>1. CASE n = 0
        BY <2>1, <3>1
      <3>2. CASE n # 0
        <4>1. n \in 1..N /\ n - 1 \in 0..N
          BY <1>1, <3>2
        <4>2. g[n - 1] \in S /\ g[n] = step[<<g[n - 1], n>>]
          BY <2>1, <4>1
        <4> QED BY <1>3, <3>2, <4>1, <4>2
      <3> QED BY <3>1, <3>2
    <2> QED BY <2>1, <2>2
  <1>6. r = Rest(r)
    BY <1>5
  <1>7. Remaining(list, now) = r[N]
    BY DEF Remaining, N
  <1> HIDE DEF r
  <1>8. \A n \in 0..N : r[n] = IF n = 0 THEN <<>>
                               ELSE IF now[list[n][1]] # Absent THEN Append(r[n - 1], list[n])
                                    ELSE r[n - 1]
    BY <1>6
  <1> DEFINE Good(q, n) == /\ q \in S /\ OneEntry(q)
                           /\ \A i \in 1..Len(q) : \E j \in 1..n : q[i] = list[j]
             T == {n \in Nat : n <= N => Good(r[n], n)}
  <1>9. 0 \in T
    <2>1. r[0] = <<>>
      BY <1>1, <1>8
    <2> QED BY <1>1, <2>1 DEF OneEntry
  <1>10. ASSUME NEW n \in Nat, n \in T PROVE n + 1 \in T
    <2> SUFFICES ASSUME n + 1 <= N PROVE Good(r[n + 1], n + 1)
      OBVIOUS
    <2>1. n + 1 \in 0..N /\ n + 1 # 0 /\ (n + 1) - 1 = n /\ n <= N /\ n + 1 \in 1..N
      BY <1>1
    <2>2. Good(r[n], n)
      BY <1>10, <2>1
    <2>3. r[n + 1] = IF now[list[n + 1][1]] # Absent THEN Append(r[n], list[n + 1]) ELSE r[n]
      BY <1>8, <2>1
    <2>4. CASE r[n + 1] = r[n]
      BY <2>2, <2>4
    <2>5. CASE r[n + 1] = Append(r[n], list[n + 1])
      <3> DEFINE q == r[n]
                 e == list[n + 1]
      <3>1. q \in S /\ e \in Skills \X Inputs /\ Append(q, e) \in S
        BY <1>1, <2>1, <2>2 DEF S
      <3>2. /\ Len(q) \in Nat /\ Len(Append(q, e)) = Len(q) + 1 /\ Append(q, e)[Len(q) + 1] = e
            /\ \A i \in 1..Len(q) : Append(q, e)[i] = q[i]
        BY <3>1 DEF S
      <3>3. \A i \in 1..Len(q) : q[i][1] # e[1]
        <4> TAKE i \in 1..Len(q)
        <4>1. PICK j \in 1..n : q[i] = list[j]
          BY <2>2
        <4>2. j \in 1..N /\ j # n + 1
          BY <2>1, <1>1
        <4> QED BY <2>1, <4>1, <4>2 DEF OneEntry, N
      <3> HIDE DEF q, e
      <3>4. OneEntry(q)
        BY <2>2 DEF q
      <3>5. OneEntry(Append(q, e))
        <4> DEFINE s == Append(q, e)
        <4>1. /\ Len(s) = Len(q) + 1 /\ s[Len(q) + 1] = e
              /\ \A i \in 1..Len(q) : s[i] = q[i]
          BY <3>2
        <4> HIDE DEF s
        <4>2. \A i \in 1..Len(s) : i # Len(q) + 1 => i \in 1..Len(q)
          BY <3>2, <4>1
        <4>3. \A i, j \in 1..Len(q) : q[i][1] = q[j][1] => i = j
          BY <3>4 DEF OneEntry
        <4>4. \A i, j \in 1..Len(s) : s[i][1] = s[j][1] => i = j
          BY <3>3, <4>1, <4>2, <4>3
        <4> QED BY <4>4 DEF OneEntry, s
      <3>6. \A i \in 1..Len(Append(q, e)) : \E j \in 1..(n + 1) : Append(q, e)[i] = list[j]
        <4> TAKE i \in 1..Len(Append(q, e))
        <4>1. CASE i = Len(q) + 1
          BY <3>2, <4>1 DEF e
        <4>2. CASE i # Len(q) + 1
          <5>1. i \in 1..Len(q)
            BY <3>2, <4>2
          <5>2. PICK j \in 1..n : q[i] = list[j]
            BY <2>2, <5>1 DEF q
          <5> QED BY <3>2, <5>1, <5>2
        <4> QED BY <4>1, <4>2
      <3> QED BY <2>5, <3>1, <3>5, <3>6 DEF q, e
    <2> QED BY <2>3, <2>4, <2>5
  <1> HIDE DEF T
  <1>11. N \in T
    BY <1>1, <1>9, <1>10, NatSets
  <1> QED BY <1>1, <1>7, <1>11 DEF T, S


\* The list of a sequence that is one longer, and of one that is one shorter.
LEMMA ListFacts ==
    ASSUME NEW S, NEW list \in Seq(S)
    PROVE  /\ Len(list) \in Nat /\ \A i \in 1..Len(list) : list[i] \in S
           /\ \A e \in S : /\ Append(list, e) \in Seq(S) /\ Len(Append(list, e)) = Len(list) + 1
                           /\ Append(list, e)[Len(list) + 1] = e
                           /\ \A i \in 1..Len(list) : Append(list, e)[i] = list[i]
                           /\ \A i \in 1..Len(list) + 1 : i # Len(list) + 1 => i \in 1..Len(list)
           /\ list # <<>> => /\ Tail(list) \in Seq(S) /\ Len(Tail(list)) = Len(list) - 1
                             /\ Len(list) >= 1 /\ list[1] \in S
                             /\ \A i \in 1..Len(Tail(list)) :
                                  Tail(list)[i] = list[i + 1] /\ i + 1 \in 1..Len(list) /\ i + 1 # 1
  OBVIOUS

\* The entries of a list of skills.
LEMMA EntriesFacts ==
    ASSUME NEW list \in Seq(Skill)
    PROVE  /\ Entries(list) \in Seq(Skills \X Inputs) /\ Len(Entries(list)) = Len(list)
           /\ \A i \in 1..Len(list) : Entries(list)[i][1] = list[i].name
           /\ OneEach(list) => OneEntry(Entries(list))
  <1>1. \A i \in 1..Len(list) : Entry(list[i]) \in Skills \X Inputs /\ Entry(list[i])[1] = list[i].name
    <2>1. \A a \in Skill : Entry(a) \in Skills \X Inputs /\ Entry(a)[1] = a.name
      BY DEF Entry, Skill
    <2> QED BY <2>1
  <1>2. Entries(list) \in Seq(Skills \X Inputs) /\ Len(Entries(list)) = Len(list)
    BY <1>1 DEF Entries
  <1>3. \A i \in 1..Len(list) : Entries(list)[i][1] = list[i].name
    BY <1>1 DEF Entries
  <1> QED BY <1>2, <1>3 DEF OneEach, OneEntry

\* What there is to prepare, and what is known of it.
LEMMA PreparingFacts ==
    ASSUME SkillTypeOK, Preparing
    PROVE  /\ NextSkill \in Skills /\ skillTodo[1] \in Skills \X Inputs /\ skillTodo[1][2] \in Inputs
           /\ fresh[NextSkill] \in Versions /\ sources[NextSkill] \in Versions
           /\ skillTodo # <<>> /\ Len(skillTodo) \in Nat /\ Len(skillTodo) >= 1
           /\ 1 \in 1..Len(skillTodo)
  BY DEF SkillTypeOK, Preparing, NextSkill

\* Versions are numbers, and so are what is known of them.
LEMMA VersionFacts ==
    /\ Versions \subseteq Nat /\ 0 \in Versions /\ 1 \in Versions
    /\ \A v \in Versions : Known(v) \in Versions /\ Known(v) <= v
  <1>1. MaxEdits \in Nat
    BY SkillAssumption
  <1> QED BY <1>1 DEF Versions, Known, Absent

\* Nothing is active yet.
LEMMA InitSkillInv == SkillInit => SkillInv
  <1> SUFFICES ASSUME SkillInit PROVE SkillInv
    OBVIOUS
  <1>1. /\ active = <<>> /\ made = <<>> /\ stored = <<>> /\ skillTodo = <<>> /\ copyDirs = <<>>
        /\ Len(<<>>) = 0 /\ 1..0 = {} /\ DOMAIN <<>> = {} /\ \A i \in 1..Len(<<>>) : FALSE
    BY DEF SkillInit
  <1>2. SkillTypeOK
    BY <1>1, VersionFacts, SkillAssumption DEF SkillInit, SkillTypeOK
  <1>3. NamedOnce
    BY <1>1 DEF NamedOnce, OneEach, OneEntry
  <1>4. CopiesAreOwn
    BY <1>1 DEF CopiesAreOwn, OwnPacks, Packs
  <1>5. ReadingIsTrue
    BY <1>1, VersionFacts DEF SkillInit, ReadingIsTrue, Reading
  <1>6. OperationIsTrue
    BY <1>1 DEF SkillInit, OperationIsTrue, Entries
  <1> QED BY <1>2, <1>3, <1>4, <1>5, <1>6 DEF SkillInv


\* When some copies are removed, and none of a skill that is in force.
LEMMA OthersStay ==
    ASSUME SkillTypeOK, CopiesAreOwn, NEW kept, NEW gone, kept = Without(copyDirs, gone),
           gone \cap Packs(active) \subseteq {0}
    PROVE  /\ DOMAIN kept \subseteq DOMAIN copyDirs
           /\ \A i \in 1..Len(active) : active[i].name \in Packaged =>
                /\ active[i].pack \in DOMAIN kept /\ kept[active[i].pack] = copyDirs[active[i].pack]
  <1>1. copies \in Nat /\ 0 \notin DOMAIN copyDirs
    BY SkillAssumption DEF SkillTypeOK, CopiesAreOwn
  <1>2. \A i \in 1..Len(active) : active[i].name \in Packaged =>
          active[i].pack \in DOMAIN copyDirs \ gone
    BY <1>1 DEF CopiesAreOwn, Copied, Packs
  <1> QED BY <1>2 DEF Without

\* An operation is given up: everything is as before it, but for copies that nobody uses.
LEMMA GivesUpStep ==
    ASSUME SkillInv, skillOp \in Operations, stage # "publish", NEW kept, GivesUp(kept),
           \/ kept = copyDirs
           \/ \E gone : kept = Without(copyDirs, gone) /\ gone \cap Packs(active) \subseteq {0},
           copies' = copies, skillFaults' \in 0..MaxSkillFaults
    PROVE  SkillInv'
  <1>1. /\ sources' = sources /\ catalog' = catalog /\ active' = active /\ stored' = stored
        /\ made' = <<>> /\ skillTodo' = <<>> /\ body' = 0 /\ fresh' = catalog
        /\ stage' = "check" /\ copyDirs' = kept /\ Len(<<>>) = 0 /\ 1..0 = {}
        /\ \A i \in 1..Len(<<>>) : FALSE
        /\ skillOp' = IF skillOp = "restore" THEN "down" ELSE "none"
    BY DEF GivesUp
  <1>2. /\ DOMAIN kept \subseteq DOMAIN copyDirs
        /\ \A i \in 1..Len(active) : active[i].name \in Packaged =>
             /\ active[i].pack \in DOMAIN kept /\ kept[active[i].pack] = copyDirs[active[i].pack]
    <2>1. CASE kept = copyDirs
      BY <2>1 DEF SkillInv, CopiesAreOwn, Copied
    <2>2. CASE kept # copyDirs
      BY <2>2, OthersStay DEF SkillInv
    <2> QED BY <2>1, <2>2
  <1>3. SkillTypeOK'
    BY <1>1, <1>2, VersionFacts DEF SkillInv, SkillTypeOK, Operations
  <1>4. NamedOnce'
    BY <1>1 DEF SkillInv, NamedOnce, OneEach, OneEntry
  <1>5. CopiesAreOwn'
    BY <1>1, <1>2 DEF SkillInv, CopiesAreOwn, Copied, OwnPacks, Packs
  <1>6. ReadingIsTrue'
    BY <1>1 DEF SkillInv, ReadingIsTrue, Reading
  <1>7. OperationIsTrue'
    BY <1>1 DEF SkillInv, OperationIsTrue, Operations, Entries, Entry
  <1> QED BY <1>3, <1>4, <1>5, <1>6, <1>7 DEF SkillInv

\* A skill is prepared, with a copy if it is a package.
LEMMA PreparedStep ==
    ASSUME SkillInv, Preparing, stage # "publish", NEW pack \in 0..MaxCopies, Prepared(pack),
           copies' = copies, DOMAIN copyDirs' = DOMAIN copyDirs,
           \A n \in DOMAIN copyDirs : n # pack => copyDirs'[n] = copyDirs[n],
           \/ NextSkill \notin Packaged /\ pack = 0
           \/ /\ NextSkill \in Packaged /\ pack = copies /\ body = fresh[NextSkill]
              /\ pack # 0 /\ pack \notin Packs(active) \cup Packs(made) /\ pack \in DOMAIN copyDirs
              /\ copyDirs'[pack] = <<fresh[NextSkill], fresh[NextSkill]>>
    PROVE  SkillInv'
  <1> DEFINE a == [name |-> NextSkill, input |-> skillTodo[1][2], def |-> fresh[NextSkill],
                   body |-> body, pack |-> pack]
             s == NextSkill
  <1>1. /\ sources' = sources /\ catalog' = catalog /\ active' = active /\ stored' = stored
        /\ skillOp' = skillOp /\ fresh' = fresh /\ skillFaults' = skillFaults
        /\ made' = Append(made, a) /\ skillTodo' = Tail(skillTodo) /\ body' = 0
        /\ stage' = IF Len(skillTodo) = 1 THEN "commit" ELSE "check"
    BY DEF Prepared
  <1>2. a \in Skill /\ a.name = s /\ a.def = fresh[s] /\ a.body = body /\ a.pack = pack
    BY PreparingFacts DEF SkillInv, SkillTypeOK, Skill
  <1> HIDE DEF a
  <1>3. /\ Len(made) \in Nat /\ made' \in Seq(Skill) /\ Len(made') = Len(made) + 1
        /\ made'[Len(made) + 1] = a /\ \A i \in 1..Len(made) : made'[i] = made[i]
        /\ \A i \in 1..Len(made') : i # Len(made) + 1 => i \in 1..Len(made)
    BY <1>1, <1>2, ListFacts DEF SkillInv, SkillTypeOK
  <1>4. /\ Len(skillTodo) \in Nat /\ skillTodo' \in Seq(Skills \X Inputs)
        /\ Len(skillTodo') = Len(skillTodo) - 1 /\ 1 \in 1..Len(skillTodo)
        /\ \A i \in 1..Len(skillTodo') :
             skillTodo'[i] = skillTodo[i + 1] /\ i + 1 \in 1..Len(skillTodo) /\ i + 1 # 1
    BY <1>1, PreparingFacts, ListFacts DEF SkillInv, SkillTypeOK
  <1>5. \A i \in 1..Len(made) : made[i].name # s
    BY <1>4 DEF SkillInv, NamedOnce, NextSkill
  <1>6. SkillTypeOK'
    BY <1>1, <1>3, <1>4, VersionFacts DEF SkillInv, SkillTypeOK
  <1>7. NamedOnce'
    <2>1. OneEach(made')
      <3>1. \A i, j \in 1..Len(made) : made[i].name = made[j].name => i = j
        BY DEF SkillInv, NamedOnce, OneEach
      <3>2. \A i, j \in 1..Len(made') : made'[i].name = made'[j].name => i = j
        BY <1>2, <1>3, <1>5, <3>1
      <3> QED BY <3>2 DEF OneEach
    <2>2. OneEntry(skillTodo')
      <3>1. \A i, j \in 1..Len(skillTodo) : skillTodo[i][1] = skillTodo[j][1] => i = j
        BY DEF SkillInv, NamedOnce, OneEntry
      <3>2. \A i, j \in 1..Len(skillTodo') : i + 1 = j + 1 => i = j
        OBVIOUS
      <3>3. \A i, j \in 1..Len(skillTodo') : skillTodo'[i][1] = skillTodo'[j][1] => i = j
        <4> SUFFICES ASSUME NEW i \in 1..Len(skillTodo'), NEW j \in 1..Len(skillTodo'),
                            skillTodo'[i][1] = skillTodo'[j][1]
                     PROVE  i = j
          OBVIOUS
        <4>1. skillTodo[i + 1][1] = skillTodo[j + 1][1]
          BY <1>4
        <4>2. i + 1 \in 1..Len(skillTodo) /\ j + 1 \in 1..Len(skillTodo)
          BY <1>4
        <4>3. i + 1 = j + 1
          BY <3>1, <4>1, <4>2
        <4> QED BY <3>2, <4>3
      <3> QED BY <3>3 DEF OneEntry
    <2>3. \A j \in 1..Len(skillTodo') : skillTodo'[j][1] # s
      BY <1>4 DEF SkillInv, NamedOnce, OneEntry, NextSkill
    <2>4. \A i \in 1..Len(made), j \in 1..Len(skillTodo') : made[i].name # skillTodo'[j][1]
      BY <1>4 DEF SkillInv, NamedOnce
    <2>5. \A i \in 1..Len(made'), j \in 1..Len(skillTodo') : made'[i].name # skillTodo'[j][1]
      BY <1>2, <1>3, <2>3, <2>4
    <2>6. OneEach(active) /\ OneEntry(stored)
      BY DEF SkillInv, NamedOnce
    <2> QED BY <1>1, <2>1, <2>2, <2>5, <2>6 DEF NamedOnce
  <1>8. CopiesAreOwn'
    <2>1. pack # 0 => pack \notin Packs(active) \cup Packs(made)
      OBVIOUS
    <2>2. ASSUME NEW b, Copied(b, copyDirs), pack = 0 \/ b.pack # pack
          PROVE  Copied(b, copyDirs')
      <3>1. copies \in Nat /\ 0 \notin DOMAIN copyDirs
        BY SkillAssumption DEF SkillInv, SkillTypeOK, CopiesAreOwn
      <3> QED BY <2>2, <3>1 DEF Copied
    <2>3. \A i \in 1..Len(active) : pack = 0 \/ active[i].pack # pack
      BY <2>1 DEF Packs
    <2>4. \A i \in 1..Len(made) : pack = 0 \/ made[i].pack # pack
      BY <2>1 DEF Packs
    <2>5. Copied(a, copyDirs')
      BY <1>2 DEF Copied
    <2>6. \A i \in 1..Len(active) : Copied(active'[i], copyDirs')
      BY <1>1, <2>2, <2>3 DEF SkillInv, CopiesAreOwn
    <2>7. \A i \in 1..Len(made') : Copied(made'[i], copyDirs')
      BY <1>3, <2>2, <2>4, <2>5 DEF SkillInv, CopiesAreOwn
    <2>8. OwnPacks(made')
      <3>1. \A i, j \in 1..Len(made) : made[i].pack = made[j].pack => made[i].pack = 0 \/ i = j
        BY DEF SkillInv, CopiesAreOwn, OwnPacks
      <3>2. \A i, j \in 1..Len(made') : made'[i].pack = made'[j].pack => made'[i].pack = 0 \/ i = j
        BY <1>2, <1>3, <2>4, <3>1
      <3> QED BY <3>2 DEF OwnPacks
    <2>9. Packs(active) \cap Packs(made') \subseteq {0}
      <3>1. Packs(made') \subseteq Packs(made) \cup {pack}
        BY <1>2, <1>3 DEF Packs
      <3> QED BY <2>1, <3>1 DEF SkillInv, CopiesAreOwn
    <2>10. OwnPacks(active) /\ DOMAIN copyDirs \subseteq 1..copies
      BY DEF SkillInv, CopiesAreOwn
    <2> QED BY <1>1, <2>6, <2>7, <2>8, <2>9, <2>10 DEF CopiesAreOwn
  <1>9. ReadingIsTrue'
    BY <1>1 DEF SkillInv, ReadingIsTrue, Reading
  <1>10. OperationIsTrue'
    <2>1. skillOp \in Operations
      BY DEF Preparing, Operations
    <2>2. \A i \in 1..Len(made') : made'[i].def = fresh[made'[i].name]
      BY <1>2, <1>3 DEF SkillInv, OperationIsTrue
    <2>3. skillOp = "activate" => Len(made') + Len(skillTodo') = 1
      BY <1>3, <1>4 DEF SkillInv, OperationIsTrue
    <2> QED BY <1>1, <2>1, <2>2, <2>3 DEF SkillInv, OperationIsTrue, Operations, Entries, Entry
  <1> QED BY <1>6, <1>7, <1>8, <1>9, <1>10 DEF SkillInv


\* The user edits: what was read is not newer than what is there then.
LEMMA EditsStep == ASSUME SkillInv, NEW s \in Skills, Edits(s) PROVE SkillInv'
  <1>1. /\ sources' \in [Skills -> Versions] /\ \A t \in Skills : sources[t] <= sources'[t]
        /\ \A t \in Skills : sources[t] \in Nat /\ sources'[t] \in Nat
    <2>1. PICK v \in {sources[s] + 1, sources[s] + 2} \cap Versions :
            sources' = [sources EXCEPT ![s] = v]
      BY DEF Edits
    <2>2. sources \in [Skills -> Versions] /\ \A t \in Skills : sources[t] \in Nat
      BY VersionFacts DEF SkillInv, SkillTypeOK
    <2>3. v \in Nat /\ sources[s] <= v
      BY <2>1, <2>2, VersionFacts
    <2> QED BY <2>1, <2>2, <2>3
  <1>2. /\ catalog' = catalog /\ active' = active /\ stored' = stored /\ copyDirs' = copyDirs
        /\ UNCHANGED skillopvars /\ copies' = copies /\ skillFaults' = skillFaults
    BY DEF Edits
  <1>3. SkillTypeOK'
    BY <1>1, <1>2 DEF SkillInv, SkillTypeOK, skillopvars
  <1>4. NamedOnce' /\ CopiesAreOwn' /\ OperationIsTrue'
    <2>1. NamedOnce' /\ CopiesAreOwn'
      BY <1>2 DEF SkillInv, NamedOnce, CopiesAreOwn, skillopvars
    <2>2. Projected' = Projected
      BY <1>2 DEF Projected, Named, skillopvars
    <2>3. OperationIsTrue'
      BY <1>2, <2>2 DEF SkillInv, OperationIsTrue, skillopvars
    <2> QED BY <2>1, <2>3
  <1>5. ReadingIsTrue'
    <2>1. \A t \in Skills, x \in Nat : x <= sources[t] => x <= sources'[t]
      BY <1>1
    <2>2. \A t \in Skills : catalog[t] \in Nat /\ fresh[t] \in Nat
      BY VersionFacts DEF SkillInv, SkillTypeOK
    <2>3. \A t \in Skills : catalog[t] <= sources'[t] /\ fresh[t] <= sources'[t]
      BY <2>1, <2>2 DEF SkillInv, ReadingIsTrue
    <2>4. CASE ~Reading
      BY <1>2, <2>3, <2>4 DEF ReadingIsTrue, Reading, skillopvars
    <2>5. CASE Reading
      <3>1. Preparing /\ NextSkill \in Skills /\ NextSkill' = NextSkill /\ body \in Nat
        BY <1>2, <2>5, PreparingFacts, VersionFacts
           DEF SkillInv, ReadingIsTrue, SkillTypeOK, NextSkill, skillopvars
      <3>2. stage = "before" => body <= sources'[NextSkill]
        BY <2>1, <3>1 DEF SkillInv, ReadingIsTrue
      <3>3. stage = "second" => \E c \in Versions :
              /\ copies \in DOMAIN copyDirs /\ copyDirs[copies] = <<c, 0>>
              /\ fresh[NextSkill] <= c /\ c <= sources'[NextSkill]
        BY <2>1, <3>1, VersionFacts DEF SkillInv, ReadingIsTrue
      <3> QED BY <1>2, <2>3, <3>1, <3>2, <3>3
              DEF SkillInv, ReadingIsTrue, Reading, Preparing, Packs, skillopvars
    <2> QED BY <2>4, <2>5
  <1> QED BY <1>3, <1>4, <1>5 DEF SkillInv

\* An operation begins, with a list that names no skill twice.
LEMMA PreparesStep ==
    ASSUME SkillInv, skillOp \in {"none", "down"}, NEW what \in Operations,
           NEW list \in Seq(Skills \X Inputs), OneEntry(list), NEW cat \in [Skills -> Versions],
           \A s \in Skills : cat[s] <= sources[s], Prepares(what, list, cat),
           sources' = sources, active' = active, stored' = stored, copyDirs' = copyDirs,
           copies' = copies, skillFaults' = skillFaults,
           what = "restore" <=> skillOp = "down", catalog' = IF what = "restore" THEN cat ELSE catalog,
           what = "activate" => Len(list) = 1 /\ cat = catalog
    PROVE  SkillInv'
  <1>1. /\ skillOp' = what /\ stage' = "check" /\ skillTodo' = list /\ fresh' = cat
        /\ made' = <<>> /\ body' = 0 /\ Len(<<>>) = 0 /\ 1..0 = {}
        /\ \A i \in 1..Len(<<>>) : FALSE
    BY DEF Prepares
  <1>2. SkillTypeOK'
    BY <1>1, VersionFacts DEF SkillInv, SkillTypeOK, Operations
  <1>3. NamedOnce'
    BY <1>1 DEF SkillInv, NamedOnce, OneEach, OneEntry
  <1>4. CopiesAreOwn'
    BY <1>1 DEF SkillInv, CopiesAreOwn, OwnPacks, Packs
  <1>5. ReadingIsTrue'
    BY <1>1 DEF SkillInv, ReadingIsTrue, Reading
  <1>6. OperationIsTrue'
    <2>1. CASE what = "restore"
      <3>1. active = <<>>
        BY <2>1 DEF SkillInv, OperationIsTrue
      <3> QED BY <1>1, <2>1, <3>1 DEF SkillInv, OperationIsTrue
    <2>2. CASE what # "restore"
      <3>1. skillOp = "none" /\ stored = Entries(active)
        BY <2>2 DEF SkillInv, OperationIsTrue
      <3>2. what = "activate" => Len(made') + Len(list) = 1 /\ fresh' = catalog
        BY <1>1
      <3> QED BY <1>1, <2>2, <3>1, <3>2 DEF SkillInv, OperationIsTrue, Operations, Entries, Entry
    <2> QED BY <2>1, <2>2
  <1> QED BY <1>2, <1>3, <1>4, <1>5, <1>6 DEF SkillInv

\* The operations that begin.
LEMMA BeginsStep ==
    ASSUME SkillInv,
           \/ \E s \in Skills, input \in Inputs : Activate(s, input)
           \/ Refresh \/ Restore
    PROVE  SkillInv'
  <1> DEFINE now == [s \in Skills |-> Known(sources[s])]
  <1>1. now \in [Skills -> Versions] /\ \A s \in Skills : now[s] <= sources[s]
    BY VersionFacts DEF SkillInv, SkillTypeOK
  <1>2. ASSUME NEW s \in Skills, NEW input \in Inputs, Activate(s, input) PROVE SkillInv'
    <2>1. <<<<s, input>>>> \in Seq(Skills \X Inputs) /\ Len(<<<<s, input>>>>) = 1
      OBVIOUS
    <2>2. OneEntry(<<<<s, input>>>>)
      BY <2>1 DEF OneEntry
    <2>3. catalog \in [Skills -> Versions] /\ \A t \in Skills : catalog[t] <= sources[t]
      BY DEF SkillInv, SkillTypeOK, ReadingIsTrue
    <2> QED BY <1>2, <2>1, <2>2, <2>3, PreparesStep DEF Activate, Operations
  <1> HIDE DEF now
  <1>3. ASSUME Refresh PROVE SkillInv'
    <2> DEFINE list == Remaining(Entries(active), now)
    <2>1. list \in Seq(Skills \X Inputs) /\ OneEntry(list)
      <3>1. Entries(active) \in Seq(Skills \X Inputs) /\ OneEntry(Entries(active))
        BY EntriesFacts DEF SkillInv, SkillTypeOK, NamedOnce
      <3> QED BY <3>1, RemainingFacts
    <2>2. skillOp = "none" /\ Prepares("refresh", list, now)
          /\ UNCHANGED <<sources, catalog, active, stored, copyDirs, copies, skillFaults>>
      BY <1>3 DEF Refresh, now
    <2> HIDE DEF list
    <2> QED BY <1>1, <2>1, <2>2, PreparesStep DEF Operations
  <1>4. ASSUME Restore PROVE SkillInv'
    <2> DEFINE list == Remaining(stored, now)
    <2>1. list \in Seq(Skills \X Inputs) /\ OneEntry(list)
      BY RemainingFacts DEF SkillInv, SkillTypeOK, NamedOnce
    <2>2. skillOp = "down" /\ Prepares("restore", list, now) /\ catalog' = now
          /\ UNCHANGED <<sources, active, stored, copyDirs, copies, skillFaults>>
      BY <1>4 DEF Restore, now
    <2> HIDE DEF list
    <2> QED BY <1>1, <2>1, <2>2, PreparesStep DEF Operations
  <1> QED BY <1>2, <1>3, <1>4

\* A reset, and the end of the process: nothing is active.
LEMMA ClearsStep == ASSUME SkillInv, ResetsSkills \/ SkillsDie PROVE SkillInv'
  <1>1. /\ sources' = sources /\ catalog' = catalog /\ active' = <<>>
        /\ made' = <<>> /\ skillTodo' = <<>> /\ stage' = "check" /\ copies' = copies
        /\ Len(<<>>) = 0 /\ 1..0 = {} /\ DOMAIN <<>> = {} /\ \A i \in 1..Len(<<>>) : FALSE
    BY DEF ResetsSkills, SkillsDie, skillopvars, SkillInv, OperationIsTrue
  <1>2. /\ \/ skillOp' = "none" /\ stored' = <<>> /\ fresh' = fresh
           \/ skillOp' = "down" /\ stored' = stored /\ fresh' = catalog
        /\ body' \in Versions /\ DOMAIN copyDirs' \subseteq DOMAIN copyDirs
        /\ skillFaults' \in 0..MaxSkillFaults
    <2>1. CASE ResetsSkills
      BY <2>1 DEF ResetsSkills, skillopvars, SkillInv, SkillTypeOK, Without
    <2>2. CASE SkillsDie
      <3>1. skillFaults' \in 0..MaxSkillFaults
        BY <2>2, SkillAssumption DEF SkillsDie, Fault, SkillInv, SkillTypeOK
      <3> QED BY <1>1, <2>2, <3>1, VersionFacts DEF SkillsDie
    <2> QED BY <2>1, <2>2
  <1>3. SkillTypeOK'
    <2>1. {sources', catalog', fresh'} \subseteq [Skills -> Versions]
      BY <1>1, <1>2 DEF SkillInv, SkillTypeOK
    <2>2. active' \in Seq(Skill) /\ made' \in Seq(Skill) /\ skillTodo' \in Seq(Skills \X Inputs)
          /\ stored' \in Seq(Skills \X Inputs)
      <3>1. <<>> \in Seq(Skill) /\ <<>> \in Seq(Skills \X Inputs)
        OBVIOUS
      <3>2. stored' = stored \/ stored' = <<>>
        BY <1>2
      <3>3. stored \in Seq(Skills \X Inputs)
        BY DEF SkillInv, SkillTypeOK
      <3> QED BY <1>1, <3>1, <3>2, <3>3
    <2> QED BY <1>1, <1>2, <2>1, <2>2 DEF SkillInv, SkillTypeOK
  <1>4. NamedOnce'
    BY <1>1, <1>2 DEF SkillInv, NamedOnce, OneEach, OneEntry
  <1>5. CopiesAreOwn'
    BY <1>1, <1>2 DEF SkillInv, CopiesAreOwn, OwnPacks, Packs
  <1>6. ReadingIsTrue'
    BY <1>1, <1>2 DEF SkillInv, ReadingIsTrue, Reading
  <1>7. OperationIsTrue'
    <2>1. Entries(<<>>) = <<>>
      BY <1>1 DEF Entries
    <2> QED BY <1>1, <1>2, <2>1 DEF OperationIsTrue
  <1> QED BY <1>3, <1>4, <1>5, <1>6, <1>7 DEF SkillInv


\* A fingerprint that differs: what was prepared is given up.
LEMMA RejectedStep ==
    ASSUME SkillInv, skillOp \in Operations, stage # "publish", Rejected
    PROVE  SkillInv'
  <1>1. /\ GivesUp(Without(copyDirs, Packs(made))) /\ copies' = copies /\ skillFaults' = skillFaults
        /\ Packs(made) \cap Packs(active) \subseteq {0} /\ skillFaults \in 0..MaxSkillFaults
    BY DEF Rejected, SkillInv, CopiesAreOwn, SkillTypeOK
  <1> QED BY <1>1, GivesUpStep

\* A step on in the preparation of a skill.
LEMMA GoesStep ==
    ASSUME SkillInv, Preparing, stage # "publish", NEW to \in {"read", "before", "first", "second"},
           Goes(to), ReadingIsTrue', body' \in Versions, copies' \in 0..MaxCopies,
           copies' >= copies, DOMAIN copyDirs' \subseteq 1..copies',
           \A n \in Packs(active) \cup Packs(made) : n \in DOMAIN copyDirs =>
             n \in DOMAIN copyDirs' /\ copyDirs'[n] = copyDirs[n]
    PROVE  SkillInv'
  <1>1. /\ stage' = to /\ sources' = sources /\ catalog' = catalog /\ active' = active
        /\ stored' = stored /\ skillOp' = skillOp /\ fresh' = fresh /\ skillTodo' = skillTodo
        /\ made' = made /\ skillFaults' = skillFaults
    BY DEF Goes
  <1>2. SkillTypeOK'
    <2>1. DOMAIN copyDirs' \subseteq 1..MaxCopies
      BY SkillAssumption
    <2> QED BY <1>1, <2>1 DEF SkillInv, SkillTypeOK
  <1>3. NamedOnce'
    BY <1>1 DEF SkillInv, NamedOnce
  <1>4. CopiesAreOwn'
    <2>1. \A i \in 1..Len(active) : Copied(active[i], copyDirs')
      BY DEF SkillInv, CopiesAreOwn, Copied, Packs
    <2>2. \A i \in 1..Len(made) : Copied(made[i], copyDirs')
      BY DEF SkillInv, CopiesAreOwn, Copied, Packs
    <2> QED BY <1>1, <2>1, <2>2 DEF SkillInv, CopiesAreOwn
  <1>5. OperationIsTrue'
    <2>1. skillOp \in Operations
      BY DEF Preparing, Operations
    <2> QED BY <1>1, <2>1 DEF SkillInv, OperationIsTrue, Operations
  <1> QED BY <1>2, <1>3, <1>4, <1>5 DEF SkillInv

\* The preparation of a skill up to its copy: _prepare_activation and materialize.
LEMMA CheckingStep == ASSUME SkillInv, Checks \/ Reads \/ StartsCopy PROVE SkillInv'
  <1> DEFINE s == NextSkill
  <1>1. /\ Preparing /\ stage \in {"check", "read", "before"} /\ stage # "publish"
        /\ skillOp \in Operations
    BY DEF Checks, Reads, StartsCopy, Preparing, Operations
  <1>2. /\ s \in Skills /\ fresh[s] \in Nat /\ sources[s] \in Nat /\ fresh[s] <= sources[s]
        /\ sources[s] \in Versions /\ body \in Versions /\ body \in Nat
        /\ copies \in 0..MaxCopies /\ copies \in Nat /\ DOMAIN copyDirs \subseteq 1..copies
        /\ \A t \in Skills : catalog[t] <= sources[t] /\ fresh[t] <= sources[t]
    <2>1. s \in Skills /\ fresh[s] \in Versions /\ sources[s] \in Versions
      BY <1>1, PreparingFacts DEF SkillInv
    <2>2. /\ body \in Versions /\ copies \in 0..MaxCopies /\ MaxCopies \in Nat
      BY SkillAssumption DEF SkillInv, SkillTypeOK
    <2>3. /\ DOMAIN copyDirs \subseteq 1..copies
          /\ \A t \in Skills : catalog[t] <= sources[t] /\ fresh[t] <= sources[t]
      BY DEF SkillInv, CopiesAreOwn, ReadingIsTrue
    <2>4. copies \in Nat
      BY <2>2
    <2> QED BY <2>1, <2>2, <2>3, <2>4, VersionFacts
  <1>3. ASSUME NEW to \in {"read", "before", "first", "second"}, Goes(to)
        PROVE  /\ NextSkill' = s /\ Preparing' /\ sources' = sources /\ fresh' = fresh
               /\ catalog' = catalog /\ stage' = to /\ active' = active /\ made' = made
    BY <1>1, <1>3 DEF Goes, NextSkill, Preparing
  <1>4. CASE Rejected
    BY <1>1, <1>4, RejectedStep
  <1>5. CASE Goes("read") /\ UNCHANGED <<copyDirs, body, copies>>
    <2>1. ReadingIsTrue'
      BY <1>2, <1>3, <1>5 DEF ReadingIsTrue
    <2> QED BY <1>1, <1>2, <1>5, <2>1, GoesStep
  <1>6. CASE Goes("before") /\ body' = sources[s] /\ UNCHANGED <<copyDirs, copies>>
    <2>1. ReadingIsTrue'
      <3>1. fresh[s] <= body' /\ body' <= sources[s]
        BY <1>2, <1>6
      <3> QED BY <1>2, <1>3, <1>6, <3>1 DEF ReadingIsTrue
    <2> QED BY <1>1, <1>2, <1>6, <2>1, GoesStep
  <1>7. CASE /\ stage = "before" /\ s \in Packaged /\ sources[s] = fresh[s]
             /\ copies < MaxCopies /\ copies' = copies + 1
             /\ Goes("first") /\ UNCHANGED <<copyDirs, body>>
    <2>1. /\ copies' \in 0..MaxCopies /\ copies' >= copies /\ copies' >= 1
          /\ DOMAIN copyDirs \subseteq 1..copies'
      BY <1>2, <1>7, SkillAssumption
    <2>2. body = fresh[s]
      BY <1>2, <1>7 DEF SkillInv, ReadingIsTrue
    <2>3. copies' \notin Packs(active) \cup Packs(made)
      <3>1. ASSUME NEW a, Copied(a, copyDirs) PROVE a.pack # copies'
        BY <1>2, <1>7, <3>1 DEF Copied
      <3> QED BY <3>1 DEF SkillInv, CopiesAreOwn, Packs
    <2>4. ReadingIsTrue'
      BY <1>2, <1>3, <1>7, <2>1, <2>2, <2>3 DEF ReadingIsTrue, Packs
    <2> QED BY <1>1, <1>2, <1>7, <2>1, <2>4, GoesStep
  <1>8. CASE Prepared(0) /\ s \notin Packaged /\ UNCHANGED <<copyDirs, copies>>
    <2>1. 0 \in 0..MaxCopies
      BY SkillAssumption
    <2> QED BY <1>1, <1>8, <2>1, PreparedStep
  <1> QED BY <1>4, <1>5, <1>6, <1>7, <1>8 DEF Checks, Reads, StartsCopy

\* The copy of a package: what is copied is looked at again.
LEMMA CopyingStep == ASSUME SkillInv, CopiesFirst \/ CopiesSecond PROVE SkillInv'
  <1> DEFINE s == NextSkill
  <1>1. /\ Preparing /\ stage \in {"first", "second"} /\ stage # "publish" /\ skillOp \in Operations
    BY DEF CopiesFirst, CopiesSecond, Preparing, Operations
  <1>2. /\ s \in Skills /\ fresh[s] \in Versions /\ sources[s] \in Versions
        /\ fresh[s] <= sources[s] /\ sources[s] <= sources[s]
        /\ body \in Versions /\ body = fresh[s] /\ s \in Packaged
        /\ copies \in 1..MaxCopies /\ copies \in Nat /\ copies # 0 /\ copies \in 0..MaxCopies
        /\ copies \in 1..copies /\ DOMAIN copyDirs \subseteq 1..copies
        /\ copies \notin Packs(active) \cup Packs(made)
        /\ \A t \in Skills : catalog[t] <= sources[t] /\ fresh[t] <= sources[t]
    <2>1. copies \in 0..MaxCopies /\ copies >= 1
      BY <1>1 DEF SkillInv, SkillTypeOK, ReadingIsTrue
    <2>2. s \in Skills /\ fresh[s] \in Versions /\ sources[s] \in Versions
      BY <1>1, PreparingFacts DEF SkillInv
    <2>3. /\ body \in Versions /\ MaxCopies \in Nat
      BY SkillAssumption DEF SkillInv, SkillTypeOK
    <2>4. /\ DOMAIN copyDirs \subseteq 1..copies
          /\ \A t \in Skills : catalog[t] <= sources[t] /\ fresh[t] <= sources[t]
          /\ body = fresh[s] /\ s \in Packaged /\ copies \notin Packs(active) \cup Packs(made)
      BY <1>1 DEF SkillInv, CopiesAreOwn, ReadingIsTrue
    <2>5. copies \in 1..MaxCopies /\ copies \in Nat /\ copies # 0 /\ copies \in 1..copies
      BY <2>1, <2>3
    <2>6. fresh[s] <= sources[s] /\ sources[s] <= sources[s]
      BY <2>2, <2>4, VersionFacts
    <2> QED BY <2>1, <2>2, <2>3, <2>4, <2>5, <2>6
  <1>3. CASE Rejected
    BY <1>1, <1>3, RejectedStep
  <1>4. CASE CopiesFirst /\ ~Rejected
    <2>1. /\ Goes("second") /\ body' = body /\ copies' = copies
          /\ copyDirs' = [n \in DOMAIN copyDirs \cup {copies} |->
                             IF n = copies THEN <<sources[s], 0>> ELSE copyDirs[n]]
      BY <1>4 DEF CopiesFirst
    <2>2. /\ NextSkill' = s /\ Preparing' /\ sources' = sources /\ fresh' = fresh
          /\ catalog' = catalog /\ stage' = "second" /\ active' = active /\ made' = made
      BY <1>1, <2>1 DEF Goes, NextSkill, Preparing
    <2>3. /\ copies \in DOMAIN copyDirs' /\ copyDirs'[copies] = <<sources[s], 0>>
          /\ \A n \in DOMAIN copyDirs : n # copies =>
               n \in DOMAIN copyDirs' /\ copyDirs'[n] = copyDirs[n]
          /\ DOMAIN copyDirs' \subseteq 1..copies
      BY <1>2, <2>1
    <2>4. ReadingIsTrue'
      BY <1>2, <2>1, <2>2, <2>3 DEF ReadingIsTrue, Packs
    <2>5. \A n \in Packs(active) \cup Packs(made) : n \in DOMAIN copyDirs =>
            n \in DOMAIN copyDirs' /\ copyDirs'[n] = copyDirs[n]
      BY <1>2, <2>3
    <2> QED BY <1>1, <1>2, <2>1, <2>3, <2>4, <2>5, GoesStep
  <1>5. CASE CopiesSecond /\ sources[s] = fresh[s]
    <2>1. /\ Prepared(copies) /\ copies' = copies
          /\ copyDirs' = [copyDirs EXCEPT ![copies] = <<copyDirs[copies][1], sources[s]>>]
      BY <1>5 DEF CopiesSecond, CopyIsMade
    <2>2. PICK c \in Versions :
            /\ copies \in DOMAIN copyDirs /\ copyDirs[copies] = <<c, 0>>
            /\ fresh[s] <= c /\ c <= sources[s]
      BY <1>5 DEF CopiesSecond, SkillInv, ReadingIsTrue
    <2>3. c = fresh[s] /\ copyDirs[copies][1] = c
      BY <1>2, <1>5, <2>2, VersionFacts
    <2>4. /\ DOMAIN copyDirs' = DOMAIN copyDirs /\ copyDirs'[copies] = <<fresh[s], fresh[s]>>
          /\ \A n \in DOMAIN copyDirs : n # copies => copyDirs'[n] = copyDirs[n]
      BY <1>5, <2>1, <2>2, <2>3
    <2> QED BY <1>1, <1>2, <2>1, <2>2, <2>4, PreparedStep
  <1>6. CASE CopiesSecond /\ sources[s] # fresh[s]
    <2>1. /\ GivesUp(Without(copyDirs, Packs(made) \cup {copies}))
          /\ copies' = copies /\ skillFaults' = skillFaults
      BY <1>6 DEF CopiesSecond
    <2>2. (Packs(made) \cup {copies}) \cap Packs(active) \subseteq {0}
      BY <1>2 DEF SkillInv, CopiesAreOwn
    <2>3. skillFaults \in 0..MaxSkillFaults
      BY DEF SkillInv, SkillTypeOK
    <2> QED BY <1>1, <2>1, <2>2, <2>3, GivesUpStep
  <1> QED BY <1>3, <1>4, <1>5, <1>6


\* The list as it will be, once nothing is left to prepare: no skill twice, all of versions
\* that will be known, each package with a copy of its own.
LEMMA ProjectedFacts ==
    ASSUME SkillInv, skillOp \in Operations, skillTodo = <<>>
    PROVE  /\ Projected \in Seq(Skill) /\ OneEach(Projected) /\ OwnPacks(Projected)
           /\ \A i \in 1..Len(Projected) :
                /\ Copied(Projected[i], copyDirs)
                /\ Projected[i].def = fresh[Projected[i].name]
                /\ \/ \E j \in 1..Len(made) : Projected[i] = made[j]
                   \/ /\ skillOp = "activate"
                      /\ \E j \in 1..Len(active) : /\ Projected[i] = active[j]
                                                   /\ active[j].name # made[1].name
  <1>1. /\ \A i \in 1..Len(made) : Copied(made[i], copyDirs) /\ made[i].def = fresh[made[i].name]
        /\ \A i \in 1..Len(active) : /\ Copied(active[i], copyDirs)
                                     /\ active[i].def = catalog[active[i].name]
        /\ OneEach(active) /\ OneEach(made) /\ OwnPacks(active) /\ OwnPacks(made)
        /\ active \in Seq(Skill) /\ made \in Seq(Skill)
        /\ Packs(active) \cap Packs(made) \subseteq {0}
    BY DEF SkillInv, CopiesAreOwn, OperationIsTrue, NamedOnce, SkillTypeOK
  <1>2. CASE skillOp # "activate"
    BY <1>1, <1>2 DEF Projected
  <1>3. CASE skillOp = "activate"
    <2> DEFINE a == made[1]
    <2>1. /\ Len(skillTodo) = 0 /\ Len(made) = 1 /\ 1 \in 1..Len(made) /\ fresh = catalog
      BY <1>1, <1>3 DEF SkillInv, OperationIsTrue
    <2>2. a \in Skill /\ Copied(a, copyDirs) /\ a.def = fresh[a.name]
      <3>1. made[1] \in Skill
        BY <1>1, <2>1, ListFacts
      <3> QED BY <1>1, <2>1, <3>1
    <2>3. \A i \in 1..Len(active) : active[i].pack = a.pack => a.pack = 0
      BY <1>1, <2>1 DEF Packs
    <2>4. /\ \A i, j \in 1..Len(active) : active[i].name = active[j].name => i = j
          /\ \A i, j \in 1..Len(active) : active[i].pack = active[j].pack =>
               active[i].pack = 0 \/ i = j
      BY <1>1 DEF OneEach, OwnPacks
    <2>5. CASE Named(active, a.name) = {}
      <3> DEFINE s == Append(active, a)
      <3>1. Projected = s
        BY <1>3, <2>5 DEF Projected
      <3>2. \A i \in 1..Len(active) : active[i].name # a.name
        BY <2>5 DEF Named
      <3>3. /\ s \in Seq(Skill) /\ Len(s) = Len(active) + 1 /\ s[Len(active) + 1] = a
            /\ \A i \in 1..Len(active) : s[i] = active[i]
            /\ \A i \in 1..Len(s) : i # Len(active) + 1 => i \in 1..Len(active)
        BY <1>1, <2>2, ListFacts
      <3> HIDE DEF s, a
      <3>4. \A i, j \in 1..Len(s) : s[i].name = s[j].name => i = j
        BY <2>4, <3>2, <3>3
      <3>5. \A i, j \in 1..Len(s) : s[i].pack = s[j].pack => s[i].pack = 0 \/ i = j
        BY <2>3, <2>4, <3>3
      <3>6. \A i \in 1..Len(s) :
              \/ s[i] = a
              \/ \E j \in 1..Len(active) : s[i] = active[j] /\ active[j].name # a.name
        BY <3>2, <3>3
      <3> QED BY <1>1, <1>3, <2>1, <2>2, <3>1, <3>3, <3>4, <3>5, <3>6 DEF OneEach, OwnPacks, a
    <2>6. CASE Named(active, a.name) # {}
      <3> DEFINE s == [i \in 1..Len(active) |-> IF active[i].name = a.name THEN a ELSE active[i]]
      <3>1. Projected = s
        BY <1>3, <2>6 DEF Projected
      <3>2. /\ s \in Seq(Skill) /\ Len(s) = Len(active)
            /\ \A i \in 1..Len(s) : s[i] = IF active[i].name = a.name THEN a ELSE active[i]
        BY <1>1, <2>2
      <3> HIDE DEF s, a
      <3>3. \A i \in 1..Len(s) : s[i].name = active[i].name
        BY <3>2
      <3>4. \A i, j \in 1..Len(s) : s[i].name = s[j].name => i = j
        BY <2>4, <3>2, <3>3
      <3>5. \A i, j \in 1..Len(s) : s[i].pack = s[j].pack => s[i].pack = 0 \/ i = j
        BY <2>3, <2>4, <3>2
      <3>6. \A i \in 1..Len(s) :
              \/ s[i] = a
              \/ \E j \in 1..Len(active) : s[i] = active[j] /\ active[j].name # a.name
        BY <3>2
      <3> QED BY <1>1, <1>3, <2>1, <2>2, <3>1, <3>2, <3>4, <3>5, <3>6 DEF OneEach, OwnPacks, a
    <2> QED BY <2>5, <2>6
  <1> QED BY <1>2, <1>3

\* The session is written, or it is not and the operation is given up.
LEMMA CommitsStep == ASSUME SkillInv, CommitsList PROVE SkillInv'
  <1>1. skillOp \in Operations /\ skillTodo = <<>> /\ stage \in {"check", "commit"}
        /\ stage # "publish" /\ skillFaults \in 0..MaxSkillFaults
    BY DEF CommitsList, Operations, SkillInv, SkillTypeOK
  <1>2. CASE /\ stage' = "publish"
             /\ stored' = IF Changes THEN Entries(Projected) ELSE stored
             /\ UNCHANGED <<sources, catalog, active, copyDirs, skillOp, fresh, skillTodo, made,
                            body, copies, skillFaults>>
    <2>1. Projected \in Seq(Skill) /\ OneEach(Projected)
      BY <1>1, ProjectedFacts
    <2>2. stored' = Entries(Projected)
      <3>1. CASE Changes
        BY <1>2, <3>1
      <3>2. CASE ~Changes
        <4>1. skillOp \in {"refresh", "restore"} /\ Projected = made
          BY <1>1, <3>2 DEF Changes, Projected, Operations
        <4>2. skillOp = "refresh" => stored = Entries(active)
          BY <1>1 DEF SkillInv, OperationIsTrue
        <4> QED BY <1>2, <3>2, <4>1, <4>2 DEF Changes
      <3> QED BY <3>1, <3>2
    <2>3. stored' \in Seq(Skills \X Inputs) /\ OneEntry(stored')
      BY <2>1, <2>2, EntriesFacts
    <2>4. Projected' = Projected
      BY <1>2 DEF Projected, Named
    <2>5. SkillTypeOK'
      BY <1>2, <2>3 DEF SkillInv, SkillTypeOK
    <2>6. NamedOnce' /\ CopiesAreOwn'
      BY <1>2, <2>3 DEF SkillInv, NamedOnce, CopiesAreOwn
    <2>7. ReadingIsTrue'
      BY <1>2 DEF SkillInv, ReadingIsTrue, Reading
    <2>8. OperationIsTrue'
      <3>1. Entries(Projected)' = Entries(Projected)
        BY <2>4 DEF Entries, Entry
      <3> QED BY <1>1, <1>2, <2>2, <3>1 DEF SkillInv, OperationIsTrue, Operations
    <2> QED BY <2>5, <2>6, <2>7, <2>8 DEF SkillInv
  <1>3. ASSUME GivesUp(IF skillOp = "activate" THEN copyDirs ELSE Without(copyDirs, Packs(made))),
               copies' = copies, skillFaults' \in 0..MaxSkillFaults
        PROVE  SkillInv'
    <2>1. Packs(made) \cap Packs(active) \subseteq {0}
      BY DEF SkillInv, CopiesAreOwn
    <2>2. CASE skillOp = "activate"
      <3>1. GivesUp(copyDirs)
        BY <1>3, <2>2
      <3> QED BY <1>1, <1>3, <3>1, GivesUpStep
    <2>3. CASE skillOp # "activate"
      <3>1. GivesUp(Without(copyDirs, Packs(made)))
        BY <1>3, <2>3
      <3> QED BY <1>1, <1>3, <2>1, <3>1, GivesUpStep
    <2> QED BY <2>2, <2>3
  <1>4. Fault => skillFaults' \in 0..MaxSkillFaults
    BY <1>1, SkillAssumption DEF Fault
  <1> QED BY <1>1, <1>2, <1>3, <1>4 DEF CommitsList

\* The list is put in force, and the copies of what it replaces are removed.
LEMMA PublishesStep == ASSUME SkillInv, Publishes PROVE SkillInv'
  <1> DEFINE gone == IF skillOp = "activate" THEN Named(active, made[1].name) ELSE 1..Len(active)
             old == {active[i].pack : i \in gone}
  <1>1. /\ skillOp \in Operations /\ skillTodo = <<>> /\ stored = Entries(Projected)
    BY DEF Publishes, SkillInv, OperationIsTrue, Operations, SkillTypeOK
  <1>2. /\ active' = Projected /\ catalog' = fresh /\ fresh' = fresh /\ sources' = sources
        /\ stored' = stored /\ copies' = copies /\ skillFaults' = skillFaults
        /\ skillOp' = "none" /\ stage' = "check" /\ skillTodo' = <<>> /\ made' = <<>> /\ body' = 0
        /\ copyDirs' = Without(copyDirs, old)
        /\ Len(<<>>) = 0 /\ 1..0 = {} /\ \A i \in 1..Len(<<>>) : FALSE
    BY DEF Publishes
  <1>3. \A i \in 1..Len(Projected) : Projected[i].name \in Packaged => Projected[i].pack \notin old
    <2> SUFFICES ASSUME NEW i \in 1..Len(Projected), NEW k \in gone,
                        Projected[i].name \in Packaged, Projected[i].pack = active[k].pack
                 PROVE  FALSE
      OBVIOUS
    <2>1. k \in 1..Len(active) /\ (skillOp = "activate" => active[k].name = made[1].name)
      BY DEF Named
    <2>2. Projected[i].pack # 0
      <3>1. 0 \notin DOMAIN copyDirs
        BY SkillAssumption DEF SkillInv, CopiesAreOwn, SkillTypeOK
      <3> QED BY <1>1, <3>1, ProjectedFacts DEF Copied
    <2>3. CASE \E j \in 1..Len(made) : Projected[i] = made[j]
      BY <2>1, <2>2, <2>3 DEF SkillInv, CopiesAreOwn, Packs
    <2>4. CASE /\ skillOp = "activate"
               /\ \E j \in 1..Len(active) : /\ Projected[i] = active[j]
                                            /\ active[j].name # made[1].name
      BY <2>1, <2>2, <2>4 DEF SkillInv, CopiesAreOwn, OwnPacks
    <2> QED BY <1>1, <2>3, <2>4, ProjectedFacts
  <1> HIDE DEF old
  <1>4. DOMAIN copyDirs' = DOMAIN copyDirs \ old
        /\ \A n \in DOMAIN copyDirs \ old : copyDirs'[n] = copyDirs[n]
    BY <1>2 DEF Without
  <1>5. \A i \in 1..Len(Projected) : Copied(Projected[i], copyDirs')
    BY <1>1, <1>3, <1>4, ProjectedFacts DEF Copied
  <1>6. /\ Projected \in Seq(Skill) /\ OneEach(Projected) /\ OwnPacks(Projected)
        /\ \A i \in 1..Len(Projected) : Projected[i].def = fresh[Projected[i].name]
    BY <1>1, ProjectedFacts
  <1>7. SkillTypeOK'
    BY <1>2, <1>4, <1>6, VersionFacts DEF SkillInv, SkillTypeOK
  <1>8. NamedOnce'
    BY <1>2, <1>6 DEF SkillInv, NamedOnce, OneEach, OneEntry
  <1>9. CopiesAreOwn'
    BY <1>2, <1>4, <1>5, <1>6 DEF SkillInv, CopiesAreOwn, OwnPacks, Packs
  <1>10. ReadingIsTrue'
    BY <1>2 DEF SkillInv, ReadingIsTrue, Reading
  <1>11. OperationIsTrue'
    <2>1. Entries(active') = Entries(Projected)
      BY <1>2
    <2> QED BY <1>1, <1>2, <1>6, <2>1 DEF OperationIsTrue, Entries, Entry
  <1> QED BY <1>7, <1>8, <1>9, <1>10, <1>11 DEF SkillInv

\* Every step of the skills keeps their invariant.
LEMMA StepSkillInv == SkillInv /\ [SkillNext]_skillvars => SkillInv'
  <1> SUFFICES ASSUME SkillInv, [SkillNext]_skillvars PROVE SkillInv'
    OBVIOUS
  <1>1. CASE UNCHANGED skillvars
    <2>1. /\ sources' = sources /\ catalog' = catalog /\ active' = active /\ stored' = stored
          /\ copyDirs' = copyDirs /\ skillOp' = skillOp /\ stage' = stage /\ fresh' = fresh
          /\ skillTodo' = skillTodo /\ made' = made /\ body' = body /\ copies' = copies
          /\ skillFaults' = skillFaults
      BY <1>1 DEF skillvars, skillopvars
    <2>2. SkillTypeOK' /\ NamedOnce' /\ CopiesAreOwn'
      <3>1. SkillTypeOK'
        BY <2>1 DEF SkillInv, SkillTypeOK
      <3>2. NamedOnce'
        BY <2>1 DEF SkillInv, NamedOnce
      <3>3. CopiesAreOwn'
        BY <2>1 DEF SkillInv, CopiesAreOwn
      <3> QED BY <3>1, <3>2, <3>3
    <2>3. Preparing' = Preparing /\ NextSkill' = NextSkill /\ Reading' = Reading
      BY <2>1 DEF Preparing, NextSkill, Reading
    <2>4. ReadingIsTrue'
      BY <2>1, <2>3 DEF SkillInv, ReadingIsTrue
    <2>5. Projected' = Projected
      BY <2>1 DEF Projected, Named
    <2>6. OperationIsTrue'
      BY <2>1, <2>5 DEF SkillInv, OperationIsTrue
    <2> QED BY <2>2, <2>4, <2>6 DEF SkillInv
  <1>2. CASE SkillNext
    BY <1>2, EditsStep, BeginsStep, ClearsStep, CheckingStep, CopyingStep, CommitsStep,
       PublishesStep DEF SkillNext
  <1> QED BY <1>1, <1>2

\* Every state of the active skills, for any skills and packages, and any number of edits,
\* copies and faults: what is being prepared is apart from what is in force.
THEOREM SkillInvariant == SkillSpec => []SkillInv
  BY InitSkillInv, StepSkillInv, PTL DEF SkillSpec

\* Whatever is edited while a skill is read or copied, refused, or interrupted: the session
\* lists what is in force, and each skill in force is of one version, its package too.
THEOREM SkillsAreKeptAlways == SkillSpec => []SkillsAreKept
  <1>1. SkillInv => SkillsAreKept
    <2> SUFFICES ASSUME SkillInv PROVE ActiveIsStored /\ SkillsAreWhole
      BY DEF SkillsAreKept
    <2>1. ActiveIsStored
      BY DEF SkillInv, OperationIsTrue, ActiveIsStored
    <2>2. SkillsAreWhole
      <3>1. \A i \in 1..Len(active) : Named(active, active[i].name) = {i}
        BY DEF SkillInv, NamedOnce, OneEach, Named
      <3> QED BY <3>1 DEF SkillInv, CopiesAreOwn, Copied, OperationIsTrue, SkillsAreWhole
    <2> QED BY <2>1, <2>2
  <1> QED BY <1>1, SkillInvariant, PTL

=============================================================================
