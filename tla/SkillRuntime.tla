---------------------------- MODULE SkillRuntime ----------------------------
(***************************************************************************)
(* The active skills of a session.  A skill is a file, or a package of     *)
(* files that is copied to a directory of the program when the skill is    *)
(* activated.  The user edits them at any time, also while one is being    *)
(* read or copied; versions stand for what the fingerprints tell apart.    *)
(* Activation, refresh (before each input) and restore (at the start of a  *)
(* process) prepare skills first, then store the list in the session, and  *)
(* then put it in force.  The process may be killed at any point.          *)
(***************************************************************************)
EXTENDS Naturals, Sequences, SequencesExt, FiniteSets

CONSTANTS
    Skills,
    Packaged,       \* the skills that are packages
    Shared,         \* the skills whose text goes into the prompt of every turn
    MaxShared,      \* the room for them
    Inputs,
    MaxEdits,       \* bound: edits of one skill
    MaxCopies,      \* bound: directories made
    MaxSkillFaults  \* bound: commits that fail, and kills

ASSUME SkillAssumption == {MaxEdits, MaxCopies, MaxSkillFaults} \subseteq Nat

Absent == 0         \* the version of a skill that is not there

VARIABLES
    sources,    \* the version of each skill; odd ones are there
    catalog,    \* the versions that the program knows
    active,     \* the skills in force, in their order
    stored,     \* what the session says is active
    copyDirs,   \* the copies: number -> the versions of its two files
    skillOp,    \* what is under way: "none", "activate", "refresh", "restore", "down"
    stage,      \* and where
    fresh,      \* the catalog of a refresh
    skillTodo,  \* the skills yet to be prepared: <<name, input>>
    made,       \* those prepared
    body,       \* the version of the text that was read
    copies,     \* how many directories were made
    skillFaults

skillopvars == <<skillOp, stage, fresh, skillTodo, made, body>>
skillvars == <<sources, catalog, active, stored, copyDirs, skillopvars, copies, skillFaults>>

Versions == 0..2 * MaxEdits + 1
There(v) == v % 2 = 1
Known(v) == IF There(v) THEN v ELSE Absent
Skill == [name : Skills, input : Inputs, def : Versions, body : Versions, pack : 0..MaxCopies]
Entry(a) == <<a.name, a.input>>
Entries(list) == [i \in 1..Len(list) |-> Entry(list[i])]
Named(list, s) == {i \in 1..Len(list) : list[i].name = s}
Packs(list) == {list[i].pack : i \in 1..Len(list)}

SkillTypeOK ==
    /\ {sources, catalog, fresh} \subseteq [Skills -> Versions]
    /\ active \in Seq(Skill) /\ made \in Seq(Skill)
    /\ stored \in Seq(Skills \X Inputs) /\ skillTodo \in Seq(Skills \X Inputs)
    /\ DOMAIN copyDirs \subseteq 1..MaxCopies /\ body \in Versions /\ copies \in 0..MaxCopies
    /\ skillOp \in {"none", "activate", "refresh", "restore", "down"}
    /\ stage \in {"check", "read", "before", "first", "second", "commit", "publish"}
    /\ skillFaults \in 0..MaxSkillFaults

SkillInit ==
    /\ sources = [s \in Skills |-> 1] /\ catalog = sources /\ fresh = sources
    /\ active = <<>> /\ stored = <<>> /\ copyDirs = <<>> /\ skillOp = "none" /\ stage = "check"
    /\ skillTodo = <<>> /\ made = <<>> /\ body = 0 /\ copies = 0 /\ skillFaults = 0

Fault == skillFaults < MaxSkillFaults /\ skillFaults' = skillFaults + 1
Without(d, packs) == [n \in DOMAIN d \ packs |-> d[n]]

-----------------------------------------------------------------------------
(* the user *)

\* A skill is changed, removed, or put back.
Edits(s) ==
    /\ sources[s] + 1 \in Versions
    /\ \E v \in {sources[s] + 1, sources[s] + 2} \cap Versions :
         sources' = [sources EXCEPT ![s] = v]
    /\ UNCHANGED <<catalog, active, stored, copyDirs, skillopvars, copies, skillFaults>>

Prepares(what, list, cat) ==
    /\ skillOp' = what /\ stage' = "check" /\ skillTodo' = list /\ fresh' = cat
    /\ made' = <<>> /\ body' = 0

\* Of a list, the entries of the skills that are there now, in their order.
Remaining(list, now) ==
    LET rest[n \in 0..Len(list)] ==
          IF n = 0 THEN <<>>
          ELSE IF now[list[n][1]] # Absent THEN Append(rest[n - 1], list[n]) ELSE rest[n - 1]
    IN rest[Len(list)]

\* load_skill, or the command of the skill.
Activate(s, input) ==
    /\ skillOp = "none" /\ catalog[s] # Absent
    /\ Prepares("activate", <<<<s, input>>>>, catalog)
    /\ UNCHANGED <<sources, catalog, active, stored, copyDirs, copies, skillFaults>>

\* refresh: unless nothing changed, a catalog is built, and what is active is prepared anew.
Refresh ==
    /\ skillOp = "none"
    /\ LET now == [s \in Skills |-> Known(sources[s])] IN
       /\ now # catalog
       /\ Prepares("refresh", Remaining(Entries(active), now), now)
    /\ UNCHANGED <<sources, catalog, active, stored, copyDirs, copies, skillFaults>>

\* /reset: the session first, then the copies.
ResetsSkills ==
    /\ skillOp = "none" /\ active # <<>> /\ active' = <<>> /\ stored' = <<>>
    /\ copyDirs' = Without(copyDirs, Packs(active))
    /\ UNCHANGED <<sources, catalog, skillopvars, copies, skillFaults>>

\* The process ends, in whatever way; the next one restores what it still finds.
SkillsDie ==
    /\ skillOp # "down" /\ Fault /\ skillOp' = "down" /\ stage' = "check" /\ fresh' = catalog
    /\ skillTodo' = <<>> /\ made' = <<>> /\ body' = 0 /\ active' = <<>> /\ copyDirs' = <<>>
    /\ UNCHANGED <<sources, catalog, stored, copies>>
Restore ==
    /\ skillOp = "down"
    /\ LET now == [s \in Skills |-> Known(sources[s])] IN
       /\ catalog' = now
       /\ Prepares("restore", Remaining(stored, now), now)
    /\ UNCHANGED <<sources, active, stored, copyDirs, copies, skillFaults>>

-----------------------------------------------------------------------------
(* _prepare_activation, of the first skill to do *)

NextSkill == skillTodo[1][1]
Preparing == skillOp \in {"activate", "refresh", "restore"} /\ skillTodo # <<>>

\* What was prepared is given up.  A restore that fails ends the start of the program.
GivesUp(kept) ==
    /\ skillOp' = (IF skillOp = "restore" THEN "down" ELSE "none")
    /\ stage' = "check" /\ fresh' = catalog /\ skillTodo' = <<>> /\ made' = <<>> /\ body' = 0
    /\ copyDirs' = kept
    /\ UNCHANGED <<sources, catalog, active, stored>>
Rejected == GivesUp(Without(copyDirs, Packs(made))) /\ UNCHANGED <<copies, skillFaults>>

Goes(to) ==
    /\ stage' = to
    /\ UNCHANGED <<sources, catalog, active, stored, skillOp, fresh, skillTodo, made, skillFaults>>

\* The fingerprint is compared; then the text is read, which shows a change of its size.
Checks ==
    /\ Preparing /\ stage = "check"
    /\ IF sources[NextSkill] = fresh[NextSkill]
       THEN Goes("read") /\ UNCHANGED <<copyDirs, body, copies>>
       ELSE Rejected
Reads ==
    /\ Preparing /\ stage = "read"
    /\ \/ /\ There(sources[NextSkill]) /\ body' = sources[NextSkill]
          /\ Goes("before") /\ UNCHANGED <<copyDirs, copies>>
       \/ sources[NextSkill] # fresh[NextSkill] /\ Rejected

Prepared(pack) ==
    /\ made' = Append(made, [name |-> NextSkill, input |-> skillTodo[1][2],
                             def |-> fresh[NextSkill], body |-> body, pack |-> pack])
    /\ skillTodo' = Tail(skillTodo) /\ body' = 0
    /\ stage' = IF Len(skillTodo) = 1 THEN "commit" ELSE "check"
    /\ UNCHANGED <<sources, catalog, active, stored, skillOp, fresh, skillFaults>>

\* materialize: the fingerprint, the files one after the other, and the fingerprint again.
StartsCopy ==
    /\ Preparing /\ stage = "before"
    /\ IF NextSkill \notin Packaged THEN Prepared(0) /\ UNCHANGED <<copyDirs, copies>>
       ELSE IF sources[NextSkill] # fresh[NextSkill] THEN Rejected
       ELSE /\ copies < MaxCopies /\ copies' = copies + 1
            /\ Goes("first") /\ UNCHANGED <<copyDirs, body>>
CopiesFirst ==
    /\ Preparing /\ stage = "first"
    /\ IF There(sources[NextSkill])
       THEN /\ copyDirs' = [n \in DOMAIN copyDirs \cup {copies} |->
                               IF n = copies THEN <<sources[NextSkill], 0>> ELSE copyDirs[n]]
            /\ Goes("second") /\ UNCHANGED <<body, copies>>
       ELSE Rejected
CopyIsMade ==
    /\ Prepared(copies) /\ UNCHANGED copies
    /\ copyDirs' = [copyDirs EXCEPT ![copies] = <<@[1], sources[NextSkill]>>]
BugCopiesSecond ==  \* the fingerprint is not looked at again
    Preparing /\ stage = "second" /\ CopyIsMade
CopiesSecond ==
    /\ Preparing /\ stage = "second"
    /\ IF sources[NextSkill] = fresh[NextSkill] THEN CopyIsMade
       ELSE /\ GivesUp(Without(copyDirs, Packs(made) \cup {copies}))
            /\ UNCHANGED <<copies, skillFaults>>

-----------------------------------------------------------------------------
\* The list as it will be: a skill that was active keeps its place.
Projected ==
    IF skillOp # "activate" THEN made
    ELSE IF Named(active, made[1].name) = {} THEN Append(active, made[1])
    ELSE [i \in 1..Len(active) |-> IF active[i].name = made[1].name THEN made[1] ELSE active[i]]

\* An edited text is longer.
Weight(a) == IF a.name \notin Shared THEN 0 ELSE IF a.body = 1 THEN 1 ELSE 2
Fits(list) == FoldLeft(LAMBDA total, a : total + Weight(a), 0, list) <= MaxShared

\* Whether the session is written: always by an activation, else if the list changed.
Changes == \/ skillOp = "activate"
           \/ Entries(made) # IF skillOp = "refresh" THEN Entries(active) ELSE stored

BugCommits ==  \* a skill that disappeared is not taken from the session
    /\ skillOp \in {"activate", "refresh", "restore"} /\ skillTodo = <<>> /\ Fits(Projected)
    /\ stage \in {"check", "commit"} /\ stage' = "publish"
    /\ stored' = IF skillOp = "activate" THEN Entries(Projected) ELSE stored
    /\ UNCHANGED <<sources, catalog, active, copyDirs, skillOp, fresh, skillTodo, made, body,
                   copies, skillFaults>>

\* The session is written, or could not be: an activation that fails here, or because its
\* text does not fit, leaves its copy behind.
CommitsList ==
    /\ skillOp \in {"activate", "refresh", "restore"}
    /\ skillTodo = <<>> /\ stage \in {"check", "commit"}
    /\ LET kept == IF skillOp = "activate" THEN copyDirs ELSE Without(copyDirs, Packs(made)) IN
       \/ /\ Fits(Projected) /\ stage' = "publish"
          /\ stored' = IF Changes THEN Entries(Projected) ELSE stored
          /\ UNCHANGED <<sources, catalog, active, copyDirs, skillOp, fresh, skillTodo, made, body,
                         copies, skillFaults>>
       \/ ~Fits(Projected) /\ GivesUp(kept) /\ UNCHANGED <<copies, skillFaults>>
       \/ Changes /\ Fault /\ GivesUp(kept) /\ UNCHANGED copies

\* It is put in force; the copies of what it replaces are removed.
Publishes ==
    /\ stage = "publish" /\ active' = Projected /\ catalog' = fresh
    /\ LET gone == IF skillOp = "activate" THEN Named(active, made[1].name) ELSE 1..Len(active)
       IN copyDirs' = Without(copyDirs, {active[i].pack : i \in gone})
    /\ skillOp' = "none" /\ stage' = "check" /\ skillTodo' = <<>> /\ made' = <<>> /\ body' = 0
    /\ UNCHANGED <<sources, stored, fresh, copies, skillFaults>>

-----------------------------------------------------------------------------
SkillNext ==
    \/ \E s \in Skills : Edits(s) \/ \E input \in Inputs : Activate(s, input)
    \/ Refresh \/ ResetsSkills \/ SkillsDie \/ Restore
    \/ Checks \/ Reads \/ StartsCopy \/ CopiesFirst \/ CopiesSecond \/ CommitsList \/ Publishes

SkillSpec == SkillInit /\ [][SkillNext]_skillvars

-----------------------------------------------------------------------------
\* docs/phase-10-skill-system/spec.md:122: between operations the session lists what is in
\* force, with its order and its inputs, whatever was refused, rejected or interrupted.
ActiveIsStored == skillOp = "none" => stored = Entries(active)

\* docs/phase-10-skill-system/spec.md:112: no mixture of an old definition and a new one is
\* ever in force: an active skill is of the catalog's version, and if it is a package, its
\* text and all the files of its copy are, and the copy is there.  None is in force twice.
SkillsAreWhole ==
    skillOp # "down" => \A i \in 1..Len(active) :
        LET a == active[i] IN
        /\ a.def = catalog[a.name] /\ Named(active, a.name) = {i}
        /\ a.name \in Packaged =>
            a.body = a.def /\ a.pack \in DOMAIN copyDirs /\ copyDirs[a.pack] = <<a.def, a.def>>

\* The skills in force are those the session lists, each of a single version.
SkillsAreKept == ActiveIsStored /\ SkillsAreWhole
=============================================================================
