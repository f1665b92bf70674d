------------------------------- MODULE Rebuild -------------------------------
(***************************************************************************)
(* A source tree, its build database, and runs of redo over both: what a   *)
(* build does to the files and to what redo knows of them.  The commands   *)
(* of a run are processes that share the database; every step is one of    *)
(* their transactions, or the rename of an output.  Between runs the user  *)
(* edits, deletes, and creates files.  Tokens and the order in which       *)
(* processes wait for locks are the matter of module Builder; scripts      *)
(* write their output to standard output.                                  *)
(***************************************************************************)
EXTENDS Dirtiness

CONSTANTS
    Sources,        \* files no rule builds, the .do files among them
    Targets,        \* files with rules
    Rules,          \* the .do files that could build a target, the first choice first
    Needs,          \* what the script of a target always asks redo-ifchange for
    Extra,          \* pairs <<f, g>>: the script asks for g too if f is odd
    Optional,       \* what the script asks for if it exists, and redo-ifcreate otherwise
    AlwaysBuilt,    \* targets whose script calls redo-always
    Stamped,        \* targets whose script pipes its output into redo-stamp
    Coarse,         \* targets whose output depends on its inputs only up to their lowest bit
    Phony,          \* targets whose script produces no output
    Flaky,          \* targets whose script may fail
    Clumsy,         \* targets whose script may write the target instead of $3
    Editable,       \* what the user may touch: pairs of a file and a version
    Absent,         \* sources that do not exist at first
    GoalSets,       \* the targets named on the command lines of redo-ifchange
    Redos,          \* ... and of redo
    Parallel,       \* whether a process may run several jobs at once
    Slots,          \* a bound: the jobs there may be at once, those left behind included,
    Of,             \* ... each of a certain target
    MaxRun, MaxEdit, MaxKill    \* bounds: runs, the user's changes, runs that are killed

Files == Sources \cup Targets
Root == "redo"      \* the command the user runs
Procs == Slots \cup {Root}

ASSUME TreeAssumption ==
    /\ Names = Files \cup {ALWAYS}
    /\ Sources \cap Targets = {} /\ ALWAYS \notin Files
    /\ Root \notin Slots /\ IsFiniteSet(Slots) /\ Of \in [Slots -> Targets]
    /\ Rules \in [Targets -> Seq(Sources)]
    /\ Needs \in [Targets -> SUBSET Files] /\ Optional \in [Targets -> SUBSET Sources]
    /\ Extra \in [Targets -> SUBSET (Files \X Files)]
    /\ Editable \subseteq Files \X Nat /\ GoalSets \cup Redos \subseteq SUBSET Files

(* What a script could ever ask for, and what could build the target. *)
MayNeed(t) ==
    Needs[t] \cup {q[2] : q \in Extra[t]} \cup Optional[t] \cup {Rules[t][i] : i \in DOMAIN Rules[t]}

(* No target needs itself.  (redo finds circles when it meets them, by the *)
(* locks that the processes above it hold: module Builder.)                *)
ASSUME NoCircles ==
    \A S \in SUBSET Targets : S # {} => \E t \in S : MayNeed(t) \cap S = {}

ASSUME BoundsAssumption == MaxRun \in Nat /\ MaxEdit \in Nat /\ MaxKill \in Nat

VARIABLES
    disk,       \* of every name, the stamp of the file and its content
    db,         \* table Files
    deps,       \* table Deps
    runid,      \* the id of the last run (table Runid counts on from 10^9)
    job,        \* the processes of the run: the command, and one for every job
    goals,      \* the arguments of the last command,
    forced,     \* ... and whether it was redo
    result,     \* how the last run ended, until the user touches something
    reason,     \* whether something in this run had to fail
    adopted,    \* targets that redo kept as sources when their rule was gone
    flaws,      \* what has gone wrong with a target, and in which run: see Kinds
    edits,      \* how often the user touched a file,
    kills       \* ... and how often a run was killed

user == <<disk, edits, kills>>
data == <<db, deps>>
command == <<goals, forced, runid, result>>
history == <<reason, adopted, flaws>>
vars == <<disk, db, deps, runid, job, goals, forced, result, reason, adopted, flaws, edits, kills>>

(***************************************************************************)
(* A content is the set of the versions of source files that went into it; *)
(* a file the user wrote contains its own name.                            *)
(***************************************************************************)
Written(f, version) == {<<f, version>>}

Gone == [stamp |-> Missing, content |-> {}]

Exists(f) == disk[f].stamp # Missing

Odd(f) == \E p \in disk[f].content : p[2] % 2 = 1

Found(t) == {i \in DOMAIN Rules[t] : Exists(Rules[t][i])}

(* The .do file that builds a target, in a set of at most one.             *)
DoFile(t) == {Rules[t][i] : i \in {i \in Found(t) : \A k \in Found(t) : i <= k}}

(* What the script of a target asks redo-ifchange for. *)
MoreNeeds(t) == {p[2] : p \in {q \in Extra[t] : Odd(q[1])}} \cup {f \in Optional[t] : Exists(f)}

Inputs(t) == Needs[t] \cup MoreNeeds(t)

(* What the script writes.  It reads its inputs after it has asked for them. *)
Output(t) ==
    LET leaves == UNION {disk[f].content : f \in Inputs(t) \cup DoFile(t)}
    IN IF t \in Phony THEN {}
       ELSE IF t \in Coarse THEN {<<p[1], 2 * (p[2] \div 2)>> : p \in leaves}
       ELSE leaves

(***************************************************************************)
(* Processes.  A job that builds its target goes through "always",         *)
(* "needs", "asking", "more", "moreasking" (the redo commands of the       *)
(* script), "exit" (the output is written) and "renamed"; or it is the     *)
(* redo-unlocked started in its place: "unlocked", "check", "recheck".     *)
(* A command that gives up at once leaves its jobs behind: they lose the   *)
(* locks of their targets, their scripts run on, and nobody waits for them.*)
(***************************************************************************)
NewJob(place, by, todo, need, sf, before) ==
    [at |-> place, by |-> by, left |-> FALSE, todo |-> todo, bad |-> FALSE, need |-> need,
     sf |-> sf, before |-> before, out |-> {}]

NoJob == NewJob("none", Root, {}, {}, Blank, Missing)

Places == {"none", "goals", "always", "needs", "asking", "more", "moreasking", "exit",
           "renamed", "unlocked", "check", "recheck"}

Job == [at : Places, by : Procs, left : BOOLEAN, todo : SUBSET Files, bad : BOOLEAN,
        need : SUBSET Files, sf : Row, before : Nat, out : Content]

Asking == {"goals", "asking", "moreasking", "check", "recheck"}

Alive(p) == job[p].at # "none"

(* Its parent waits for it, and owns the lock of its target. *)
Held(c) == Alive(c) /\ ~job[c].left

Children(p) == {c \in Slots : Held(c) /\ job[c].by = p}

(* Mutant: a command does not stop at a failure. *)
OverDone(p) == job[p].at \in Asking /\ Children(p) = {} /\ job[p].todo = {}

(* A command has nothing left to do: no target, or no wish to go on after  *)
(* a failure, and no job running.                                          *)
Over(p) ==
    /\ job[p].at \in Asking /\ Children(p) = {}
    /\ job[p].todo = {} \/ job[p].bad

Idle == \A p \in Procs : ~Alive(p)

(* A transaction holds the write lock of the database from its beginning.  *)
DbFree == \A c \in Slots : job[c].at # "renamed"

JobsOf(f) == {c \in Slots : Of[c] = f}

Spare(t) == {c \in JobsOf(t) : ~Alive(c)}

Slot(t) == CHOOSE c \in Spare(t) : TRUE

(* A stamp that no one has seen: only equality of stamps matters.          *)
Fresh(f) ==
    LET used == {Crit(disk[f].stamp), Crit(db[f].stamp)}
                  \cup {Crit(job[c].sf.stamp) : c \in JobsOf(f)}
                  \cup {Crit(job[c].before) : c \in JobsOf(f)}
    IN 2 * CHOOSE n \in 1..(Cardinality(used) + 1) : n \notin used

Init ==
    /\ disk = [f \in Names |-> IF f \in Sources \ Absent
                               THEN [stamp |-> 2, content |-> Written(f, 0)] ELSE Gone]
    /\ db = [f \in Names |-> Blank]
    /\ deps = {}
    /\ runid = 0
    /\ job = [p \in Procs |-> NoJob]
    /\ goals = {} /\ forced = FALSE
    /\ result = "none" /\ reason = FALSE /\ adopted = {} /\ flaws = {}
    /\ edits = 0 /\ kills = 0

(***************************************************************************)
(* Known ways in which a target, or what depends on it, misses a change.   *)
(*   "unlocked"  redo-unlocked was put in charge of it in this run         *)
(*   "peeked"    it was found clean while its own job was running          *)
(*   "reverted"  redo took the user's file for it, and knows the checksum  *)
(*               of the output that was there before                       *)
(*   "torn"      its job was lost when it had begun to record its end      *)
(*   "relisted"  its job was lost when it had put "may be created" in the  *)
(*               place of its dependency on a file that is gone            *)
(*   "misplaced" its job was lost when it had written the target instead   *)
(*               of its output, and the file looks like one of the user's  *)
(* A job is lost if it is killed, or left behind by the command that       *)
(* started it.                                                             *)
(***************************************************************************)
Kinds == {"unlocked", "peeked", "reverted", "torn", "relisted", "misplaced"}

Flaw(kind, ts) == {[kind |-> kind, target |-> t, run |-> runid] : t \in ts}

Flawed(kinds) == {q.target : q \in {q \in flaws : q.kind \in kinds}}

Move(p, place) == job' = [job EXCEPT ![p].at = place]

----------------------------------------------------------------------------
(* A command looks at one of its targets (builder::run, BuildJob::start).  *)

Consider(p, t) ==
    /\ DbFree /\ job[p].at \in Asking /\ t \in job[p].todo /\ ~job[p].bad
    /\ Parallel \/ Children(p) = {}
    /\ UNCHANGED <<user, command>>

(* The lock: the second redo-ifchange of redo-unlocked does without. *)
Lockable(t) == \A c \in JobsOf(t) : ~Held(c)

Forcing(p) == p = Root /\ forced

NoOob(p) == job[p].at \in {"check", "recheck"}

(* should_build of redo-ifchange, or of redo. *)
Opinion(p, t) ==
    IF Forcing(p) THEN Answer("dirty", {}, [db |-> db, cache |-> {}])
    ELSE ShouldBuild(t, db, deps, disk, runid)

(* Targets that this opinion calls clean although they are being built.    *)
Peeked(after) == {t \in Targets : ~Lockable(t) /\ after[t].checked # db[t].checked}

FailedAlready(p, t) == IsFailed(db[t], runid) /\ ~Forcing(p)

Done(p, t) == [job EXCEPT ![p].todo = @ \ {t}]

(* Mutant: the error of should_build is dropped. *)
BrokeQuietly(p, t) == [job EXCEPT ![p].todo = @ \ {t}]

Broke(p, t) == [job EXCEPT ![p].todo = @ \ {t}, ![p].bad = TRUE]

(* The command gives up: the futures of its jobs are dropped, their locks  *)
(* with them.                                                              *)
Desert(p, jobs) ==
    [q \in Procs |-> IF q \in Children(p) THEN [jobs[q] EXCEPT !.left = TRUE] ELSE jobs[q]]

(* Another job has failed to build it in this run.  should_build says so,  *)
(* whatever jobs are running; redo only notices it when it comes back to a *)
(* target that was locked, after its jobs have ended.                      *)
FindFailed(p, t) ==
    /\ Consider(p, t) /\ Lockable(t) /\ IsFailed(db[t], runid)
    /\ Forcing(p) => Parallel /\ Children(p) = {}
    /\ job' = Desert(p, Broke(p, t))
    /\ UNCHANGED <<data, history>>

FindClean(p, t) ==
    /\ Consider(p, t) /\ (Lockable(t) \/ job[p].at = "recheck")
    /\ ~FailedAlready(p, t)
    /\ LET a == Opinion(p, t)
       IN a.is = "clean" /\ db' = a.db /\ flaws' = flaws \cup Flaw("peeked", Peeked(a.db))
    /\ job' = Done(p, t)
    /\ UNCHANGED <<deps, reason, adopted>>

(* Some of what it depends on has to be built before redo-ifchange can     *)
(* tell: redo-unlocked is started in place of the target's own job.        *)
GiveToUnlocked(p, t) ==
    /\ Consider(p, t) /\ Lockable(t) /\ ~FailedAlready(p, t) /\ ~NoOob(p) /\ Spare(t) # {}
    /\ LET a == Opinion(p, t)
       IN /\ a.is = "need"
          /\ db' = a.db
          /\ flaws' = flaws \cup Flaw("peeked", Peeked(a.db)) \cup Flaw("unlocked", {t})
          /\ job' = [Done(p, t) EXCEPT ![Slot(t)] =
                       NewJob("unlocked", p, {}, a.need, Blank, Missing)]
    /\ UNCHANGED <<deps, reason, adopted>>

(* start_self: the row of the target, read when its lock was taken, after  *)
(* looking for changes the user made to a generated file.                  *)
Overridden(t) ==
    /\ db[t].generated /\ Exists(t)
    /\ db[t].override \/ DetectOverride(db[t].stamp, disk[t].stamp)

(* redo-stamp has run for it, but its end was never recorded. *)
Unstamped(t) == db[t].generated /\ Exists(t) /\ ~db[t].override /\ db[t].stamp = None

(* Mutant: a target that was generated once is the user's no more. *)
LookedAway(t) == db[t]

Looked(t) ==
    IF Overridden(t) /\ ~db[t].override THEN SetOverride(db[t], disk[t].stamp, runid) ELSE db[t]

Static(t) == ~Unstamped(t) /\ Exists(t) /\ (Looked(t).override \/ ~Looked(t).generated)

MustStart(p, t) ==
    /\ Consider(p, t) /\ Lockable(t) /\ ~FailedAlready(p, t)
    /\ LET is == Opinion(p, t).is
       IN is = "dirty" \/ (is = "need" /\ NoOob(p))

(* The file of a stamped target changes, and its checksum stays. *)
Reverted(t, row) == {u \in {t} \cap Targets : row.csum # {} /\ row.changed # db[u].changed}

(* The unwrap() of a stamp that is NULL: the process panics. *)
PanicOn(p, t) ==
    /\ MustStart(p, t) /\ Unstamped(t)
    /\ job' = Desert(p, Broke(p, t))
    /\ UNCHANGED <<data, history>>

(* A source, or a target that the user has overwritten, is left alone.     *)
KeepStatic(p, t) ==
    /\ MustStart(p, t) /\ Static(t)
    /\ LET after == Opinion(p, t).db
           row == IF Looked(t).override THEN Looked(t) ELSE SetStatic(Looked(t), disk[t].stamp, runid)
       IN /\ db' = [after EXCEPT ![t] = row]
          /\ flaws' = flaws \cup Flaw("peeked", Peeked(after)) \cup Flaw("reverted", Reverted(t, row))
    /\ job' = Done(p, t)
    /\ UNCHANGED <<deps, reason, adopted>>

RulesOf(t) == IF t \in Targets THEN Rules[t] ELSE <<>>

Candidates(t) == {RulesOf(t)[i] : i \in DOMAIN RulesOf(t)}

(* Rules that come before the .do file, in which case they do not exist.   *)
Skipped(t) == {RulesOf(t)[i] : i \in {i \in DOMAIN RulesOf(t) : \A k \in 1..i : ~Exists(RulesOf(t)[k])}}

(* find_do_file records every .do file it looked for. *)
Searched(t) ==
    AddDeps(AddDeps(ZapDeps1(deps, t), t, Created, Skipped(t)), t, Modified,
            IF t \in Targets THEN DoFile(t) ELSE {})

Ruleless(t) == Skipped(t) = Candidates(t)

AdoptOrphan(p, t) ==
    /\ MustStart(p, t) /\ ~Static(t) /\ ~Unstamped(t) /\ Ruleless(t) /\ Exists(t)
    /\ LET after == Opinion(p, t).db
           row == SetStatic(db[t], disk[t].stamp, runid)
       IN /\ db' = [after EXCEPT ![t] = row]
          /\ flaws' = flaws \cup Flaw("peeked", Peeked(after)) \cup Flaw("reverted", Reverted(t, row))
    /\ deps' = Searched(t)
    /\ job' = Done(p, t)
    /\ adopted' = adopted \cup {t}
    /\ UNCHANGED reason

NoRule(p, t) ==
    /\ MustStart(p, t) /\ Ruleless(t) /\ ~Exists(t)
    /\ LET after == Opinion(p, t).db
       IN /\ db' = [after EXCEPT ![t] = SetFailed(db[t], Missing, runid)]
          /\ flaws' = flaws \cup Flaw("peeked", Peeked(after))
    /\ deps' = Searched(t)
    /\ job' = Broke(p, t)
    /\ reason' = TRUE
    /\ UNCHANGED adopted

StartJob(p, t) ==
    /\ MustStart(p, t) /\ ~Static(t) /\ ~Unstamped(t) /\ ~Ruleless(t) /\ Spare(t) # {}
    /\ LET after == Opinion(p, t).db
       IN /\ db' = [f \in Names |-> IF f \in DoFile(t) THEN SetStatic(after[f], disk[f].stamp, runid)
                                                       ELSE after[f]]
          /\ flaws' = flaws \cup Flaw("peeked", Peeked(after))
    /\ deps' = Searched(t)
    /\ job' = [Done(p, t) EXCEPT ![Slot(t)] =
                 NewJob(IF t \in AlwaysBuilt THEN "always" ELSE "needs", p, {}, {},
                        db[t], disk[t].stamp)]
    /\ UNCHANGED <<reason, adopted>>

----------------------------------------------------------------------------
(* The script of a target *)

RedoAlways(c) ==
    /\ DbFree /\ job[c].at = "always"
    /\ deps' = AddDeps(deps, Of[c], Modified, {ALWAYS})
    /\ db' = [db EXCEPT ![ALWAYS] = SetChanged([@ EXCEPT !.stamp = Missing], runid)]
    /\ Move(c, "needs")
    /\ UNCHANGED <<user, command, history>>

(* redo-ifchange first records what the script depends on, then builds it. *)
RedoIfchange(c, from, to, wanted) ==
    /\ DbFree /\ job[c].at = from
    /\ deps' = AddDeps(deps, Of[c], Modified, wanted)
    /\ job' = [job EXCEPT ![c].at = to, ![c].todo = wanted]
    /\ UNCHANGED <<user, db, command, history>>

AskNeeds(c) == RedoIfchange(c, "needs", "asking", Needs[Of[c]])

RedoIfcreate(c) ==
    /\ DbFree /\ job[c].at = "asking" /\ Over(c) /\ ~job[c].bad
    /\ deps' = AddDeps(deps, Of[c], Created, {f \in Optional[Of[c]] : ~Exists(f)})
    /\ Move(c, "more")
    /\ UNCHANGED <<user, db, command, history>>

AskMore(c) == RedoIfchange(c, "more", "moreasking", MoreNeeds(Of[c]))

(* The output is complete, in the file that $3 names. *)
Write(c) ==
    /\ job[c].at = "moreasking" /\ Over(c) /\ ~job[c].bad
    /\ job' = [job EXCEPT ![c].at = "exit", ![c].out = Output(Of[c])]
    /\ UNCHANGED <<user, command, history, deps>>

WriteOnly(c) == Of[c] \notin Stamped /\ Write(c) /\ UNCHANGED db

(* Mutant: a new checksum alone does not make a target changed. *)
RedoStampQuietly(f, sum, r) == [SetChecked(SetGenerated(f), r) EXCEPT !.csum = sum]

(* redo-stamp compares the checksum of the output with that of last time.  *)
RedoStamp(f, sum, r) ==
    IF sum = f.csum THEN SetChecked(SetGenerated(f), r)
    ELSE [SetChanged(SetGenerated(f), r) EXCEPT !.csum = sum]

WriteAndStamp(c) ==
    /\ Of[c] \in Stamped /\ DbFree /\ Write(c)
    /\ db' = [db EXCEPT ![Of[c]] = RedoStamp(@, Output(Of[c]), runid)]

ScriptAborts(c) ==
    /\ job[c].at \in {"asking", "moreasking"} /\ Over(c) /\ job[c].bad
    /\ Move(c, "exit")
    /\ UNCHANGED <<user, data, command, history>>

ScriptFails(c) ==
    /\ Of[c] \in Flaky /\ job[c].at \in {"needs", "exit"} /\ ~job[c].bad
    /\ job' = [job EXCEPT ![c].at = "exit", ![c].bad = TRUE]
    /\ reason' = TRUE
    /\ UNCHANGED <<user, data, command, adopted, flaws>>

(* The script writes its target instead of $3. *)
WriteDirectly(c) ==
    /\ Of[c] \in Clumsy /\ job[c].at = "needs"
    /\ disk' = [disk EXCEPT ![Of[c]] = [stamp |-> Fresh(Of[c]), content |-> {}]]
    /\ Move(c, "exit")
    /\ reason' = TRUE
    /\ UNCHANGED <<edits, kills, data, command, adopted, flaws>>

----------------------------------------------------------------------------
(* record_new_state: the end of a job, one transaction of its parent *)

(* Mutant: the failure of a job is lost. *)
EndJobQuietly(c, fails) == job' = [job EXCEPT ![c] = NoJob]

EndJob(c, fails) ==
    job' = [[job EXCEPT ![job[c].by].bad = @ \/ fails] EXCEPT ![c] = NoJob]

DirectlyModified(c) == Exists(Of[c]) /\ Crit(disk[Of[c]].stamp) # Crit(job[c].before)

Rename(c) ==
    /\ DbFree /\ job[c].at = "exit" /\ ~job[c].left /\ ~job[c].bad /\ ~DirectlyModified(c)
    /\ disk' = [disk EXCEPT ![Of[c]] = IF job[c].out = {} THEN Gone
                                   ELSE [stamp |-> Fresh(Of[c]), content |-> job[c].out]]
    /\ Move(c, "renamed")
    /\ UNCHANGED <<edits, kills, data, command, history>>

(* Mutant: what redo-stamp has vouched for keeps its old stamp. *)
RecordedUnstamped(f, now, r) ==
    LET g == [f EXCEPT !.generated = TRUE, !.override = FALSE]
    IN IF IsChecked(g, r) \/ IsChanged(g, r) THEN g
       ELSE SetChanged(UpdateStamp([g EXCEPT !.csum = {}], now, r), r)

(* The row after a successful build, from the row in the database: if it   *)
(* was checked or changed in this run, redo-stamp is supposed to have run. *)
Recorded(f, now, r) ==
    LET g == [f EXCEPT !.generated = TRUE, !.override = FALSE]
    IN IF IsChecked(g, r) \/ IsChanged(g, r) THEN [g EXCEPT !.stamp = now]
       ELSE SetChanged(UpdateStamp([g EXCEPT !.csum = {}], now, r), r)

(* A change of the target recorded in a later run reaches what depends on it. *)
Mended(t, anew) ==
    {q \in flaws : q.target # t \/ ~(q.kind = "torn" \/ (anew /\ q.run < runid))}

RecordSuccess(c) ==
    /\ job[c].at = "renamed"
    /\ db' = [db EXCEPT ![Of[c]] = Recorded(@, disk[Of[c]].stamp, runid)]
    /\ deps' = ZapDeps2(deps, Of[c])
    /\ EndJob(c, FALSE)
    /\ flaws' = Mended(Of[c], db'[Of[c]].changed = runid)
    /\ UNCHANGED <<user, command, reason, adopted>>

(* The row after a failure, from the row the job began with. *)
RecordFailure(c) ==
    /\ DbFree /\ job[c].at = "exit" /\ ~job[c].left /\ (job[c].bad \/ DirectlyModified(c))
    /\ db' = [db EXCEPT ![Of[c]] = SetFailed(job[c].sf, disk[Of[c]].stamp, runid)]
    /\ deps' = ZapDeps2(deps, Of[c])
    /\ EndJob(c, TRUE)
    /\ flaws' = Mended(Of[c], FALSE)
    /\ UNCHANGED <<user, command, reason, adopted>>

(* The database has the checksum of an output that is not in place yet, or *)
(* not the stamp of one that is.                                           *)
Tearable(c) == job[c].at = "renamed" \/ (job[c].at = "exit" /\ Of[c] \in Stamped)

(* A row of a target whose dependencies are being replaced now says that a *)
(* file redo has seen before does not exist: the old row, which would have *)
(* told the next run that the file is gone, is lost.                       *)
Relisted(c) ==
    /\ job[c].at \notin {"none", "unlocked", "check", "recheck"}
    /\ \E d \in deps : /\ d.target = Of[c] /\ d.mode = Created /\ ~d.deleteMe
                       /\ db[d.source].stamp \notin {None, Missing}

(* The script has written its target itself. *)
Misplaced(c) == job[c].at = "exit" /\ Of[c] \in Clumsy /\ DirectlyModified(c)

(* What is lost with these jobs. *)
Loss(jobs) ==
    Flaw("torn", {Of[c] : c \in {c \in jobs : Tearable(c)}})
      \cup Flaw("relisted", {Of[c] : c \in {c \in jobs : Relisted(c)}})
      \cup Flaw("misplaced", {Of[c] : c \in {c \in jobs : Misplaced(c)}})

(* The script of a job that was left behind ends, and nothing is recorded: *)
(* neither its output, nor a failure, nor the end of its dependencies.     *)
StrayEnds(c) ==
    /\ job[c].at = "exit" /\ job[c].left
    /\ job' = [job EXCEPT ![c] = NoJob]
    /\ flaws' = flaws \cup Loss({c})
    /\ UNCHANGED <<user, data, command, reason, adopted>>

----------------------------------------------------------------------------
(* redo-unlocked: redo-ifchange on what the target needs, twice *)

(* The first one runs with the REDO_TARGET of the script that asked for    *)
(* the target, and so records dependencies of that script's target.        *)
UnlockedAsks(c) ==
    /\ DbFree /\ job[c].at = "unlocked"
    /\ deps' = IF job[c].by = Root THEN deps ELSE AddDeps(deps, Of[job[c].by], Modified, job[c].need)
    /\ job' = [job EXCEPT ![c].at = "check", ![c].todo = job[c].need]
    /\ UNCHANGED <<user, db, command, history>>

UnlockedAsksAgain(c) ==
    /\ job[c].at = "check" /\ Over(c) /\ ~job[c].bad
    /\ job' = [job EXCEPT ![c].at = "recheck", ![c].todo = job[c].need]
    /\ UNCHANGED <<user, data, command, history>>

UnlockedEnds(c) ==
    /\ job[c].at \in {"check", "recheck"} /\ Over(c)
    /\ job[c].at = "check" => job[c].bad
    /\ EndJob(c, job[c].bad /\ ~job[c].left)
    /\ UNCHANGED <<user, data, command, history>>

----------------------------------------------------------------------------
(* Commands *)

Command(wanted, force) ==
    /\ Idle /\ runid < MaxRun
    /\ runid' = runid + 1 /\ goals' = wanted /\ forced' = force
    /\ job' = [job EXCEPT ![Root] = NewJob("goals", Root, wanted, {}, Blank, Missing)]
    /\ result' = "none" /\ reason' = FALSE
    /\ flaws' = {q \in flaws : q.kind # "unlocked"}
    /\ UNCHANGED <<user, data, adopted>>

Finish ==
    /\ job[Root].at = "goals" /\ Over(Root)
    /\ result' = IF job[Root].bad THEN "failed" ELSE "ok"
    /\ job' = [job EXCEPT ![Root] = NoJob]
    /\ UNCHANGED <<user, data, goals, forced, runid, history>>

(* All processes of the run are killed. *)
Kill ==
    /\ ~Idle /\ kills < MaxKill
    /\ kills' = kills + 1
    /\ job' = [p \in Procs |-> NoJob]
    /\ result' = "killed"
    /\ flaws' = flaws \cup Loss(Slots)
    /\ UNCHANGED <<disk, edits, data, goals, forced, runid, reason, adopted>>

----------------------------------------------------------------------------
(* The user, between runs.  (Neither the user nor another command comes    *)
(* before the jobs that a run has left behind have ended.)                 *)

Touch(f, new) ==
    /\ Idle /\ edits < MaxEdit
    /\ disk' = [disk EXCEPT ![f] = new]
    /\ edits' = edits + 1
    /\ result' = "none"
    /\ UNCHANGED <<data, goals, forced, runid, job, reason, flaws, kills>>

Edit(f, version) ==
    /\ disk[f].content # Written(f, version)
    /\ Touch(f, [stamp |-> Fresh(f), content |-> Written(f, version)])
    /\ UNCHANGED adopted

Delete(f) == Exists(f) /\ Touch(f, Gone) /\ adopted' = adopted \ {f}

ChangeMode(f) ==
    /\ Exists(f)
    /\ Touch(f, [disk[f] EXCEPT !.stamp = Chmod(@)])
    /\ UNCHANGED adopted

----------------------------------------------------------------------------
Look(p, t) ==
    \/ FindFailed(p, t) \/ FindClean(p, t) \/ GiveToUnlocked(p, t)
    \/ PanicOn(p, t) \/ KeepStatic(p, t) \/ AdoptOrphan(p, t) \/ NoRule(p, t) \/ StartJob(p, t)

Script(c) ==
    \/ RedoAlways(c) \/ AskNeeds(c) \/ RedoIfcreate(c) \/ AskMore(c)
    \/ WriteOnly(c) \/ WriteAndStamp(c) \/ ScriptAborts(c)

Record(c) == Rename(c) \/ RecordSuccess(c) \/ RecordFailure(c) \/ StrayEnds(c)

Unlocked(c) == UnlockedAsks(c) \/ UnlockedAsksAgain(c) \/ UnlockedEnds(c)

Mishap == (\E c \in Slots : ScriptFails(c) \/ WriteDirectly(c)) \/ Kill

Users ==
    \/ \E e \in Editable : Edit(e[1], e[2])
    \/ \E f \in {e[1] : e \in Editable} : Delete(f) \/ ChangeMode(f)

Run ==
    \/ Finish
    \/ \E c \in Slots : Record(c) \/ Script(c) \/ Unlocked(c)
    \/ \E p \in Procs : \E t \in Files : Look(p, t)

Start == (\E g \in GoalSets : Command(g, FALSE)) \/ (\E g \in Redos : Command(g, TRUE))

Next == Run \/ Mishap \/ Users \/ Start

Spec == Init /\ [][Next]_vars

(* A run goes on as long as it can: its processes are scheduled. *)
FairSpec == Spec /\ WF_vars(Run)

----------------------------------------------------------------------------
(* Properties *)

(* Table Deps has one row per target and source. *)
KeyedDeps == \A d, e \in deps : d.target = e.target /\ d.source = e.source => d = e

TypeOK ==
    /\ disk \in [Names -> [stamp : Nat, content : Content]]
    /\ db \in [Names -> Row]
    /\ deps \subseteq [target : Targets, source : Names, mode : {Created, Modified},
                       deleteMe : BOOLEAN]
    /\ KeyedDeps
    /\ runid \in 0..MaxRun /\ edits \in 0..MaxEdit /\ kills \in 0..MaxKill
    /\ job \in [Procs -> Job]
    /\ goals \subseteq Files /\ forced \in BOOLEAN /\ reason \in BOOLEAN
    /\ result \in {"none", "ok", "failed", "killed"}
    /\ adopted \subseteq Targets
    /\ flaws \subseteq [kind : Kinds, target : Targets, run : 1..MaxRun]
----------------------------------------------------------------------------
(* What a run is for.  A target is built if it has a rule and its file is  *)
(* not the user's own.                                                     *)

OwnFile(t) == \E p \in disk[t].content : p[1] = t

IsBuilt(f) == f \in Targets /\ ~OwnFile(f) /\ f \notin adopted /\ DoFile(f) # {}

(* What a run that asks for a file is about; it does not get past a target *)
(* that is given up for lost.                                              *)
Below(f, lost) ==
    LET reach[g \in Files] ==
          {g} \cup (IF IsBuilt(g) /\ g \notin lost THEN UNION {reach[h] : h \in Inputs(g)} ELSE {})
    IN reach[f]

Involved(lost) == UNION {Below(g, lost) : g \in goals} \ lost

Current(t) ==
    IsBuilt(t) => disk[t].content = Output(t) /\ (Exists(t) <=> Output(t) # {})

(* After a successful run every target it was about, directly or not, is   *)
(* what its script makes of the present inputs, but for flaws of the given *)
(* kinds in it or in what it depends on.                                   *)
CurrentBut(kinds) ==
    LET lost == Flawed(kinds \cap {"torn"})
    IN result = "ok" =>
          \A t \in Involved(lost) : Current(t) \/ Below(t, lost) \cap Flawed(kinds) # {}

UpToDate == CurrentBut(Kinds)

(* The same, whatever redo-unlocked was asked to do. *)
UpToDateUnlocked == CurrentBut(Kinds \ {"unlocked"})

(* The same, whatever is looked at while it is built. *)
UpToDatePeeked == CurrentBut(Kinds \ {"peeked"})

(* The same, whatever the user has put in the place of a target. *)
UpToDateReverted == CurrentBut(Kinds \ {"reverted"})

Restless(f) ==
    \/ f \in AlwaysBuilt \cup Flawed({"unlocked", "torn"})
    \/ db[f].override /\ db[f].stamp # disk[f].stamp

(* After a successful run nothing is left to do for the next one.          *)
Settled ==
    result = "ok" =>
        \A g \in goals : (\A f \in Below(g, {}) : ~Restless(f)) =>
            ShouldBuild(g, db, deps, disk, runid + 1).is = "clean"

(* A run only fails if something in it had to, ... *)
FailsForCause == result = "failed" => reason \/ Flawed({"torn"}) # {}

(* ... and then it does: no failure of a job, however deep, is lost on the *)
(* way up through the commands and scripts that wait for one another.      *)
NoFalseSuccess == result = "ok" => ~reason

(* redo-sources lists a target of the run just if its file is the user's.  *)
SourcesAndTargets ==
    result = "ok" =>
        \A t \in Involved(Flawed({"torn", "misplaced"})) \cap Targets :
            LET own == Exists(t) /\ (OwnFile(t) \/ t \in adopted)
            IN /\ t \in RedoSources(db, disk, runid + 1) <=> own
               /\ t \in RedoTargets(db, disk, runid + 1) <=> ~own

(* redo-ood, which asks about every target with one cache, lists those     *)
(* that redo-ifchange would not find clean.                                *)
OodAgrees ==
    Idle =>
        RedoOod(db, deps, disk, runid + 1)
          = {t \in RedoTargets(db, disk, runid + 1) :
                ShouldBuild(t, db, deps, disk, runid + 1).is # "clean"}

NeverTrample ==
    [][\A t \in Targets : OwnFile(t) /\ disk'[t] # disk[t] => edits' # edits]_vars

(* A run that ends with success leaves no job behind. *)
NothingLeft == result = "ok" => Idle

EveryRunEnds == ~Idle ~> Idle

----------------------------------------------------------------------------
(* The inductive invariant of module RebuildFiles: types, ... *)

(* What redo never built has no trace of a build. *)
Plain(row) == ~row.generated /\ row.csum = {}

DepRows ==
    [target : Targets, source : Names, mode : {Created, Modified}, deleteMe : BOOLEAN]

TypedDisk ==
    /\ disk \in [Names -> [stamp : Nat, content : Content]]
    /\ \A n \in Names : disk[n].stamp # 1

TypedDb == db \in [Names -> Row] /\ \A n \in Names \ Targets : Plain(db[n])

TypedDeps == deps \subseteq DepRows /\ KeyedDeps

TypedJob == job \in [Procs -> Job] /\ (~Idle => runid > 0)

TypedRest ==
    /\ runid \in 0..MaxRun /\ edits \in 0..MaxEdit /\ kills \in 0..MaxKill
    /\ goals \subseteq Files /\ forced \in BOOLEAN /\ reason \in BOOLEAN
    /\ result \in {"none", "ok", "failed", "killed"}
    /\ adopted \subseteq Targets

TypedFlaws == flaws \subseteq [kind : Kinds, target : Targets, run : 1..MaxRun]

TypeInv == TypedDisk /\ TypedDb /\ TypedDeps /\ TypedJob /\ TypedRest /\ TypedFlaws

----------------------------------------------------------------------------
(* ... why a run fails, ... *)

(* A script runs, or its end is being recorded. *)
Scripting(c) ==
    job[c].at \in {"always", "needs", "asking", "more", "moreasking", "exit", "renamed"}

(* A job that will be recorded builds the target. *)
Building(t) == \E c \in JobsOf(t) : Scripting(c) /\ ~job[c].left

(* redo-stamp has run for it, but the end of the job was never recorded. *)
Torn(row) == row.generated /\ ~row.override /\ row.stamp = None

(* A lost job has left its target so that no run can build it. *)
Lost(t) == ~Building(t) /\ Exists(t) /\ Torn(db[t]) /\ t \in Flawed({"torn"})

Cause == reason \/ \E t \in Targets : Lost(t)

FailedRows ==
    \A n \in Names : /\ db[n].failed <= runid
                     /\ ~Idle /\ IsFailed(db[n], runid) => Cause

FailedJobs == \A p \in Procs : Alive(p) /\ job[p].bad => Cause

LeftJobs == \A c \in Slots : Alive(c) /\ job[c].left => Cause

Undisturbed ==
    \A c \in Slots :
        Scripting(c) /\ ~job[c].left /\ job[c].at # "renamed" =>
            disk[Of[c]].stamp = job[c].before \/ reason

TornRows ==
    \A t \in Targets :
        Torn(db[t]) => t \in Flawed({"torn"}) \/ \E c \in JobsOf(t) : Tearable(c)

FailedRuns == result = "failed" => Cause

CauseInv ==
    /\ FailedRows /\ FailedJobs /\ LeftJobs /\ FailedRuns /\ Undisturbed /\ TornRows

----------------------------------------------------------------------------
(* ... and whose file it is. *)

(* A target that redo takes for its own. *)
Trusted(t) ==
    /\ db[t].generated /\ ~db[t].override /\ db[t].stamp # None
    /\ Exists(t) /\ Crit(db[t].stamp) = Crit(disk[t].stamp)

(* What can go into a target: the least set with what it may need, and     *)
(* what those may need.                                                    *)
Closed(t, S) == MayNeed(t) \subseteq S /\ \A u \in S \cap Targets : MayNeed(u) \subseteq S

Origins == [t \in Targets |-> {f \in Names : \A S \in SUBSET Names : Closed(t, S) => f \in S}]

Above(t, f) == f \in Origins[t]

Descends(f, content) == \A p \in content : p[1] = f \/ (f \in Targets /\ Above(f, p[1]))

OwnerInv ==
    /\ \A f \in Names : disk[f].stamp = Missing => disk[f].content = {}
    /\ \A t \in Targets : Trusted(t) => ~OwnFile(t)
    /\ \A c \in Slots : Scripting(c) => ~OwnFile(Of[c])
    /\ \A f \in Names : Descends(f, disk[f].content)
    /\ \A c \in Slots : \A p \in job[c].out : Above(Of[c], p[1])

----------------------------------------------------------------------------
(* ... and that no row, in the database or in the memory of a job, was      *)
(* checked in a run that is still to come.                                  *)

CheckedInv ==
    /\ \A n \in Names : db[n].checked <= runid
    /\ \A p \in Procs : job[p].sf.checked <= runid

(* The invariant of the proofs: what it takes to show the type, that a run  *)
(* only fails for a cause, that the user's files are safe, and that redo-ood *)
(* is right (start_self() and record_new_state() of src/src/builder.rs, the *)
(* rows of state.rs).                                                       *)
FilesInv == TypeInv /\ CauseInv /\ OwnerInv /\ CheckedInv
=============================================================================
