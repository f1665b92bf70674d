------------------------------- MODULE Builder -------------------------------
(***************************************************************************)
(* builder::run of src/src/builder.rs, executed by every redo process of a *)
(* build at once: the toplevel command (Root) and the redo-ifchange (or    *)
(* redo) that each .do script runs on its dependencies.  Processes meet in *)
(* the target locks (fcntl locks of src/src/state.rs), in the recorded     *)
(* state of the targets and, through JobServer, in the token pipes.        *)
(* redo-log decides who may cheat (src/src/bin/redo/log.rs).               *)
(*                                                                         *)
(* Every step of a process is a step of JobServer together with what the   *)
(* build loop does before its next await.                                  *)
(***************************************************************************)
EXTENDS Integers, FiniteSets, Sequences, Functions

CONSTANTS
    Target,
    Root,
    TokenFd,     \* as in JobServer
    NoOne,       \* owner of a free lock
    Goals,       \* arguments of the toplevel command, a sequence of targets
    Deps,        \* for each target, the arguments of its script's redo command
    Flaky,       \* targets whose script may fail on its own
    Forced,      \* Root and targets whose command is redo, not redo-ifchange
    KeepGoing,   \* --keep-going
    Follow,      \* redo-log follows the build, so that jobs may cheat
    TopLevel,    \* -j
    MaxBuilds,   \* bound: times one target may be built in a run
    MaxCheats    \* bound of JobServer

IsTargetList(s) ==
    /\ s \in Seq(Target)
    /\ \A i, k \in 1 .. Len(s) : s[i] = s[k] => i = k   \* run() skips repeats

ASSUME TargetAssumption ==
    /\ IsFiniteSet(Target)
    /\ IsTargetList(Goals)
    /\ \A t \in Target : IsTargetList(Deps[t])
    /\ Flaky \subseteq Target
    /\ Forced \subseteq Target \cup {Root}
    /\ {KeepGoing, Follow} \subseteq BOOLEAN
    /\ MaxBuilds \in Nat \ {0}

\* The k-th execution of the script of target t.
Job == Target \X (1 .. MaxBuilds)

ASSUME NameAssumption ==
    /\ Root \notin Target \cup Job
    /\ TokenFd \notin Job
    /\ NoOne \notin Job \cup {Root}

ASSUME ServerAssumption == TopLevel \in Nat \ {0} /\ MaxCheats \in Nat

TargetOf(j) == j[1]

VARIABLES
    pipe, cheatPipe, my, cheats, waitFds, phase, ready, orphans, drift,
    at,       \* where in run() a redo process is; "ask"/"asked" for a script
    todo,     \* targets the first loop has left
    locked,   \* targets the first loop found locked
    fin,      \* jobs reaped whose future has not been polled since
    failed,   \* the result of run() is an error
    cycle,    \* REDO_CYCLES: targets being built above this process
    owner,    \* who holds the lock of a target
    status,   \* what the database says of a target in this run
    code,     \* how a job's script ended
    crash,    \* how the redo process of a node quit early: "abort" for a "?"
              \* out of run(), else the function whose assert! failed
    said,     \* targets the log of a target ("-" for the toplevel) mentions
    tail,     \* redo-log's recursion: the targets whose logs it is reading
    tailed    \* redo-log's set of targets read already

serverVars == <<pipe, cheatPipe, my, cheats, waitFds, phase, ready, orphans,
                drift>>
logVars == <<said, tail, tailed>>
buildVars == <<at, todo, locked, fin, failed, cycle, owner, status, code, crash>>
vars == <<serverVars, buildVars, logVars>>

JS == INSTANCE JobServer WITH Killable <- {}, MaxDrift <- 100

Proc == JS!Proc
Places == {"first", "token", "second", "drain", "sleep", "blocked", "granted",
           "again", "build", "fold", "ask", "asked", "none"}

TypeOK ==
    /\ JS!TypeOK
    /\ at \in [Proc -> Places]
    /\ todo \in [Proc -> Seq(Target)]
    /\ locked \in [Proc -> Seq(Target)]
    /\ fin \in [Proc -> SUBSET Job]
    /\ failed \in [Proc -> BOOLEAN]
    /\ cycle \in [Proc -> SUBSET Target]
    /\ owner \in [Target -> Proc \cup {NoOne}]
    /\ status \in [Target -> {"todo", "ok", "fail"}]
    /\ code \in [Job -> {"none", "ok", "fail"}]
    /\ crash \in [Proc -> {"none", "abort", "ensure", "start", "release", "return"}]
    /\ said \in [Target \cup {Root} -> SUBSET Target]
    /\ tail \in Seq(Target)
    /\ tailed \subseteq Target

Init ==
    /\ JS!Init
    /\ at = [p \in Proc |-> IF p = Root THEN "first" ELSE "none"]
    /\ todo = [p \in Proc |-> IF p = Root THEN Goals ELSE <<>>]
    /\ locked = [p \in Proc |-> <<>>]
    /\ fin = [p \in Proc |-> {}]
    /\ failed = [p \in Proc |-> FALSE]
    /\ cycle = [p \in Proc |-> {}]
    /\ owner = [t \in Target |-> NoOne]
    /\ status = [t \in Target |-> "todo"]
    /\ code = [j \in Job |-> "none"]
    /\ crash = [p \in Proc |-> "none"]
    /\ said = [u \in Target \cup {Root} |-> {}]
    /\ tail = <<>>
    /\ tailed = {}

-----------------------------------------------------------------------------
Goto(p, place) == at' = [at EXCEPT ![p] = place]
InCode(p, place) == phase[p] = "redo" /\ at[p] = place
Errored(p) == failed[p] /\ ~KeepGoing
FreeLock(t) == owner' = [owner EXCEPT ![t] = NoOne]

\* logs::meta() writes a line about t into the log that stderr goes to.
NodeOf(p) == IF p = Root THEN Root ELSE TargetOf(p)
Say(p, t) == said' = IF Follow THEN [said EXCEPT ![NodeOf(p)] = @ \cup {t}]
                     ELSE said

\* Mutant: a target built in this run is not recognised as clean.
VerdictForgetful(p, t) == IF status[t] = "fail" THEN "error" ELSE "dirty"

\* What should_build() answers: redo always builds; redo-ifchange finds a
\* target that was built in this run clean, and refuses one that failed.
Verdict(p, t) ==
    IF NodeOf(p) \in Forced THEN "dirty"
    ELSE CASE status[t] = "ok"   -> "clean"
           [] status[t] = "fail" -> "error"
           [] status[t] = "todo" -> "dirty"

NextJob(t) == <<t, 1 + Cardinality({j \in Job : /\ TargetOf(j) = t
                                                /\ phase[j] # "unborn"})>>

\* The redo process is over, with its locks and whatever futures it had: run()
\* has returned, or an assertion has failed, if only that of
\* force_return_tokens() after a run() without an error.
Gone(p, result, why) ==
    LET sane == JS!Sane(JS!Returned(p)) IN
    /\ failed' = [failed EXCEPT ![p] = result \/ ~sane]
    /\ crash' = [crash EXCEPT ![p] = IF sane THEN why ELSE "return"]
    /\ owner' = [t \in Target |-> IF owner[t] = p THEN NoOne ELSE owner[t]]
    /\ fin' = [fin EXCEPT ![p] = {}]
    /\ todo' = [todo EXCEPT ![p] = <<>>]
    /\ locked' = [locked EXCEPT ![p] = <<>>]
    /\ Goto(p, "asked")
    /\ UNCHANGED <<cycle, status, code>>

\* An early return by "?" out of run(), or a failed assertion of start() or
\* release_mine(), which come after a line about t in the log.
Abort(p) == JS!Leave(p) /\ Gone(p, TRUE, "abort") /\ UNCHANGED logVars
Panic(p, t, why) ==
    /\ JS!Leave(p)
    /\ Gone(p, TRUE, why)
    /\ Say(p, t)
    /\ UNCHANGED <<tail, tailed>>

\* cycles::add() in the child of p that builds t.
CycleBelow(p, t) == cycle[p] \cup {t}

\* Mutant: the future of the job does not capture the lock.
DropLock(p, t) == FreeLock(t)
KeepLock(p, t) == owner' = [owner EXCEPT ![t] = p]

\* BuildJob::start on a target whose lock p owns or just took: the lock stays
\* owned only if a job starts.
StartJob(p, t) ==
    LET j == NextJob(t) IN
    /\ j \in Job
    /\ JS!Start(p, j)
    /\ KeepLock(p, t)
    /\ cycle' = [cycle EXCEPT ![j] = CycleBelow(p, t)]
    /\ Say(p, t)
    /\ UNCHANGED <<fin, failed, status, code, crash, tail, tailed>>

SkipJob(p, t) ==
    /\ FreeLock(t)
    /\ UNCHANGED <<serverVars, fin, failed, cycle, status, code, crash, logVars>>

-----------------------------------------------------------------------------
(* First loop: build what is not locked.                                   *)

NextTarget(p) ==
    /\ InCode(p, "first")
    /\ todo[p] # <<>>
    /\ Goto(p, "token")
    /\ IF my[p] >= 1 THEN UNCHANGED serverVars ELSE JS!EnsureToken(p)
    /\ UNCHANGED <<todo, locked, fin, failed, cycle, owner, status, code, crash,
                   logVars>>

FirstLoopEnds(p) ==
    /\ \/ InCode(p, "first") /\ todo[p] = <<>>
       \/ InCode(p, "token") /\ Errored(p)
    /\ Goto(p, "second")
    /\ todo' = [todo EXCEPT ![p] = <<>>]
    /\ UNCHANGED <<serverVars, locked, fin, failed, cycle, owner, status, code,
                   crash, logVars>>

\* Mutant: the target is not put off to the second loop.
FindLockedForgets(p) ==
    /\ InCode(p, "token") /\ ~Errored(p)
    /\ Head(todo[p]) \notin cycle[p]
    /\ owner[Head(todo[p])] # NoOne
    /\ Say(p, Head(todo[p]))
    /\ todo' = [todo EXCEPT ![p] = Tail(@)]
    /\ Goto(p, "first")
    /\ UNCHANGED <<serverVars, locked, fin, failed, cycle, owner, status, code,
                   crash, tail, tailed>>

\* try_lock() fails: someone else is building the target.
FindLocked(p) ==
    /\ InCode(p, "token") /\ ~Errored(p)
    /\ LET t == Head(todo[p]) IN
       /\ t \notin cycle[p]
       /\ owner[t] # NoOne
       /\ locked' = [locked EXCEPT ![p] = Append(@, t)]
       /\ Say(p, t)
    /\ todo' = [todo EXCEPT ![p] = Tail(@)]
    /\ Goto(p, "first")
    /\ UNCHANGED <<serverVars, fin, failed, cycle, owner, status, code, crash,
                   tail, tailed>>

BuildUnlocked(p) ==
    /\ InCode(p, "token") /\ ~Errored(p)
    /\ LET t == Head(todo[p]) IN
       /\ t \notin cycle[p]
       /\ owner[t] = NoOne
       /\ \/ /\ Verdict(p, t) = "clean"
             /\ SkipJob(p, t)
             /\ Goto(p, "first")
          \/ /\ Verdict(p, t) = "dirty"
             /\ StartJob(p, t)
             /\ at' = [at EXCEPT ![p] = "first", ![NextJob(t)] = "ask"]
    /\ todo' = [todo EXCEPT ![p] = Tail(@)]
    /\ UNCHANGED locked

\* The lock check finds the target in REDO_CYCLES, or should_build() finds
\* that it failed: run() returns at once, whatever jobs it has running.
FirstLoopAborts(p) ==
    /\ InCode(p, "token") /\ ~Errored(p)
    /\ LET t == Head(todo[p]) IN
       \/ t \in cycle[p]
       \/ owner[t] = NoOne /\ Verdict(p, t) = "error"
    /\ Abort(p)

-----------------------------------------------------------------------------
(* Second loop: wait for everything, then take the locked targets in turn. *)

SecondLoopEnds(p) ==
    /\ \/ InCode(p, "second") /\ locked[p] = <<>> /\ ~JS!Running(p)
       \/ InCode(p, "drain") /\ Errored(p)
    /\ Goto(p, "fold")
    /\ UNCHANGED <<serverVars, todo, locked, fin, failed, cycle, owner, status,
                   code, crash, logVars>>

WaitForAll(p) ==
    /\ InCode(p, "second")
    /\ locked[p] # <<>> \/ JS!Running(p)
    /\ JS!WaitAll(p)
    /\ phase'[p] # "gone"
    /\ Goto(p, "drain")
    /\ UNCHANGED <<todo, locked, fin, failed, cycle, owner, status, code, crash,
                   logVars>>

\* The self-test of the toplevel fails: wait_all() returns an error.
SelfTestAborts(p) ==
    /\ at[p] \in {"second", "drain"}
    /\ JS!WaitAll(p) \/ JS!PollWaitAll(p)
    /\ phase'[p] = "gone"
    /\ Gone(p, TRUE, "abort")
    /\ UNCHANGED logVars

LoopAgain(p) ==
    /\ InCode(p, "drain") /\ ~Errored(p)
    /\ locked[p] = <<>>
    /\ Goto(p, "second")
    /\ UNCHANGED <<serverVars, todo, locked, fin, failed, cycle, owner, status,
                   code, crash, logVars>>

\* try_lock() on the next locked target, first and after every wait.
TryAgain(p) ==
    /\ \/ InCode(p, "drain") /\ ~Errored(p)
       \/ InCode(p, "again")
    /\ locked[p] # <<>>
    /\ LET t == Head(locked[p]) IN
       IF owner[t] = NoOne
       THEN owner' = [owner EXCEPT ![t] = p] /\ Goto(p, "build")
       ELSE UNCHANGED owner /\ Goto(p, "sleep")
    /\ UNCHANGED <<serverVars, todo, locked, fin, failed, cycle, status, code,
                   crash, logVars>>

\* Mutant: the token is destroyed, not released.
GiveUpTokenForGood(p) ==
    /\ InCode(p, "sleep")
    /\ my[p] = 1
    /\ my' = [my EXCEPT ![p] = 0]
    /\ Say(p, Head(locked[p]))
    /\ Goto(p, "blocked")
    /\ UNCHANGED <<pipe, cheatPipe, cheats, waitFds, phase, ready, orphans, drift>>
    /\ UNCHANGED <<todo, locked, fin, failed, cycle, owner, status, code, crash,
                   tail, tailed>>

\* After the random sleep: log "waiting", then release_mine().
GiveUpToken(p) ==
    /\ InCode(p, "sleep")
    /\ JS!ReleaseMine(p)
    /\ Say(p, Head(locked[p]))
    /\ Goto(p, "blocked")
    /\ UNCHANGED <<todo, locked, fin, failed, cycle, owner, status, code, crash,
                   tail, tailed>>

GiveUpPanics(p) ==
    /\ InCode(p, "sleep")
    /\ my[p] = 0
    /\ Panic(p, Head(locked[p]), "release")

\* wait_lock() blocks the whole process until the lock is free.
WaitLock(p) ==
    /\ InCode(p, "blocked")
    /\ owner[Head(locked[p])] = NoOne
    /\ owner' = [owner EXCEPT ![Head(locked[p])] = p]
    /\ Goto(p, "granted")
    /\ UNCHANGED <<serverVars, todo, locked, fin, failed, cycle, status, code,
                   crash, logVars>>

\* The kernel refuses to block a process when that would close a cycle of
\* processes blocked on each other's locks (EDEADLK): an error ends run().
\* It cannot see a process that waits for a job or for a token.
Blocked(p) == InCode(p, "blocked") /\ owner[Head(locked[p])] # NoOne
LockCycle(p) ==
    \E S \in SUBSET {q \in Proc : Blocked(q)} :
        p \in S /\ \A q \in S : owner[Head(locked[q])] \in S

WaitLockFails(p) ==
    /\ LockCycle(p)
    /\ Abort(p)

\* unlock(), then ensure_token_or_cheat(), awaited without wait_for().
Unlock(p) ==
    /\ InCode(p, "granted")
    /\ FreeLock(Head(locked[p]))
    /\ JS!EnsureToken(p)
    /\ Goto(p, "again")
    /\ UNCHANGED <<todo, locked, fin, failed, cycle, status, code, crash, logVars>>

\* Mutant: the failure elsewhere is not reported.
FailedElsewhereIgnored(p) ==
    /\ InCode(p, "build")
    /\ status[Head(locked[p])] = "fail"
    /\ FreeLock(Head(locked[p]))
    /\ locked' = [locked EXCEPT ![p] = Tail(@)]
    /\ Goto(p, "second")
    /\ UNCHANGED <<serverVars, todo, fin, failed, cycle, status, code, crash,
                   logVars>>

\* The lock is owned: fail if another process failed to build the target.
FailedElsewhere(p) ==
    /\ InCode(p, "build")
    /\ LET t == Head(locked[p]) IN
       /\ status[t] = "fail"
       /\ failed' = [failed EXCEPT ![p] = TRUE]
       /\ FreeLock(t)
    /\ locked' = [locked EXCEPT ![p] = Tail(@)]
    /\ Goto(p, "second")
    /\ UNCHANGED <<serverVars, todo, fin, cycle, status, code, crash, logVars>>

BuildLocked(p) ==
    /\ InCode(p, "build")
    /\ LET t == Head(locked[p]) IN
       /\ status[t] # "fail"
       /\ \/ /\ Verdict(p, t) = "clean"
             /\ SkipJob(p, t)
             /\ Goto(p, "second")
          \/ /\ Verdict(p, t) = "dirty"
             /\ StartJob(p, t)
             /\ at' = [at EXCEPT ![p] = "second", ![NextJob(t)] = "ask"]
    /\ locked' = [locked EXCEPT ![p] = Tail(@)]
    /\ UNCHANGED todo

BuildPanics(p) ==
    /\ InCode(p, "build")
    /\ status[Head(locked[p])] # "fail"
    /\ Verdict(p, Head(locked[p])) = "dirty"
    /\ my[p] # 1
    /\ Panic(p, Head(locked[p]), "start")

-----------------------------------------------------------------------------
(* The futures of the jobs, and the end of run().                          *)

\* The result of run() once the future of job j has been polled.
LastOutcome(p, j) == code[j] = "fail"    \* Mutant: a success hides failures.
Outcome(p, j) == failed[p] \/ code[j] = "fail"

\* wait_for() polls the awaited future and the job futures in random order, so
\* the records of any finished jobs may precede its return; the last await of
\* run() polls the rest.  Recording the new state releases the target's lock.
Record(p, j) ==
    /\ at[p] \in {"token", "drain", "fold"}
    /\ phase[p] \in JS!InRedo
    /\ ready[p] = {}
    /\ j \in fin[p]
    /\ fin' = [fin EXCEPT ![p] = @ \ {j}]
    /\ status' = [status EXCEPT ![TargetOf(j)] = code[j]]
    /\ failed' = [failed EXCEPT ![p] = Outcome(p, j)]
    /\ FreeLock(TargetOf(j))
    /\ UNCHANGED <<serverVars, at, todo, locked, cycle, code, crash, logVars>>

Finish(p) ==
    /\ InCode(p, "fold")
    /\ fin[p] = {}
    /\ JS!Leave(p)
    /\ Gone(p, failed[p], "none")
    /\ UNCHANGED logVars

-----------------------------------------------------------------------------
(* block_on.                                                               *)

\* In a wait_for() the job futures are polled whenever the awaited one is not
\* ready; the await in the lock loop of run() does not poll them.
Select(p) ==
    /\ at[p] \in {"token", "drain"} => fin[p] = {}
    /\ JS!Select(p)
    /\ UNCHANGED <<buildVars, logVars>>

Reap(p, j) ==
    /\ JS!Reap(p, j)
    /\ fin' = [fin EXCEPT ![p] = @ \cup {j}]
    /\ UNCHANGED <<at, todo, locked, failed, cycle, owner, status, code, crash,
                   logVars>>

ReadToken(p) == JS!ReadToken(p) /\ UNCHANGED <<buildVars, logVars>>
Granted(p)   == JS!Granted(p) /\ UNCHANGED <<buildVars, logVars>>

GrantPanics(p) ==
    JS!GrantPanics(p) /\ Gone(p, TRUE, "ensure") /\ UNCHANGED logVars

PollWaitAll(p) ==
    /\ JS!PollWaitAll(p)
    /\ phase'[p] # "gone"
    /\ UNCHANGED <<buildVars, logVars>>

\* The target whose log redo-log reads; at the top it reads its own input.
Tailing == IF tail = <<>> THEN Root ELSE tail[Len(tail)]

\* cheat(): a job may cheat while redo-log holds the lock of its log.
Cheat(p) ==
    /\ JS!Cheat(p)
    /\ NodeOf(p) = Tailing
    /\ UNCHANGED <<buildVars, logVars>>

-----------------------------------------------------------------------------
(* Scripts and redo-log.                                                   *)

\* The script of j runs redo-ifchange on its dependencies, once.
Ask(j) ==
    /\ at[j] = "ask"
    /\ Deps[TargetOf(j)] # <<>>
    /\ JS!EnterRedo(j)
    /\ Goto(j, "first")
    /\ todo' = [todo EXCEPT ![j] = Deps[TargetOf(j)]]
    /\ UNCHANGED <<locked, fin, failed, cycle, owner, status, code, crash,
                   logVars>>

\* Mutant: the exit status is not noted.
ExitUnseen(j) ==
    /\ at[j] = "asked" \/ (at[j] = "ask" /\ Deps[TargetOf(j)] = <<>>)
    /\ JS!Exit(j)
    /\ Goto(j, "none")
    /\ UNCHANGED <<todo, locked, fin, failed, cycle, owner, status, code, crash,
                   logVars>>

\* sh -e: the script fails if its redo-ifchange failed.
Exit(j) ==
    /\ at[j] = "asked" \/ (at[j] = "ask" /\ Deps[TargetOf(j)] = <<>>)
    /\ JS!Exit(j)
    /\ \/ ~failed[j] /\ code' = [code EXCEPT ![j] = "ok"]
       \/ /\ failed[j] \/ TargetOf(j) \in Flaky
          /\ code' = [code EXCEPT ![j] = "fail"]
    /\ Goto(j, "none")
    /\ UNCHANGED <<todo, locked, fin, failed, cycle, owner, status, crash, logVars>>

Buried(j) == JS!Buried(j) /\ UNCHANGED <<buildVars, logVars>>

\* redo-log recurses into a target that the log it reads mentions, unless it
\* has read that target's log before, ...
TailDown(t) ==
    /\ t \in said[Tailing] \ tailed
    /\ tail' = Append(tail, t)
    /\ tailed' = tailed \cup {t}
    /\ UNCHANGED <<serverVars, buildVars, said>>

\* ... and returns once it has read everything and nobody builds the target.
TailUp ==
    /\ tail # <<>>
    /\ said[Tailing] \subseteq tailed
    /\ owner[Tailing] = NoOne
    /\ tail' = SubSeq(tail, 1, Len(tail) - 1)
    /\ UNCHANGED <<serverVars, buildVars, said, tailed>>

-----------------------------------------------------------------------------
RunStep(p) ==
    \/ NextTarget(p) \/ FirstLoopEnds(p) \/ FindLocked(p) \/ BuildUnlocked(p)
    \/ FirstLoopAborts(p)
    \/ SecondLoopEnds(p) \/ WaitForAll(p) \/ SelfTestAborts(p) \/ LoopAgain(p)
    \/ TryAgain(p) \/ GiveUpToken(p) \/ GiveUpPanics(p) \/ WaitLock(p)
    \/ WaitLockFails(p) \/ Unlock(p)
    \/ FailedElsewhere(p) \/ BuildLocked(p) \/ BuildPanics(p)
    \/ (\E j \in Job : Record(p, j)) \/ Finish(p)

ServerStep(p) ==
    \/ Select(p) \/ (\E j \in Job : Reap(p, j)) \/ ReadToken(p) \/ Granted(p)
    \/ GrantPanics(p) \/ PollWaitAll(p) \/ Cheat(p)

ScriptStep(j) == Ask(j) \/ Exit(j) \/ Buried(j)

LogStep == TailUp \/ \E t \in Target : TailDown(t)

\* The build is over: redo has exited, and every script it forked is done.
Over == \A p \in Proc : phase[p] \in {"unborn", "gone"}
Rest == Over /\ UNCHANGED vars

Next ==
    \/ \E p \in Proc : RunStep(p) \/ ServerStep(p)
    \/ \E j \in Job : ScriptStep(j)
    \/ LogStep
    \/ Rest

Spec == Init /\ [][Next]_vars

\* The operating system runs every process that can take a step, a blocked
\* fcntl() included once the lock stays free.
Fairness ==
    /\ \A p \in Proc : WF_vars(RunStep(p)) /\ WF_vars(ServerStep(p))
    /\ \A j \in Job : WF_vars(ScriptStep(j))
    /\ WF_vars(LogStep)

FairSpec == Spec /\ Fairness

\* Every redo process and redo-log are sure to run, but a script may take
\* forever.
FairRedo ==
    /\ Spec
    /\ \A p \in Proc : WF_vars(RunStep(p) \/ ServerStep(p))
    /\ WF_vars(LogStep)

-----------------------------------------------------------------------------
(* Properties.                                                             *)

\* "ensure we hold the lock until after state has been recorded" (builder.rs):
\* while a job runs, and until its result is recorded, the process that started
\* it owns the lock of its target, so no other process of the build can decide
\* about that target meanwhile.
HeldUntilRecorded ==
    \A p \in Proc : \A j \in waitFds[p] \cup fin[p] : owner[TargetOf(j)] = p

\* When the redo-ifchange of a script succeeds, every dependency it named has
\* been built in this run, whichever process got to build it, and stays so: only
\* redo, not redo-ifchange, builds a target again, which may then fail.
DepsBuilt ==
    Forced = {} =>
        \A j \in Job : at[j] = "asked" /\ ~failed[j]
            => \A i \in DOMAIN Deps[TargetOf(j)] :
                   status[Deps[TargetOf(j)][i]] = "ok"

\* A toplevel command that exits with success has built all its goals: the
\* result of run() survives every later success and every early exit.
SuccessIsTrue ==
    phase[Root] = "gone" /\ ~failed[Root]
        => \A i \in DOMAIN Goals : status[Goals[i]] = "ok"

\* No redo process has quit early, leaving jobs behind that nobody records.
NoneQuit == \A p \in Proc : crash[p] = "none"

\* redo-ifchange builds no target twice in one run, however many processes
\* ask for it at once.
BuiltOnce ==
    Forced = {} /\ NoneQuit => \A j \in Job : j[2] > 1 => phase[j] = "unborn"

\* Without cheating, -j bounds the number of scripts at work, as long as no
\* process has quit early: one that does leaves its jobs behind, or goes back to
\* its script without the token it has given up.
JobLimit == ~Follow /\ NoneQuit => Cardinality(JS!Working) <= TopLevel

\* Without cheating, the build loop of a process that does not quit early
\* neither creates nor loses a token.
TokensConserved == ~Follow /\ NoneQuit => drift = 0

\* The tokens add up, and the toplevel's self-test sees exactly the drift,
\* whatever processes cheat, fail or leave their jobs behind.
LedgerHolds == JS!Ledger /\ JS!IdleBalance

\* The build loop uses the job server only through its operations: what holds
\* of every client of JobServer holds of the build.
JobServerSpec == JS!Spec

\* Every build comes to an end: no two processes wait for each other's locks,
\* and nobody waits for a token that nobody holds.
Terminates == <>Over

-----------------------------------------------------------------------------
(* What the documentation promises and the code does not keep; see README.md. *)

\* The assertion of EnsureToken::poll, that a process that has a token before
\* it waits owns just one, never fails.
NoTokenPanic == \A p \in Proc : crash[p] # "ensure"

\* A process that redo-log watches waits for a token in ensure_token_or_cheat()
\* although none of its jobs runs, which would bring it one.
Starved(p) ==
    /\ Tailing = NodeOf(p)
    /\ JS!WantsToken(p)
    /\ waitFds[p] = {}
    /\ my[p] = 0

\* The "foreground" process "must be allowed to continue" (ensure_token_or_cheat
\* in jobserver.rs): it gets a token, or redo-log leaves it, even if the scripts
\* that run take forever.
ForegroundProgress == []<>(\A p \in Proc \ {Root} : ~Starved(p))

-----------------------------------------------------------------------------
(* The inductive invariant behind the safety properties (BuilderOutcomes.tla). *)

\* Places in run(), and those from the first failed try_lock() on a target of
\* the second loop to the decision about it.
RunPlaces == {"first", "token", "second", "drain", "sleep", "blocked", "granted",
              "again", "build", "fold"}
LockLoop == {"sleep", "blocked", "granted", "again", "build"}

\* Jobs whose results p has not recorded, and what p was asked to build.
Mine(p) == waitFds[p] \cup fin[p]
Arguments(p) == IF p = Root THEN Goals ELSE Deps[TargetOf(p)]

\* Each place of run() is reached with the lists it works on, and the second
\* loop takes locks only when no job is running.
Seated(p) ==
    /\ JS!WantsToken(p) => at[p] \in {"token", "again"}
    /\ at[p] = "token" => todo[p] # <<>>
    /\ at[p] \in LockLoop => locked[p] # <<>>
    /\ at[p] \in LockLoop \cup {"fold"} \/ InCode(p, "drain") => waitFds[p] = {}
    /\ at[p] \in RunPlaces \ {"first", "token"} => todo[p] = <<>>
    /\ at[p] = "fold" /\ ~failed[p] => locked[p] = <<>>
    /\ at[p] = "asked" => todo[p] = <<>> /\ locked[p] = <<>> /\ Mine(p) = {}
    /\ p = Root /\ phase[p] = "gone" => at[p] = "asked"

Seats == \A p \in Proc : Seated(p)

\* A job that has ended has a result, and a process that has quit early stays
\* known as one.
Noted ==
    /\ \A j \in Job : phase[j] = "zombie" => code[j] # "none"
    /\ \A p \in Proc : \A j \in fin[p] : phase[j] = "gone" /\ code[j] # "none"
    /\ \A p \in Proc : at[p] \in RunPlaces \cup {"ask"} \/ phase[p] = "unborn"
                           => crash[p] = "none"

\* A process has one unrecorded job per lock it owns, and none for a lock it has
\* just taken.
Locks ==
    /\ HeldUntilRecorded
    /\ \A p \in Proc : \A i, j \in Mine(p) : TargetOf(i) = TargetOf(j) => i = j
    /\ \A p \in Proc : at[p] \in {"granted", "build"} =>
           /\ owner[Head(locked[p])] = p
           /\ \A j \in Mine(p) : TargetOf(j) # Head(locked[p])

\* redo-ifchange starts a job only for a target nobody has decided about, and
\* every job that was started will be, or has been, recorded by its parent.
Decided ==
    /\ \A p \in Proc : NodeOf(p) \notin Forced =>
           \A j \in Mine(p) : status[TargetOf(j)] = "todo"
    /\ NoneQuit =>
           /\ orphans = {}
           /\ \A j \in Job : phase[j] # "unborn" =>
                  \/ status[TargetOf(j)] # "todo"
                  \/ \E p \in Proc : j \in Mine(p)

\* What a process without a failure was asked to build is still to be looked at,
\* was found locked, is being built by one of its jobs, or is done: another
\* process may have failed to build it since, but only with redo.
Done(t) == status[t] = "ok" \/ (Forced # {} /\ status[t] = "fail")
Accounted ==
    \A p \in Proc :
        at[p] \in RunPlaces \cup {"asked"} /\ ~failed[p]
        => \A t \in Range(Arguments(p)) :
               \/ t \in Range(todo[p]) \cup Range(locked[p])
               \/ Done(t)
               \/ \E j \in Mine(p) : TargetOf(j) = t

\* A failure of a node, and a trace that any failure of the build leaves.
Failing(p) == failed[p] \/ (p # Root /\ code[p] = "fail")
Trouble == \E p \in Proc : Failing(p) \/ crash[p] # "none"

\* The toplevel and, with every process, the jobs it has still to record.
Family(S) == Root \in S /\ \A p \in S : Mine(p) \subseteq S

\* No failure is forgotten on its way to the toplevel: after a failure anywhere,
\* the processes that the toplevel still waits for, or the toplevel itself, hold
\* one; until then, it waits for every process.
Blame ==
    /\ \A t \in Target : status[t] = "fail" => Trouble
    /\ \A j \in Job : /\ phase[j] \notin {"zombie", "gone"} => code[j] = "none"
                      /\ code[j] = "ok" => ~failed[j]
    /\ \A p \in Proc : phase[p] \notin JS!InRedo => Mine(p) = {}
    /\ \A S \in SUBSET Proc : Family(S) =>
           IF Trouble THEN \E p \in S : Failing(p)
           ELSE \A j \in Job : JS!Alive(j) => j \in S

\* Nobody cheats unwatched, and then a process below the toplevel is without a
\* token only while its jobs run or while it waits in the lock loop.
Thrift ==
    ~Follow =>
        /\ \A u \in Target \cup {Root} : said[u] = {}
        /\ tail = <<>>
        /\ cheatPipe = 0
        /\ \A p \in Proc : cheats[p] = 0
        /\ \A p \in Proc \ {Root} :
              phase[p] \in JS!InRedo /\ waitFds[p] = {} /\ my[p] = 0
              => \/ at[p] \in {"blocked", "granted"}
                 \/ at[p] = "again" /\ phase[p] = "ensureIdle"
        /\ NoneQuit => drift = 0

Inv ==
    /\ TypeOK
    /\ JS!Inv
    /\ Seats
    /\ Noted
    /\ Locks
    /\ Decided
    /\ Accounted
    /\ Blame
    /\ Thrift
=============================================================================
