------------------------------ MODULE JobServer ------------------------------
(***************************************************************************)
(* Token accounting of src/src/jobserver.rs over a whole tree of redo      *)
(* processes that share one token pipe and one cheat pipe.                 *)
(*                                                                         *)
(* A node of the tree is the toplevel redo (Root) or a job: a .do script   *)
(* forked by some redo process, which may itself run redo commands, one at *)
(* a time.  The script and the redo command it is running are one node,    *)
(* since a redo command starts with the token its script owns.  What the   *)
(* code calls next between two awaits is left open here (Builder.tla says  *)
(* what builder::run does): a redo process may call any operation of the   *)
(* job server at any time, so what holds here holds for every caller.      *)
(***************************************************************************)
EXTENDS Integers, FiniteSets

CONSTANTS
    Job,        \* jobs that may be forked
    Root,       \* the toplevel redo process
    TokenFd,    \* the read end of the token pipe, in the select set
    TopLevel,   \* ServerParams.top_level: the -j value
    Killable,   \* jobs whose redo process may be killed by a signal
    MaxDrift,   \* bound: no new redo command once |drift| reaches it
    MaxCheats   \* bound: no new cheat once so many tokens are cheated

ASSUME JobAssumption      == IsFiniteSet(Job) /\ Root \notin Job
ASSUME TokenFdAssumption  == TokenFd \notin Job
ASSUME TopLevelAssumption == TopLevel \in Nat \ {0}
ASSUME KillableAssumption == Killable \subseteq Job
ASSUME BoundAssumption    == MaxDrift \in Nat /\ MaxCheats \in Nat

Proc == Job \cup {Root}

\* Where a node is.  "redo" is the code between two awaits; the next three
\* are the awaits of builder::run: the first wait of ensure_token_or_cheat
\* (some job is running, no timer), its second wait (idle, with a timer), and
\* wait_all.
Awaits == {"ensureBusy", "ensureIdle", "waitAll"}
Phases == {"unborn", "script", "redo", "zombie", "gone"} \cup Awaits

VARIABLES
    pipe,       \* tokens in the token pipe
    cheatPipe,  \* tokens in the cheat pipe
    my,         \* ServerState.my_tokens; for a script, the token it implies
    cheats,     \* ServerState.cheats
    waitFds,    \* ServerState.wait_fds: the jobs a process will reap
    phase,
    ready,      \* descriptors the last select() returned, not handled yet
    orphans,    \* live jobs whose parent left without reaping them
    drift       \* history: tokens nobody set up, cheated or deserted
                \* that circulate, minus tokens that were lost

vars == <<pipe, cheatPipe, my, cheats, waitFds, phase, ready, orphans, drift>>

InRedo == {"redo"} \cup Awaits
Least(a, b) == IF a < b THEN a ELSE b
Running(p)  == waitFds[p] # {}
HasToken(p) == my[p] >= 1
\* token_wakers is non-empty exactly while an EnsureToken future is pending.
WantsToken(p) == phase[p] \in {"ensureBusy", "ensureIdle"}
Alive(j) == phase[j] \notin {"unborn", "gone"}

\* One unit per token (or cheat) that f counts, so that the sum of f over the
\* processes is the size of a set.
Units(f) == UNION {{p} \X (1 .. f[p]) : p \in Proc}
Total(f) == Cardinality(Units(f))

TypeOK ==
    /\ pipe \in Nat
    /\ cheatPipe \in Nat
    /\ my \in [Proc -> Nat]
    /\ cheats \in [Proc -> Nat]
    /\ waitFds \in [Proc -> SUBSET Job]
    /\ phase \in [Proc -> Phases]
    /\ ready \in [Proc -> SUBSET (Job \cup {TokenFd})]
    /\ orphans \in SUBSET Job
    /\ drift \in Int

\* JobServer::setup without a parent jobserver: the toplevel keeps one of its
\* tokens and puts the others in the pipe.
Init ==
    /\ pipe = TopLevel - 1
    /\ cheatPipe = 0
    /\ my = [p \in Proc |-> IF p = Root THEN 1 ELSE 0]
    /\ cheats = [p \in Proc |-> 0]
    /\ waitFds = [p \in Proc |-> {}]
    /\ phase = [p \in Proc |-> IF p = Root THEN "redo" ELSE "unborn"]
    /\ ready = [p \in Proc |-> {}]
    /\ orphans = {}
    /\ drift = 0

-----------------------------------------------------------------------------
(* Tokens that change hands inside ServerState.                            *)

\* Mutant: release_except_mine is forgotten.
CreatedHoarding(p, n) ==
    LET swallowed == Least(cheats[p], n)
    IN  [my |-> my[p] + n - swallowed, cheats |-> cheats[p] - swallowed,
         pipe |-> pipe]

\* Mutant: the tokens are not created.
CreatedNothing(p, n) == [my |-> my[p], cheats |-> cheats[p], pipe |-> pipe]

\* create_tokens(n), then release_except_mine: cheater tokens swallow the new
\* ones first, and of the tokens above one each cancels a cheat or is shared.
Created(p, n) ==
    LET swallowed == Least(cheats[p], n)
        m         == my[p] + n - swallowed
        kept      == Least(m, 1)
        cancelled == Least(cheats[p] - swallowed, m - kept)
    IN  [my     |-> kept,
         cheats |-> cheats[p] - swallowed - cancelled,
         pipe   |-> pipe + (m - kept) - cancelled]

\* release(n) down to k tokens: each token released cancels a cheat if there
\* is one, else it goes to the pipe.
ReleaseDownTo(p, k) ==
    LET n == my[p] - k
        cancelled == Least(cheats[p], n)
    IN  /\ my' = [my EXCEPT ![p] = k]
        /\ cheats' = [cheats EXCEPT ![p] = @ - cancelled]
        /\ pipe' = pipe + n - cancelled

\* Mutant: the tokens of the jobs still running are not re-created.
ReturnedMine(p) == Created(p, 0)

\* do_force_return_tokens re-creates the token of every job still running and
\* asserts that what it is left with can be handed on: at most one cheat, and a
\* token to go with it.
Returned(p) == Created(p, Cardinality(waitFds[p]))
Sane(r) == r.cheats <= r.my /\ r.cheats \in {0, 1}

\* The redo command of p is over, by return or by panic: its tokens are
\* returned, its jobs are deserted, and its script goes on, owning the token
\* that its exit stands for.  The toplevel has no script to go back to.
LeaveRedo(p) ==
    LET r    == Returned(p)
        lost == IF Sane(r) THEN 0 ELSE r.cheats
    IN
    /\ pipe' = r.pipe
    /\ cheatPipe' = cheatPipe + r.cheats - lost
    /\ my' = [my EXCEPT ![p] = IF p = Root THEN r.my ELSE 1]
    /\ cheats' = [cheats EXCEPT ![p] = 0]
    /\ orphans' = orphans \cup waitFds[p]
    /\ waitFds' = [waitFds EXCEPT ![p] = {}]
    /\ ready' = [ready EXCEPT ![p] = {}]
    /\ phase' = [phase EXCEPT ![p] = IF p = Root THEN "gone" ELSE "script"]
    /\ drift' = IF p = Root THEN drift
                ELSE drift + (1 - r.my) + lost

-----------------------------------------------------------------------------
(* Operations a redo process calls between two awaits.                     *)

\* Mutant: the parent keeps its token.
StartKeepingToken(p, j) ==
    /\ phase[p] = "redo"
    /\ phase[j] = "unborn"
    /\ my[p] = 1
    /\ my' = [my EXCEPT ![j] = 1]
    /\ waitFds' = [waitFds EXCEPT ![p] = @ \cup {j}]
    /\ phase' = [phase EXCEPT ![j] = "script"]
    /\ UNCHANGED <<pipe, cheatPipe, cheats, ready, orphans, drift>>

\* JobServerHandle::start: the parent's token is destroyed, the job is born
\* owning one.
Start(p, j) ==
    /\ phase[p] = "redo"
    /\ phase[j] = "unborn"
    /\ my[p] = 1
    /\ my' = [my EXCEPT ![p] = 0, ![j] = 1]
    /\ waitFds' = [waitFds EXCEPT ![p] = @ \cup {j}]
    /\ phase' = [phase EXCEPT ![j] = "script"]
    /\ UNCHANGED <<pipe, cheatPipe, cheats, ready, orphans, drift>>

\* start() destroys its token first: when the pipe or the fork fails, nobody
\* owns it any more.
StartFails(p) ==
    /\ phase[p] = "redo"
    /\ my[p] = 1
    /\ my' = [my EXCEPT ![p] = 0]
    /\ drift' = drift - 1
    /\ UNCHANGED <<pipe, cheatPipe, cheats, waitFds, phase, ready, orphans>>

\* ensure_token_or_cheat, up to its first await.
EnsureToken(p) ==
    /\ phase[p] = "redo"
    /\ ~HasToken(p)
    /\ phase' = [phase EXCEPT ![p] = IF Running(p) THEN "ensureBusy"
                                     ELSE "ensureIdle"]
    /\ UNCHANGED <<pipe, cheatPipe, my, cheats, waitFds, ready, orphans, drift>>

\* Mutant: the token just released is not put back.
SelfTestForgetful(p) ==
    /\ my' = [my EXCEPT ![p] = 0]
    /\ cheatPipe' = 0
    /\ drift' = drift + cheatPipe
    /\ UNCHANGED <<pipe, cheats>>

\* AllJobsDone::test_tokens: the toplevel gives up its own token, drains both
\* pipes, compares them with the -j value and puts the tokens back.
SelfTestPasses(p) == pipe + my[p] - cheatPipe = TopLevel
SelfTest(p) ==
    /\ my' = [my EXCEPT ![p] = 0]
    /\ cheatPipe' = 0
    /\ pipe' = pipe + my[p]
    /\ drift' = drift + cheatPipe
    /\ UNCHANGED cheats

\* AllJobsDone::poll.  With jobs left it releases everything and waits; with
\* none left it keeps one token, which the toplevel then gives up for its
\* self-test.
WaitAllPending(p) ==
    /\ Running(p)
    /\ ReleaseDownTo(p, 0)
    /\ phase' = [phase EXCEPT ![p] = "waitAll"]
    /\ UNCHANGED <<cheatPipe, waitFds, ready, orphans, drift>>

\* Mutant: the last token is released although no job is left.
WaitAllReadyEmpty(p) ==
    /\ ~Running(p)
    /\ phase' = [phase EXCEPT ![p] = "redo"]
    /\ IF p = Root
       THEN SelfTestPasses(p) /\ SelfTest(p)
       ELSE ReleaseDownTo(p, 0) /\ UNCHANGED <<cheatPipe, drift>>
    /\ UNCHANGED <<waitFds, ready, orphans>>

WaitAllReady(p) ==
    /\ ~Running(p)
    /\ phase' = [phase EXCEPT ![p] = "redo"]
    /\ IF p = Root
       THEN SelfTestPasses(p) /\ SelfTest(p)
       ELSE ReleaseDownTo(p, Least(my[p], 1)) /\ UNCHANGED <<cheatPipe, drift>>
    /\ UNCHANGED <<waitFds, ready, orphans>>

\* "on exit: expected N tokens": the drained tokens are not put back, and the
\* error ends the toplevel.
SelfTestFails(p) ==
    /\ p = Root
    /\ ~Running(p)
    /\ ~SelfTestPasses(p)
    /\ my' = [my EXCEPT ![p] = 0]
    /\ pipe' = 0
    /\ cheatPipe' = 0
    /\ drift' = drift + cheatPipe - pipe - my[p]
    /\ phase' = [phase EXCEPT ![p] = "gone"]
    /\ UNCHANGED <<cheats, waitFds, ready, orphans>>

WaitAll(p) ==
    /\ phase[p] = "redo"
    /\ WaitAllPending(p) \/ WaitAllReady(p) \/ SelfTestFails(p)

\* Mutant: the assertion that there is a token to release is missing.
ReleaseMineUnchecked(p) ==
    /\ phase[p] = "redo"
    /\ ReleaseDownTo(p, my[p] - 1)
    /\ UNCHANGED <<cheatPipe, waitFds, phase, ready, orphans, drift>>

ReleaseMine(p) ==
    /\ phase[p] = "redo"
    /\ HasToken(p)
    /\ ReleaseDownTo(p, my[p] - 1)
    /\ UNCHANGED <<cheatPipe, waitFds, phase, ready, orphans, drift>>

\* block_on is over, by return or because an assert! of start or release_mine
\* failed, and force_return_tokens runs; nothing awaits the jobs still running.
Leave(p) ==
    /\ phase[p] = "redo"
    /\ LeaveRedo(p)

-----------------------------------------------------------------------------
(* block_on while the future is pending.                                   *)

\* Polling the future once more would complete the await or release a token.
Progress(p) ==
    \/ WantsToken(p) /\ HasToken(p)
    \/ phase[p] = "waitAll" /\ (~Running(p) \/ HasToken(p))

\* Mutant: futures that could go on are not polled before select().
SelectAsleep(p) ==
    LET readable == {j \in waitFds[p] : phase[j] = "zombie"}
                      \cup (IF WantsToken(p) /\ pipe > 0 THEN {TokenFd} ELSE {})
    IN  /\ phase[p] \in Awaits
        /\ ready[p] = {}
        /\ readable # {}
        /\ ready' = [ready EXCEPT ![p] = readable]
        /\ UNCHANGED <<pipe, cheatPipe, my, cheats, waitFds, phase, orphans,
                       drift>>

\* select(): every job that has exited, and the token pipe if wanted.
Select(p) ==
    LET readable == {j \in waitFds[p] : phase[j] = "zombie"}
                      \cup (IF WantsToken(p) /\ pipe > 0 THEN {TokenFd} ELSE {})
    IN  /\ phase[p] \in Awaits
        /\ ready[p] = {}
        /\ ~Progress(p)
        /\ readable # {}
        /\ ready' = [ready EXCEPT ![p] = readable]
        /\ UNCHANGED <<pipe, cheatPipe, my, cheats, waitFds, phase, orphans,
                       drift>>

\* A job of p has exited.  If a cheater token waits in the cheat pipe it is
\* eaten and the job's token stays destroyed; otherwise it is re-created.
Reap(p, j) ==
    /\ j \in ready[p] \cap Job
    /\ ready' = [ready EXCEPT ![p] = @ \ {j}]
    /\ waitFds' = [waitFds EXCEPT ![p] = @ \ {j}]
    /\ phase' = [phase EXCEPT ![j] = "gone"]
    /\ \/ /\ cheatPipe > 0
          /\ cheatPipe' = cheatPipe - 1
          /\ my' = [my EXCEPT ![j] = 0]
          /\ UNCHANGED <<pipe, cheats>>
       \/ /\ cheatPipe = 0
          /\ my' = [my EXCEPT ![p] = Created(p, 1).my, ![j] = 0]
          /\ cheats' = [cheats EXCEPT ![p] = Created(p, 1).cheats]
          /\ pipe' = Created(p, 1).pipe
          /\ UNCHANGED cheatPipe
    /\ UNCHANGED <<orphans, drift>>

\* Mutant: a token is counted even when another process stole it.
ReadTokenBlindly(p) ==
    /\ ready[p] = {TokenFd}
    /\ ready' = [ready EXCEPT ![p] = {}]
    /\ my' = [my EXCEPT ![p] = @ + 1]
    /\ pipe' = pipe - Least(pipe, 1)
    /\ UNCHANGED <<cheatPipe, cheats, waitFds, phase, orphans, drift>>

\* The token pipe was readable; the token may have been stolen since.  Job
\* descriptors come first: they are numbered from 50, the token pipe from 100.
ReadToken(p) ==
    /\ ready[p] = {TokenFd}
    /\ ready' = [ready EXCEPT ![p] = {}]
    /\ my' = [my EXCEPT ![p] = @ + Least(pipe, 1)]
    /\ pipe' = pipe - Least(pipe, 1)
    /\ UNCHANGED <<cheatPipe, cheats, waitFds, phase, orphans, drift>>

\* The pending await completes.  From the first wait of ensure_token_or_cheat
\* the code makes a fresh EnsureToken, which asserts that it owns one token.
Granted(p) ==
    /\ WantsToken(p)
    /\ ready[p] = {}
    /\ HasToken(p)
    /\ phase[p] = "ensureBusy" => my[p] = 1
    /\ phase' = [phase EXCEPT ![p] = "redo"]
    /\ UNCHANGED <<pipe, cheatPipe, my, cheats, waitFds, ready, orphans, drift>>

GrantPanics(p) ==
    /\ phase[p] = "ensureBusy"
    /\ ready[p] = {}
    /\ my[p] > 1
    /\ LeaveRedo(p)

PollWaitAll(p) ==
    /\ phase[p] = "waitAll"
    /\ ready[p] = {}
    /\ Progress(p)
    /\ WaitAllPending(p) \/ WaitAllReady(p) \/ SelfTestFails(p)

\* Mutant: the cheat is not counted.
CheatUncounted(p) ==
    /\ p # Root
    /\ phase[p] = "ensureIdle"
    /\ ready[p] = {}
    /\ my[p] = 0
    /\ cheatPipe + Total(cheats) < MaxCheats
    /\ my' = [my EXCEPT ![p] = 1]
    /\ phase' = [phase EXCEPT ![p] = "redo"]
    /\ UNCHANGED <<pipe, cheatPipe, cheats, waitFds, ready, orphans, drift>>

\* The timer of the second wait fires and cheat_func allows one token.
\* builder::run lets no process cheat that is building no target.
Cheat(p) ==
    /\ p # Root
    /\ phase[p] = "ensureIdle"
    /\ ready[p] = {}
    /\ my[p] = 0
    /\ cheatPipe + Total(cheats) < MaxCheats
    /\ my' = [my EXCEPT ![p] = 1]
    /\ cheats' = [cheats EXCEPT ![p] = @ + 1]
    /\ phase' = [phase EXCEPT ![p] = "redo"]
    /\ UNCHANGED <<pipe, cheatPipe, waitFds, ready, orphans, drift>>

-----------------------------------------------------------------------------
(* Scripts.                                                                *)

\* The script runs a redo command: JobServer::setup(0) with the parent's
\* pipes starts with my_tokens = 1, cheats = 0.
EnterRedo(j) ==
    /\ phase[j] = "script"
    /\ drift < MaxDrift /\ -drift < MaxDrift
    /\ phase' = [phase EXCEPT ![j] = "redo"]
    /\ UNCHANGED <<pipe, cheatPipe, my, cheats, waitFds, ready, orphans, drift>>

\* The script exits.  A deserted one takes its token with it: its parent has
\* already re-created that token.
Exit(j) ==
    /\ phase[j] = "script"
    /\ IF j \in orphans
       THEN /\ phase' = [phase EXCEPT ![j] = "gone"]
            /\ my' = [my EXCEPT ![j] = 0]
            /\ orphans' = orphans \ {j}
       ELSE /\ phase' = [phase EXCEPT ![j] = "zombie"]
            /\ UNCHANGED <<my, orphans>>
    /\ UNCHANGED <<pipe, cheatPipe, cheats, waitFds, ready, drift>>

\* A signal kills the redo command of j: nothing is returned, its jobs are
\* deserted, and its script goes on.
Killed(j) ==
    /\ j \in Killable
    /\ phase[j] \in InRedo
    /\ my' = [my EXCEPT ![j] = 1]
    /\ cheats' = [cheats EXCEPT ![j] = 0]
    /\ drift' = drift + 1 - my[j] + cheats[j] - Cardinality(waitFds[j])
    /\ orphans' = orphans \cup waitFds[j]
    /\ waitFds' = [waitFds EXCEPT ![j] = {}]
    /\ ready' = [ready EXCEPT ![j] = {}]
    /\ phase' = [phase EXCEPT ![j] = "script"]
    /\ UNCHANGED <<pipe, cheatPipe>>

\* A deserted job that has already exited is reaped by init.
Buried(j) ==
    /\ phase[j] = "zombie"
    /\ j \in orphans
    /\ phase' = [phase EXCEPT ![j] = "gone"]
    /\ my' = [my EXCEPT ![j] = 0]
    /\ orphans' = orphans \ {j}
    /\ UNCHANGED <<pipe, cheatPipe, cheats, waitFds, ready, drift>>

-----------------------------------------------------------------------------
RedoStep(p) ==
    \/ \E j \in Job : Start(p, j)
    \/ StartFails(p)
    \/ EnsureToken(p)
    \/ WaitAll(p)
    \/ ReleaseMine(p)
    \/ Leave(p)

ServerStep(p) ==
    \/ Select(p)
    \/ \E j \in Job : Reap(p, j)
    \/ ReadToken(p)
    \/ Granted(p)
    \/ GrantPanics(p)
    \/ PollWaitAll(p)
    \/ Cheat(p)

ScriptStep(j) ==
    \/ EnterRedo(j)
    \/ Exit(j)
    \/ Killed(j)
    \/ Buried(j)

Next ==
    \/ \E p \in Proc : RedoStep(p) \/ ServerStep(p)
    \/ \E j \in Job : ScriptStep(j)

Spec == Init /\ [][Next]_vars

-----------------------------------------------------------------------------
(* Properties.                                                             *)

\* Every token in circulation is accounted for: the tokens in the pipe and in
\* the processes' hands are those the toplevel set up, plus the cheater tokens
\* not yet eaten, plus one per live deserted job (whose parent re-created its
\* token while the job still uses it), plus the recorded drift.
Ledger ==
    pipe + Total(my) = TopLevel + cheatPipe + Total(cheats)
                         + Cardinality(orphans) + drift

\* What the toplevel's self-test sees when every job is gone: the pipes differ
\* from the -j value by exactly the drift, so the test of AllJobsDone fails
\* if and only if some process left without a real token (or lost one).
AllJobsGone == \A j \in Job : phase[j] \in {"unborn", "gone"}
IdleBalance ==
    AllJobsGone => (pipe + my[Root] - cheatPipe = TopLevel + drift)

\* Between two awaits a process owns at most one token: release_except_mine
\* gives all others back, so no unit of parallelism is hoarded.
NoHoarding == \A p \in Proc : phase[p] # "ensureBusy" => my[p] <= 1

\* Scripts that work at the same time never outnumber the -j value by more
\* than the tokens that are legitimately or wrongly in excess.
Working == {j \in Job : phase[j] = "script"}
BoundedParallelism ==
    Cardinality(Working) <= TopLevel + cheatPipe + Total(cheats)
                              + Cardinality(orphans) + drift

-----------------------------------------------------------------------------
(* The inductive invariant behind Ledger, IdleBalance, NoHoarding and        *)
(* BoundedParallelism (JobServerProofs.tla).                                 *)

\* Who owns tokens: a script and a job that has exited own exactly one, jobs
\* that do not exist none; only running redo commands cheat, and the toplevel
\* never does.
Hands ==
    /\ cheats[Root] = 0
    /\ phase[Root] \in {"redo", "gone"} \cup Awaits
    /\ \A j \in Job : phase[j] \in {"unborn", "gone"} => my[j] = 0
    /\ \A j \in Job : phase[j] \in {"script", "zombie"} => my[j] = 1
    /\ \A p \in Proc : phase[p] \notin InRedo => cheats[p] = 0

\* What select() said stays true until it is handled: a job reported as done
\* has exited and is still the process's own to reap.
Answers ==
    /\ \A p \in Proc : phase[p] \notin Awaits => ready[p] = {}
    /\ \A p \in Proc : \A j \in ready[p] \cap Job :
           j \in waitFds[p] /\ phase[j] = "zombie"

\* A job has one parent, or none and is an orphan, and is alive as long as
\* somebody may still count its token.
Parents ==
    /\ \A p, q \in Proc : p # q => waitFds[p] \cap waitFds[q] = {}
    /\ \A p \in Proc : waitFds[p] \cap orphans = {}
    /\ \A p \in Proc : \A j \in waitFds[p] : Alive(j)
    /\ \A j \in orphans : Alive(j)

\* A process reads the token pipe only while it waits for a token, and one that
\* waits idly has no job whose end could hand it a second token.
Restraint ==
    /\ \A p \in Proc : TokenFd \in ready[p] => WantsToken(p)
    /\ \A p \in Proc : phase[p] = "ensureIdle" =>
           waitFds[p] = {} /\ (ready[p] # {} => my[p] = 0)

Inv == TypeOK /\ Hands /\ Answers /\ Parents /\ Restraint /\ NoHoarding /\ Ledger
=============================================================================
