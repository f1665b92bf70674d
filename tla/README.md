# A TLA+ model of redo-rs

redo-rs is a Rust port of apenwarr's redo: `redo T` builds the target `T` by running a shell
script `T.do`, the script calls `redo-ifchange D...` to build what it needs, and so on
recursively. Every redo command is a process of its own. The processes of one build share no
memory; they meet in a pipe of tokens (how many scripts may work at once), in file locks (who
builds which target), in an SQLite database (what is known of each target) and in the log
files that `redo-log` follows. Nearly everything that is hard about the program is in what
those processes do to one another, and that is what this project models.

Paths are relative to the root of the repository's tree, `src/`; so `src/src/builder.rs` is
the crate's `src/builder.rs`.

## 1. Inventory

### 1.1 Job server: `src/src/jobserver.rs`

* **State.** Shared: the token pipe and the cheat pipe. Per process (`ServerState`):
  `my_tokens`, `cheats`, `wait_fds` (a pipe per running job, readable when the job has exited),
  the wakers of pending futures, a queue of timers.
* **Operations.** `setup`; `start` (destroy my token, fork a job); `ensure_token_or_cheat` (wait
  for a token; with no job running, after a while ask the caller whether to cheat); `wait_all`
  (wait for all jobs, without a token; the toplevel then tests that all tokens are back);
  `release_mine`; `block_on`, the executor, which polls the future and sleeps in `select()`;
  `force_return_tokens` at the end or in `Drop`.
* **Interactions.** Called by the build loop (1.2). A child inherits both pipes and owns one
  token by definition, so its parent destroys one at `start` and creates one when the child exits.
* **Hard.** Tokens are created, released, cheated, swallowed and cancelled in different places;
  `select()` is followed by a `read()` that another process may win; one `select()` round
  reports several things at once; processes cheat, fail, panic or are killed with jobs running.
* **Correct when** tokens are neither created nor lost (`Ledger`, `IdleBalance`), nobody sits on
  tokens it does not use (`NoHoarding`), scripts at work are bounded by `-j` (`BoundedParallelism`),
  no assertion fails (`NoTokenPanic`, which finding 1 refutes), and the watched process is not
  starved (`ForegroundProgress`, which finding 3 refutes).

### 1.2 Build loop: `src/src/builder.rs`

* **State.** Per process: the list of targets, the list of targets found locked, the futures of
  the running jobs (each owns the lock of its target), the result so far, `REDO_CYCLES`.
* **Operations.** `run`: a first loop over the targets (get a token, try the lock, build or
  defer), a second loop over the deferred ones (wait for all jobs, then retry, giving the token
  up and blocking in `wait_lock`), and a fold over what is left. `wait_for` polls one future
  beside those of the jobs. `BuildJob::start`, `start_self` (find the .do file, fork the
  script), `record_new_state` (rename the output, write the database).
* **Hard.** Early returns by `?` with jobs running; records in any order; state read before a
  lock is taken; waiting for a lock while others wait for this process.
* **Correct when** one process at a time builds a target and records its result
  (`HeldUntilRecorded`), nothing is built twice (`BuiltOnce`), success means built
  (`SuccessIsTrue`, `DepsBuilt`), and every build ends (`Terminates`).

### 1.3 Locks and cycles: `src/src/state.rs` 1080-1282, `src/src/cycles.rs`

* **State.** One `fcntl` byte-range lock per target, owned by a process and dropped by the kernel
  when it exits; `REDO_CYCLES`, the targets being built above a process.
* **Operations.** `try_lock`, `wait_lock`, `unlock`, `Drop`, `check` (error if the target is in
  `REDO_CYCLES`), `detect_broken_locks`.
* **Hard.** POSIX locks belong to the process, and the kernel detects only cycles made of lock
  waits (`EDEADLK`). **Correct when** a dependency cycle ends the build with an error (it does
  along one chain of processes only, see 3.2), and 1.2.

### 1.4 Database: `src/src/state.rs` 62-905

* **State.** Table `Files` (per file: generated, override, checked/changed/failed run ids, stamp,
  checksum), table `Deps` (target, source, mode, delete_me), a counter of run ids.
* **Operations.** `ProcessState::init`, transactions, `File::from_name`, `refresh`, `save`,
  `set_checked/changed/failed/static/override`, `update_stamp`, `add_dep`, `zap_deps1`,
  `zap_deps2`, `deps`.
* **Hard.** A build is two transactions with a script in between, and the second may never come: the
  process that would make it is killed, or gives up on its jobs at an error; every file may change hands:
  a source, a target, the user's own version of a target, a target whose rule is gone. A crash
  falls between `redo-stamp`, the rename of the output and the commit of its stamp. Two
  processes may initialise at once.
* **Correct when** a successful run leaves everything it was about as its scripts would make it,
  directly or not (`UpToDate`), and the user's files as they were (`NeverTrample`).

### 1.5 Dirtiness: `src/src/deps.rs`, and `redo-unlocked`, `redo-stamp`

`private_is_dirty` walks the recorded dependencies and answers clean, dirty or "build these
first, then ask again" (checksummed targets), which `redo-ifchange` carries out through
`redo-unlocked`. It memoises by `checked_runid`, or, for `redo-ood`, in memory. **Hard:** rows
read before a sibling's walk changes them, answers cached while targets are still being built,
checksums that outlive the file they were computed from. **Correct when** nothing stale is called
clean (`UpToDate`), nothing is dirty right after it was built (`Settled`), and the two kinds of
memory agree (`OodAgrees`).

### 1.6 Commands: `src/src/bin/redo/*.rs`

`redo` (always builds) and `redo-ifchange` (builds what is dirty, records dependencies) drive
1.1 and 1.2. `redo-log` follows the logs of a build recursively and holds a lock on the log it
reads; a process asks for that lock to learn whether it may cheat. `redo-always`,
`redo-ifcreate`, `redo-stamp` are one transaction each. `redo-ood`, `redo-sources`,
`redo-targets`, `redo-whichdo` only print; **correct when** the lists are those of the next build
(`OodAgrees`, `SourcesAndTargets`).

### 1.7 Paths: `src/src/paths.rs`, `normpath` in `src/src/helpers.rs`

`normpath` makes a path normal in one pass over its bytes, into a buffer it shares with the input
as long as both agree. `possible_do_files` is an iterator over the .do files that may build a
path, in the order of preference; `find_do_file` takes the first that exists and
`redo-whichdo` prints the ones tried. **Correct when** the normal path leads where the path led
(`NormPathOK`), the rules come nearest first, each for the very target that was asked for,
none left out (`NearestFirst`, `SameTarget`, `NothingLeftOut`), and what `redo-whichdo` prints leads
to them (`LeadsThere`). All of this is proved for paths of every length (section 5).

### 1.8 The rest

Wrappers of system calls (`helpers.rs`), `env.rs` (inherited settings), `logs.rs` (format of log
lines), `error.rs`, `exits.rs`, `lib.rs`, and `minimal/do`, a sequential shell stand-in that
shares nothing with redo.

`PROJECT.json` lists every component with what is modelled of it, and under `hazards` each place
where the code is exposed to what tests hardly reach.

## 2. Modules

| module | models | uses |
| --- | --- | --- |
| `JobServer` | 1.1: the tokens of a whole process tree, for arbitrary callers | |
| `JobServerProofs` | theorems about `JobServer` | `JobServer`, TLAPS |
| `Builder` | 1.2 and 1.3 in every process at once, with `redo`, `redo-ifchange` and `redo-log` as far as they drive them | `JobServer` |
| `BuilderRefinement` | theorem: `Builder` implements `JobServer` | `Builder`, `JobServerProofs`, TLAPS |
| `BuilderProofs` | lemmas: the types and places of `Builder` | `BuilderRefinement` |
| `BuilderOutcomes` | theorems about `Builder` | `BuilderProofs` |
| `FileState` | 1.4: a row of `Files`, its updates and the questions about it; table `Deps` | |
| `Dirtiness` | 1.5: `private_is_dirty` and what is asked through it; the printing commands | `FileState` |
| `DirtinessProofs` | theorems about the walk: it is well defined, what it leaves alone, what its verdict means, and that `redo-ood` asks the same | `Dirtiness`, TLAPS |
| `Rebuild` | 1.4 to 1.6 at work: a source tree, its database, builds, kills and a user | `Dirtiness` |
| `RebuildProofs` | theorems about `Rebuild`: how failures travel, whatever the walk answers | `Rebuild`, TLAPS |
| `RebuildFiles` | theorems about `Rebuild`: types, causes of failures, the user's files, `redo-ood` | `RebuildProofs`, `DirtinessProofs` |
| `Paths` | 1.7 | |
| `PathsProofs` | theorems about `Paths` | `Paths`, TLAPS |
| `MCJobServer`, `MCBuilder`, `MCRebuild`, `MCPaths` | instances for TLC | |

`JobServer` and `Builder` are about *when* processes may go on: tokens, locks, early exits; what
is known of a target is one value. `Rebuild` is about *what* they decide and record: files,
rows, dependencies, checksums; tokens and waiting are left out. They meet in `builder.rs`, whose
`run` is in `Builder` and whose `BuildJob` is in `Rebuild`.

### 2.1 JobServer

A *node* is the toplevel (`Root`) or a job. A job's .do script and the redo command the script
is running are one node, since the command starts with the token its script owns:
`phase` says whether the script ("script") or the redo command ("redo", or one of the three
awaits "ensureBusy", "ensureIdle", "waitAll") is running, or the job has exited and is not
reaped ("zombie") or is over ("gone").

| model | code |
| --- | --- |
| `pipe`, `cheatPipe` | bytes in `token_fds`, `cheat_fds` |
| `my`, `cheats`, `waitFds` | `ServerState.my_tokens`, `.cheats`, `.wait_fds` |
| `ready` | descriptors the last `select()` returned that `block_on` has not handled |
| `Start`, `StartFails` | `start`; its early errors destroy a token nobody re-creates |
| `EnsureToken`, `Granted`, `Cheat` | `ensure_token_or_cheat`: up to its first await, its end, the timer |
| `WaitAll`, `PollWaitAll` (`WaitAllPending`, `WaitAllReady`, `SelfTest...`) | `wait_all`, `AllJobsDone::poll`, `test_tokens` |
| `Select`, `Reap`, `ReadToken` | one round of `block_on` |
| `Leave`, `GrantPanics` (`LeaveRedo`) | `force_return_tokens`, or `Drop` while a panic unwinds |
| `EnterRedo`, `Exit`, `Buried`, `Killed` | what scripts, the kernel and signals do |

`block_on` runs to its next await in one step: a process shares with others only the pipes,
which it touches in `ReadToken`, `Reap` and in atomic writes. `Select` and the reads after it are
separate steps, so that another process may take the token in between. Job descriptors are
numbered from 50 and the token pipe from 100, and `select()` results are handled in that order:
`ReadToken` comes after all `Reap`s of the round.

`drift` and `orphans` are history: `orphans` are live jobs whose parent left without reaping
them (the parent has re-created their tokens, although they go on), `drift` is what was created
or lost otherwise. They let `Ledger` be an equation in every state instead of a claim about quiet
executions only.

### 2.2 Builder

Every process is at a place of `run()`:

| `at` | code (`builder.rs`) |
| --- | --- |
| "first", "token" | first loop: before and after `ensure_token_or_cheat` (719-791) |
| "second", "drain" | second loop: its condition, after `wait_for(wait_all)` (801-812) |
| "sleep", "blocked", "granted", "again" | lock loop: before `release_mine`, in `wait_lock`, after it, before `try_lock` (819-848) |
| "build" | the lock is owned (850-886) |
| "fold" | the last await (887-891) |
| "ask", "asked" | the script before and after its redo command |

Each step is a step of `JobServer` with what the loop does around it. `fin` holds the jobs whose
end `block_on` has noticed but whose future has not been polled; `wait_for` polls them in an
order `select!` picks at random, so `Record` may or may not precede the step that the awaited
future allows. `owner` is the table of `fcntl` locks; `LockCycle` is the kernel's `EDEADLK`.
`status` is what the database says of a target in this run, `code` the exit status of a script.
`crash` remembers how a redo process quit early; an assertion that fails in `force_return_tokens` on
the way out (`Gone`) is no success either. `said`, `tail` and `tailed` are what `redo-log`
has seen, and decide who may cheat; the order of lines in a log is left open.

*Abstractions.* A script runs one redo command, on the dependencies of its target, and then
exits. Every target has a .do file, and none is static or overridden. `record_new_state` is one
step with one result. Verdicts are those of one run in which everything starts dirty:
`redo-ifchange` finds a target clean if it was built in the run, refuses one that failed, builds
any other; the "build these first" answer (`NeedTargets`, `redo-unlocked`) does not occur. The
shuffle of `run()` is left out; graphs with permuted arguments stand for it. Names are
identified with files. Not modelled: a nested `-jN` (a second job server), the pipes of a GNU
make above redo, more than 50 running jobs in one process (descriptors would meet the token
pipe's), the book-keeping of timers (a timer may fire at any time), and errors of system calls
other than a failed fork.

### 2.3 FileState

A row is a record with the columns of `Files`; NULL is `None`. `DepsOf`, `ZapDeps1`, `ZapDeps2`
and `AddDeps` are what the statements on `Deps` do ("insert or replace": one row per target and
source). A stamp, in the code a string of mtime, size, inode, mode and owner, is a number: its
half stands for mtime and size, which `detect_override` compares, its parity for the rest.
`FromCols` contains the special treatment of `//ALWAYS`. A run id of 0 is no run id, as in
`is_failed`, while `Overdue` takes it for one, as in `is_dirty`.

### 2.4 Dirtiness

`PrivateIsDirty` is the recursive function of the code with both sets of callbacks: it threads
the database (`set_checked`, and the rows that `Forget` turns back into sources) or the cache of
`redo-ood` through the walk, in the order of the row ids (`Order`), and each visit carries the
row its caller has read. The recursion is one function over `Visits`; what a single call does
with the answers of the calls below it is `VisitOne` (the loop over the dependencies is `WalkDeps`,
one turn of it `DepStep`, what an answer makes of the verdict `Combine`), which is what the lemmas
are about. `ShouldBuild` is `should_build` of `redo-ifchange`. The walk keeps
the list of names it came through, and answers "cycle" when it meets one again. The recorded rows
may contain cycles as far as this module and its theorems are concerned; the trees of `Rebuild`
have none (`NoCircles`), and no action there follows that answer.

### 2.5 Rebuild

Each process is a record in `job`: the command the user runs (`Root`), and the jobs, whose place
(`at`) says where their scripts are. There is room for a bounded number of jobs (`Slots`), each of
one target (`Of`): usually one job of a target runs, since its parent owns the lock, but a job that
was left behind runs on without one.

| model | code |
| --- | --- |
| `disk`, `db`, `deps`, `runid` | the files, tables `Files`, `Deps`, `Runid` |
| `Command`, `Finish` | a `redo-ifchange` or `redo` of the user begins and ends |
| `FindFailed` | `should_build` finds that the target has failed, and `run` returns by `?`, with jobs running (`Desert`) |
| `FindClean`, `GiveToUnlocked` | `BuildJob::start`: the answers of `should_build` that start no script |
| `PanicOn`, `KeepStatic`, `AdoptOrphan`, `NoRule`, `StartJob` | `start_self` up to the fork, one action per outcome |
| `RedoAlways`, `AskNeeds`, `RedoIfcreate`, `AskMore`, `WriteAndStamp` | the redo commands of a script |
| `WriteOnly`, `ScriptAborts`, `ScriptFails`, `WriteDirectly` | the end of a script |
| `Rename`; `RecordSuccess`, `RecordFailure` | `record_new_state`: up to and after the rename |
| `StrayEnds` | the end of a job whose parent has left it behind, which nobody records |
| `UnlockedAsks`, `UnlockedAsksAgain`, `UnlockedEnds` | `redo-unlocked` |
| `Kill` | all processes of a run are killed |
| `Edit`, `Delete`, `ChangeMode` | the user, between runs |

A step is one transaction, or the rename of an output. `record_new_state` has its rename inside an
immediate transaction, which keeps everyone else out of the database (`DbFree`), so that only a crash can
come between `Rename` and `RecordSuccess`. The parent of a job holds the lock of its target: no
other process starts one (`Lockable`), but `redo-ifchange` asks about any dependency without a
lock, while it may be building.

When a command meets a target that another job has failed to build in this run, `should_build` returns an error
and the `?` of `run` (`builder.rs:773-779`) ends the command at once. The futures of its jobs are dropped, and the
locks in them: the jobs are *left* behind. Their scripts run on, and so do the jobs below them, which
their own parents still wait for and record; but how a left job ends goes nowhere: its output stays in the temporary file, its
failure is not recorded, its old dependencies are not deleted, and if it has called `redo-stamp`, the database
has the checksum of an output that never gets in place. A target of such a job may be built again at the same
time. The next run starts from the rows that this leaves. redo, unlike redo-ifchange, notices a failure only when it comes back to a
target that was locked, when its own jobs have ended.

What a content is: the set of the versions of source files that went into it. Only this makes
`UpToDate` possible to say, since it compares each file with what its script makes of the
present inputs, while the program only ever compares stamps and run ids. A script asks for what
it always needs, then for what an odd input or an existing optional file makes it need, so the set
of dependencies changes from run to run, and `redo-ifcreate` and the search for .do
files record files that do not exist.

`reason`, `adopted` and `flaws` are history. `reason` is whether something in this run had to
fail, `adopted` the targets redo keeps as sources since their rule is gone, and `flaws` the places
where one of six known defects (3.2) has struck, so that the properties can be about
everything else. A flaw of one kind exempts the target it struck and what depends on it, until the
change has been recorded in a later run (`Mended`). Three of the exemptions are shown to be needed:
without it the property fails (runs `unlocked`, `peek`, `reverted`). The other three strike when a job is *lost*, that
is, killed or left behind, and have no run of their own: "torn", "relisted", without which `UpToDate` fails in
`crash` (3.2), and "misplaced": a lost job had written its target instead of its output, and redo takes the
file for the user's. It takes two changes by the user for that to end in success: in `rebuild` with `MaxEdit = 2`
`SourcesAndTargets` fails without this exemption, and with it all invariants of the run hold
(1,321,249 states, too many for a run beside this one).

*Abstractions.* The user changes files, and runs the next command, only when every process of the last run
has ended, those left behind included (`Idle` in `Touch` and `Command`): the code does not
enforce this, but two runs at once are more than TLC can do. A script reads its
inputs after it has asked for them; a run whose inputs change under it promises nothing. It writes its output
to standard output, whose file is its own, and not to the temporary file `$3`, which two jobs of one target would share. A forced
`redo` occurs on the command line only (`Builder` has `redo` in scripts). `redo-ifcreate`
names files that do not exist, as its documentation asks. Two names never mean the same file;
directories and symbolic links are not targets. Stamps are never reused by chance: `Fresh` chooses
one that no row or job knows.

### 2.6 Paths

A path is a sequence of symbols of which "/" and "." matter. Each turn of the loop of `normpath` is
an action (`Skip`, `Parent`, `Element`, `Done`) over the reading position, the `LazyBuf` (with the
buffer it has not allocated yet) and the position `dotdot` that ".." must not pass. Then
each `next()` of the iterator of `possible_do_files` is an action (`First`, `Recursive`), followed
by the question whether the file exists, which may be answered either way. `Panic` is
the `unwrap()` of the file name of "/". `Relpath` is what `redo-whichdo` prints, as seen from
several directories. `AppendAll` is a number of calls of `append()` in one; what splitting a path into
elements, finding its dots and walking along it do are recursive functions, one symbol or element
at a time.

## 3. Runs

| run | question | instance |
| --- | --- | --- |
| `jobserver` | do the tokens add up whatever the callers do? | 3 interchangeable jobs, `-j2`, any of them may be killed, drift and cheats up to 1 |
| `parallel` | is a build with contention correct, does it end, and does the invariant of the proofs hold? | `a` needs `c d`, `b` needs `d c`, `c` may fail, `-j2`, fair |
| `follow` | what if processes quit with jobs running, while others cheat? | `--keep-going`, a failing target, deserted jobs; `redo-log` follows |
| `rebuild` | is everything up to date after a run, whatever happened before it? | `all` needs `x` and `y`, `y` (stamped) needs `x`; goals `all` and `y`; three runs, one change by the user, parallel jobs, room for a second job of `y` |
| `crash` | the same with checksums, `redo-always` and kills | `p` needs `v` (stamped, with a rule of its own that may go), which may need `w` (always built, may fail); three runs, two changes, one kill at any step |
| `dofiles` | is a path made normal, and which rules are tried for it? | every path of up to nine symbols |

Bounds. `MaxBuilds` is how often one target may be built (a job is a pair of a target and a
number), `MaxCheats` how many cheated tokens may be out, `MaxDrift` (`JobServer` only) stops new
redo commands once that many tokens were created or lost. In `Builder`, `MaxDrift` is 100 and is
never reached; `MaxBuilds` is 2 where a rebuild would be a mistake (`BuiltOnce`). In `follow`
it is 1: the run passes with 2 as well, in three minutes. `MaxRun`, `MaxEdit` and
`MaxKill` bound how often redo is run, the user acts and a run is killed; `MaxLen` the length of a
path.

Why they are enough. Two processes contend for two locks in opposite orders (`parallel`), which is
the smallest graph where each process finds a locked target while another waits for one of
its own. Three jobs (`jobserver`) are enough for a parent with a child and a sibling, hence for
stealing, deserting and cheating at once, and with `-j2` for an empty and a non-empty pipe. One
cheat and one unit of drift at a time suffice for the ledger because its terms are sums; the
theorems of section 5 have no such bound. In `rebuild` and `crash` a defect needs a first run that
builds, a change, a run that mistakes it, and at most one more change and run to make the
mistake visible; all three refuted properties are refuted within these bounds or one more
run. `rebuild` has 156,673 states and `crash` 376,055. In `rebuild` jobs run in parallel and nothing is killed, in
`crash` jobs run in sequence and a kill may fall between any two steps: a lost job leaves the same traces either way
(`Loss`), and the proofs of section 5 do not keep the two apart. `Slots` has one job of each target, and in `rebuild` a second
one of `y`: when the job of `all` gives up at the failed `x`, it leaves `y` behind, and the
user's command, which was asked for `y` too, may start it again beside the old one. The instances of `Rebuild` contain each kind of dependency and of change once: two
rules for one target, an optional file, a rule that disappears, a source that comes and goes,
a target the user overwrites, a change of mode, a change of content that the checksum hides.
Nine symbols are the least length at which an error in cutting off `LazyBuf` shows.

`parallel` also checks the refinement `JobServerSpec` (every step of the build loop is a step of
`JobServer`) and the inductive invariant `Inv`, both proved in section 5; `crash` checks the inductive
invariant `FilesInv`, and `dofiles` the inductive invariant `PathsInv`, also proved there.

`CHECK_DEADLOCK FALSE` is set in `jobserver` and in the runs of `Rebuild` (the system stops when
all processes are gone or a bound is reached), in `dofiles` (a search ends), in `follow` and `starved` (after
an error of the toplevel a deserted job may wait for a token that the failed self-test drained), and
in `lockwait` (the point of which is a build that hangs). Elsewhere TLC checks that the build never
stops before its end.

*Fairness.* `FairSpec` of `Builder` has weak fairness of the steps of each process, of each script,
and of `redo-log`: the operating system runs whatever can run, and a blocked `fcntl()` returns if
the lock stays free. No strong fairness is assumed, so a process may lose the race for a token
each time there is one. `FairRedo`, used in `starved`, has weak fairness of the steps of each redo process and
of `redo-log`, but none of scripts, which may take forever: the watched process must get
on nonetheless, by cheating. `FairSpec` of `Rebuild` has weak fairness of the steps of a run as a
whole: it goes on while it can, in any order; the user, failures and new commands are not
forced.

### 3.1 What the runs show

* *Tokens.* The equation `Ledger` holds under every sequence of calls, kills and failures, and
  with it the self-test of the toplevel sees exactly the drift (`IdleBalance`). In builds without
  cheats the drift is zero (`TokensConserved`) and `-j` bounds the scripts at work
  (`JobLimit`), as long as no process quits early.
* *Locks.* As long as nobody quits early, a target's lock is owned by the process that started
  its job until the result is recorded (`HeldUntilRecorded`), nothing is built twice in a run
  (`BuiltOnce`), and who waits for another process's build learns whether it failed (`DepsBuilt`).
  `SuccessIsTrue` holds even with deserted jobs.
* *Ends.* The build of `parallel` always ends, and every run of `rebuild` ends, jobs left behind included; if it
  ends with success, there are none (`NothingLeft`).
* *Files.* After a successful run everything it was about is what the scripts would make of the
  present sources, .do files and the user's own versions (`UpToDate`), but for the
  six flaws, also when earlier runs have left jobs behind; a second run would find nothing to do (`Settled`, but for `redo-always`, and for a target
  the user overwrote twice, whose stamp `redo-ifchange` never brings up to date again); a run fails
  only for a reason (`FailsForCause`), and does fail if there is one (`NoFalseSuccess`); nothing the user wrote is ever overwritten, even when a run
  is killed at any step (`NeverTrample`).
* *Lists.* `redo-sources` and `redo-targets` follow a file as it changes hands, and `redo-ood`
  gives the answers of `redo-ifchange` although its cache lives longer than one walk.
* *Paths.* `normpath` and the search do what their comments say, except for "/" itself.

### 3.2 What the code does otherwise than it says

Each of these is a run that TLC refutes; `PROJECT.json` quotes the lines.

1. `readrace` (`NoTokenPanic`): `select()` reports a finished job and the token pipe in one
   round. The job's token is re-created and another one is read; as the last job is gone,
   `ensure_token_or_cheat` makes a second `EnsureToken`, whose `assert_eq!(my_tokens, 1)` fails.
   Two independent targets at `-j2` suffice.
2. `lockwait` (`Terminates`): `wait_for` returns as soon as its future is ready, possibly before
   the future of a finished job, which owns that job's lock. The process then blocks in
   `wait_lock`, where it polls nothing, still owning the lock. With another process that waits for this
   lock and indirectly builds what the first one waits for, the build hangs, without any
   dependency cycle. The kernel cannot see it, as one edge is a wait for a job.
3. `starved` (`ForegroundProgress`): the timer that lets a process cheat belongs to the second wait of
   `ensure_token_or_cheat` only. The first one, taken while jobs run, ends when a job does, as long as its token is
   re-created. But the process that reaps a job first looks into the cheat pipe, and eats what another process
   has left there instead. In the run, `c` cheats, is done, and leaves its cheated token in the cheat pipe;
   `a`, which has waited for a token while `c` ran, reaps it, eats the token, and waits on, now with no job, no token and
   no timer, although `redo-log` follows its log, until one of the scripts of `b` and `e` ends. If a process whose last job has
   ended may cheat in the first wait too, the property holds in all 236,288 states of the instance.
4. `unlocked` (`UpToDateUnlocked`): `redo-unlocked` passes the dependencies to its second
   `redo-ifchange`, not the target. If the checksum of a dependency did change, the target is not
   rebuilt in that run, which nevertheless succeeds.
5. `peek` (`UpToDatePeeked`): with parallel jobs, a target may be found clean, and marked as
   checked, while its script runs. `record_new_state` takes the mark for that of `redo-stamp`,
   leaves `changed_runid` as it was, and what depends on the target stays stale.
6. `reverted` (`UpToDateReverted`): a target that the user replaces keeps its checksum. When his
   file is gone again and the target is rebuilt, `redo-stamp` sees no change, and what was built
   from the user's file stays as it is.

Further divergences were met on the way and are steps of the models, without a run of their own:

* The self-test at the end of `wait_all` leaves the toplevel without a token; if a deferred
  target is free by then, `run` starts its job and `start` asserts that there is one
  (`BuildPanics`, `GiveUpPanics` of `Builder`).
* A process that cheats, starts a job with the cheated token and reaps it exits with no token, while
  its parent creates one: the self-test finds one too many.
* "Processes also must own a token at exit time" (`jobserver.rs:38`), and one that gave its token up
  must "re-acquire a token before exiting, even if we want to exit with an error code"
  (`jobserver.rs:54-56`). But when the kernel refuses to block a process (`EDEADLK`), `run` returns by `?`
  between `release_mine` and the next `ensure_token_or_cheat` (`builder.rs:841-842`, `WaitLockFails`):
  the process exits without a token, and its parent creates one for it. So `JobLimit` and
  `TokensConserved` promise nothing once a process has quit early.
* An error of `should_build` or of the cycle check leaves `run` by `?`, which drops the futures of
  running jobs and the locks in them, so that a target may be built twice at once; for the same reason a
  `--keep-going` build ends at the first target that has already failed (`FirstLoopAborts` of `Builder`,
  `FindFailed` of `Rebuild`). How the jobs left behind end is not recorded. A stamped target whose job is left
  between `redo-stamp` and its end has the flaw "torn" below without any kill.
* A script that writes its target instead of `$3` is told so and fails. If its job is lost first, the file stays
  there and redo takes it for one of the user's from then on (flaw "misplaced").
* Two targets of a cycle that are first built by two branches wait for each other's locks: the
  build hangs, since no process has its own target in `REDO_CYCLES`.
* A run killed while it records a result, or a job left behind before it can, leaves a torn state (flaw "torn" of `Rebuild`): after
  `redo-stamp` the checksum belongs to an output that is not in place, after the rename the stamp
  is not that of the file, which then looks overridden; and if it was the first build, the stamp
  is NULL, and the next build unwraps it and panics (`PanicOn`, `builder.rs:126`).
* A job lost earlier may lose the reason for which the job was started (flaw "relisted"). "We
  don't delete them right away, because if the build fails, we still want to know the old deps" (`state.rs:722-724`),
  but `add_dep` replaces the row of a source named again ("insert or replace", `state.rs:770`), also when
  the old row says that the source was there and the new one that it is not. Say `x.do` was removed:
  `x` is dirty, and the job for it, now from `default.do`, begins by recording that `x.do` does not exist. If it
  is lost then, and `default.do` is not newer than the last build of `x`, the next run finds `x` clean, and
  `x` keeps the content that `x.do` gave it.
* `possible_do_files` panics on the path "/" (`Panic` of `Paths`, `paths.rs:145`).

## 4. Mutants

Beside the definitions that model code stand variants with one plausible mistake
(`StartKeepingToken`, `LastOutcome`, `ZapDeps1Nothing`, `AppendAllUncut`, ...), each marked "Mutant". `PROJECT.json` says
which property of which run each one breaks; nothing else uses them.

## 5. Proofs

`JobServerProofs` proves for every set of jobs, every `-j`, every kill, and every order of steps:

| theorem | states |
| --- | --- |
| `TypeCorrect` | `Spec => []TypeOK`: in particular no count becomes negative |
| `InvAlways` | `Spec => []Inv` |
| `LedgerAlways` | `Spec => []Ledger` |
| `NoHoardingAlways` | `Spec => []NoHoarding` |
| `IdleBalanceAlways` | `Spec => []IdleBalance` |
| `ParallelismBounded` | `Spec => []BoundedParallelism` |

*Assumptions.* The set of jobs is finite and does not contain the toplevel
(`JobAssumption`), the token descriptor is none of the jobs' (`TokenFdAssumption`), and
`-j` is at least 1 (`TopLevelAssumption`). The bounds play no part: `MaxDrift` and `MaxCheats` are
arbitrary numbers that only restrict when steps are taken.

*Argument.* `Ledger` is not inductive: reaping a job destroys the job's token, so it must be
known to own exactly one, and to be counted by one parent only. `Inv` adds what is needed, part by
part:

* `Hands`: scripts and zombies own exactly one token, jobs that do not exist none; only redo
  commands have cheats, the toplevel never.
* `Answers`: what `select()` reported stays true until it is handled (nobody else reaps my jobs).
* `Parents`: a job has one parent or is an orphan, never both, and lives as long as it is counted.
* `Restraint`: the token pipe is only read by a process that wants a token; one that waits idly
  owns none when it reads, and has no job that could give it a second one.
* `NoHoarding` follows from `Restraint` and `Created` in every action but the first wait, where
  finding 1 shows it cannot hold.

Each part has a lemma `...Next` with one step per action; `InvNext` combines them. `Total`, the
sum of a function over the processes, is defined as a cardinality, and the lemmas `TotalChange`,
`TotalChange2` compute how it changes when one or two entries do. `BoundedParallelism` follows
from `Ledger`, since every working script owns a token of its own (`OwnersBounded`).

`BuilderRefinement` and `BuilderOutcomes` prove for every set of targets, every graph of dependencies
(rings included), every `-j`, with and without `--keep-going` and `redo-log`, and every order of steps:

| theorem | states |
| --- | --- |
| `BuilderImplementsJobServer` | `Spec => JobServerSpec`: what holds of every client of `JobServer` holds of builds |
| `LedgerHoldsAlways` | `Spec => []LedgerHolds`, through the refinement |
| `InvAlways`, `TypeCorrect` | `Spec => []Inv`, `Spec => []TypeOK` |
| `HeldUntilRecordedAlways` | `Spec => []HeldUntilRecorded` |
| `BuiltOnceAlways` | `Spec => []BuiltOnce` |
| `DepsBuiltAlways` | `Spec => []DepsBuilt` |
| `SuccessIsTrueAlways` | `Spec => []SuccessIsTrue`: whatever processes quit early or cheat |
| `TokensConservedAlways` | `Spec => []TokensConserved` |
| `JobLimitAlways` | `Spec => []JobLimit` |

*Assumptions.* There are finitely many targets, the goals and the dependencies are sequences of targets
(`TargetAssumption`), the names of the toplevel, of no one and of the token descriptor are not those
of targets or jobs (`NameAssumption`), and the constants of the job server have their types
(`ServerAssumption`). The bounds are arbitrary numbers.

*Argument.* None of these properties is inductive. `Inv` has one part for each thing
that must be remembered:

* `Seats`: each place of `run()` is reached with the lists it works on; locks are waited for only
  when no job is running.
* `Noted`: a job that has ended has a result, and who has quit early is not at work again.
* `Locks`: one unrecorded job per owned lock, and none for a lock just taken. This gives
  `HeldUntilRecorded`, and with it that only the owner of a lock decides about its target.
* `Decided`: jobs are started only for targets nobody has decided about, and whatever was started is
  recorded or somebody's job; hence `BuiltOnce`.
* `Accounted`: a target that a process without a failure was asked to build is still in its lists, with a job of
  its own, or done. At the end the lists are empty; hence `DepsBuilt`.
* `Blame`: no failure gets lost on its way to the toplevel. `SuccessIsTrue` holds even when processes leave
  jobs behind, so it cannot be argued job by job. A *family* is a set of processes
  that contains the toplevel and with every process the jobs it has yet to record. After a
  failure every family has a member that knows of one; before the first, every live job
  is in every family. A process that quits has failed, and its own parent's family includes it.
* `Thrift`: without cheats a process lacks a token only while its jobs run or in the lock loop; so
  whoever leaves `run()` has one, unless it quit early.

The steps of a process differ much in their guards and little in what they do to
this state. So `RunStepActs`, `ServerStepActs` and `ScriptStepEffect` first say that each of them is
one of a few *acts* (take a lock, drop it, start a job, notice its end, record it, leave, quit, ...),
and the parts are then proved act by act.

`RebuildProofs` proves for every tree of files and rules, every script, every number of runs, of kills and of
parallel jobs, those left behind included:

| theorem | states |
| --- | --- |
| `HInvAlways` | `Spec => []HInv` |
| `SuccessIsHonest` | `Spec => []NoFalseSuccess`: a run in which something failed does not end with success |
| `SuccessIsWhole` | `Spec => []NothingLeft`: a run that ends with success leaves no job behind |

*Assumptions.* `TreeAssumption`: targets, sources and the command itself have different names, and the slots for
jobs are finitely many, each of one target.

*Argument.* A failure is recorded in the job where it happens, and travels up when that job ends,
from script to command to script. `NoFalseSuccess` says only how the journey ends, so `HInv` follows it:

* `Parents`: whoever started a job that has not been left behind is still waiting in a redo command, hence there
  to be told.
* `OneHolder`: a target has at most one job that will be recorded. A job left behind has lost the
  lock, so a second one of the same target may run beside it.
* `Blame`: while the command of the user runs, no failure gets lost. A *family* (`Family`) is a set of
  processes that contains the command and with every process the jobs it will record (`Children`). If something has
  failed, or some live process is outside of a family, then someone in it is `Doomed`: it knows of a
  failure, or will find its target modified when it ends. The second case is that of jobs left behind: they are outside of
  the least family, and whoever left them did so because of a failure. So a command that has no job left and
  knows of no failure is a family by itself, and nothing failed and nobody else is alive.
* `RenamedWell`: who has renamed its output cannot fail any more.
* `Reported`: the command of the user has a result only when it has ended.
* `Shape`: processes are records. What kinds of rows and sets they carry is left open, as
  these come out of the walk of `PrivateIsDirty`; nothing is assumed of its answers.

`StepKept`, `StartKept` and `EndKept` say that the invariant survives a step, the begin and the end
of a job; each action is one of these, and `DesertShape` says what leaving jobs behind does to the others. `FreshIsNew` shows that the bounded choice of a new
stamp (`Fresh`) always succeeds.

`DirtinessProofs` proves about the walk of `private_is_dirty`, for every database, every set of
recorded dependencies (cycles included) and every order of the rows:

| theorem | states |
| --- | --- |
| `WalkIsDefined` | the recursive function exists: every answer is the one `VisitOne` computes from those one call further down |
| `ShouldBuildFacts` | the walk writes to the database only that a file was checked, or that it is gone; it asks only for files with a checksum to be built first, and only on behalf of a target |
| `OodAsksTheSame` | if no row was checked in the run asked about or a later one, `redo-ood` lists a target exactly if `should_build` would not find it clean |

*Argument, `WalkIsDefined` and `ShouldBuildFacts`.* A call passes on the names it came through, and `Unseen`, the number of names not among
them, decreases. tlapm has no induction over an operator, but its library has least elements of
well-founded relations: `SetInduction` states induction for a set of numbers, and
`RankRecursion` obtains from it that a function defined by recursion on a rank exists. The two walks over
rows (`Loop`) and calls (`VisitsAnswer`) are then inductions of that kind over
`AnswersFrom(B, disk)`, the answers whose database differs from one in `B` as `Kept` allows.

*Argument, `OodAsksTheSame`.* `redo-ood` walks with one cache in memory that grows over all its targets;
`redo-ifchange` marks rows in the database, each target from the rows of the last run. The orders and what is
remembered when differ, so neither walk can be followed by the other. Both are compared with a
third thing instead: which rows are `Fine`, the least set of rows that are well themselves and all of whose
recorded dependencies are in it. That the walk says "clean" only of what is `Fine` (`WalkSound`) is an
induction over the calls, on `Unseen`: whatever is marked or remembered is `Fine` at any time, and to forget a
stamp, to mark a row, or to remember one leaves `Fine` what it was for all other rows (`ForgetOk`,
`RememberOk`). That it says "clean" of everything `Fine` (`WalkClean`) is an induction over the
least set: what is `Fine` does not depend on itself, so the walk of one meets no cycle and no row on the way
that is not `Fine` (`ReachFacts`, `LeastApart`). `WalkDecides` puts the two together, for either kind of memory.

`RebuildFiles` proves, for every tree without cycles, every script, any number of runs, kills and
changes by the user:

| theorem | states |
| --- | --- |
| `FilesInvAlways` | `Spec => [](FilesInv /\ HInv)` |
| `TypesKept` | `Spec => []TypeOK`: what no rule builds never gets the row of a target, and table `Deps` has one row per target and source |
| `FailuresHaveCauses` | `Spec => []FailsForCause`: no run fails because of an earlier one, but for the rows that lost jobs (killed or left behind) have left torn |
| `FilesAreSafe` | `Spec => NeverTrample`: no step of redo changes a file that holds what the user wrote |
| `OodAgreesAlways` | `Spec => []OodAgrees`: between runs, `redo-ood` lists exactly what the next `redo-ifchange` would build |

*Assumptions.* `TreeAssumption` (types and distinct names), `OrderAssumption` (`Order` is a sequence of names),
and `NoCircles`: no set of targets each of which may need another of the set. redo itself finds a cycle
by the locks held above a process, which is the matter of `Builder`; here files get their content
from what they were built from, and in a cycle a target's new file would contain versions of its own old one.
`BoundsAssumption` says that the bounds are numbers: kills and parallel jobs, which the runs check one at a time
(section 3), are covered together.

*Argument.* `FilesInv` has four parts, each with a lemma `...Next`:

* `TypeInv`: the types, and that rows of files without rules stay `Plain` (never generated, no
  checksum). This last part is what makes the others inductive: by `ShouldBuildFacts` the walk
  says "build these first" only of targets, so `redo-unlocked` is only ever run for targets.
* `CauseInv`: a row that says "failed in this run", a job that has failed, one that was left behind and a run that
  ends as failed all have a `Cause` (`FailedRows`, `FailedJobs`, `LeftJobs`, `FailedRuns`).
  It is a reason of the run's own, or a target that is `Lost`: a job of it, killed or left behind, has made it generated
  with no stamp. So it must be known which rows can be torn (`TornRows`: only of jobs now between
  `redo-stamp` and their record, or of jobs that were lost there), that the file of a job that will be recorded stays as
  it was found (`Undisturbed`, or there is a reason), and that a cause outlives every step until the run
  ends (`CauseKept`).
* `OwnerInv`: whose file it is. A target redo would overwrite is one it takes for its own (`Trusted`:
  generated, not overridden, and the stamp fits); such a file must not hold the user's
  version, neither now nor at any time while its job runs (`Scripting`). A file holds versions only of what
  is `Above` it, and by `NoCircles` no target is above itself (`AboveSelf`), so what redo builds is never
  mistaken for the user's own.
* `CheckedInv`: no row, and no row a job holds a copy of, was checked in a run later than the current one. That
  is the hypothesis of `OodAsksTheSame`, from which `OodAgreesAlways` follows: a mark left by a later
  run would be believed by the next one, without a look at the file.

Most steps touch one target, and look at many rows. `Watched` says what any look at the tree may do to
rows (each is `Observed`: kept, marked as checked, made static or overridden, or failed for a reason), and
`Around(D)` that a step leaves everything outside `D` so; `CauseStep` reduces a step to what it does to `D`.

`PathsProofs` proves, for paths of every length, any file name and any current directory:

| theorem | states |
| --- | --- |
| `NormInvAlways`, `PathsInvAlways` | `Spec => []NormInv`, `Spec => []PathsInv` |
| `TypeCorrect` | `Spec => []TypeOK`: in particular `normpath` writes no more than it has read, and cuts off no more than it wrote |
| `NormPathAlwaysOK` | `Spec => []NormPathOK` |
| `AlwaysNearestFirst` | `Spec => []NearestFirst` |
| `AlwaysSameTarget` | `Spec => []SameTarget` |
| `AlwaysNothingLeftOut` | `Spec => []NothingLeftOut` |
| `AlwaysLeadsThere` | `Spec => []LeadsThere` |

*Assumption.* `PathAssumption`: `MaxLen` is any number, and the current directories are sequences of names.

*Argument.* That the result is normal and leads where the path led says nothing of the middle of a
path. `NormInv` does:

* `Shape`: up to `dotdot` the output only goes up (`Rises`), from there it only goes down (`Falls`), and its
  slashes are single and not at the end. So a ".." takes back the last element exactly if the output is
  longer than `dotdot`, and cutting off at the slash `Backtrack` finds is to take back one element
  (`ShapeBack`, `DownAndUp`).
* `SamePlace`: walking along the output and along what has been read lead to the same place.
* `Behind`: the output is shorter than what has been read whenever an element begins, so that the slash
  written before it does not overtake the input. This keeps the `LazyBuf` within the path it
  shares.

`SearchInv` says that the search has come to rule `k` of directory `m`: what is left of both lists are
their ends from there, and what has been tried are the rules before that, in order. `OneCall` says that one
call of `next()` moves to the next rule or to the next directory. The functions the model is built
from are characterised symbol by symbol (`SplitFacts`, `AddElement`, `WalkOn`, `DotsFacts`), with
`Iteration` in place of induction over data.

**Only model-checked.** The liveness properties (`Terminates`, `EveryRunEnds`, and
`ForegroundProgress`, which the code does not keep) depend on fairness, which tlapm does not handle. Of
`Rebuild`, `UpToDate`, `Settled` and `SourcesAndTargets`. The proofs say which rows the walk calls clean (`Fine`), hence
that two commands agree about it; these properties compare that verdict with the contents of the
files, and hence with what every script, edit and kill before has made of them. Such an invariant
must relate each row to the version of the file that it was written for, in the middle of builds and
between the steps of a kill too, which is more than any invariant proved here.

## 6. Plan

1. **Proofs** of `Rebuild`: who is a source and who a target (`SourcesAndTargets`), and that what the walk calls
   clean is up to date (`UpToDate`, `Settled`), which needs the meaning of each column of a
   row as an invariant. `WalkDecides` reduces it to what is `Fine`.
2. **A dependency cycle in `Rebuild`**: the cycle the walk reports when dependencies change
   direction between two runs.
3. **`Init`** (1.4): the race of two processes to create the database.
4. **`Log`** (1.6): the lines of `redo-log` and its probing of locks.

### Not modelled

* The format of log lines, colours, the environment, exit codes, command line flags,
  `minimal/do`: they keep no shared state, and unit tests reach them.
* The creation of the database, SQLite's errors and busy timeouts: every module starts from a database
  that exists.
* Symbolic links (`realdirpath`, `is_link` stamps), directories as targets, two names for one file:
  the models identify names with files.
* A nested `-jN`, the pipes of a GNU make above redo, 50 jobs of one process, timers, errors of
  system calls other than a failed fork.
* The composition of `Builder` with `Rebuild`: the product of their states is out of TLC's reach.
  What each takes for granted is checked in the other: that the lock of a target
  is held until its result is recorded (`HeldUntilRecorded`), and that what was built in a run is clean
  in it (`Settled`).
