---------------------------- MODULE BuilderProofs ----------------------------
(***************************************************************************)
(* Proofs about Builder, for every dependency graph, every -j, and any     *)
(* number of processes: types, who owns the locks, what success means, and *)
(* how often a target is built.                                            *)
(***************************************************************************)
EXTENDS BuilderRefinement, SequenceTheorems

-----------------------------------------------------------------------------
(* Names, lists and the next job of a target.                              *)

LEMMA ProcFacts ==
  /\ Root \in Proc
  /\ Root \notin Job
  /\ Job \subseteq Proc
  /\ \A p \in Proc : p = Root \/ p \in Job
  /\ NoOne \notin Proc
  /\ \A j \in Job : TargetOf(j) \in Target
  /\ \A p \in Proc : NodeOf(p) \in Target \cup {Root}
  <1>1. \A j \in Job : TargetOf(j) \in Target
    BY DEF Job, TargetOf
  <1> QED BY <1>1, NameAssumption DEF Proc, JS!Proc, NodeOf

LEMMA ListFacts ==
  ASSUME NEW s \in Seq(Target), s # <<>>
  PROVE  /\ Head(s) \in Target
         /\ Tail(s) \in Seq(Target)
  OBVIOUS

LEMMA GoalsAreLists ==
  /\ Goals \in Seq(Target)
  /\ \A t \in Target : Deps[t] \in Seq(Target)
  BY TargetAssumption DEF IsTargetList

LEMMA NextJobFacts ==
  ASSUME NEW t
  PROVE  TargetOf(NextJob(t)) = t
  BY DEF NextJob, TargetOf

-----------------------------------------------------------------------------
(* Types.                                                                  *)

LEMMA TypeInit == Init => TypeOK
  <1> SUFFICES ASSUME Init PROVE TypeOK
    OBVIOUS
  <1>1. JS!TypeOK
    BY ServerInvInit DEF JS!Inv
  <1>2. /\ owner \in [Target -> Proc \cup {NoOne}]
        /\ tail \in Seq(Target)
    BY DEF Init
  <1> QED BY <1>1, <1>2, GoalsAreLists DEF Init, TypeOK, Places

\* A process that is over leaves well-typed state behind.
LEMMA TypeGone ==
  ASSUME TypeOK, JS!TypeOK', NEW p \in Proc, NEW result \in BOOLEAN,
         NEW why \in {"none", "abort", "ensure", "start", "release"},
         Gone(p, result, why),
         said' \in [Target \cup {Root} -> SUBSET Target],
         UNCHANGED <<tail, tailed>>
  PROVE  TypeOK'
  <1>1. crash' \in [Proc -> {"none", "abort", "ensure", "start", "release", "return"}]
    BY DEF Gone, TypeOK
  <1>2. /\ todo' \in [Proc -> Seq(Target)]
        /\ locked' \in [Proc -> Seq(Target)]
    BY DEF Gone, TypeOK
  <1>3. owner' \in [Target -> Proc \cup {NoOne}]
    BY DEF Gone, TypeOK
  <1>4. /\ at' \in [Proc -> Places]
        /\ fin' \in [Proc -> SUBSET Job]
        /\ failed' \in [Proc -> BOOLEAN]
    BY DEF Gone, Goto, TypeOK, Places
  <1> QED BY <1>1, <1>2, <1>3, <1>4 DEF Gone, TypeOK

LEMMA TypeSay ==
  ASSUME TypeOK, NEW p \in Proc, NEW t \in Target, Say(p, t)
  PROVE  said' \in [Target \cup {Root} -> SUBSET Target]
  <1>1. NodeOf(p) \in Target \cup {Root}
    BY ProcFacts
  <1> QED BY <1>1 DEF Say, TypeOK

\* What StartJob and SkipJob do to the variables they determine.
LEMMA TypeStart ==
  ASSUME TypeOK, JS!TypeOK', NEW p \in Proc, NEW t \in Target,
         StartJob(p, t) \/ SkipJob(p, t),
         at' \in [Proc -> Places],
         todo' \in [Proc -> Seq(Target)],
         locked' \in [Proc -> Seq(Target)]
  PROVE  TypeOK'
  <1>1. CASE StartJob(p, t)
    <2>1. said' \in [Target \cup {Root} -> SUBSET Target]
      BY <1>1, TypeSay DEF StartJob
    <2>2. owner' \in [Target -> Proc \cup {NoOne}]
      BY <1>1 DEF StartJob, KeepLock, TypeOK
    <2>3. cycle' \in [Proc -> SUBSET Target]
      <3>1. CycleBelow(p, t) \in SUBSET Target
        BY DEF CycleBelow, TypeOK
      <3>2. PICK j : cycle' = [cycle EXCEPT ![j] = CycleBelow(p, t)]
        BY <1>1 DEF StartJob
      <3> QED BY <3>1, <3>2 DEF TypeOK
    <2> QED BY <1>1, <2>1, <2>2, <2>3 DEF StartJob, TypeOK
  <1>2. CASE SkipJob(p, t)
    BY <1>2 DEF SkipJob, FreeLock, logVars, TypeOK
  <1> QED BY <1>1, <1>2

LEMMA TypeRunStep ==
  ASSUME TypeOK, JS!TypeOK', Seats, Noted, NEW p \in Proc, RunStep(p)
  PROVE  TypeOK'
  <1>1. at[p] = "token" => /\ Head(todo[p]) \in Target
                           /\ Tail(todo[p]) \in Seq(Target)
    BY ListFacts DEF Seats, Seated, TypeOK
  <1>2. at[p] \in LockLoop => /\ Head(locked[p]) \in Target
                              /\ Tail(locked[p]) \in Seq(Target)
    BY ListFacts DEF Seats, Seated, TypeOK
  <1> USE DEF InCode, LockLoop
  <1>3. ASSUME NEW place \in Places, NEW j,
               at' = [at EXCEPT ![p] = place, ![j] = "ask"]
        PROVE  at' \in [Proc -> Places]
    BY <1>3 DEF TypeOK, Places
  <1>4. ASSUME NEW place \in Places, Goto(p, place)
        PROVE  at' \in [Proc -> Places]
    BY <1>4 DEF TypeOK, Goto
  <1>5. CASE NextTarget(p)
    BY <1>5, <1>4 DEF NextTarget, TypeOK, Places, logVars
  <1>6. CASE FirstLoopEnds(p)
    <2>1. todo' \in [Proc -> Seq(Target)]
      BY <1>6 DEF FirstLoopEnds, TypeOK
    <2> QED BY <1>6, <1>4, <2>1 DEF FirstLoopEnds, TypeOK, Places, logVars
  <1>7. CASE FindLocked(p)
    <2>1. said' \in [Target \cup {Root} -> SUBSET Target]
      BY <1>7, <1>1, TypeSay DEF FindLocked
    <2>2. locked' \in [Proc -> Seq(Target)]
      BY <1>7, <1>1 DEF FindLocked, TypeOK
    <2> QED BY <1>7, <1>1, <1>4, <2>1, <2>2 DEF FindLocked, TypeOK, Places
  <1>8. CASE BuildUnlocked(p)
    <2>1. at' \in [Proc -> Places]
      BY <1>8, <1>3, <1>4 DEF BuildUnlocked, Places
    <2>2. todo' \in [Proc -> Seq(Target)] /\ locked' \in [Proc -> Seq(Target)]
      BY <1>8, <1>1 DEF BuildUnlocked, TypeOK
    <2> QED BY <1>8, <1>1, <2>1, <2>2, TypeStart DEF BuildUnlocked
  <1>9. CASE FirstLoopAborts(p)
    BY <1>9, TypeGone DEF FirstLoopAborts, Abort, logVars, TypeOK
  <1>10. CASE SecondLoopEnds(p)
    BY <1>10, <1>4 DEF SecondLoopEnds, TypeOK, Places, logVars
  <1>11. CASE WaitForAll(p)
    BY <1>11, <1>4 DEF WaitForAll, TypeOK, Places, logVars
  <1>12. CASE SelfTestAborts(p)
    BY <1>12, TypeGone DEF SelfTestAborts, logVars, TypeOK
  <1>13. CASE LoopAgain(p)
    BY <1>13, <1>4 DEF LoopAgain, TypeOK, Places, logVars
  <1>14. CASE TryAgain(p)
    BY <1>14, <1>4 DEF TryAgain, TypeOK, Places, logVars
  <1>15. CASE GiveUpToken(p)
    <2>1. said' \in [Target \cup {Root} -> SUBSET Target]
      BY <1>15, <1>2, TypeSay DEF GiveUpToken
    <2> QED BY <1>15, <1>4, <2>1 DEF GiveUpToken, TypeOK, Places
  <1>16. CASE GiveUpPanics(p)
    BY <1>16, <1>2, TypeSay, TypeGone DEF GiveUpPanics, Panic
  <1>17. CASE WaitLock(p)
    BY <1>17, <1>4 DEF WaitLock, TypeOK, Places, logVars
  <1>18. CASE WaitLockFails(p)
    BY <1>18, TypeGone DEF WaitLockFails, Abort, logVars, TypeOK
  <1>19. CASE Unlock(p)
    BY <1>19, <1>4 DEF Unlock, FreeLock, TypeOK, Places, logVars
  <1>20. CASE FailedElsewhere(p)
    BY <1>20, <1>2, <1>4 DEF FailedElsewhere, FreeLock, TypeOK, Places, logVars
  <1>21. CASE BuildLocked(p)
    <2>1. at' \in [Proc -> Places]
      BY <1>21, <1>3, <1>4 DEF BuildLocked, Places
    <2>2. todo' \in [Proc -> Seq(Target)] /\ locked' \in [Proc -> Seq(Target)]
      BY <1>21, <1>2 DEF BuildLocked, TypeOK
    <2> QED BY <1>21, <1>2, <2>1, <2>2, TypeStart DEF BuildLocked
  <1>22. CASE BuildPanics(p)
    BY <1>22, <1>2, TypeSay, TypeGone DEF BuildPanics, Panic
  <1>23. ASSUME NEW j \in Job, Record(p, j) PROVE TypeOK'
    <2>1. code[j] \in {"ok", "fail"}
      BY <1>23 DEF Record, Noted, TypeOK
    <2>2. status' \in [Target -> {"todo", "ok", "fail"}]
      BY <1>23, <2>1 DEF Record, TypeOK
    <2>3. failed' \in [Proc -> BOOLEAN]
      BY <1>23 DEF Record, Outcome, TypeOK
    <2> QED BY <1>23, <2>2, <2>3 DEF Record, FreeLock, TypeOK, logVars
  <1>24. CASE Finish(p)
    BY <1>24, TypeGone DEF Finish, logVars, TypeOK
  <1> QED
    BY <1>5, <1>6, <1>7, <1>8, <1>9, <1>10, <1>11, <1>12, <1>13, <1>14, <1>15,
       <1>16, <1>17, <1>18, <1>19, <1>20, <1>21, <1>22, <1>23, <1>24
    DEF RunStep

LEMMA TypeNext ==
  ASSUME TypeOK, JS!TypeOK', Seats, Noted, [Next]_vars
  PROVE  TypeOK'
  <1> USE DEF buildVars, logVars
  <1>1. ASSUME NEW p \in Proc, ServerStep(p) PROVE TypeOK'
    <2>1. CASE Select(p)
      BY <2>1 DEF Select, TypeOK
    <2>2. ASSUME NEW j \in Job, Reap(p, j) PROVE TypeOK'
      BY <2>2 DEF Reap, TypeOK
    <2>3. CASE ReadToken(p) \/ Granted(p) \/ PollWaitAll(p) \/ Cheat(p)
      BY <2>3 DEF ReadToken, Granted, PollWaitAll, Cheat, TypeOK
    <2>4. CASE GrantPanics(p)
      BY <2>4, TypeGone DEF GrantPanics, TypeOK
    <2> QED BY <1>1, <2>1, <2>2, <2>3, <2>4 DEF ServerStep
  <1>2. ASSUME NEW j \in Job, ScriptStep(j) PROVE TypeOK'
    <2>1. CASE Ask(j)
      <3>1. Deps[TargetOf(j)] \in Seq(Target)
        BY ProcFacts, GoalsAreLists
      <3> QED BY <2>1, <3>1 DEF Ask, Goto, TypeOK, Places
    <2>2. CASE Exit(j)
      BY <2>2 DEF Exit, Goto, TypeOK, Places
    <2>3. CASE Buried(j)
      BY <2>3 DEF Buried, TypeOK
    <2> QED BY <1>2, <2>1, <2>2, <2>3 DEF ScriptStep
  <1>3. CASE LogStep
    <2>1. CASE TailUp
      <3>1. tail' \in Seq(Target)
        BY <2>1, SubSeqProperties, LenProperties DEF TailUp, TypeOK
      <3> QED BY <2>1, <3>1 DEF TailUp, TypeOK
    <2>2. ASSUME NEW t \in Target, TailDown(t) PROVE TypeOK'
      BY <2>2 DEF TailDown, TypeOK
    <2> QED BY <1>3, <2>1, <2>2 DEF LogStep
  <1>4. CASE UNCHANGED vars
    BY <1>4 DEF vars, TypeOK
  <1> QED BY <1>1, <1>2, <1>3, <1>4, TypeRunStep DEF Next, Rest

-----------------------------------------------------------------------------
(* What the operations of the job server do to jobs and places.            *)

LEMMA LeaveEffect ==
  ASSUME NEW p \in Proc, JS!LeaveRedo(p)
  PROVE  /\ waitFds' = [waitFds EXCEPT ![p] = {}]
         /\ phase' = [phase EXCEPT ![p] = IF p = Root THEN "gone" ELSE "script"]
         /\ orphans' = orphans \cup waitFds[p]
  BY DEF JS!LeaveRedo

LEMMA WaitEffect ==
  ASSUME NEW p \in Proc, JS!WaitAll(p) \/ JS!PollWaitAll(p)
  PROVE  /\ UNCHANGED <<waitFds, orphans>>
         /\ \E place \in {"waitAll", "redo", "gone"} :
                /\ phase' = [phase EXCEPT ![p] = place]
                /\ place # "waitAll" => waitFds[p] = {}
  BY DEF JS!WaitAll, JS!PollWaitAll, JS!WaitAllPending, JS!WaitAllReady,
         JS!SelfTestFails, JS!Running

LEMMA StartEffect ==
  ASSUME NEW p \in Proc, NEW t, StartJob(p, t)
  PROVE  \E j \in Job \ {p} :
            /\ j = NextJob(t)
            /\ TargetOf(j) = t
            /\ phase[j] = "unborn"
            /\ my[p] = 1
            /\ phase' = [phase EXCEPT ![j] = "script"]
            /\ waitFds' = [waitFds EXCEPT ![p] = @ \cup {j}]
            /\ owner' = [owner EXCEPT ![t] = p]
            /\ UNCHANGED <<orphans, fin, failed, status, code, crash>>
  BY NextJobFacts DEF StartJob, JS!Start, KeepLock

-----------------------------------------------------------------------------
(* Seats.                                                                  *)

LEMMA SeatsInit == Init => Seats
  <1> SUFFICES ASSUME Init, NEW p \in Proc PROVE Seated(p)
    BY DEF Seats
  <1>1. /\ fin[p] = {} /\ waitFds[p] = {}
        /\ todo[p] = (IF p = Root THEN Goals ELSE <<>>)
        /\ at[p] = (IF p = Root THEN "first" ELSE "none")
        /\ phase[p] = (IF p = Root THEN "redo" ELSE "unborn")
        /\ locked[p] = <<>>
    BY DEF Init, JS!Init, Proc
  <1> QED BY <1>1 DEF Seated, JS!WantsToken, InCode, LockLoop, RunPlaces, Mine

\* A process keeps its seat while nothing happens to it.
LEMMA SeatKept ==
  ASSUME NEW q, Seated(q),
         at'[q] = at[q] /\ todo'[q] = todo[q] /\ locked'[q] = locked[q],
         fin'[q] = fin[q] /\ failed'[q] = failed[q],
         waitFds'[q] = waitFds[q],
         phase'[q] = phase[q] \/ (q # Root /\ phase'[q] \in {"script", "zombie", "gone"})
  PROVE  Seated(q)'
  BY DEF Seated, JS!WantsToken, InCode, Mine

\* Whoever leaves run() gives up its seat.
LEMMA SeatGone ==
  ASSUME TypeOK, NEW p \in Proc, NEW result, NEW why, Gone(p, result, why),
         waitFds' = [waitFds EXCEPT ![p] = {}],
         NEW place, place \notin {"ensureBusy", "ensureIdle"},
         phase' = [phase EXCEPT ![p] = place],
         Seats
  PROVE  Seats'
  <1> SUFFICES ASSUME NEW q \in Proc PROVE Seated(q)'
    BY DEF Seats
  <1>1. CASE q = p
    <2>1. /\ at'[p] = "asked" /\ todo'[p] = <<>> /\ locked'[p] = <<>>
          /\ fin'[p] = {} /\ waitFds'[p] = {} /\ phase'[p] = place
      BY DEF Gone, Goto, TypeOK, JS!TypeOK, Proc
    <2> QED BY <1>1, <2>1
            DEF Seated, JS!WantsToken, InCode, LockLoop, RunPlaces, Mine
  <1>2. CASE q # p
    BY <1>2, SeatKept DEF Seats, Gone, Goto, TypeOK, JS!TypeOK, Proc
  <1> QED BY <1>1, <1>2

\* A step of p that leaves the other processes where they are, but for a job it
\* may have started.
LEMMA SeatTaken ==
  ASSUME Seats, NEW p \in Proc, Seated(p)',
         \A q \in Proc \ {p} :
             /\ todo'[q] = todo[q] /\ locked'[q] = locked[q]
             /\ fin'[q] = fin[q] /\ failed'[q] = failed[q]
             /\ waitFds'[q] = waitFds[q]
             /\ \/ at'[q] = at[q] /\ phase'[q] = phase[q]
                \/ q # Root /\ at'[q] = "ask" /\ phase'[q] = "script"
  PROVE  Seats'
  <1> SUFFICES ASSUME NEW q \in Proc \ {p} PROVE Seated(q)'
    BY DEF Seats
  <1>1. CASE at'[q] = at[q] /\ phase'[q] = phase[q]
    BY <1>1, SeatKept DEF Seats
  <1>2. CASE q # Root /\ at'[q] = "ask" /\ phase'[q] = "script"
    BY <1>2 DEF Seated, JS!WantsToken, InCode, LockLoop, RunPlaces
  <1> QED BY <1>1, <1>2

LEMMA SeatsRunStep ==
  ASSUME TypeOK, Seats, NEW p \in Proc, RunStep(p)
  PROVE  Seats'
  <1> USE DEF InCode, Goto
  <1>1. /\ Seated(p)
        /\ at \in [Proc -> Places] /\ phase \in [Proc -> JS!Phases]
        /\ todo \in [Proc -> Seq(Target)] /\ locked \in [Proc -> Seq(Target)]
        /\ fin \in [Proc -> SUBSET Job] /\ waitFds \in [Proc -> SUBSET Job]
        /\ failed \in [Proc -> BOOLEAN]
    BY DEF Seats, TypeOK, JS!TypeOK, Proc
  <1>2. ASSUME NEW result, NEW why, JS!LeaveRedo(p), Gone(p, result, why)
        PROVE  Seats'
    BY <1>2, LeaveEffect, SeatGone
  <1> USE DEF Seated, JS!WantsToken, LockLoop, RunPlaces, Mine
  <1>3. CASE NextTarget(p)
    <2>1. /\ UNCHANGED <<todo, locked, fin, failed, waitFds>>
          /\ at' = [at EXCEPT ![p] = "token"]
          /\ \E place \in {"redo", "ensureBusy", "ensureIdle"} :
                 phase' = [phase EXCEPT ![p] = place]
      BY <1>1, <1>3 DEF NextTarget, JS!EnsureToken, serverVars
    <2> QED BY <1>1, <1>3, <2>1, SeatTaken DEF NextTarget
  <1>4. CASE FirstLoopEnds(p)
    BY <1>1, <1>4, SeatTaken DEF FirstLoopEnds, serverVars
  <1>5. CASE FindLocked(p)
    BY <1>1, <1>5, SeatTaken DEF FindLocked, serverVars
  <1>6. CASE BuildUnlocked(p)
    <2>1. /\ todo' = [todo EXCEPT ![p] = Tail(@)]
          /\ locked' = locked
          /\ at[p] = "token" /\ phase[p] = "redo"
      BY <1>6 DEF BuildUnlocked
    <2>2. CASE SkipJob(p, Head(todo[p])) /\ Goto(p, "first")
      BY <1>1, <2>1, <2>2, SeatTaken DEF SkipJob, serverVars
    <2>3. CASE /\ StartJob(p, Head(todo[p]))
               /\ at' = [at EXCEPT ![p] = "first", ![NextJob(Head(todo[p]))] = "ask"]
      <3>1. PICK j \in Job \ {p} : /\ at' = [at EXCEPT ![p] = "first", ![j] = "ask"]
                                   /\ phase' = [phase EXCEPT ![j] = "script"]
                                   /\ waitFds' = [waitFds EXCEPT ![p] = @ \cup {j}]
                                   /\ UNCHANGED <<fin, failed>>
        BY <2>3, StartEffect
      <3> QED BY <1>1, <2>1, <3>1, SeatTaken, ProcFacts
    <2> QED BY <1>6, <2>2, <2>3 DEF BuildUnlocked
  <1>7. CASE FirstLoopAborts(p)
    BY <1>2, <1>7 DEF FirstLoopAborts, Abort, JS!Leave
  <1>8. CASE SecondLoopEnds(p)
    BY <1>1, <1>8, SeatTaken DEF SecondLoopEnds, serverVars, JS!Running, Errored
  <1>9. CASE WaitForAll(p)
    BY <1>1, <1>9, WaitEffect, SeatTaken DEF WaitForAll
  <1>10. CASE SelfTestAborts(p)
    <2>1. /\ phase'[p] = "gone"
          /\ Gone(p, TRUE, "abort")
          /\ UNCHANGED waitFds
          /\ \E place : /\ phase' = [phase EXCEPT ![p] = place]
                        /\ place # "waitAll" => waitFds[p] = {}
      BY <1>10, WaitEffect DEF SelfTestAborts
    <2>2. /\ phase' = [phase EXCEPT ![p] = "gone"]
          /\ waitFds' = [waitFds EXCEPT ![p] = {}]
      BY <1>1, <2>1
    <2> QED BY <2>1, <2>2, SeatGone
  <1>11. CASE LoopAgain(p)
    BY <1>1, <1>11, SeatTaken DEF LoopAgain, serverVars
  <1>12. CASE TryAgain(p)
    BY <1>1, <1>12, SeatTaken DEF TryAgain, serverVars
  <1>13. CASE GiveUpToken(p)
    BY <1>1, <1>13, SeatTaken DEF GiveUpToken, JS!ReleaseMine
  <1>14. CASE GiveUpPanics(p)
    BY <1>2, <1>14 DEF GiveUpPanics, Panic, JS!Leave
  <1>15. CASE WaitLock(p)
    BY <1>1, <1>15, SeatTaken DEF WaitLock, serverVars
  <1>16. CASE WaitLockFails(p)
    BY <1>2, <1>16 DEF WaitLockFails, Abort, JS!Leave
  <1>17. CASE Unlock(p)
    BY <1>1, <1>17, SeatTaken DEF Unlock, JS!EnsureToken
  <1>18. CASE FailedElsewhere(p)
    BY <1>1, <1>18, SeatTaken DEF FailedElsewhere, serverVars
  <1>19. CASE BuildLocked(p)
    <2>1. /\ todo' = todo
          /\ locked' = [locked EXCEPT ![p] = Tail(@)]
          /\ at[p] = "build"
      BY <1>19 DEF BuildLocked
    <2>2. CASE SkipJob(p, Head(locked[p])) /\ Goto(p, "second")
      BY <1>1, <2>1, <2>2, SeatTaken DEF SkipJob, serverVars
    <2>3. CASE /\ StartJob(p, Head(locked[p]))
               /\ at' = [at EXCEPT ![p] = "second",
                                   ![NextJob(Head(locked[p]))] = "ask"]
      <3>1. PICK j \in Job \ {p} : /\ at' = [at EXCEPT ![p] = "second", ![j] = "ask"]
                                   /\ phase' = [phase EXCEPT ![j] = "script"]
                                   /\ waitFds' = [waitFds EXCEPT ![p] = @ \cup {j}]
                                   /\ UNCHANGED <<fin, failed>>
        BY <2>3, StartEffect
      <3> QED BY <1>1, <2>1, <3>1, SeatTaken, ProcFacts
    <2> QED BY <1>19, <2>2, <2>3 DEF BuildLocked
  <1>20. CASE BuildPanics(p)
    BY <1>2, <1>20 DEF BuildPanics, Panic, JS!Leave
  <1>21. ASSUME NEW j \in Job, Record(p, j) PROVE Seats'
    BY <1>1, <1>21, SeatTaken DEF Record, Outcome, serverVars
  <1>22. CASE Finish(p)
    BY <1>2, <1>22 DEF Finish, JS!Leave
  <1> QED
    BY <1>3, <1>4, <1>5, <1>6, <1>7, <1>8, <1>9, <1>10, <1>11, <1>12, <1>13,
       <1>14, <1>15, <1>16, <1>17, <1>18, <1>19, <1>20, <1>21, <1>22
    DEF RunStep

LEMMA SeatsNext == TypeOK /\ JS!Inv /\ Seats /\ [Next]_vars => Seats'
  <1> SUFFICES ASSUME TypeOK, JS!Inv, Seats, [Next]_vars PROVE Seats'
    OBVIOUS
  <1>1. /\ at \in [Proc -> Places] /\ phase \in [Proc -> JS!Phases]
        /\ todo \in [Proc -> Seq(Target)]
        /\ fin \in [Proc -> SUBSET Job] /\ waitFds \in [Proc -> SUBSET Job]
    BY DEF TypeOK, JS!TypeOK, Proc
  <1>2. ASSUME NEW p \in Proc, ServerStep(p) PROVE Seats'
    <2> USE DEF buildVars, Seated, JS!WantsToken, InCode, Mine
    <2>1. CASE Select(p) \/ ReadToken(p)
      BY <2>1, SeatKept, Zenon
      DEF Seats, Select, ReadToken, JS!Select, JS!ReadToken
    <2>2. ASSUME NEW j \in Job, Reap(p, j) PROVE Seats'
      <3>1. /\ UNCHANGED <<at, todo, locked, failed>>
            /\ waitFds' = [waitFds EXCEPT ![p] = @ \ {j}]
            /\ phase' = [phase EXCEPT ![j] = "gone"]
            /\ fin' = [fin EXCEPT ![p] = @ \cup {j}]
            /\ j \in waitFds[p]
        BY <2>2 DEF Reap, JS!Reap, JS!Inv, JS!Answers, Proc
      <3> QED BY <1>1, <3>1, ProcFacts DEF Seats
    <2>3. CASE Granted(p) \/ Cheat(p)
      <3>1. /\ UNCHANGED <<at, todo, locked, failed, fin, waitFds>>
            /\ phase' = [phase EXCEPT ![p] = "redo"]
            /\ JS!WantsToken(p)
        BY <2>3 DEF Granted, Cheat, JS!Granted, JS!Cheat
      <3> QED BY <1>1, <3>1 DEF Seats
    <2>4. CASE GrantPanics(p)
      BY <2>4, LeaveEffect, SeatGone DEF GrantPanics, JS!GrantPanics
    <2>5. CASE PollWaitAll(p)
      <3>1. /\ UNCHANGED <<at, todo, locked, failed, fin, waitFds>>
            /\ phase'[p] # "gone"
            /\ \E place \in {"waitAll", "redo", "gone"} :
                  /\ phase' = [phase EXCEPT ![p] = place]
                  /\ place # "waitAll" => waitFds[p] = {}
        BY <2>5, WaitEffect DEF PollWaitAll
      <3> QED BY <1>1, <3>1 DEF Seats
    <2> QED BY <1>2, <2>1, <2>2, <2>3, <2>4, <2>5 DEF ServerStep
  <1>3. ASSUME NEW j \in Job, ScriptStep(j) PROVE Seats'
    <2> USE DEF Goto
    <2>1. CASE Ask(j)
      <3>1. Seated(j)'
        BY <1>1, <2>1, ProcFacts
        DEF Ask, JS!EnterRedo, Seated, JS!WantsToken, InCode, LockLoop, RunPlaces
      <3> QED BY <1>1, <2>1, <3>1, SeatTaken, ProcFacts DEF Ask, JS!EnterRedo
    <2>2. CASE Exit(j)
      <3>1. /\ UNCHANGED <<todo, locked, fin, failed, waitFds>>
            /\ at' = [at EXCEPT ![j] = "none"]
            /\ \E place \in {"zombie", "gone"} : phase' = [phase EXCEPT ![j] = place]
        BY <2>2 DEF Exit, JS!Exit
      <3>2. Seated(j)'
        BY <1>1, <3>1, ProcFacts
        DEF Seated, JS!WantsToken, InCode, LockLoop, RunPlaces
      <3> QED BY <1>1, <3>1, <3>2, SeatTaken, ProcFacts
    <2>3. CASE Buried(j)
      BY <1>1, <2>3, SeatKept, ProcFacts DEF Buried, JS!Buried, buildVars, Seats
    <2> QED BY <1>3, <2>1, <2>2, <2>3 DEF ScriptStep
  <1>4. CASE LogStep \/ UNCHANGED vars
    <2>1. UNCHANGED <<at, todo, locked, fin, failed, waitFds, phase>>
      BY <1>4 DEF LogStep, TailUp, TailDown, serverVars, buildVars, vars
    <2> QED BY <2>1, SeatKept DEF Seats
  <1> QED BY <1>2, <1>3, <1>4, SeatsRunStep DEF Next, Rest
=============================================================================
