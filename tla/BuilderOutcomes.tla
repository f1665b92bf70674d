--------------------------- MODULE BuilderOutcomes ---------------------------
(***************************************************************************)
(* Proofs about Builder: who holds the lock of a target, how often it is   *)
(* built, what success means and what becomes of the tokens, for every     *)
(* dependency graph, every -j and any number of processes.                 *)
(***************************************************************************)
EXTENDS BuilderProofs

-----------------------------------------------------------------------------
(* What a step of a redo process does, seen from outside: it moves on, it  *)
(* starts a job, reaps one, records one, or leaves run().                  *)

OthersStay(p) ==
    /\ todo \in [Proc -> Seq(Target)] /\ todo' \in [Proc -> Seq(Target)]
    /\ \A q \in Proc \ {p} :
          /\ todo'[q] = todo[q]
          /\ locked'[q] = locked[q]
          /\ failed'[q] = failed[q]

\* The lock of Head(locked[p]) may be free already, or is taken by p.
MovesLock(p) ==
    \/ /\ UNCHANGED owner
       /\ at'[p] \in {"granted", "build"} => at'[p] = at[p] /\ locked'[p] = locked[p]
    \/ /\ Head(locked[p]) \in Target
       /\ owner[Head(locked[p])] = NoOne
       /\ owner' = [owner EXCEPT ![Head(locked[p])] = p]
       /\ locked' = locked
    \/ /\ at'[p] \notin {"granted", "build"}
       /\ \E t \in Target :
             /\ \/ owner[t] = NoOne
                \/ at[p] \in {"granted", "build"} /\ t = Head(locked[p])
             /\ owner' = [owner EXCEPT ![t] = NoOne]

Moves(p) ==
    /\ OthersStay(p)
    /\ UNCHANGED <<waitFds, orphans, fin, status, code, crash>>
    /\ phase' = [phase EXCEPT ![p] = phase'[p]]
    /\ {phase[p], phase'[p]} \subseteq JS!InRedo
    /\ at' = [at EXCEPT ![p] = at'[p]]
    /\ at'[p] = at[p] \/ {at[p], at'[p]} \subseteq RunPlaces
    /\ failed[p] => failed'[p]
    /\ failed'[p] => failed[p] \/ \E t \in Target : status[t] = "fail"
    /\ MovesLock(p)

Starts(p, j) ==
    /\ OthersStay(p)
    /\ phase[p] = "redo" /\ phase[j] = "unborn"
    /\ phase' = [phase EXCEPT ![j] = "script"]
    /\ waitFds' = [waitFds EXCEPT ![p] = @ \cup {j}]
    /\ \/ owner[TargetOf(j)] = NoOne
       \/ at[p] = "build" /\ TargetOf(j) = Head(locked[p])
    /\ owner' = [owner EXCEPT ![TargetOf(j)] = p]
    /\ status[TargetOf(j)] = "todo" \/ NodeOf(p) \in Forced
    /\ j = NextJob(TargetOf(j))
    /\ at[p] \in {"token", "build"}
    /\ \E place \in {"first", "second"} :
          at' = [at EXCEPT ![p] = place, ![j] = "ask"]
    /\ UNCHANGED <<orphans, fin, status, code, crash, failed>>

Leaves(p) ==
    /\ OthersStay(p)
    /\ phase[p] \in JS!InRedo
    /\ at[p] \in RunPlaces
    /\ phase' = [phase EXCEPT ![p] = IF p = Root THEN "gone" ELSE "script"]
    /\ orphans' = orphans \cup waitFds[p]
    /\ waitFds' = [waitFds EXCEPT ![p] = {}]
    /\ fin' = [fin EXCEPT ![p] = {}]
    /\ owner' = [t \in Target |-> IF owner[t] = p THEN NoOne ELSE owner[t]]
    /\ at' = [at EXCEPT ![p] = "asked"]
    /\ crash' = [crash EXCEPT ![p] = crash'[p]]
    /\ failed[p] => failed'[p]
    /\ \/ crash'[p] = "none" /\ failed'[p] = failed[p] /\ Mine(p) = {}
       \/ crash'[p] # "none" /\ failed'[p]
    /\ UNCHANGED <<status, code>>

Reaps(p, j) ==
    /\ OthersStay(p)
    /\ j \in waitFds[p]
    /\ phase[j] = "zombie"
    /\ phase' = [phase EXCEPT ![j] = "gone"]
    /\ waitFds' = [waitFds EXCEPT ![p] = @ \ {j}]
    /\ fin' = [fin EXCEPT ![p] = @ \cup {j}]
    /\ UNCHANGED <<orphans, at, todo, locked, failed, owner, status, code, crash>>

Records(p, j) ==
    /\ OthersStay(p)
    /\ j \in fin[p]
    /\ fin' = [fin EXCEPT ![p] = @ \ {j}]
    /\ status' = [status EXCEPT ![TargetOf(j)] = code[j]]
    /\ failed' = [failed EXCEPT ![p] = failed[p] \/ code[j] = "fail"]
    /\ owner' = [owner EXCEPT ![TargetOf(j)] = NoOne]
    /\ at[p] \in {"token", "drain", "fold"} /\ phase[p] \in JS!InRedo
    /\ UNCHANGED <<orphans, phase, waitFds, at, todo, locked, code, crash>>

Acts(p) ==
    \/ Moves(p) \/ Leaves(p)
    \/ \E j \in Job \ {p} : Starts(p, j)
    \/ \E j \in Job : Reaps(p, j) \/ Records(p, j)

LEMMA LeavesRun ==
  ASSUME TypeOK, NEW p \in Proc, NEW result, NEW why,
         JS!LeaveRedo(p), Gone(p, result, why),
         phase[p] \in JS!InRedo, at[p] \in RunPlaces,
         \/ why = "none" /\ result = failed[p] /\ Mine(p) = {}
         \/ why # "none" /\ result = TRUE
  PROVE  Leaves(p)
  <1>1. crash' = [crash EXCEPT ![p] = crash'[p]]
    BY DEF Gone, TypeOK
  <1>2. /\ failed[p] => failed'[p]
        /\ \/ crash'[p] = "none" /\ failed'[p] = failed[p] /\ Mine(p) = {}
           \/ crash'[p] # "none" /\ failed'[p]
    BY DEF Gone, TypeOK
  <1>3. OthersStay(p)
    BY DEF Gone, OthersStay, TypeOK
  <1> QED BY <1>1, <1>2, <1>3, LeaveEffect DEF Gone, Goto, Leaves

LEMMA VerdictFacts ==
  ASSUME TypeOK, NEW p \in Proc, NEW t \in Target
  PROVE  /\ Verdict(p, t) = "dirty" => status[t] = "todo" \/ NodeOf(p) \in Forced
         /\ Verdict(p, t) = "clean" => status[t] = "ok"
  BY DEF Verdict, TypeOK

LEMMA RunStepActs ==
  ASSUME TypeOK, Seats, NEW p \in Proc, RunStep(p)
  PROVE  Acts(p)
  <1> USE DEF InCode, Goto
  <1>1. /\ at \in [Proc -> Places] /\ phase \in [Proc -> JS!Phases]
        /\ todo \in [Proc -> Seq(Target)] /\ locked \in [Proc -> Seq(Target)]
        /\ fin \in [Proc -> SUBSET Job] /\ waitFds \in [Proc -> SUBSET Job]
        /\ failed \in [Proc -> BOOLEAN]
        /\ owner \in [Target -> Proc \cup {NoOne}]
    BY DEF TypeOK, JS!TypeOK, Proc
  <1>2. /\ at[p] = "token" => Head(todo[p]) \in Target /\ Tail(todo[p]) \in Seq(Target)
        /\ at[p] \in LockLoop =>
              Head(locked[p]) \in Target /\ Tail(locked[p]) \in Seq(Target)
    BY ListFacts DEF Seats, Seated, TypeOK
  <1>3. ASSUME NEW place, place \in RunPlaces, at[p] \in RunPlaces,
               at' = [at EXCEPT ![p] = place],
               phase[p] = "redo", UNCHANGED phase,
               UNCHANGED <<waitFds, orphans, fin, status, code, crash>>,
               failed[p] => failed'[p],
               failed'[p] => failed[p] \/ \E t \in Target : status[t] = "fail",
               OthersStay(p), MovesLock(p)
        PROVE  Acts(p)
    BY <1>1, <1>3 DEF Acts, Moves, JS!InRedo
  <1>4. ASSUME NEW result, NEW why, JS!LeaveRedo(p),
               Gone(p, result, why), phase[p] = "redo", at[p] \in RunPlaces,
               \/ why = "none" /\ result = failed[p] /\ Mine(p) = {}
               \/ why # "none" /\ result = TRUE
        PROVE  Acts(p)
    BY <1>4, LeavesRun DEF Acts, JS!InRedo
  <1> USE DEF OthersStay, MovesLock, LockLoop, RunPlaces
  <1>5. CASE NextTarget(p)
    <2>1. /\ UNCHANGED <<todo, locked, failed, owner>>
          /\ UNCHANGED <<waitFds, orphans, fin, status, code, crash>>
          /\ at' = [at EXCEPT ![p] = "token"]
          /\ phase' = [phase EXCEPT ![p] = phase'[p]]
          /\ {phase[p], phase'[p]} \subseteq JS!InRedo
      BY <1>1, <1>5
      DEF NextTarget, JS!EnsureToken, serverVars, JS!InRedo, JS!Awaits
    <2> QED BY <1>1, <1>5, <2>1 DEF NextTarget, Acts, Moves
  <1>6. CASE FirstLoopEnds(p)
    <2>1. todo' \in [Proc -> Seq(Target)] /\ OthersStay(p)
      BY <1>1, <1>6 DEF FirstLoopEnds
    <2> QED BY <1>1, <1>3, <1>6, <2>1 DEF FirstLoopEnds, serverVars
  <1>7. CASE FindLocked(p)
    BY <1>1, <1>2, <1>3, <1>7 DEF FindLocked, serverVars
  <1>8. CASE BuildUnlocked(p)
    <2> DEFINE t == Head(todo[p])
    <2>1. /\ todo' = [todo EXCEPT ![p] = Tail(@)]
          /\ locked' = locked
          /\ at[p] = "token" /\ phase[p] = "redo"
          /\ t \in Target
          /\ owner[t] = NoOne
      BY <1>2, <1>8 DEF BuildUnlocked
    <2>2. CASE SkipJob(p, t) /\ Goto(p, "first")
      BY <1>1, <1>2, <1>3, <2>1, <2>2 DEF SkipJob, FreeLock, serverVars
    <2>3. CASE /\ Verdict(p, t) = "dirty"
               /\ StartJob(p, t)
               /\ at' = [at EXCEPT ![p] = "first", ![NextJob(t)] = "ask"]
      <3>1. status[t] = "todo" \/ NodeOf(p) \in Forced
        BY <2>1, <2>3, VerdictFacts
      <3>2. PICK j \in Job \ {p} :
               /\ j = NextJob(t)
               /\ TargetOf(j) = t
               /\ phase[j] = "unborn"
               /\ phase' = [phase EXCEPT ![j] = "script"]
               /\ waitFds' = [waitFds EXCEPT ![p] = @ \cup {j}]
               /\ owner' = [owner EXCEPT ![t] = p]
               /\ UNCHANGED <<orphans, fin, failed, status, code, crash>>
        BY <2>3, StartEffect
      <3> HIDE DEF t
      <3>3. /\ todo' \in [Proc -> Seq(Target)]
            /\ \A q \in Proc \ {p} : todo'[q] = todo[q]
        BY <1>1, <1>2, <2>1
      <3>4. Starts(p, j)
        BY <1>1, <2>1, <2>3, <3>1, <3>2, <3>3 DEF Starts
      <3> QED BY <3>4 DEF Acts
    <2> QED BY <1>8, <2>2, <2>3 DEF BuildUnlocked
  <1>9. CASE FirstLoopAborts(p)
    BY <1>4, <1>9 DEF FirstLoopAborts, Abort, JS!Leave
  <1>10. CASE SecondLoopEnds(p)
    BY <1>1, <1>3, <1>10 DEF SecondLoopEnds, serverVars
  <1>11. CASE WaitForAll(p)
    <2>1. /\ phase' = [phase EXCEPT ![p] = phase'[p]]
          /\ {phase[p], phase'[p]} \subseteq JS!InRedo
          /\ UNCHANGED <<waitFds, orphans>>
      BY <1>1, <1>11, WaitEffect DEF WaitForAll, JS!InRedo, JS!Awaits
    <2> QED BY <1>1, <1>11, <2>1 DEF WaitForAll, Acts, Moves
  <1>12. CASE SelfTestAborts(p)
    <2>1. /\ Gone(p, TRUE, "abort")
          /\ at[p] \in {"second", "drain"}
          /\ phase[p] \in JS!InRedo
          /\ p = Root
          /\ phase' = [phase EXCEPT ![p] = "gone"]
          /\ waitFds[p] = {}
          /\ UNCHANGED <<waitFds, orphans>>
      BY <1>1, <1>12
      DEF SelfTestAborts, JS!WaitAll, JS!PollWaitAll, JS!WaitAllPending,
          JS!WaitAllReady, JS!SelfTestFails, JS!Running, JS!InRedo, JS!Awaits
    <2>2. /\ crash' = [crash EXCEPT ![p] = crash'[p]]
          /\ crash'[p] # "none" /\ failed'[p]
      BY <2>1 DEF Gone, TypeOK
    <2>3. /\ waitFds' = [waitFds EXCEPT ![p] = {}]
          /\ orphans' = orphans \cup waitFds[p]
      BY <1>1, <2>1
    <2>4. OthersStay(p)
      BY <1>1, <2>1 DEF Gone
    <2> QED BY <2>1, <2>2, <2>3, <2>4 DEF Gone, Acts, Leaves
  <1>13. CASE LoopAgain(p)
    BY <1>1, <1>3, <1>13 DEF LoopAgain, serverVars
  <1>14. CASE TryAgain(p)
    <2>1. Head(locked[p]) \in Target
      BY <1>1, <1>14, ListFacts DEF TryAgain
    <2> QED BY <1>1, <1>3, <1>14, <2>1 DEF TryAgain, serverVars
  <1>15. CASE GiveUpToken(p)
    BY <1>1, <1>3, <1>15 DEF GiveUpToken, JS!ReleaseMine
  <1>16. CASE GiveUpPanics(p)
    BY <1>4, <1>16 DEF GiveUpPanics, Panic, JS!Leave
  <1>17. CASE WaitLock(p)
    BY <1>1, <1>2, <1>3, <1>17 DEF WaitLock, serverVars
  <1>18. CASE WaitLockFails(p)
    BY <1>4, <1>18 DEF WaitLockFails, LockCycle, Blocked, Abort, JS!Leave
  <1>19. CASE Unlock(p)
    <2>1. /\ UNCHANGED <<todo, locked, failed>>
          /\ UNCHANGED <<waitFds, orphans, fin, status, code, crash>>
          /\ owner' = [owner EXCEPT ![Head(locked[p])] = NoOne]
          /\ Head(locked[p]) \in Target
          /\ at[p] = "granted"
          /\ at' = [at EXCEPT ![p] = "again"]
          /\ phase' = [phase EXCEPT ![p] = phase'[p]]
          /\ {phase[p], phase'[p]} \subseteq JS!InRedo
      BY <1>1, <1>2, <1>19
      DEF Unlock, FreeLock, JS!EnsureToken, JS!InRedo, JS!Awaits
    <2> QED BY <1>1, <2>1 DEF Acts, Moves
  <1>20. CASE FailedElsewhere(p)
    BY <1>1, <1>2, <1>3, <1>20 DEF FailedElsewhere, FreeLock, serverVars
  <1>21. CASE BuildLocked(p)
    <2> DEFINE t == Head(locked[p])
    <2>1. /\ todo' = todo
          /\ locked' = [locked EXCEPT ![p] = Tail(@)]
          /\ at[p] = "build" /\ phase[p] = "redo"
          /\ t \in Target
      BY <1>2, <1>21 DEF BuildLocked
    <2>2. CASE SkipJob(p, t) /\ Goto(p, "second")
      BY <1>1, <1>2, <1>3, <2>1, <2>2 DEF SkipJob, FreeLock, serverVars
    <2>3. CASE /\ Verdict(p, t) = "dirty"
               /\ StartJob(p, t)
               /\ at' = [at EXCEPT ![p] = "second", ![NextJob(t)] = "ask"]
      <3>1. status[t] = "todo" \/ NodeOf(p) \in Forced
        BY <2>1, <2>3, VerdictFacts
      <3>2. PICK j \in Job \ {p} :
               /\ j = NextJob(t)
               /\ TargetOf(j) = t
               /\ phase[j] = "unborn"
               /\ phase' = [phase EXCEPT ![j] = "script"]
               /\ waitFds' = [waitFds EXCEPT ![p] = @ \cup {j}]
               /\ owner' = [owner EXCEPT ![t] = p]
               /\ UNCHANGED <<orphans, fin, failed, status, code, crash>>
        BY <2>3, StartEffect
      <3>3. \A q \in Proc \ {p} : locked'[q] = locked[q]
        BY <1>1, <2>1
      <3>4. TargetOf(j) = Head(locked[p])
        BY <3>2
      <3> HIDE DEF t
      <3>5. Starts(p, j)
        BY <1>1, <2>1, <2>3, <3>1, <3>2, <3>3, <3>4 DEF Starts
      <3> QED BY <3>5 DEF Acts
    <2> QED BY <1>21, <2>2, <2>3 DEF BuildLocked
  <1>22. CASE BuildPanics(p)
    BY <1>4, <1>22 DEF BuildPanics, Panic, JS!Leave
  <1>23. ASSUME NEW j \in Job, Record(p, j) PROVE Acts(p)
    <2>1. Records(p, j)
      BY <1>1, <1>23 DEF Record, Records, Outcome, FreeLock, serverVars
    <2> QED BY <2>1 DEF Acts
  <1>24. CASE Finish(p)
    BY <1>1, <1>4, <1>24 DEF Finish, JS!Leave, Seats, Seated, Mine
  <1> QED
    BY <1>5, <1>6, <1>7, <1>8, <1>9, <1>10, <1>11, <1>12, <1>13, <1>14, <1>15,
       <1>16, <1>17, <1>18, <1>19, <1>20, <1>21, <1>22, <1>23, <1>24
    DEF RunStep

LEMMA ServerStepActs ==
  ASSUME TypeOK, JS!Inv, Seats, NEW p \in Proc, ServerStep(p)
  PROVE  Acts(p)
  <1>1. /\ at \in [Proc -> Places] /\ phase \in [Proc -> JS!Phases]
        /\ todo \in [Proc -> Seq(Target)]
        /\ fin \in [Proc -> SUBSET Job] /\ waitFds \in [Proc -> SUBSET Job]
    BY DEF TypeOK, JS!TypeOK, Proc
  <1> USE DEF OthersStay, MovesLock, buildVars
  <1>2. CASE Select(p) \/ ReadToken(p)
    <2>1. phase[p] \in JS!InRedo
      BY <1>2 DEF Select, ReadToken, JS!Select, JS!ReadToken, JS!Inv, JS!Answers,
                  JS!InRedo, Proc
    <2> QED BY <1>1, <1>2, <2>1
            DEF Select, ReadToken, JS!Select, JS!ReadToken, Acts, Moves
  <1>3. ASSUME NEW j \in Job, Reap(p, j) PROVE Acts(p)
    <2>1. Reaps(p, j)
      BY <1>1, <1>3 DEF Reap, Reaps, JS!Reap, JS!Inv, JS!Answers, Proc
    <2> QED BY <2>1 DEF Acts
  <1>4. CASE Granted(p) \/ Cheat(p)
    <2>1. /\ UNCHANGED <<buildVars, waitFds, orphans>>
          /\ phase' = [phase EXCEPT ![p] = phase'[p]]
          /\ {phase[p], phase'[p]} \subseteq JS!InRedo
      BY <1>1, <1>4
      DEF Granted, Cheat, JS!Granted, JS!Cheat, JS!WantsToken, JS!InRedo, JS!Awaits
    <2> QED BY <1>1, <2>1 DEF Acts, Moves
  <1>5. CASE GrantPanics(p)
    <2>1. at[p] \in RunPlaces /\ phase[p] \in JS!InRedo
      BY <1>5 DEF GrantPanics, JS!GrantPanics, Seats, Seated, JS!WantsToken,
                  RunPlaces, JS!InRedo, JS!Awaits
    <2>2. Leaves(p)
      BY <1>5, <2>1, LeavesRun DEF GrantPanics, JS!GrantPanics
    <2> QED BY <2>2 DEF Acts
  <1>6. CASE PollWaitAll(p)
    <2>1. /\ UNCHANGED <<buildVars, waitFds, orphans>>
          /\ phase' = [phase EXCEPT ![p] = phase'[p]]
          /\ {phase[p], phase'[p]} \subseteq JS!InRedo
      BY <1>1, <1>6, WaitEffect DEF PollWaitAll, JS!PollWaitAll, JS!InRedo, JS!Awaits
    <2> QED BY <1>1, <2>1 DEF Acts, Moves
  <1> QED BY <1>2, <1>3, <1>4, <1>5, <1>6 DEF ServerStep

\* The steps of scripts and of redo-log, seen from outside.
LEMMA ScriptStepEffect ==
  ASSUME NEW j \in Job, ScriptStep(j)
  PROVE  /\ UNCHANGED <<locked, waitFds, fin, failed, owner, status, crash>>
         /\ \/ /\ at[j] = "ask" /\ phase[j] = "script"
               /\ at' = [at EXCEPT ![j] = "first"]
               /\ todo' = [todo EXCEPT ![j] = Deps[TargetOf(j)]]
               /\ phase' = [phase EXCEPT ![j] = "redo"]
               /\ UNCHANGED <<code, orphans>>
            \/ /\ phase[j] = "script"
               /\ at' = [at EXCEPT ![j] = "none"]
               /\ phase' = [phase EXCEPT ![j] = IF j \in orphans THEN "gone"
                                                ELSE "zombie"]
               /\ \E c \in {"ok", "fail"} : /\ code' = [code EXCEPT ![j] = c]
                                            /\ c = "ok" => ~failed[j]
               /\ orphans' = orphans \ {j}
               /\ UNCHANGED todo
            \/ /\ phase[j] = "zombie" /\ j \in orphans
               /\ phase' = [phase EXCEPT ![j] = "gone"]
               /\ orphans' = orphans \ {j}
               /\ UNCHANGED <<at, todo, code>>
  BY DEF ScriptStep, Ask, Exit, Buried, JS!EnterRedo, JS!Exit, JS!Buried, Goto,
         buildVars

LEMMA LogStepEffect ==
  LogStep \/ UNCHANGED vars
      => UNCHANGED <<serverVars, buildVars>>
  BY DEF LogStep, TailUp, TailDown, vars

-----------------------------------------------------------------------------
(* Noted.                                                                  *)

LEMMA NotedInit == Init => Noted
  BY DEF Init, JS!Init, Noted, Proc, JS!Proc

LEMMA NotedStep ==
  ASSUME Noted,
         \A j \in Job : phase'[j] = "zombie" =>
             phase[j] = "zombie" \/ code'[j] # "none",
         \A j \in Job : code[j] # "none" => code'[j] # "none",
         \A p \in Proc : \A j \in fin'[p] :
             phase'[j] = "gone" /\ (j \in fin[p] \/ code[j] # "none"),
         \A p \in Proc : at'[p] \in RunPlaces \cup {"ask"} \/ phase'[p] = "unborn"
             => /\ at[p] \in RunPlaces \cup {"ask"} \/ phase[p] = "unborn"
                /\ crash'[p] = crash[p],
         fin \in [Proc -> SUBSET Job], fin' \in [Proc -> SUBSET Job]
  PROVE  Noted'
  BY DEF Noted

LEMMA NotedNext ==
  ASSUME TypeOK, TypeOK', JS!Inv, Seats, Noted, [Next]_vars
  PROVE  Noted'
  <1>1. /\ at \in [Proc -> Places] /\ phase \in [Proc -> JS!Phases]
        /\ fin \in [Proc -> SUBSET Job] /\ waitFds \in [Proc -> SUBSET Job]
        /\ fin' \in [Proc -> SUBSET Job]
        /\ code \in [Job -> {"none", "ok", "fail"}]
        /\ crash \in [Proc -> {"none", "abort", "ensure", "start", "release", "return"}]
        /\ Job \subseteq Proc
    BY ProcFacts DEF TypeOK, JS!TypeOK, Proc
  <1>2. /\ \A j \in Job : phase[j] = "zombie" => code[j] # "none"
        /\ \A p \in Proc : \A j \in fin[p] : phase[j] = "gone"
    BY DEF Noted
  <1> USE DEF RunPlaces, JS!InRedo, JS!Awaits
  <1>3. ASSUME NEW p \in Proc, Acts(p) PROVE Noted'
    <2>1. CASE Moves(p)
      BY <1>1, <1>2, <2>1, NotedStep DEF Moves
    <2>2. CASE Leaves(p)
      BY <1>1, <1>2, <2>2, NotedStep DEF Leaves
    <2>3. ASSUME NEW j \in Job \ {p}, Starts(p, j) PROVE Noted'
      BY <1>1, <1>2, <2>3, NotedStep DEF Starts
    <2>4. ASSUME NEW j \in Job, Reaps(p, j) PROVE Noted'
      BY <1>1, <1>2, <2>4, NotedStep DEF Reaps
    <2>5. ASSUME NEW j \in Job, Records(p, j) PROVE Noted'
      BY <1>1, <1>2, <2>5, NotedStep DEF Records
    <2> QED BY <1>3, <2>1, <2>2, <2>3, <2>4, <2>5 DEF Acts
  <1>4. ASSUME NEW j \in Job, ScriptStep(j) PROVE Noted'
    BY <1>1, <1>2, <1>4, ScriptStepEffect, NotedStep
  <1>5. CASE LogStep \/ UNCHANGED vars
    BY <1>1, <1>2, <1>5, LogStepEffect, NotedStep DEF serverVars, buildVars
  <1> QED BY <1>3, <1>4, <1>5, RunStepActs, ServerStepActs DEF Next, Rest

-----------------------------------------------------------------------------
(* Locks.                                                                  *)

LEMMA LocksInit == Init => Locks
  BY DEF Init, JS!Init, Locks, HeldUntilRecorded, Mine, Proc, JS!Proc

\* p, and no other process, owns the locks of its jobs and the one it just took.
OwnLocks(p) ==
    /\ \A j \in Mine(p) : owner[TargetOf(j)] = p
    /\ \A i, j \in Mine(p) : TargetOf(i) = TargetOf(j) => i = j
    /\ at[p] \in {"granted", "build"} =>
          /\ owner[Head(locked[p])] = p
          /\ \A j \in Mine(p) : TargetOf(j) # Head(locked[p])

LEMMA LocksByOwner == Locks <=> \A p \in Proc : OwnLocks(p)
  BY DEF Locks, HeldUntilRecorded, OwnLocks, Mine

\* A process keeps its locks while others act.
LEMMA LocksActs ==
  ASSUME TypeOK, JS!Inv, Seats, Noted, Locks, NEW p \in Proc, Acts(p)
  PROVE  Locks'
  <1>1. /\ at \in [Proc -> Places]
        /\ fin \in [Proc -> SUBSET Job] /\ waitFds \in [Proc -> SUBSET Job]
        /\ owner \in [Target -> Proc \cup {NoOne}]
        /\ NoOne \notin Proc
        /\ \A j \in Job : TargetOf(j) \in Target
        /\ at[p] \in LockLoop => Head(locked[p]) \in Target
    BY ProcFacts, ListFacts DEF TypeOK, JS!TypeOK, Proc, Seats, Seated
  <1>2. /\ \A q \in Proc : OwnLocks(q) /\ Mine(q) \subseteq Job
        /\ OwnLocks(p)
    BY <1>1, LocksByOwner DEF Mine
  <1>3. SUFFICES \A q \in Proc : OwnLocks(q)'
    BY DEF Locks, HeldUntilRecorded, OwnLocks, Mine
  <1> USE DEF OthersStay, LockLoop
  <1>4. CASE Moves(p)
    <2>1. /\ \A q \in Proc : Mine(q)' = Mine(q)
          /\ \A q \in Proc \ {p} : at'[q] = at[q] /\ locked'[q] = locked[q]
      BY <1>1, <1>4 DEF Moves, Mine
    <2>2. CASE UNCHANGED owner /\ (at'[p] \in {"granted", "build"}
                  => at'[p] = at[p] /\ locked'[p] = locked[p])
      BY <1>2, <2>1, <2>2 DEF OwnLocks
    <2>3. CASE /\ Head(locked[p]) \in Target
               /\ owner[Head(locked[p])] = NoOne
               /\ owner' = [owner EXCEPT ![Head(locked[p])] = p]
               /\ locked' = locked
      BY <1>1, <1>2, <2>1, <2>3 DEF OwnLocks
    <2>4. CASE /\ at'[p] \notin {"granted", "build"}
               /\ \E t \in Target :
                     /\ \/ owner[t] = NoOne
                        \/ at[p] \in {"granted", "build"} /\ t = Head(locked[p])
                     /\ owner' = [owner EXCEPT ![t] = NoOne]
      BY <1>1, <1>2, <2>1, <2>4 DEF OwnLocks
    <2> QED BY <1>4, <2>2, <2>3, <2>4 DEF Moves, MovesLock
  <1>5. CASE Leaves(p)
    <2>1. /\ \A q \in Proc \ {p} : Mine(q)' = Mine(q)
          /\ Mine(p)' = {}
          /\ at'[p] = "asked"
      BY <1>1, <1>5 DEF Leaves, Mine
    <2>2. \A q \in Proc \ {p} : at'[q] = at[q] /\ locked'[q] = locked[q]
      BY <1>1, <1>5 DEF Leaves
    <2>3. OwnLocks(p)'
      BY <2>1 DEF OwnLocks
    <2>4. ASSUME NEW q \in Proc \ {p} PROVE OwnLocks(q)'
      <3>1. \A t \in Target : owner[t] = q => owner'[t] = q
        BY <1>5 DEF Leaves
      <3>2. at[q] \in {"granted", "build"} => Head(locked[q]) \in Target
        BY ListFacts DEF Seats, Seated, TypeOK
      <3> QED BY <1>1, <1>2, <2>1, <2>2, <3>1, <3>2 DEF OwnLocks
    <2> QED BY <2>3, <2>4
  <1>6. ASSUME NEW j \in Job \ {p}, Starts(p, j) PROVE \A q \in Proc : OwnLocks(q)'
    <2>1. /\ \A q \in Proc \ {p} : Mine(q)' = Mine(q)
          /\ Mine(p)' = Mine(p) \cup {j}
          /\ \A q \in Proc \ {p} : locked'[q] = locked[q]
          /\ at'[p] \notin {"granted", "build"}
          /\ owner' = [owner EXCEPT ![TargetOf(j)] = p]
      BY <1>1, <1>6 DEF Starts, Mine
    <2>2. \A q \in Proc \ {p} : at'[q] = at[q] \/ at'[q] = "ask"
      BY <1>1, <1>6 DEF Starts
    <2>3. /\ TargetOf(j) \in Target
          /\ \A i \in Mine(p) : TargetOf(i) # TargetOf(j)
          /\ owner[TargetOf(j)] \in {p, NoOne}
      BY <1>1, <1>2, <1>6 DEF Starts, OwnLocks
    <2>4. OwnLocks(p)'
      BY <1>1, <1>2, <2>1, <2>3 DEF OwnLocks
    <2>5. ASSUME NEW q \in Proc \ {p} PROVE OwnLocks(q)'
      BY <1>1, <1>2, <2>1, <2>2, <2>3 DEF OwnLocks
    <2> QED BY <2>4, <2>5
  <1>7. ASSUME NEW j \in Job, Reaps(p, j) PROVE \A q \in Proc : OwnLocks(q)'
    <2>1. /\ \A q \in Proc : Mine(q)' = Mine(q)
          /\ UNCHANGED <<owner, at, locked>>
      BY <1>1, <1>7 DEF Reaps, Mine
    <2> QED BY <1>2, <2>1 DEF OwnLocks
  <1>8. ASSUME NEW j \in Job, Records(p, j) PROVE \A q \in Proc : OwnLocks(q)'
    <2>1. /\ \A q \in Proc \ {p} : Mine(q)' = Mine(q)
          /\ UNCHANGED <<at, locked>>
          /\ at[p] \notin {"granted", "build"}
          /\ owner' = [owner EXCEPT ![TargetOf(j)] = NoOne]
          /\ owner[TargetOf(j)] = p
          /\ TargetOf(j) \in Target
      BY <1>1, <1>2, <1>8 DEF Records, Mine, OwnLocks
    <2>2. Mine(p)' \subseteq Mine(p)
      BY <1>1, <1>8 DEF Records, Mine
    <2>3. j \notin Mine(p)'
      BY <1>1, <1>8 DEF Records, Mine, Noted, JS!Inv, JS!Parents, JS!Alive, Proc
    <2>4. OwnLocks(p)'
      <3>1. j \in Mine(p)
        BY <1>8 DEF Records, Mine
      <3>2. \A i \in Mine(p)' : i \in Job /\ TargetOf(i) # TargetOf(j)
        BY <1>2, <2>2, <2>3, <3>1 DEF OwnLocks
      <3> QED BY <1>1, <1>2, <2>1, <2>2, <3>2 DEF OwnLocks
    <2>5. ASSUME NEW q \in Proc \ {p} PROVE OwnLocks(q)'
      BY <1>1, <1>2, <2>1 DEF OwnLocks
    <2> QED BY <2>4, <2>5
  <1> QED BY <1>4, <1>5, <1>6, <1>7, <1>8 DEF Acts

LEMMA LocksNext ==
  ASSUME TypeOK, JS!Inv, Seats, Noted, Locks, [Next]_vars
  PROVE  Locks'
  <1>1. ASSUME NEW j \in Job, ScriptStep(j) PROVE Locks'
    <2>1. /\ at \in [Proc -> Places] /\ j \in Proc
          /\ UNCHANGED <<locked, waitFds, fin, owner>>
          /\ \E place \in {"first", "none", at[j]} : at' = [at EXCEPT ![j] = place]
      BY <1>1, ScriptStepEffect, ProcFacts DEF TypeOK
    <2> QED BY <2>1 DEF Locks, HeldUntilRecorded, Mine
  <1>2. CASE LogStep \/ UNCHANGED vars
    BY <1>2, LogStepEffect
    DEF Locks, HeldUntilRecorded, Mine, serverVars, buildVars
  <1> QED BY <1>1, <1>2, RunStepActs, ServerStepActs, LocksActs DEF Next, Rest

-----------------------------------------------------------------------------
(* Decided.                                                                *)

LEMMA DecidedInit == Init => Decided
  <1> SUFFICES ASSUME Init PROVE Decided
    OBVIOUS
  <1>1. /\ \A p \in Proc : Mine(p) = {}
        /\ \A j \in Job : phase[j] = "unborn"
        /\ orphans = {}
    BY ProcFacts DEF Init, JS!Init, Mine, Proc
  <1> QED BY <1>1 DEF Decided

\* The results that p will record, and those of jobs that were started.
OwnDecisions(p) ==
    NodeOf(p) \notin Forced => \A j \in Mine(p) : status[TargetOf(j)] = "todo"
Watched(j) == \/ phase[j] = "unborn"
              \/ status[TargetOf(j)] # "todo"
              \/ \E p \in Proc : j \in Mine(p)

LEMMA DecidedByOwner ==
  Decided => /\ \A p \in Proc : OwnDecisions(p)
             /\ NoneQuit => orphans = {} /\ \A j \in Job : Watched(j)
  <1> SUFFICES ASSUME Decided
               PROVE  /\ \A p \in Proc : OwnDecisions(p)
                      /\ NoneQuit => orphans = {} /\ \A j \in Job : Watched(j)
    OBVIOUS
  <1>1. \A p \in Proc : OwnDecisions(p)
    BY DEF Decided, OwnDecisions
  <1>2. NoneQuit => orphans = {} /\ \A j \in Job : Watched(j)
    BY DEF Decided, Watched
  <1> QED BY <1>1, <1>2

LEMMA DecidedActs ==
  ASSUME TypeOK, JS!Inv, Seats, Noted, Locks, Decided, NEW p \in Proc, Acts(p)
  PROVE  Decided'
  <1>1. /\ fin \in [Proc -> SUBSET Job] /\ waitFds \in [Proc -> SUBSET Job]
        /\ phase \in [Proc -> JS!Phases]
        /\ status \in [Target -> {"todo", "ok", "fail"}]
        /\ code \in [Job -> {"none", "ok", "fail"}]
        /\ crash \in [Proc -> {"none", "abort", "ensure", "start", "release", "return"}]
        /\ \A j \in Job : TargetOf(j) \in Target /\ j \in Proc
    BY ProcFacts DEF TypeOK, JS!TypeOK, Proc
  <1>2. /\ \A q \in Proc : OwnDecisions(q) /\ OwnLocks(q) /\ Mine(q) \subseteq Job
        /\ NoneQuit => orphans = {} /\ \A j \in Job : Watched(j)
    BY <1>1, DecidedByOwner, LocksByOwner DEF Mine
  <1>3. SUFFICES /\ \A q \in Proc : OwnDecisions(q)'
                 /\ NoneQuit' => orphans' = {} /\ \A j \in Job : Watched(j)'
    BY DEF Decided, OwnDecisions, Watched
  <1>4. CASE Moves(p)
    <2>1. /\ \A q \in Proc : Mine(q)' = Mine(q)
          /\ UNCHANGED <<status, orphans, crash>>
          /\ \A j \in Job : phase'[j] = "unborn" \/ phase[j] # "unborn"
      BY <1>1, <1>4 DEF Moves, Mine, JS!InRedo, JS!Awaits
    <2> QED BY <1>2, <2>1 DEF OwnDecisions, Watched, NoneQuit
  <1>5. CASE Leaves(p)
    <2>1. /\ \A q \in Proc \ {p} : Mine(q)' = Mine(q)
          /\ Mine(p)' = {}
          /\ UNCHANGED status
          /\ orphans' = orphans \cup waitFds[p]
          /\ \A j \in Job : phase'[j] = "unborn" \/ phase[j] # "unborn"
      BY <1>1, <1>5 DEF Leaves, Mine, JS!InRedo, JS!Awaits
    <2>2. NoneQuit' => NoneQuit /\ Mine(p) = {}
      <3>1. crash[p] = "none"
        BY <1>5 DEF Leaves, Noted
      <3> QED BY <1>1, <1>5, <3>1 DEF Leaves, NoneQuit
    <2>3. waitFds[p] \subseteq Mine(p)
      BY DEF Mine
    <2> QED BY <1>2, <2>1, <2>2, <2>3 DEF OwnDecisions, Watched
  <1>6. ASSUME NEW j \in Job \ {p}, Starts(p, j)
        PROVE  /\ \A q \in Proc : OwnDecisions(q)'
               /\ NoneQuit' => orphans' = {} /\ \A i \in Job : Watched(i)'
    <2>1. /\ \A q \in Proc \ {p} : Mine(q)' = Mine(q)
          /\ Mine(p)' = Mine(p) \cup {j}
          /\ UNCHANGED <<status, orphans, crash>>
          /\ phase' = [phase EXCEPT ![j] = "script"]
          /\ status[TargetOf(j)] = "todo" \/ NodeOf(p) \in Forced
      BY <1>1, <1>6 DEF Starts, Mine
    <2> QED BY <1>1, <1>2, <2>1 DEF OwnDecisions, Watched, NoneQuit
  <1>7. ASSUME NEW j \in Job, Reaps(p, j)
        PROVE  /\ \A q \in Proc : OwnDecisions(q)'
               /\ NoneQuit' => orphans' = {} /\ \A i \in Job : Watched(i)'
    <2>1. /\ \A q \in Proc : Mine(q)' = Mine(q)
          /\ UNCHANGED <<status, orphans, crash>>
          /\ \A i \in Job : phase'[i] = "unborn" \/ phase[i] # "unborn"
      BY <1>1, <1>7 DEF Reaps, Mine
    <2> QED BY <1>2, <2>1 DEF OwnDecisions, Watched, NoneQuit
  <1>8. ASSUME NEW j \in Job, Records(p, j)
        PROVE  /\ \A q \in Proc : OwnDecisions(q)'
               /\ NoneQuit' => orphans' = {} /\ \A i \in Job : Watched(i)'
    <2>1. /\ \A q \in Proc \ {p} : Mine(q)' = Mine(q)
          /\ UNCHANGED <<orphans, crash, phase>>
          /\ status' = [status EXCEPT ![TargetOf(j)] = code[j]]
          /\ code[j] \in {"ok", "fail"}
          /\ TargetOf(j) \in Target
      BY <1>1, <1>8 DEF Records, Mine, Noted
    <2>2. Mine(p)' = Mine(p) \ {j} /\ j \in Mine(p)
      BY <1>1, <1>8
      DEF Records, Mine, Noted, JS!Inv, JS!Parents, JS!Alive, Proc
    <2>3. \A q \in Proc : \A i \in Mine(q)' : TargetOf(i) # TargetOf(j)
      BY <1>2, <2>1, <2>2 DEF OwnLocks
    <2>4. \A q \in Proc : OwnDecisions(q)'
      BY <1>1, <1>2, <2>1, <2>2, <2>3 DEF OwnDecisions
    <2>5. ASSUME NEW i \in Job, Watched(i) PROVE Watched(i)'
      BY <1>1, <2>1, <2>2, <2>5 DEF Watched
    <2> QED BY <1>2, <2>1, <2>4, <2>5 DEF NoneQuit
  <1> QED BY <1>4, <1>5, <1>6, <1>7, <1>8 DEF Acts

LEMMA DecidedNext ==
  ASSUME TypeOK, JS!Inv, Seats, Noted, Locks, Decided, [Next]_vars
  PROVE  Decided'
  <1>1. ASSUME NEW j \in Job, ScriptStep(j) PROVE Decided'
    <2>1. /\ phase \in [Proc -> JS!Phases] /\ j \in Proc
          /\ \A i \in Job : i \in Proc
          /\ UNCHANGED <<waitFds, fin, status, crash>>
          /\ orphans' \subseteq orphans
          /\ phase[j] # "unborn"
          /\ \E place : phase' = [phase EXCEPT ![j] = place]
      BY <1>1, ScriptStepEffect, ProcFacts DEF TypeOK, JS!TypeOK, Proc
    <2> QED BY <2>1 DEF Decided, NoneQuit, Mine
  <1>2. CASE LogStep \/ UNCHANGED vars
    BY <1>2, LogStepEffect DEF Decided, NoneQuit, Mine, serverVars, buildVars
  <1> QED BY <1>1, <1>2, RunStepActs, ServerStepActs, DecidedActs DEF Next, Rest

\* A target nobody has decided about, and whose lock is free or just taken, was
\* never built: the next job of it is the first.
LEMMA FirstJob ==
  ASSUME TypeOK, JS!Inv, Decided, Locks, NoneQuit, NEW j \in Job,
         NEW p \in Proc, Starts(p, j), Forced = {}
  PROVE  j[2] = 1
  <1> DEFINE t == TargetOf(j)
             started == {i \in Job : TargetOf(i) = t /\ phase[i] # "unborn"}
  <1>1. t \in Target /\ \A i \in Job : TargetOf(i) \in Target
    BY ProcFacts
  <1>2. ASSUME NEW i \in started PROVE FALSE
    <2>1. status[t] = "todo"
      BY DEF Starts
    <2>2. PICK q \in Proc : i \in Mine(q)
      BY <2>1 DEF Decided
    <2>3. owner[t] = q /\ q # NoOne
      BY <2>2, LocksByOwner, ProcFacts DEF OwnLocks
    <2>4. at[p] = "build" /\ t = Head(locked[p])
      BY <2>3 DEF Starts
    <2>5. q = p /\ TargetOf(i) # Head(locked[p])
      BY <2>2, <2>3, <2>4, LocksByOwner DEF OwnLocks
    <2> QED BY <2>4, <2>5
  <1>3. Cardinality(started) = 0
    BY <1>2, FS_EmptySet
  <1>4. j = <<t, 1 + Cardinality(started)>>
    BY DEF Starts, NextJob
  <1> QED BY <1>3, <1>4

\* A process that has quit early has done so for good.
LEMMA QuitForGood ==
  ASSUME TypeOK, Noted, NEW p \in Proc, Acts(p), NoneQuit'
  PROVE  NoneQuit
  <1>1. CASE Leaves(p)
    <2>1. crash[p] = "none"
      BY <1>1 DEF Leaves, Noted
    <2> QED BY <1>1, <2>1 DEF Leaves, NoneQuit, TypeOK
  <1>2. CASE UNCHANGED crash
    BY <1>2 DEF NoneQuit
  <1> QED BY <1>1, <1>2 DEF Acts, Moves, Starts, Reaps, Records

LEMMA BuiltOnceInit == Init => BuiltOnce
  BY ProcFacts DEF Init, JS!Init, BuiltOnce, Proc

LEMMA BuiltOnceNext ==
  ASSUME TypeOK, JS!Inv, Seats, Noted, Locks, Decided, BuiltOnce, [Next]_vars
  PROVE  BuiltOnce'
  <1> SUFFICES ASSUME Forced = {}, NoneQuit', NEW j \in Job, j[2] > 1,
                      phase'[j] # "unborn"
               PROVE  FALSE
    BY DEF BuiltOnce
  <1>1. /\ phase \in [Proc -> JS!Phases]
        /\ fin \in [Proc -> SUBSET Job] /\ waitFds \in [Proc -> SUBSET Job]
        /\ crash \in [Proc -> {"none", "abort", "ensure", "start", "release", "return"}]
        /\ \A i \in Job : i \in Proc
    BY ProcFacts DEF TypeOK, JS!TypeOK, Proc
  <1>2. NoneQuit => phase[j] = "unborn"
    BY DEF BuiltOnce
  <1>3. ASSUME NEW p \in Proc, Acts(p) PROVE FALSE
    <2>1. CASE Moves(p)
      BY <1>1, <1>2, <2>1 DEF Moves, NoneQuit, JS!InRedo, JS!Awaits
    <2>2. CASE Leaves(p)
      <3>1. NoneQuit
        BY <1>3, QuitForGood
      <3> QED BY <1>1, <1>2, <2>2, <3>1 DEF Leaves, JS!InRedo, JS!Awaits
    <2>3. ASSUME NEW i \in Job \ {p}, Starts(p, i) PROVE FALSE
      <3>1. NoneQuit
        BY <2>3 DEF Starts, NoneQuit
      <3>2. i = j
        BY <1>1, <1>2, <2>3, <3>1 DEF Starts
      <3>3. j[2] = 1
        BY <2>3, <3>1, <3>2, FirstJob
      <3> QED BY <3>3
    <2>4. ASSUME NEW i \in Job, Reaps(p, i) PROVE FALSE
      BY <1>1, <1>2, <2>4 DEF Reaps, NoneQuit
    <2>5. ASSUME NEW i \in Job, Records(p, i) PROVE FALSE
      BY <1>1, <1>2, <2>5 DEF Records, NoneQuit
    <2> QED BY <1>3, <2>1, <2>2, <2>3, <2>4, <2>5 DEF Acts
  <1>4. ASSUME NEW i \in Job, ScriptStep(i) PROVE FALSE
    BY <1>1, <1>2, <1>4, ScriptStepEffect DEF NoneQuit
  <1>5. CASE LogStep \/ UNCHANGED vars
    BY <1>2, <1>5, LogStepEffect DEF NoneQuit, serverVars, buildVars
  <1> QED BY <1>3, <1>4, <1>5, RunStepActs, ServerStepActs DEF Next, Rest

-----------------------------------------------------------------------------
(* Accounted.                                                              *)

LEMMA AppendRange ==
  ASSUME NEW s \in Seq(Target), NEW t \in Target
  PROVE  Range(Append(s, t)) = Range(s) \cup {t}
  <1>1. /\ Append(s, t) \in Seq(Target)
        /\ Len(Append(s, t)) = Len(s) + 1
        /\ \A i \in 1 .. Len(s) : Append(s, t)[i] = s[i]
        /\ Append(s, t)[Len(s) + 1] = t
        /\ Len(s) \in Nat
    BY AppendProperties, LenProperties
  <1>2. /\ DOMAIN s = 1 .. Len(s)
        /\ DOMAIN Append(s, t) = 1 .. Len(s) + 1
    BY <1>1, LenProperties
  <1>3. ASSUME NEW i \in 1 .. Len(s) + 1
        PROVE  i \in 1 .. Len(s) \/ i = Len(s) + 1
    BY <1>1
  <1>4. 1 .. Len(s) \subseteq 1 .. Len(s) + 1 /\ Len(s) + 1 \in 1 .. Len(s) + 1
    BY <1>1
  <1> QED BY <1>1, <1>2, <1>3, <1>4 DEF Range

LEMMA TailRange ==
  ASSUME NEW s \in Seq(Target), s # <<>>
  PROVE  Range(s) \subseteq Range(Tail(s)) \cup {Head(s)}
  <1>1. /\ Tail(s) \in Seq(Target)
        /\ Head(s) = s[1]
        /\ Len(Tail(s)) = Len(s) - 1
        /\ \A i \in 1 .. Len(Tail(s)) : Tail(s)[i] = s[i + 1]
        /\ Len(s) \in Nat
    BY HeadTailProperties, LenProperties
  <1>2. DOMAIN s = 1 .. Len(s) /\ DOMAIN Tail(s) = 1 .. Len(s) - 1
    BY <1>1, LenProperties
  <1> SUFFICES ASSUME NEW i \in 1 .. Len(s), i # 1 PROVE s[i] \in Range(Tail(s))
    BY <1>1, <1>2 DEF Range
  <1>3. i - 1 \in 1 .. Len(s) - 1 /\ s[i] = Tail(s)[i - 1]
    BY <1>1
  <1> QED BY <1>2, <1>3 DEF Range

LEMMA EmptyRange == Range(<<>>) = {}
  BY DEF Range

\* t, which p was asked to build, is in one of its lists, done, or being built.
Covered(p, t) ==
    \/ t \in Range(todo[p]) \cup Range(locked[p])
    \/ Done(t)
    \/ \E j \in Mine(p) : TargetOf(j) = t

Account(p) ==
    at[p] \in RunPlaces \cup {"asked"} /\ ~failed[p]
    => \A t \in Range(Arguments(p)) : Covered(p, t)

LEMMA AccountedInit == Init => Accounted
  <1> SUFFICES ASSUME Init PROVE Accounted
    OBVIOUS
  <1>1. ASSUME NEW p \in Proc, at[p] \in RunPlaces \cup {"asked"}
        PROVE  p = Root /\ todo[p] = Goals
    BY <1>1 DEF Init, RunPlaces
  <1> QED BY <1>1 DEF Accounted, Arguments

\* What is done stays done: redo-ifchange does not touch it, redo builds it again.
LEMMA StaysDone ==
  ASSUME TypeOK, Noted, Decided, NEW p \in Proc, Acts(p), NEW t \in Target, Done(t)
  PROVE  Done(t)'
  <1>1. ASSUME NEW j \in Job, Records(p, j) PROVE Done(t)'
    <2>1. code[j] \in {"ok", "fail"} /\ j \in Mine(p)
      BY <1>1 DEF Records, Noted, TypeOK, Mine
    <2>2. Forced = {} => t # TargetOf(j)
      BY <2>1 DEF Decided, Done
    <2>3. status' = [status EXCEPT ![TargetOf(j)] = code[j]]
      BY <1>1 DEF Records
    <2> QED BY <2>1, <2>2, <2>3 DEF Done, TypeOK
  <1>2. CASE UNCHANGED status
    BY <1>2 DEF Done
  <1> QED BY <1>1, <1>2 DEF Acts, Moves, Leaves, Starts, Reaps

LEMMA AccountOther ==
  ASSUME TypeOK, Noted, Decided, NEW p \in Proc, NEW q \in Proc \ {p}, Acts(p),
         Account(q)
  PROVE  Account(q)'
  <1>1. /\ Mine(q)' = Mine(q)
        /\ todo'[q] = todo[q] /\ locked'[q] = locked[q] /\ failed'[q] = failed[q]
        /\ at'[q] = at[q] \/ at'[q] = "ask"
    <2>1. /\ at \in [Proc -> Places]
          /\ fin \in [Proc -> SUBSET Job] /\ waitFds \in [Proc -> SUBSET Job]
          /\ failed \in [Proc -> BOOLEAN]
      BY DEF TypeOK, JS!TypeOK, Proc
    <2> QED BY <2>1 DEF Acts, Moves, Leaves, Starts, Reaps, Records, OthersStay, Mine
  <1>2. SUFFICES ASSUME at[q] \in RunPlaces \cup {"asked"}, ~failed[q],
                        NEW t \in Range(Arguments(q))
                 PROVE  Covered(q, t)'
    BY <1>1 DEF Account, RunPlaces, Arguments
  <1>3. t \in Target
    BY GoalsAreLists, ProcFacts DEF Arguments, Range
  <1>4. Covered(q, t)
    BY <1>2 DEF Account
  <1>5. Done(t) => Done(t)'
    BY <1>3, StaysDone
  <1> QED BY <1>1, <1>4, <1>5 DEF Covered

LEMMA RunStepCovers ==
  ASSUME TypeOK, JS!Inv, Seats, Noted, Decided, NEW p \in Proc, RunStep(p),
         ~failed'[p], NEW t \in Target, Covered(p, t)
  PROVE  Covered(p, t)'
  <1> USE DEF InCode, Goto
  <1>d. Done(t) => Done(t)'
    BY RunStepActs, StaysDone
  <1>1. /\ at \in [Proc -> Places]
        /\ todo \in [Proc -> Seq(Target)] /\ locked \in [Proc -> Seq(Target)]
        /\ fin \in [Proc -> SUBSET Job] /\ waitFds \in [Proc -> SUBSET Job]
        /\ failed \in [Proc -> BOOLEAN]
        /\ Seated(p)
    BY DEF TypeOK, JS!TypeOK, Proc, Seats
  <1>2. /\ at[p] = "token" => /\ Head(todo[p]) \in Target
                              /\ Range(todo[p])
                                   \subseteq Range(Tail(todo[p])) \cup {Head(todo[p])}
        /\ at[p] \in LockLoop => /\ Head(locked[p]) \in Target
                                 /\ Range(locked[p])
                                      \subseteq Range(Tail(locked[p]))
                                                  \cup {Head(locked[p])}
    BY <1>1, TailRange, ListFacts DEF Seated
  <1>3. ASSUME UNCHANGED <<todo, locked, status, waitFds, fin>>
        PROVE  Covered(p, t)'
    BY <1>3, <1>d DEF Covered, Mine
  <1>4. ASSUME NEW why, Gone(p, TRUE, why) PROVE FALSE
    BY <1>1, <1>4 DEF Gone
  <1>5. CASE NextTarget(p)
    BY <1>3, <1>5 DEF NextTarget, serverVars, JS!EnsureToken
  <1>6. CASE FirstLoopEnds(p)
    <2>1. todo[p] = <<>>
      BY <1>6 DEF FirstLoopEnds, Errored
    <2>2. /\ UNCHANGED <<locked, status, waitFds, fin>>
          /\ todo'[p] = <<>>
      BY <1>1, <1>6 DEF FirstLoopEnds, serverVars
    <2> QED BY <1>d, <2>1, <2>2 DEF Covered, Mine
  <1>7. CASE FindLocked(p)
    <2>1. /\ UNCHANGED <<status, waitFds, fin>>
          /\ todo'[p] = Tail(todo[p])
          /\ locked'[p] = Append(locked[p], Head(todo[p]))
          /\ at[p] = "token"
      BY <1>1, <1>7 DEF FindLocked, serverVars
    <2>2. Range(locked'[p]) = Range(locked[p]) \cup {Head(todo[p])}
      BY <1>1, <1>2, <2>1, AppendRange
    <2> QED BY <1>d, <1>2, <2>1, <2>2 DEF Covered, Mine
  <1>8. CASE BuildUnlocked(p)
    <2> DEFINE u == Head(todo[p])
    <2>1. /\ UNCHANGED locked
          /\ todo'[p] = Tail(todo[p])
          /\ at[p] = "token"
          /\ Range(todo[p]) \subseteq Range(Tail(todo[p])) \cup {u}
          /\ u \in Target
      BY <1>1, <1>2, <1>8 DEF BuildUnlocked
    <2>2. CASE Verdict(p, u) = "clean" /\ SkipJob(p, u)
      <3>1. status[u] = "ok" /\ UNCHANGED <<status, waitFds, fin>>
        BY <2>1, <2>2, VerdictFacts DEF SkipJob, serverVars
      <3> QED BY <1>d, <2>1, <3>1 DEF Covered, Mine, Done
    <2>3. CASE StartJob(p, u)
      <3>1. PICK j \in Job \ {p} : /\ TargetOf(j) = u
                                   /\ waitFds' = [waitFds EXCEPT ![p] = @ \cup {j}]
                                   /\ UNCHANGED <<fin, status>>
        BY <2>3, StartEffect
      <3>2. Mine(p)' = Mine(p) \cup {j}
        BY <1>1, <3>1 DEF Mine
      <3> QED BY <1>d, <2>1, <3>1, <3>2 DEF Covered
    <2> QED BY <1>8, <2>2, <2>3 DEF BuildUnlocked
  <1>9. CASE FirstLoopAborts(p)
    BY <1>4, <1>9 DEF FirstLoopAborts, Abort
  <1>10. CASE SecondLoopEnds(p)
    BY <1>3, <1>10 DEF SecondLoopEnds, serverVars
  <1>11. CASE WaitForAll(p)
    BY <1>3, <1>11, WaitEffect DEF WaitForAll
  <1>12. CASE SelfTestAborts(p)
    BY <1>4, <1>12 DEF SelfTestAborts
  <1>13. CASE LoopAgain(p) \/ TryAgain(p) \/ WaitLock(p)
    BY <1>3, <1>13 DEF LoopAgain, TryAgain, WaitLock, serverVars
  <1>14. CASE GiveUpToken(p)
    BY <1>3, <1>14 DEF GiveUpToken, JS!ReleaseMine
  <1>15. CASE GiveUpPanics(p) \/ BuildPanics(p)
    BY <1>4, <1>15 DEF GiveUpPanics, BuildPanics, Panic
  <1>16. CASE WaitLockFails(p)
    BY <1>4, <1>16 DEF WaitLockFails, Abort
  <1>17. CASE Unlock(p)
    BY <1>3, <1>17 DEF Unlock, JS!EnsureToken
  <1>18. CASE FailedElsewhere(p)
    BY <1>1, <1>18 DEF FailedElsewhere
  <1>19. CASE BuildLocked(p)
    <2> DEFINE u == Head(locked[p])
    <2>1. /\ UNCHANGED todo
          /\ locked'[p] = Tail(locked[p])
          /\ at[p] = "build"
          /\ Range(locked[p]) \subseteq Range(Tail(locked[p])) \cup {u}
          /\ u \in Target
      BY <1>1, <1>2, <1>19 DEF BuildLocked, LockLoop
    <2>2. CASE Verdict(p, u) = "clean" /\ SkipJob(p, u)
      <3>1. status[u] = "ok" /\ UNCHANGED <<status, waitFds, fin>>
        BY <2>1, <2>2, VerdictFacts DEF SkipJob, serverVars
      <3> QED BY <1>d, <2>1, <3>1 DEF Covered, Mine, Done
    <2>3. CASE StartJob(p, u)
      <3>1. PICK j \in Job \ {p} : /\ TargetOf(j) = u
                                   /\ waitFds' = [waitFds EXCEPT ![p] = @ \cup {j}]
                                   /\ UNCHANGED <<fin, status>>
        BY <2>3, StartEffect
      <3>2. Mine(p)' = Mine(p) \cup {j}
        BY <1>1, <3>1 DEF Mine
      <3> QED BY <1>d, <2>1, <3>1, <3>2 DEF Covered
    <2> QED BY <1>19, <2>2, <2>3 DEF BuildLocked
  <1>20. ASSUME NEW j \in Job, Record(p, j) PROVE Covered(p, t)'
    <2>1. /\ UNCHANGED <<todo, locked, waitFds>>
          /\ fin' = [fin EXCEPT ![p] = @ \ {j}]
          /\ status' = [status EXCEPT ![TargetOf(j)] = code[j]]
          /\ code[j] # "fail" /\ code[j] \in {"none", "ok", "fail"}
          /\ j \in fin[p]
      BY <1>1, <1>20 DEF Record, Outcome, serverVars, TypeOK
    <2>2. code[j] = "ok"
      BY <2>1 DEF Noted
    <2>3. Mine(p) \subseteq Mine(p)' \cup {j}
      BY <1>1, <2>1 DEF Mine
    <2>4. status'[TargetOf(j)] = "ok"
      BY <2>1, <2>2, ProcFacts DEF TypeOK
    <2> QED BY <1>d, <2>1, <2>3, <2>4 DEF Covered, Done
  <1>21. CASE Finish(p)
    <2>1. ~failed[p]
      BY <1>1, <1>21 DEF Finish, Gone
    <2>2. todo[p] = <<>> /\ locked[p] = <<>> /\ Mine(p) = {}
      BY <1>1, <1>21, <2>1 DEF Finish, Seated, Mine, RunPlaces
    <2>3. Done(t)
      BY <2>2, EmptyRange DEF Covered
    <2> QED BY <1>d, <2>3 DEF Covered
  <1> QED
    BY <1>5, <1>6, <1>7, <1>8, <1>9, <1>10, <1>11, <1>12, <1>13, <1>14, <1>15,
       <1>16, <1>17, <1>18, <1>19, <1>20, <1>21
    DEF RunStep

LEMMA ServerStepCovers ==
  ASSUME TypeOK, JS!Inv, NEW p \in Proc, ServerStep(p),
         ~failed'[p], NEW t \in Target, Covered(p, t)
  PROVE  Covered(p, t)'
  <1>1. ASSUME UNCHANGED <<todo, locked, status>>, Mine(p)' = Mine(p)
        PROVE  Covered(p, t)'
    BY <1>1 DEF Covered, Done
  <1>2. CASE Select(p) \/ ReadToken(p) \/ Granted(p) \/ Cheat(p)
    BY <1>1, <1>2
    DEF Select, ReadToken, Granted, Cheat, JS!Select, JS!ReadToken, JS!Granted,
        JS!Cheat, buildVars, Mine
  <1>3. ASSUME NEW j \in Job, Reap(p, j) PROVE Covered(p, t)'
    <2>1. /\ UNCHANGED <<todo, locked, status>>
          /\ waitFds' = [waitFds EXCEPT ![p] = @ \ {j}]
          /\ fin' = [fin EXCEPT ![p] = @ \cup {j}]
          /\ j \in waitFds[p]
      BY <1>3 DEF Reap, JS!Reap, JS!Inv, JS!Answers, Proc
    <2>2. Mine(p)' = Mine(p)
      BY <2>1 DEF Mine, TypeOK, JS!TypeOK, Proc
    <2> QED BY <1>1, <2>1, <2>2
  <1>4. CASE GrantPanics(p)
    BY <1>4 DEF GrantPanics, Gone, TypeOK
  <1>5. CASE PollWaitAll(p)
    BY <1>1, <1>5, WaitEffect DEF PollWaitAll, buildVars, Mine
  <1> QED BY <1>2, <1>3, <1>4, <1>5, <1>1 DEF ServerStep

\* A failure, once noted, is never forgotten.
LEMMA RunStepSticks ==
  ASSUME TypeOK, NEW p \in Proc, RunStep(p)
  PROVE  /\ at[p] \in RunPlaces
         /\ failed[p] => failed'[p]
  <1> USE DEF InCode, RunPlaces
  <1>1. failed \in [Proc -> BOOLEAN]
    BY DEF TypeOK
  <1>2. ASSUME NEW result, NEW why, Gone(p, result, why)
        PROVE  result => failed'[p]
    BY <1>1, <1>2 DEF Gone
  <1>3. CASE FirstLoopAborts(p) \/ WaitLockFails(p)
    BY <1>2, <1>3
    DEF FirstLoopAborts, WaitLockFails, Abort, LockCycle, Blocked
  <1>4. CASE SelfTestAborts(p) \/ GiveUpPanics(p) \/ BuildPanics(p) \/ Finish(p)
    BY <1>2, <1>4 DEF SelfTestAborts, GiveUpPanics, BuildPanics, Panic, Finish
  <1>5. CASE \/ NextTarget(p) \/ FirstLoopEnds(p) \/ FindLocked(p)
             \/ SecondLoopEnds(p) \/ WaitForAll(p) \/ LoopAgain(p) \/ TryAgain(p)
             \/ GiveUpToken(p) \/ WaitLock(p) \/ Unlock(p)
    BY <1>5
    DEF NextTarget, FirstLoopEnds, FindLocked, SecondLoopEnds, WaitForAll,
        LoopAgain, TryAgain, GiveUpToken, WaitLock, Unlock
  <1>6. CASE BuildUnlocked(p) \/ BuildLocked(p)
    BY <1>6 DEF BuildUnlocked, BuildLocked, StartJob, SkipJob
  <1>7. CASE FailedElsewhere(p)
    BY <1>1, <1>7 DEF FailedElsewhere
  <1>8. CASE \E j \in Job : Record(p, j)
    BY <1>1, <1>8 DEF Record, Outcome
  <1> QED BY <1>3, <1>4, <1>5, <1>6, <1>7, <1>8 DEF RunStep

LEMMA AccountedNext ==
  ASSUME TypeOK, JS!Inv, Seats, Noted, Decided, Accounted, [Next]_vars
  PROVE  Accounted'
  <1>1. \A p \in Proc : Account(p)
    BY DEF Accounted, Account, Covered
  <1>2. SUFFICES \A p \in Proc : Account(p)'
    BY DEF Accounted, Account, Covered, Arguments
  <1>3. ASSUME NEW p \in Proc, RunStep(p) \/ ServerStep(p)
        PROVE  \A q \in Proc : Account(q)'
    <2>1. Acts(p)
      BY <1>3, RunStepActs, ServerStepActs
    <2>2. ASSUME NEW q \in Proc \ {p} PROVE Account(q)'
      BY <1>1, <2>1, AccountOther
    <2>3. Account(p)'
      <3>1. SUFFICES ASSUME at'[p] \in RunPlaces \cup {"asked"}, ~failed'[p],
                            NEW t \in Range(Arguments(p))
                     PROVE  Covered(p, t)'
        BY DEF Account, Arguments
      <3>2. t \in Target
        BY GoalsAreLists, ProcFacts DEF Arguments, Range
      <3>3. at[p] \in RunPlaces \cup {"asked"} /\ ~failed[p]
        <4>1. CASE RunStep(p)
          BY <3>1, <4>1, RunStepSticks
        <4>2. CASE ServerStep(p)
          <5>1. UNCHANGED <<at, failed>> \/ failed'[p]
            BY <4>2
            DEF ServerStep, Select, Reap, ReadToken, Granted, GrantPanics, Cheat,
                PollWaitAll, buildVars, Gone, TypeOK
          <5> QED BY <3>1, <5>1
        <4> QED BY <1>3, <4>1, <4>2
      <3>4. Covered(p, t)
        BY <1>1, <3>1, <3>3 DEF Account
      <3> QED BY <1>3, <3>1, <3>2, <3>4, RunStepCovers, ServerStepCovers
    <2> QED BY <2>2, <2>3
  <1>4. ASSUME NEW j \in Job, ScriptStep(j), NEW q \in Proc PROVE Account(q)'
    <2>1. /\ UNCHANGED <<locked, waitFds, fin, failed, status>>
          /\ at \in [Proc -> Places] /\ todo \in [Proc -> Seq(Target)]
          /\ j \in Proc /\ j # Root
          /\ Deps[TargetOf(j)] \in Seq(Target)
      BY <1>4, ScriptStepEffect, ProcFacts, GoalsAreLists DEF TypeOK
    <2>2. CASE at'[q] = at[q] /\ todo'[q] = todo[q]
      BY <1>1, <2>1, <2>2 DEF Account, Covered, Done, Mine, Arguments
    <2>3. CASE q = j /\ todo'[j] = Deps[TargetOf(j)]
      BY <2>1, <2>3 DEF Account, Covered, Arguments
    <2>4. CASE at'[q] = "none"
      BY <2>4 DEF Account, RunPlaces
    <2> QED BY <1>4, <2>1, <2>2, <2>3, <2>4, ScriptStepEffect
  <1>5. CASE LogStep \/ UNCHANGED vars
    BY <1>1, <1>5, LogStepEffect
    DEF Account, Covered, Done, Mine, Arguments, serverVars, buildVars
  <1> QED BY <1>3, <1>4, <1>5 DEF Next, Rest

-----------------------------------------------------------------------------
(* Blame.                                                                  *)

\* Jobs that have not ended have no result, successful ones no failure, and who
\* is not in run() has no jobs to record.
Results ==
    /\ \A j \in Job : /\ phase[j] \notin {"zombie", "gone"} => code[j] = "none"
                      /\ code[j] = "ok" => ~failed[j]
    /\ \A p \in Proc : phase[p] \notin JS!InRedo => Mine(p) = {}

\* What Blame says of one set of processes.
Blames(S) ==
    Family(S) => IF Trouble THEN \E p \in S : Failing(p)
                 ELSE \A j \in Job : JS!Alive(j) => j \in S

LEMMA BlameParts ==
  Blame <=> /\ \A t \in Target : status[t] = "fail" => Trouble
            /\ Results
            /\ \A S \in SUBSET Proc : Blames(S)
  BY DEF Blame, Results, Blames

LEMMA BlameInit == Init => Blame
  <1> SUFFICES ASSUME Init PROVE Blame
    OBVIOUS
  <1>1. /\ \A p \in Proc : Mine(p) = {} /\ failed[p] = FALSE /\ crash[p] = "none"
        /\ \A j \in Job : code[j] = "none" /\ phase[j] = "unborn"
        /\ \A t \in Target : status[t] = "todo"
    BY ProcFacts DEF Init, JS!Init, Mine, Proc
  <1>2. ~Trouble
    BY <1>1, ProcFacts DEF Trouble, Failing
  <1> QED BY <1>1, <1>2, BlameParts DEF Results, Blames, JS!Alive

\* A failure stays one.
LEMMA FailingStays ==
  ASSUME TypeOK, JS!Inv, Results, NEW p \in Proc, Acts(p), NEW q \in Proc, Failing(q)
  PROVE  Failing(q)'
  <1>1. failed \in [Proc -> BOOLEAN]
    BY DEF TypeOK
  <1>2. /\ UNCHANGED code
        /\ \A r \in Proc \ {p} : failed'[r] = failed[r]
    BY DEF Acts, Moves, Leaves, Starts, Reaps, Records, OthersStay
  <1>3. ASSUME failed[p] PROVE failed'[p]
    <2>1. CASE Moves(p) \/ Leaves(p)
      BY <1>3, <2>1 DEF Moves, Leaves
    <2>2. CASE \E j \in Job : Starts(p, j) \/ Reaps(p, j)
      BY <1>3, <2>2 DEF Starts, Reaps
    <2>3. CASE \E j \in Job : Records(p, j)
      BY <1>1, <1>3, <2>3 DEF Records
    <2> QED BY <2>1, <2>2, <2>3 DEF Acts
  <1>4. failed[q] => failed'[q]
    BY <1>2, <1>3
  <1> QED BY <1>2, <1>4 DEF Failing

\* Trouble begins only where somebody leaves run() early.
LEMMA TroubleBegins ==
  ASSUME TypeOK, Noted, Blame, NEW p \in Proc, Acts(p), Trouble'
  PROVE  Trouble \/ (Leaves(p) /\ crash'[p] # "none")
  <1>1. /\ failed \in [Proc -> BOOLEAN]
        /\ crash \in [Proc -> {"none", "abort", "ensure", "start", "release", "return"}]
        /\ \A j \in Job : j \in Proc /\ j # Root
    BY ProcFacts DEF TypeOK
  <1>2. PICK q \in Proc : Failing(q)' \/ crash'[q] # "none"
    BY DEF Trouble
  <1>3. UNCHANGED code
    BY DEF Acts, Moves, Leaves, Starts, Reaps, Records
  <1>4. CASE Moves(p)
    <2>1. \A t \in Target : status[t] = "fail" => Trouble
      BY DEF Blame
    <2>2. UNCHANGED crash
      BY <1>4 DEF Moves
    <2>3. failed'[q] => failed[q] \/ \E t \in Target : status[t] = "fail"
      BY <1>4 DEF Moves, OthersStay
    <2> QED BY <1>2, <1>3, <2>1, <2>2, <2>3 DEF Trouble, Failing
  <1>5. CASE Leaves(p)
    <2>1. CASE crash'[p] = "none"
      <3>1. /\ failed'[q] = failed[q]
            /\ crash'[q] # "none" => crash[q] # "none"
        BY <1>1, <1>5, <2>1 DEF Leaves, OthersStay
      <3> QED BY <1>2, <1>3, <3>1 DEF Trouble, Failing
    <2> QED BY <1>5, <2>1
  <1>6. ASSUME NEW j \in Job, Records(p, j) PROVE Trouble
    <2>1. UNCHANGED crash
      BY <1>6 DEF Records
    <2>2. failed'[q] => failed[q] \/ code[j] = "fail"
      BY <1>1, <1>6 DEF Records, OthersStay
    <2> QED BY <1>1, <1>2, <1>3, <2>1, <2>2 DEF Trouble, Failing
  <1>7. CASE UNCHANGED <<failed, crash>>
    BY <1>2, <1>3, <1>7 DEF Trouble, Failing
  <1> QED BY <1>4, <1>5, <1>6, <1>7 DEF Acts, Starts, Reaps

LEMMA ResultsActs ==
  ASSUME TypeOK, JS!Inv, Noted, Results, NEW p \in Proc, Acts(p)
  PROVE  Results'
  <1>1. /\ phase \in [Proc -> JS!Phases]
        /\ fin \in [Proc -> SUBSET Job] /\ waitFds \in [Proc -> SUBSET Job]
        /\ failed \in [Proc -> BOOLEAN]
        /\ UNCHANGED code
        /\ \A j \in Job : j \in Proc
    BY ProcFacts
    DEF TypeOK, JS!TypeOK, Proc, Acts, Moves, Leaves, Starts, Reaps, Records
  <1> USE DEF JS!InRedo, JS!Awaits
  <1>2. ASSUME NEW j \in Job, phase'[j] \notin {"zombie", "gone"}
        PROVE  phase[j] \notin {"zombie", "gone"}
    BY <1>1, <1>2 DEF Acts, Moves, Leaves, Starts, Reaps, Records
  <1>3. ASSUME NEW j \in Job, phase[j] \in {"zombie", "gone"}
        PROVE  failed'[j] = failed[j]
    BY <1>1, <1>3 DEF Acts, Moves, Leaves, Starts, Reaps, Records, OthersStay
  <1>4. ASSUME NEW q \in Proc, phase'[q] \notin JS!InRedo PROVE Mine(q)' = {}
    <2> USE DEF Results, Mine
    <2>1. CASE Moves(p)
      BY <1>1, <1>4, <2>1 DEF Moves
    <2>2. CASE Leaves(p)
      BY <1>1, <1>4, <2>2 DEF Leaves
    <2>3. ASSUME NEW j \in Job \ {p}, Starts(p, j) PROVE Mine(q)' = {}
      BY <1>1, <1>4, <2>3 DEF Starts
    <2>4. ASSUME NEW j \in Job, Reaps(p, j) PROVE Mine(q)' = {}
      BY <1>1, <1>4, <2>4 DEF Reaps
    <2>5. ASSUME NEW j \in Job, Records(p, j) PROVE Mine(q)' = {}
      BY <1>1, <1>4, <2>5 DEF Records
    <2> QED BY <2>1, <2>2, <2>3, <2>4, <2>5 DEF Acts
  <1> QED BY <1>1, <1>2, <1>3, <1>4 DEF Results

LEMMA TroubleStays ==
  ASSUME TypeOK, JS!Inv, Noted, Results, NEW p \in Proc, Acts(p), Trouble
  PROVE  Trouble'
  <1>1. PICK q \in Proc : Failing(q) \/ crash[q] # "none"
    BY DEF Trouble
  <1>2. crash[q] # "none" => crash'[q] # "none"
    <2>1. CASE Leaves(p)
      BY <2>1 DEF Leaves, Noted, TypeOK
    <2>2. CASE UNCHANGED crash
      BY <2>2
    <2> QED BY <2>1, <2>2 DEF Acts, Moves, Starts, Reaps, Records
  <1> QED BY <1>1, <1>2, FailingStays DEF Trouble

\* A family of processes after a step comes from one before it, with the same
\* processes at work and no failure missing.
LEMMA BlameInherited ==
  ASSUME NEW S \in SUBSET Proc, NEW T \in SUBSET Proc, Blames(T), Family(T),
         Trouble' <=> Trouble,
         \A q \in T : Failing(q) => \E r \in S : Failing(r)',
         ~Trouble => \A j \in Job : JS!Alive(j)' /\ j \notin S
                                        => JS!Alive(j) /\ j \notin T
  PROVE  Blames(S)'
  BY DEF Blames

LEMMA BlamesActs ==
  ASSUME TypeOK, JS!Inv, Noted, Blame, NEW p \in Proc, Acts(p),
         NEW S \in SUBSET Proc
  PROVE  Blames(S)'
  <1>1. /\ phase \in [Proc -> JS!Phases]
        /\ fin \in [Proc -> SUBSET Job] /\ waitFds \in [Proc -> SUBSET Job]
        /\ \A q \in Proc : Mine(q) \subseteq Job
        /\ Job \subseteq Proc /\ Root \notin Job /\ (p = Root \/ p \in Job)
    BY ProcFacts DEF TypeOK, JS!TypeOK, Proc, Mine
  <1>2. Results /\ \A T \in SUBSET Proc : Blames(T)
    BY BlameParts
  <1>3. \A q \in Proc : Failing(q) => Failing(q)'
    BY <1>2, FailingStays
  <1>4. SUFFICES ASSUME Family(S)' PROVE Blames(S)'
    BY DEF Blames
  <1>5. Root \in S /\ \A q \in S : Mine(q)' \subseteq S
    BY <1>4 DEF Family
  <1>6. ~Leaves(p) \/ crash'[p] = "none" => (Trouble' <=> Trouble)
    BY <1>2, TroubleStays, TroubleBegins
  <1>7. ASSUME \A q \in S : Mine(q) \subseteq Mine(q)',
               Trouble' <=> Trouble,
               ~Trouble => \A j \in Job : JS!Alive(j)' /\ j \notin S => JS!Alive(j)
        PROVE  Blames(S)'
    <2>1. Family(S)
      BY <1>5, <1>7 DEF Family
    <2> QED BY <1>2, <1>3, <1>7, <2>1, BlameInherited
  <1> USE DEF JS!Alive, JS!InRedo, JS!Awaits
  <1>8. CASE Moves(p)
    <2>1. /\ \A q \in Proc : Mine(q)' = Mine(q)
          /\ \A j \in Job : JS!Alive(j)' => JS!Alive(j)
      BY <1>1, <1>8 DEF Moves, Mine
    <2>2. ~Leaves(p) \/ crash'[p] = "none"
      BY <1>8 DEF Moves, Leaves, Noted
    <2> QED BY <1>6, <1>7, <2>1, <2>2
  <1>9. CASE Leaves(p)
    <2>1. /\ \A q \in Proc \ {p} : Mine(q)' = Mine(q)
          /\ \A j \in Job : JS!Alive(j)' => JS!Alive(j)
          /\ p # Root => JS!Alive(p)
      BY <1>1, <1>9 DEF Leaves, Mine
    <2>2. CASE crash'[p] = "none"
      <3>1. Mine(p) = {}
        BY <1>9, <2>2 DEF Leaves
      <3> QED BY <1>6, <1>7, <2>1, <2>2, <3>1
    <2>3. CASE crash'[p] # "none"
      <3>1. Failing(p)' /\ Trouble'
        BY <1>9, <2>3 DEF Leaves, Failing, Trouble
      <3>2. CASE p \in S
        BY <3>1, <3>2 DEF Blames
      <3>3. CASE p \notin S
        <4>1. Family(S)
          BY <1>5, <2>1, <3>3 DEF Family
        <4>2. Trouble
          BY <1>1, <1>2, <1>5, <2>1, <3>3, <4>1 DEF Blames
        <4>3. PICK q \in S : Failing(q)
          BY <1>2, <4>1, <4>2 DEF Blames
        <4> QED BY <1>3, <3>1, <4>3 DEF Blames
      <3> QED BY <3>2, <3>3
    <2> QED BY <2>2, <2>3
  <1>10. ASSUME NEW j \in Job \ {p}, Starts(p, j) PROVE Blames(S)'
    <2>1. /\ \A q \in Proc \ {p} : Mine(q)' = Mine(q)
          /\ Mine(p)' = Mine(p) \cup {j}
          /\ p # Root => JS!Alive(p)
          /\ \A i \in Job \ {j} : JS!Alive(i)' => JS!Alive(i)
      BY <1>1, <1>10 DEF Starts, Mine
    <2>2. Family(S)
      BY <1>5, <2>1 DEF Family
    <2>3. ~Trouble => p \in S
      BY <1>1, <1>2, <1>5, <2>1, <2>2 DEF Blames
    <2>4. ~Trouble => j \in S
      BY <1>5, <2>1, <2>3
    <2>5. Trouble' <=> Trouble
      <3>1. UNCHANGED <<failed, code, crash>>
        BY <1>10 DEF Starts
      <3> QED BY <3>1 DEF Trouble, Failing
    <2> QED BY <1>7, <2>1, <2>4, <2>5
  <1>11. ASSUME NEW j \in Job, Reaps(p, j) PROVE Blames(S)'
    <2>1. /\ \A q \in Proc : Mine(q)' = Mine(q)
          /\ \A i \in Job : JS!Alive(i)' => JS!Alive(i)
      BY <1>1, <1>11 DEF Reaps, Mine
    <2>2. Trouble' <=> Trouble
      <3>1. UNCHANGED <<failed, code, crash>>
        BY <1>11 DEF Reaps
      <3> QED BY <3>1 DEF Trouble, Failing
    <2> QED BY <1>7, <2>1, <2>2
  <1>12. ASSUME NEW j \in Job, Records(p, j) PROVE Blames(S)'
    <2>1. /\ \A q \in Proc \ {p} : Mine(q)' = Mine(q)
          /\ Mine(p) \subseteq Mine(p)' \cup {j}
          /\ UNCHANGED <<phase, crash>>
          /\ phase[j] = "gone" /\ code[j] # "none"
          /\ failed'[p] <=> failed[p] \/ code[j] = "fail"
      BY <1>1, <1>12 DEF Records, Mine, Noted, TypeOK
    <2>2. Mine(j) = {} /\ (Failing(j) => failed'[p])
      BY <1>1, <1>2, <2>1 DEF Results, Failing, TypeOK
    <2>3. Trouble' <=> Trouble
      <3>1. ~Leaves(p) \/ crash'[p] = "none"
        BY <2>1 DEF Leaves, Noted
      <3> QED BY <1>6, <3>1
    <2>4. CASE p \in S
      <3> DEFINE T == S \cup {j}
      <3>1. T \in SUBSET Proc /\ Family(T)
        BY <1>1, <1>5, <2>1, <2>2 DEF Family
      <3>2. \A q \in T : Failing(q) => \E r \in S : Failing(r)'
        BY <1>3, <2>2, <2>4 DEF Failing
      <3>3. \A i \in Job : JS!Alive(i)' /\ i \notin S => JS!Alive(i) /\ i \notin T
        BY <2>1
      <3> HIDE DEF T
      <3> QED BY <1>2, <2>3, <3>1, <3>2, <3>3, BlameInherited
    <2>5. CASE p \notin S
      <3>1. \A q \in S : Mine(q) \subseteq Mine(q)'
        BY <2>1, <2>5
      <3> QED BY <1>7, <2>1, <2>3, <3>1
    <2> QED BY <2>4, <2>5
  <1> QED BY <1>8, <1>9, <1>10, <1>11, <1>12 DEF Acts

LEMMA BlameNext ==
  ASSUME TypeOK, JS!Inv, Seats, Noted, Blame, [Next]_vars
  PROVE  Blame'
  <1>1. /\ phase \in [Proc -> JS!Phases] /\ code \in [Job -> {"none", "ok", "fail"}]
        /\ waitFds \in [Proc -> SUBSET Job] /\ fin \in [Proc -> SUBSET Job]
        /\ status \in [Target -> {"todo", "ok", "fail"}]
        /\ Job \subseteq Proc /\ Root \notin Job
        /\ \A j \in Job : TargetOf(j) \in Target
    BY ProcFacts DEF TypeOK, JS!TypeOK, Proc
  <1>2. /\ Results
        /\ \A T \in SUBSET Proc : Blames(T)
        /\ \A t \in Target : status[t] = "fail" => Trouble
    BY BlameParts
  <1>3. SUFFICES /\ Results'
                 /\ \A T \in SUBSET Proc : Blames(T)'
                 /\ \A t \in Target : status'[t] = "fail" => Trouble'
    BY DEF Blame, Results, Blames
  <1>4. ASSUME NEW p \in Proc, Acts(p)
        PROVE  /\ Results'
               /\ \A T \in SUBSET Proc : Blames(T)'
               /\ \A t \in Target : status'[t] = "fail" => Trouble'
    <2>1. ASSUME NEW t \in Target, status'[t] = "fail" PROVE Trouble'
      <3>1. CASE status[t] = "fail"
        BY <1>2, <1>4, <3>1, TroubleStays
      <3>2. CASE status[t] # "fail"
        <4>1. PICK j \in Job : code[j] = "fail"
          BY <1>1, <1>4, <2>1, <3>2 DEF Acts, Moves, Leaves, Starts, Reaps, Records
        <4>2. Trouble
          BY <1>1, <4>1 DEF Trouble, Failing
        <4> QED BY <1>2, <1>4, <4>2, TroubleStays
      <3> QED BY <3>1, <3>2
    <2> QED BY <1>2, <1>4, <2>1, BlamesActs, ResultsActs
  <1>5. ASSUME NEW j \in Job, ScriptStep(j)
        PROVE  /\ Results'
               /\ \A T \in SUBSET Proc : Blames(T)'
               /\ \A t \in Target : status'[t] = "fail" => Trouble'
    <2>1. /\ UNCHANGED <<waitFds, fin, failed, status, crash>>
          /\ \A i \in Job : JS!Alive(i)' => JS!Alive(i)
          /\ JS!Alive(j)
      BY <1>1, <1>5, ScriptStepEffect DEF JS!Alive
    <2>2. \A q \in Proc : Mine(q)' = Mine(q)
      BY <2>1 DEF Mine
    <2>3. Results'
      BY <1>1, <1>2, <1>5, <2>1, <2>2, ScriptStepEffect
      DEF Results, JS!InRedo, JS!Awaits
    <2>4. \A q \in Proc : Failing(q) => Failing(q)'
      <3>1. \A i \in Job : code[i] = "fail" => code'[i] = "fail"
        <4>1. code[j] = "none" \/ UNCHANGED code
          BY <1>2, <1>5, ScriptStepEffect DEF Results
        <4> QED BY <1>1, <1>5, <4>1, ScriptStepEffect
      <3> QED BY <1>1, <2>1, <3>1, ProcFacts DEF Failing
    <2>5. Trouble => Trouble'
      BY <2>1, <2>4 DEF Trouble
    <2>6. \A q \in Proc \ {j} : Failing(q)' => Failing(q)
      <3>1. \A i \in Job \ {j} : code'[i] = code[i]
        BY <1>1, <1>5, ScriptStepEffect
      <3> QED BY <1>1, <2>1, <3>1, ProcFacts DEF Failing
    <2>7. ASSUME NEW S \in SUBSET Proc, Family(S)'
          PROVE  IF Trouble' THEN \E p \in S : Failing(p)'
                 ELSE \A i \in Job : JS!Alive(i)' => i \in S
      <3>1. Family(S)
        BY <2>2, <2>7 DEF Family
      <3>2. CASE Trouble
        BY <1>2, <2>4, <2>5, <3>1, <3>2 DEF Blames
      <3>3. CASE ~Trouble
        <4>1. \A i \in Job : JS!Alive(i) => i \in S
          BY <1>2, <3>1, <3>3 DEF Blames
        <4>2. Trouble' => Failing(j)'
          BY <2>1, <2>6, <3>3 DEF Trouble
        <4> QED BY <2>1, <4>1, <4>2
      <3> QED BY <3>2, <3>3
    <2> QED BY <1>2, <2>1, <2>3, <2>5, <2>7 DEF Blames
  <1>6. CASE LogStep \/ UNCHANGED vars
    <2>1. UNCHANGED <<phase, waitFds, fin, failed, status, crash, code>>
      BY <1>6, LogStepEffect DEF serverVars, buildVars
    <2>2. \A q \in Proc : Mine(q)' = Mine(q) /\ (Failing(q)' <=> Failing(q))
      BY <2>1 DEF Mine, Failing
    <2>3. Trouble' <=> Trouble
      BY <2>1, <2>2 DEF Trouble
    <2>4. Results'
      BY <1>2, <2>1, <2>2 DEF Results
    <2>5. \A T \in SUBSET Proc : Blames(T)'
      BY <1>2, <2>1, <2>2, <2>3 DEF Blames, Family, JS!Alive
    <2> QED BY <1>2, <2>1, <2>3, <2>4, <2>5
  <1> QED BY <1>4, <1>5, <1>6, RunStepActs, ServerStepActs DEF Next, Rest

-----------------------------------------------------------------------------
(* Thrift: nobody cheats unwatched.                                        *)

NothingSaid == tail = <<>> /\ \A u \in Target \cup {Root} : said[u] = {}
NoCheats == cheatPipe = 0 /\ \A p \in Proc : cheats[p] = 0

\* The operations of the job server that the build loop uses, but for cheating.
Operates(p) ==
    \/ UNCHANGED serverVars
    \/ JS!EnsureToken(p) \/ JS!WaitAll(p) \/ JS!PollWaitAll(p)
    \/ JS!ReleaseMine(p) \/ JS!LeaveRedo(p)
    \/ JS!Select(p) \/ JS!ReadToken(p) \/ JS!Granted(p)
    \/ \E j \in Job : JS!Start(p, j) \/ JS!Reap(p, j)

LEMMA JobsCounted ==
  ASSUME NEW S \in SUBSET Job
  PROVE  /\ JS!Cardinality(S) = Cardinality(S)
         /\ JS!Cardinality(S) \in Nat
         /\ S = {} => JS!Cardinality(S) = 0
  <1>1. JS!Cardinality(S) = Cardinality(S)
    BY DEF JS!Cardinality, Cardinality
  <1>2. IsFiniteSet(Job)
    BY NamesDiffer DEF JSP!JobAssumption, JSP!IsFiniteSet, IsFiniteSet
  <1> QED BY <1>1, <1>2, FS_Subset, FS_CardinalityType, FS_EmptySet

LEMMA CreatedPlain ==
  ASSUME JS!TypeOK, NEW p \in Proc, cheats[p] = 0, NEW n \in Nat
  PROVE  /\ JS!Created(p, n).cheats = 0
         /\ JS!Created(p, n).my = IF my[p] + n = 0 THEN 0 ELSE 1
  <1>1. my[p] \in Nat
    BY DEF JS!TypeOK, Proc
  <1> QED BY <1>1 DEF JS!Created, JS!Least

LEMMA StepOperates ==
  ASSUME NEW p \in Proc, RunStep(p) \/ ServerStep(p), ~Cheat(p)
  PROVE  Operates(p)
  <1>1. CASE RunStep(p)
    <2>1. CASE NextTarget(p) \/ FirstLoopEnds(p) \/ FindLocked(p)
      BY <2>1 DEF NextTarget, FirstLoopEnds, FindLocked, Operates
    <2>2. CASE BuildUnlocked(p) \/ BuildLocked(p)
      BY <2>2 DEF BuildUnlocked, BuildLocked, StartJob, SkipJob, Operates
    <2>3. CASE FirstLoopAborts(p) \/ WaitLockFails(p) \/ Finish(p)
      BY <2>3
      DEF FirstLoopAborts, WaitLockFails, Abort, Finish, JS!Leave, Operates
    <2>4. CASE GiveUpPanics(p) \/ BuildPanics(p)
      BY <2>4 DEF GiveUpPanics, BuildPanics, Panic, JS!Leave, Operates
    <2>5. CASE SecondLoopEnds(p) \/ WaitForAll(p) \/ SelfTestAborts(p) \/ LoopAgain(p)
      BY <2>5 DEF SecondLoopEnds, WaitForAll, SelfTestAborts, LoopAgain, Operates
    <2>6. CASE TryAgain(p) \/ GiveUpToken(p) \/ WaitLock(p) \/ Unlock(p)
                  \/ FailedElsewhere(p)
      BY <2>6
      DEF TryAgain, GiveUpToken, WaitLock, Unlock, FailedElsewhere, Operates
    <2>7. CASE \E j \in Job : Record(p, j)
      BY <2>7 DEF Record, Operates
    <2> QED BY <1>1, <2>1, <2>2, <2>3, <2>4, <2>5, <2>6, <2>7 DEF RunStep
  <1>2. CASE ServerStep(p)
    BY <1>2 DEF ServerStep, Select, Reap, ReadToken, Granted, GrantPanics,
                JS!GrantPanics, PollWaitAll, Operates
  <1> QED BY <1>1, <1>2

LEMMA NoCheatsKept ==
  ASSUME JS!TypeOK, NoCheats, NEW p \in Proc, Operates(p)
  PROVE  NoCheats'
  <1>1. /\ cheats \in [Proc -> Nat] /\ my \in [Proc -> Nat]
        /\ cheats[p] = 0 /\ my[p] \in Nat
    BY DEF JS!TypeOK, Proc, NoCheats
  <1>2. ASSUME NEW k \in Nat, k <= my[p], JS!ReleaseDownTo(p, k)
        PROVE  \A q \in Proc : cheats'[q] = 0
    BY <1>1, <1>2 DEF JS!ReleaseDownTo, JS!Least, NoCheats
  <1>3. ASSUME JS!WaitAllPending(p) \/ JS!WaitAllReady(p) \/ JS!SelfTestFails(p)
        PROVE  NoCheats'
    BY <1>1, <1>2, <1>3
    DEF JS!WaitAllPending, JS!WaitAllReady, JS!SelfTestFails, JS!SelfTest,
        JS!Least, NoCheats
  <1>4. CASE UNCHANGED serverVars \/ JS!EnsureToken(p) \/ JS!Select(p)
                \/ JS!ReadToken(p) \/ JS!Granted(p)
    BY <1>4
    DEF serverVars, JS!EnsureToken, JS!Select, JS!ReadToken, JS!Granted, NoCheats
  <1>5. CASE JS!WaitAll(p) \/ JS!PollWaitAll(p)
    BY <1>3, <1>5 DEF JS!WaitAll, JS!PollWaitAll
  <1>6. CASE JS!ReleaseMine(p)
    BY <1>1, <1>2, <1>6 DEF JS!ReleaseMine, JS!HasToken, NoCheats
  <1>7. CASE JS!LeaveRedo(p)
    <2>1. JS!Cardinality(waitFds[p]) \in Nat
      BY JobsCounted DEF JS!TypeOK, Proc
    <2>2. JS!Returned(p).cheats = 0
      BY <1>1, <2>1, CreatedPlain DEF JS!Returned
    <2> QED BY <1>1, <1>7, <2>2 DEF JS!LeaveRedo, NoCheats
  <1>8. ASSUME NEW j \in Job, JS!Start(p, j) PROVE NoCheats'
    BY <1>8 DEF JS!Start, NoCheats
  <1>9. ASSUME NEW j \in Job, JS!Reap(p, j) PROVE NoCheats'
    BY <1>1, <1>9, CreatedPlain DEF JS!Reap, NoCheats
  <1> QED BY <1>4, <1>5, <1>6, <1>7, <1>8, <1>9 DEF Operates

LEMMA WatchedByNobody ==
  ASSUME ~Follow, NothingSaid, [Next]_vars
  PROVE  /\ UNCHANGED <<said, tail>>
         /\ \A p \in Proc : ~Cheat(p)
  <1>1. Tailing = Root /\ said[Tailing] = {}
    BY DEF NothingSaid, Tailing
  <1>2. ASSUME NEW p \in Proc, Cheat(p) PROVE FALSE
    BY <1>1, <1>2, ProcFacts, NameAssumption DEF Cheat, JS!Cheat, NodeOf
  <1>3. ASSUME NEW p \in Proc, NEW t, Say(p, t) PROVE UNCHANGED said
    BY <1>3 DEF Say
  <1> USE DEF logVars
  <1>4. ASSUME NEW p \in Proc, RunStep(p) PROVE UNCHANGED <<said, tail>>
    <2>1. CASE NextTarget(p) \/ FirstLoopEnds(p) \/ FindLocked(p)
      BY <2>1, <1>3 DEF NextTarget, FirstLoopEnds, FindLocked
    <2>2. CASE BuildUnlocked(p) \/ BuildLocked(p)
      BY <2>2, <1>3 DEF BuildUnlocked, BuildLocked, StartJob, SkipJob
    <2>3. CASE FirstLoopAborts(p) \/ WaitLockFails(p) \/ Finish(p)
      BY <2>3 DEF FirstLoopAborts, WaitLockFails, Abort, Finish
    <2>4. CASE GiveUpPanics(p) \/ BuildPanics(p)
      BY <2>4, <1>3 DEF GiveUpPanics, BuildPanics, Panic
    <2>5. CASE SecondLoopEnds(p) \/ WaitForAll(p) \/ SelfTestAborts(p) \/ LoopAgain(p)
      BY <2>5 DEF SecondLoopEnds, WaitForAll, SelfTestAborts, LoopAgain
    <2>6. CASE TryAgain(p) \/ GiveUpToken(p) \/ WaitLock(p) \/ Unlock(p)
                  \/ FailedElsewhere(p)
      BY <2>6, <1>3
      DEF TryAgain, GiveUpToken, WaitLock, Unlock, FailedElsewhere
    <2>7. CASE \E j \in Job : Record(p, j)
      BY <2>7 DEF Record
    <2> QED BY <1>4, <2>1, <2>2, <2>3, <2>4, <2>5, <2>6, <2>7 DEF RunStep
  <1>5. ASSUME NEW p \in Proc, ServerStep(p) PROVE UNCHANGED <<said, tail>>
    BY <1>5 DEF ServerStep, Select, Reap, ReadToken, Granted, GrantPanics,
                PollWaitAll, Cheat
  <1>6. ASSUME NEW j \in Job, ScriptStep(j) PROVE UNCHANGED <<said, tail>>
    BY <1>6 DEF ScriptStep, Ask, Exit, Buried
  <1>7. CASE LogStep
    BY <1>1, <1>7 DEF LogStep, TailUp, TailDown, NothingSaid
  <1> QED BY <1>2, <1>4, <1>5, <1>6, <1>7 DEF Next, Rest, vars

LEMMA NoCheatsNext ==
  ASSUME ~Follow, JS!TypeOK, NothingSaid, NoCheats, [Next]_vars
  PROVE  NoCheats'
  <1>1. ASSUME NEW p \in Proc, RunStep(p) \/ ServerStep(p) PROVE NoCheats'
    BY <1>1, WatchedByNobody, StepOperates, NoCheatsKept
  <1>2. ASSUME NEW j \in Job, ScriptStep(j) PROVE NoCheats'
    BY <1>2 DEF ScriptStep, Ask, Exit, Buried, JS!EnterRedo, JS!Exit, JS!Buried,
                NoCheats
  <1>3. CASE LogStep \/ UNCHANGED vars
    BY <1>3, LogStepEffect DEF serverVars, NoCheats
  <1> QED BY <1>1, <1>2, <1>3 DEF Next, Rest

\* Nobody else's token changes, but for those of the dead and the newly born.
LEMMA OthersTokens ==
  ASSUME JS!TypeOK, NEW p \in Proc, Operates(p)
  PROVE  \A q \in Proc \ {p} : my'[q] = my[q] \/ phase'[q] \notin JS!InRedo
  <1>1. my \in [Proc -> Nat] /\ phase \in [Proc -> JS!Phases]
    BY DEF JS!TypeOK, Proc
  <1> USE DEF JS!InRedo, JS!Awaits
  <1>2. CASE UNCHANGED serverVars \/ JS!EnsureToken(p) \/ JS!Select(p)
                \/ JS!ReadToken(p) \/ JS!Granted(p)
    BY <1>1, <1>2
    DEF serverVars, JS!EnsureToken, JS!Select, JS!ReadToken, JS!Granted
  <1>3. CASE JS!WaitAll(p) \/ JS!PollWaitAll(p)
    BY <1>1, <1>3
    DEF JS!WaitAll, JS!PollWaitAll, JS!WaitAllPending, JS!WaitAllReady,
        JS!SelfTestFails, JS!SelfTest, JS!ReleaseDownTo
  <1>4. CASE JS!ReleaseMine(p)
    BY <1>1, <1>4 DEF JS!ReleaseMine, JS!ReleaseDownTo
  <1>5. CASE JS!LeaveRedo(p)
    BY <1>1, <1>5 DEF JS!LeaveRedo
  <1>6. ASSUME NEW j \in Job, JS!Start(p, j) \/ JS!Reap(p, j)
        PROVE  \A q \in Proc \ {p} : my'[q] = my[q] \/ phase'[q] \notin JS!InRedo
    BY <1>1, <1>6, ProcFacts DEF JS!Start, JS!Reap
  <1> QED BY <1>2, <1>3, <1>4, <1>5, <1>6 DEF Operates

\* A process below the toplevel has a token, or knows where to get one.
Frugal(p) ==
    p # Root /\ phase[p] \in JS!InRedo /\ waitFds[p] = {} /\ my[p] = 0
        => \/ at[p] \in {"blocked", "granted"}
           \/ at[p] = "again" /\ phase[p] = "ensureIdle"

LEMMA FrugalOther ==
  ASSUME TypeOK, NEW p \in Proc, NEW q \in Proc \ {p}, Acts(p), Operates(p),
         Frugal(q)
  PROVE  Frugal(q)'
  <1>1. /\ at \in [Proc -> Places] /\ phase \in [Proc -> JS!Phases]
        /\ waitFds \in [Proc -> SUBSET Job]
        /\ \A j \in Job : j \in Proc
        /\ my'[q] = my[q] \/ phase'[q] \notin JS!InRedo
    BY OthersTokens, ProcFacts DEF TypeOK, JS!TypeOK, Proc
  <1>2. waitFds'[q] = waitFds[q]
    BY <1>1 DEF Acts, Moves, Leaves, Starts, Reaps, Records
  <1>3. \/ at'[q] = at[q] /\ phase'[q] = phase[q]
        \/ phase'[q] \notin JS!InRedo
    BY <1>1 DEF Acts, Moves, Leaves, Starts, Reaps, Records, JS!InRedo, JS!Awaits
  <1> QED BY <1>1, <1>2, <1>3 DEF Frugal

LEMMA FrugalRunStep ==
  ASSUME TypeOK, JS!Inv, Seats, NoCheats, NEW p \in Proc, RunStep(p), Frugal(p)
  PROVE  Frugal(p)'
  <1> SUFFICES ASSUME p # Root PROVE Frugal(p)'
    BY DEF Frugal
  <1> USE DEF InCode, Goto
  <1>1. /\ at \in [Proc -> Places] /\ phase \in [Proc -> JS!Phases]
        /\ waitFds \in [Proc -> SUBSET Job]
        /\ my \in [Proc -> Nat] /\ my[p] \in Nat
        /\ cheats[p] = 0
        /\ Seated(p)
        /\ phase[p] = "redo" => my[p] <= 1
        /\ "redo" \in JS!InRedo
    BY DEF TypeOK, JS!TypeOK, JS!Inv, JS!NoHoarding, Proc, Seats, NoCheats,
           JS!InRedo
  <1>2. ASSUME phase[p] = "redo", at[p] \notin {"blocked", "granted"},
               my'[p] = my[p], waitFds'[p] = waitFds[p]
        PROVE  Frugal(p)'
    BY <1>1, <1>2 DEF Frugal
  <1>3. ASSUME JS!LeaveRedo(p) PROVE Frugal(p)'
    BY <1>1, <1>3 DEF JS!LeaveRedo, Frugal, JS!InRedo, JS!Awaits
  <1>4. CASE NextTarget(p)
    BY <1>1, <1>2, <1>4 DEF NextTarget, JS!EnsureToken, serverVars
  <1>5. CASE FirstLoopEnds(p) \/ FindLocked(p) \/ SecondLoopEnds(p) \/ LoopAgain(p)
                \/ TryAgain(p) \/ FailedElsewhere(p)
    BY <1>2, <1>5
    DEF FirstLoopEnds, FindLocked, SecondLoopEnds, LoopAgain, TryAgain,
        FailedElsewhere, serverVars
  <1>6. CASE BuildUnlocked(p) \/ BuildLocked(p)
    <2>1. ASSUME NEW t, StartJob(p, t) PROVE Frugal(p)'
      <3>1. PICK j : waitFds' = [waitFds EXCEPT ![p] = @ \cup {j}]
        BY <2>1, StartEffect
      <3>2. waitFds'[p] # {}
        BY <1>1, <3>1
      <3> QED BY <3>2 DEF Frugal
    <2>2. ASSUME NEW t, SkipJob(p, t), phase[p] = "redo", at[p] \in {"token", "build"}
          PROVE  Frugal(p)'
      BY <1>2, <2>2 DEF SkipJob, serverVars
    <2> QED BY <1>6, <2>1, <2>2 DEF BuildUnlocked, BuildLocked
  <1>7. CASE FirstLoopAborts(p) \/ WaitLockFails(p) \/ Finish(p)
    BY <1>3, <1>7 DEF FirstLoopAborts, WaitLockFails, Abort, Finish, JS!Leave
  <1>8. CASE GiveUpPanics(p) \/ BuildPanics(p)
    BY <1>3, <1>8 DEF GiveUpPanics, BuildPanics, Panic, JS!Leave
  <1>9. CASE WaitForAll(p)
    <2>1. CASE JS!WaitAllPending(p)
      BY <2>1 DEF JS!WaitAllPending, JS!Running, Frugal
    <2>2. CASE JS!WaitAllReady(p)
      <3>1. waitFds[p] = {} /\ waitFds' = waitFds
        BY <2>2 DEF JS!WaitAllReady, JS!Running
      <3>2. my[p] = 1
        BY <1>1, <1>9, <3>1 DEF WaitForAll, Frugal
      <3>3. my'[p] = 1
        BY <1>1, <2>2, <3>2
        DEF JS!WaitAllReady, JS!ReleaseDownTo, JS!Least
      <3> QED BY <3>3 DEF Frugal
    <2> QED BY <1>9, <2>1, <2>2 DEF WaitForAll, JS!WaitAll, JS!SelfTestFails
  <1>10. CASE SelfTestAborts(p)
    <2>1. phase'[p] = "gone"
      BY <1>10 DEF SelfTestAborts
    <2> QED BY <2>1 DEF Frugal, JS!InRedo, JS!Awaits
  <1>11. CASE GiveUpToken(p) \/ WaitLock(p)
    <2>1. at'[p] \in {"blocked", "granted"}
      BY <1>1, <1>11 DEF GiveUpToken, WaitLock
    <2> QED BY <2>1 DEF Frugal
  <1>12. CASE Unlock(p)
    <2>1. at'[p] = "again" /\ phase'[p] = "ensureIdle"
      BY <1>1, <1>12 DEF Unlock, JS!EnsureToken, JS!Running, Seated, LockLoop
    <2> QED BY <2>1 DEF Frugal
  <1>13. CASE \E j \in Job : Record(p, j)
    BY <1>13 DEF Record, serverVars, Frugal
  <1> QED
    BY <1>4, <1>5, <1>6, <1>7, <1>8, <1>9, <1>10, <1>11, <1>12, <1>13
    DEF RunStep

LEMMA FrugalServerStep ==
  ASSUME TypeOK, JS!Inv, Seats, NoCheats, NEW p \in Proc, ServerStep(p), ~Cheat(p),
         Frugal(p)
  PROVE  Frugal(p)'
  <1> SUFFICES ASSUME p # Root PROVE Frugal(p)'
    BY DEF Frugal
  <1>1. /\ at \in [Proc -> Places] /\ phase \in [Proc -> JS!Phases]
        /\ waitFds \in [Proc -> SUBSET Job]
        /\ my \in [Proc -> Nat] /\ my[p] \in Nat /\ pipe \in Nat
        /\ cheats[p] = 0 /\ cheatPipe = 0
    BY DEF TypeOK, JS!TypeOK, Proc, NoCheats
  <1> USE DEF buildVars
  <1>2. CASE Select(p)
    BY <1>2 DEF Select, JS!Select, Frugal
  <1>3. ASSUME NEW j \in Job, Reap(p, j) PROVE Frugal(p)'
    <2>1. j # p
      BY <1>3 DEF Reap, JS!Reap, JS!Inv, JS!Answers, Proc, JS!Awaits
    <2>2. my'[p] = 1
      <3>1. JS!Created(p, 1).my = 1
        <4>1. JS!TypeOK /\ cheats[p] = 0 /\ 1 \in Nat
          BY <1>1 DEF TypeOK
        <4>2. JS!Created(p, 1).my = IF my[p] + 1 = 0 THEN 0 ELSE 1
          BY <4>1, CreatedPlain
        <4>3. my[p] + 1 # 0
          BY <1>1
        <4> QED BY <4>2, <4>3
      <3> QED BY <1>1, <1>3, <2>1, <3>1 DEF Reap, JS!Reap
    <2> QED BY <2>2 DEF Frugal
  <1>4. CASE ReadToken(p)
    <2>1. /\ UNCHANGED <<at, waitFds, phase>>
          /\ my'[p] = my[p] \/ my'[p] > 0
      BY <1>1, <1>4 DEF ReadToken, JS!ReadToken, JS!Least
    <2> QED BY <1>1, <2>1 DEF Frugal
  <1>5. CASE Granted(p)
    BY <1>1, <1>5 DEF Granted, JS!Granted, JS!HasToken, Frugal
  <1>6. CASE GrantPanics(p)
    BY <1>1, <1>6
    DEF GrantPanics, JS!GrantPanics, JS!LeaveRedo, Frugal, JS!InRedo, JS!Awaits
  <1>7. CASE PollWaitAll(p)
    <2>1. CASE JS!WaitAllPending(p)
      BY <2>1 DEF JS!WaitAllPending, JS!Running, Frugal
    <2>2. CASE JS!WaitAllReady(p)
      <3>1. waitFds' = waitFds /\ at' = at /\ phase[p] = "waitAll"
        BY <1>7, <2>2 DEF JS!WaitAllReady, PollWaitAll, JS!PollWaitAll
      <3>2. my[p] = 0 \/ my'[p] = 1
        BY <1>1, <2>2 DEF JS!WaitAllReady, JS!ReleaseDownTo, JS!Least
      <3> QED BY <3>1, <3>2 DEF Frugal, JS!InRedo, JS!Awaits
    <2> QED BY <1>7, <2>1, <2>2 DEF PollWaitAll, JS!PollWaitAll, JS!SelfTestFails
  <1> QED BY <1>2, <1>3, <1>4, <1>5, <1>6, <1>7 DEF ServerStep

\* A process that ends run() without an early exit has the token to go with it.
LEMMA DriftKept ==
  ASSUME TypeOK, JS!Inv, Seats, Noted, NoCheats, NEW p \in Proc, Frugal(p),
         RunStep(p) \/ ServerStep(p), ~Cheat(p), crash'[p] = "none"
  PROVE  drift' = drift
  <1>1. /\ my \in [Proc -> Nat] /\ my[p] \in Nat
        /\ cheats[p] = 0 /\ cheatPipe = 0
        /\ drift \in Int
        /\ JS!TypeOK
    BY DEF TypeOK, JS!TypeOK, Proc, NoCheats
  <1>2. ASSUME NEW result, NEW why, why # "none", Gone(p, result, why)
        PROVE  FALSE
    BY <1>2 DEF Gone, TypeOK
  <1>3. ASSUME JS!WaitAllPending(p) \/ JS!WaitAllReady(p)
        PROVE  drift' = drift
    BY <1>1, <1>3 DEF JS!WaitAllPending, JS!WaitAllReady, JS!SelfTest
  <1>4. CASE Finish(p)
    <2>1. /\ at[p] = "fold" /\ phase[p] = "redo" /\ JS!LeaveRedo(p)
          /\ waitFds[p] = {}
      BY <1>4 DEF Finish, InCode, JS!Leave, Seats, Seated
    <2>2. /\ JS!Cardinality(waitFds[p]) \in Nat
          /\ JS!Cardinality(waitFds[p]) = 0
      BY <2>1, JobsCounted
    <2>3. p = Root \/ my[p] # 0
      BY <2>1 DEF Frugal, JS!InRedo
    <2>4. /\ JS!Returned(p).cheats = 0
          /\ p = Root \/ JS!Returned(p).my = 1
      BY <1>1, <2>2, <2>3, CreatedPlain DEF JS!Returned
    <2> QED BY <1>1, <2>1, <2>4 DEF JS!LeaveRedo
  <1>5. CASE RunStep(p) /\ ~Finish(p)
    <2>1. CASE NextTarget(p) \/ FirstLoopEnds(p) \/ FindLocked(p)
      BY <2>1 DEF NextTarget, FirstLoopEnds, FindLocked, serverVars, JS!EnsureToken
    <2>2. CASE BuildUnlocked(p) \/ BuildLocked(p)
      BY <2>2
      DEF BuildUnlocked, BuildLocked, StartJob, SkipJob, serverVars, JS!Start
    <2>3. CASE FirstLoopAborts(p) \/ WaitLockFails(p) \/ SelfTestAborts(p)
      BY <1>2, <2>3 DEF FirstLoopAborts, WaitLockFails, Abort, SelfTestAborts
    <2>4. CASE GiveUpPanics(p) \/ BuildPanics(p)
      BY <1>2, <2>4 DEF GiveUpPanics, BuildPanics, Panic
    <2>5. CASE WaitForAll(p)
      <3>1. ~JS!SelfTestFails(p)
        BY <2>5 DEF WaitForAll, JS!SelfTestFails, TypeOK, JS!TypeOK, Proc
      <3> QED BY <1>3, <2>5, <3>1 DEF WaitForAll, JS!WaitAll
    <2>6. CASE \/ SecondLoopEnds(p) \/ LoopAgain(p) \/ TryAgain(p) \/ GiveUpToken(p)
               \/ WaitLock(p) \/ Unlock(p) \/ FailedElsewhere(p)
      BY <2>6
      DEF SecondLoopEnds, LoopAgain, TryAgain, GiveUpToken, WaitLock, Unlock,
          FailedElsewhere, serverVars, JS!ReleaseMine, JS!EnsureToken
    <2>7. CASE \E j \in Job : Record(p, j)
      BY <2>7 DEF Record, serverVars
    <2> QED BY <1>5, <2>1, <2>2, <2>3, <2>4, <2>5, <2>6, <2>7 DEF RunStep
  <1>6. CASE ServerStep(p)
    <2>1. CASE Select(p) \/ ReadToken(p) \/ Granted(p)
                  \/ \E j \in Job : Reap(p, j)
      BY <2>1 DEF Select, ReadToken, Granted, Reap, JS!Select, JS!ReadToken,
                  JS!Granted, JS!Reap
    <2>2. CASE GrantPanics(p)
      BY <1>2, <2>2 DEF GrantPanics
    <2>3. CASE PollWaitAll(p)
      <3>1. ~JS!SelfTestFails(p)
        BY <2>3 DEF PollWaitAll, JS!SelfTestFails, TypeOK, JS!TypeOK, Proc
      <3> QED BY <1>3, <2>3, <3>1 DEF PollWaitAll, JS!PollWaitAll
    <2> QED BY <1>6, <2>1, <2>2, <2>3 DEF ServerStep
  <1> QED BY <1>4, <1>5, <1>6

LEMMA ThriftParts ==
  Thrift <=> (~Follow => /\ NothingSaid
                         /\ NoCheats
                         /\ \A p \in Proc : Frugal(p)
                         /\ NoneQuit => drift = 0)
  <1>1. (\A p \in Proc : Frugal(p))
          <=> \A p \in Proc \ {Root} :
                phase[p] \in JS!InRedo /\ waitFds[p] = {} /\ my[p] = 0
                => \/ at[p] \in {"blocked", "granted"}
                   \/ at[p] = "again" /\ phase[p] = "ensureIdle"
    BY DEF Frugal
  <1> QED BY <1>1 DEF Thrift, NothingSaid, NoCheats

LEMMA ThriftInit == Init => Thrift
  <1> SUFFICES ASSUME Init PROVE Thrift
    OBVIOUS
  <1>1. NothingSaid /\ NoCheats /\ drift = 0
    BY DEF Init, JS!Init, NothingSaid, NoCheats, Proc
  <1>2. ASSUME NEW p \in Proc PROVE Frugal(p)
    BY <1>2 DEF Init, JS!Init, Frugal, Proc, JS!InRedo, JS!Awaits
  <1> QED BY <1>1, <1>2, ThriftParts

LEMMA ThriftNext ==
  ASSUME TypeOK, JS!Inv, Seats, Noted, Thrift, [Next]_vars
  PROVE  Thrift'
  <1> SUFFICES ASSUME ~Follow
               PROVE  /\ NothingSaid' /\ NoCheats'
                      /\ \A p \in Proc : Frugal(p)'
                      /\ NoneQuit' => drift' = 0
    BY DEF Thrift, NothingSaid, NoCheats, Frugal
  <1>1. /\ NothingSaid /\ NoCheats /\ JS!TypeOK
        /\ \A p \in Proc : Frugal(p)
        /\ NoneQuit => drift = 0
    BY ThriftParts DEF TypeOK
  <1>2. NothingSaid'
    BY <1>1, WatchedByNobody DEF NothingSaid
  <1>3. NoCheats'
    BY <1>1, NoCheatsNext
  <1>4. ASSUME NEW p \in Proc, RunStep(p) \/ ServerStep(p)
        PROVE  (\A q \in Proc : Frugal(q)') /\ (NoneQuit' => drift' = 0)
    <2>1. ~Cheat(p) /\ Operates(p) /\ Acts(p)
      BY <1>1, <1>4, WatchedByNobody, StepOperates, RunStepActs, ServerStepActs
    <2>2. Frugal(p)'
      BY <1>1, <1>4, <2>1, FrugalRunStep, FrugalServerStep
    <2>3. ASSUME NEW q \in Proc \ {p} PROVE Frugal(q)'
      BY <1>1, <2>1, FrugalOther
    <2>4. ASSUME NoneQuit' PROVE drift' = 0
      <3>1. crash'[p] = "none"
        BY <2>4 DEF NoneQuit
      <3>2. drift' = drift
        BY <1>1, <1>4, <2>1, <3>1, DriftKept
      <3>3. NoneQuit
        BY <2>1, <2>4, QuitForGood
      <3> QED BY <1>1, <3>2, <3>3
    <2> QED BY <2>2, <2>3, <2>4
  <1>5. ASSUME NEW j \in Job, ScriptStep(j)
        PROVE  (\A q \in Proc : Frugal(q)') /\ (NoneQuit' => drift' = 0)
    <2>1. /\ at \in [Proc -> Places] /\ phase \in [Proc -> JS!Phases]
          /\ my \in [Proc -> Nat]
          /\ j \in Proc
      BY ProcFacts DEF TypeOK, JS!TypeOK, Proc
    <2>2. UNCHANGED <<waitFds, crash, drift>>
      BY <1>5 DEF ScriptStep, Ask, Exit, Buried, JS!EnterRedo, JS!Exit,
                  JS!Buried, buildVars
    <2>3. /\ \A q \in Proc \ {j} : at'[q] = at[q] /\ phase'[q] = phase[q]
                                     /\ my'[q] = my[q]
          /\ \/ phase'[j] \notin JS!InRedo
             \/ my'[j] = 1
      BY <1>5, <2>1
      DEF ScriptStep, Ask, Exit, Buried, JS!EnterRedo, JS!Exit, JS!Buried, Goto,
          buildVars, JS!Inv, JS!Hands, JS!InRedo, JS!Awaits
    <2> QED BY <1>1, <2>2, <2>3 DEF Frugal, NoneQuit
  <1>6. CASE LogStep \/ UNCHANGED vars
    BY <1>1, <1>2, <1>3, <1>6, LogStepEffect
    DEF serverVars, buildVars, Frugal, NoneQuit
  <1> QED BY <1>2, <1>3, <1>4, <1>5, <1>6 DEF Next, Rest

-----------------------------------------------------------------------------
(* The theorems.                                                           *)

LEMMA InvInit == Init => Inv
  BY ServerInvInit, TypeInit, SeatsInit, NotedInit, LocksInit, DecidedInit,
     AccountedInit, BlameInit, ThriftInit
  DEF Inv

LEMMA InvNext == Inv /\ [Next]_vars => Inv'
  <1> SUFFICES ASSUME Inv, [Next]_vars PROVE Inv'
    OBVIOUS
  <1>1. JS!Inv' /\ JS!TypeOK'
    <2>1. JS!Inv'
      BY ServerInvNext DEF Inv
    <2> QED BY <2>1 DEF JS!Inv
  <1>2. TypeOK'
    BY <1>1, TypeNext DEF Inv
  <1>3. Seats' /\ Noted'
    BY <1>2, SeatsNext, NotedNext DEF Inv
  <1>4. Locks' /\ Decided' /\ Accounted' /\ Blame' /\ Thrift'
    BY LocksNext, DecidedNext, AccountedNext, BlameNext, ThriftNext DEF Inv
  <1> QED BY <1>1, <1>2, <1>3, <1>4 DEF Inv

\* Who sits where in run(), which locks go with which jobs, who has been decided
\* about, what is left to do and where the tokens are, in every build: the
\* invariant that the theorems below follow from.
THEOREM InvAlways == Spec => []Inv
  BY InvInit, InvNext, PTL DEF Spec

\* The states of every build are well-typed.
THEOREM TypeCorrect == Spec => []TypeOK
  <1>1. Inv => TypeOK
    BY DEF Inv
  <1> QED BY InvAlways, <1>1, PTL

\* While a job runs, and until its result is recorded, the process that started
\* it owns the lock of its target.
THEOREM HeldUntilRecordedAlways == Spec => []HeldUntilRecorded
  <1>1. Inv => HeldUntilRecorded
    BY DEF Inv, Locks
  <1> QED BY InvAlways, <1>1, PTL

\* However many redo-ifchange processes ask for a target, its script runs once.
THEOREM BuiltOnceAlways == Spec => []BuiltOnce
  <1>1. Inv /\ BuiltOnce /\ [Next]_vars => BuiltOnce'
    BY BuiltOnceNext DEF Inv
  <1> QED BY InvAlways, BuiltOnceInit, <1>1, PTL DEF Spec

\* When the redo-ifchange of a script succeeds, every dependency it named is
\* built, whichever process built it, and stays so.
THEOREM DepsBuiltAlways == Spec => []DepsBuilt
  <1>1. Inv => DepsBuilt
    <2> SUFFICES ASSUME Inv, Forced = {}, NEW j \in Job, at[j] = "asked", ~failed[j],
                        NEW i \in DOMAIN Deps[TargetOf(j)]
                 PROVE  status[Deps[TargetOf(j)][i]] = "ok"
      BY DEF DepsBuilt
    <2>1. /\ Deps[TargetOf(j)][i] \in Range(Arguments(j))
          /\ j \in Proc
      BY ProcFacts DEF Arguments, Range
    <2>2. Covered(j, Deps[TargetOf(j)][i])
      BY <2>1 DEF Inv, Accounted, Covered
    <2>3. todo[j] = <<>> /\ locked[j] = <<>> /\ Mine(j) = {}
      BY <2>1 DEF Inv, Seats, Seated
    <2> QED BY <2>2, <2>3, EmptyRange DEF Covered, Done
  <1> QED BY InvAlways, <1>1, PTL

LEMMA InvSuccessIsTrue == Inv => SuccessIsTrue
  <1> SUFFICES ASSUME Inv, phase[Root] = "gone", ~failed[Root],
                      NEW i \in DOMAIN Goals
               PROVE  status[Goals[i]] = "ok"
    BY DEF SuccessIsTrue
  <1>1. /\ Goals[i] \in Range(Arguments(Root)) /\ Goals[i] \in Target
        /\ Root \in Proc
    BY ProcFacts, GoalsAreLists DEF Arguments, Range
  <1>2. at[Root] = "asked"
    BY <1>1 DEF Inv, Seats, Seated
  <1>3. Covered(Root, Goals[i])
    BY <1>1, <1>2 DEF Inv, Accounted, Covered
  <1>4. todo[Root] = <<>> /\ locked[Root] = <<>> /\ Mine(Root) = {}
    BY <1>1, <1>2 DEF Inv, Seats, Seated
  <1>5. Done(Goals[i])
    BY <1>3, <1>4, EmptyRange DEF Covered
  <1>6. ~Trouble
    <2>1. Family({Root}) /\ {Root} \in SUBSET Proc
      BY <1>1, <1>4 DEF Family
    <2>2. Trouble => \E p \in {Root} : Failing(p)
      BY <2>1 DEF Inv, Blame
    <2> QED BY <2>2 DEF Failing
  <1>7. status[Goals[i]] # "fail"
    BY <1>1, <1>6 DEF Inv, Blame
  <1> QED BY <1>5, <1>7 DEF Done

\* A toplevel command that exits with success has built all its goals, though
\* scripts may run redo, which builds a target again and may fail at it.
THEOREM SuccessIsTrueAlways == Spec => []SuccessIsTrue
  BY InvAlways, InvSuccessIsTrue, PTL

LEMMA InvTokensConserved == Inv => TokensConserved
  BY DEF Inv, Thrift, TokensConserved

\* Without cheating, and as long as no process quits early, the build loop
\* neither creates nor loses a token.
THEOREM TokensConservedAlways == Spec => []TokensConserved
  BY InvAlways, InvTokensConserved, PTL

LEMMA InvJobLimit == Inv => JobLimit
  <1> SUFFICES ASSUME Inv, ~Follow, NoneQuit
               PROVE  Cardinality(JS!Working) <= TopLevel
    BY DEF JobLimit
  <1>1. JSP!BoundedParallelism
    <2>1. JSP!Inv => JSP!BoundedParallelism
      BY NamesDiffer, JSP!InvBoundedParallelism
    <2> QED BY <2>1, SameInv DEF Inv
  <1>2. cheatPipe = 0 /\ drift = 0 /\ orphans = {} /\ \A p \in Proc : cheats[p] = 0
    BY DEF Inv, Thrift, Decided
  <1>3. JSP!Total(cheats) = 0
    <2>1. cheats = [p \in JSP!Proc |-> 0]
      BY <1>2 DEF Inv, TypeOK, JS!TypeOK, Proc, JS!Proc, JSP!Proc
    <2>2. JSP!Total([p \in JSP!Proc |-> 0]) = 0
      BY NamesDiffer, JSP!TotalZero
    <2> QED BY <2>1, <2>2
  <1>4. /\ JSP!Cardinality(orphans) = 0
        /\ JSP!Cardinality(JSP!Working) = Cardinality(JS!Working)
        /\ Cardinality(JS!Working) \in Nat
    <2>1. \A S : JSP!Cardinality(S) = Cardinality(S)
      BY DEF JSP!Cardinality, Cardinality
    <2>2. JSP!Working = JS!Working /\ JS!Working \in SUBSET Job
      BY DEF JSP!Working, JS!Working
    <2>3. Cardinality(JS!Working) \in Nat
      BY <2>2, JobsCounted
    <2> QED BY <1>2, <2>1, <2>2, <2>3, FS_EmptySet
  <1> QED BY <1>1, <1>2, <1>3, <1>4, ServerAssumption DEF JSP!BoundedParallelism

\* Without cheating, and as long as no process quits early, no more scripts are
\* at work than -j says.
THEOREM JobLimitAlways == Spec => []JobLimit
  BY InvAlways, InvJobLimit, PTL
=============================================================================
