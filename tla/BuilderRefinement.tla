-------------------------- MODULE BuilderRefinement --------------------------
(***************************************************************************)
(* Builder implements JobServer: every step of the build loop is a step of *)
(* the job server or leaves it alone.  So the ledger of tokens, proved for *)
(* arbitrary callers in JobServerProofs, balances in every build.          *)
(***************************************************************************)
EXTENDS Builder, FiniteSetTheorems, TLAPS

\* The theorems about JobServer, for the instance that Builder uses.
JSP == INSTANCE JobServerProofs WITH Killable <- {}, MaxDrift <- 100

-----------------------------------------------------------------------------
(* Every step is a step of JobServer.                                      *)

LEMMA InitRefines == Init => JS!Init
  BY DEF Init

LEMMA RunStepRefines ==
  ASSUME NEW p \in Proc, RunStep(p)
  PROVE  [JS!Next]_JS!vars
  <1> USE DEF Proc, JS!Next, JS!RedoStep, JS!vars, serverVars
  <1>1. CASE NextTarget(p)
    BY <1>1 DEF NextTarget
  <1>2. CASE FirstLoopEnds(p)
    BY <1>2 DEF FirstLoopEnds
  <1>3. CASE FindLocked(p)
    BY <1>3 DEF FindLocked
  <1>4. CASE BuildUnlocked(p)
    BY <1>4 DEF BuildUnlocked, StartJob, SkipJob
  <1>5. CASE FirstLoopAborts(p)
    BY <1>5 DEF FirstLoopAborts, Abort
  <1>6. CASE SecondLoopEnds(p)
    BY <1>6 DEF SecondLoopEnds
  <1>7. CASE WaitForAll(p)
    BY <1>7 DEF WaitForAll
  <1>8. CASE SelfTestAborts(p)
    BY <1>8 DEF SelfTestAborts, JS!ServerStep
  <1>9. CASE LoopAgain(p)
    BY <1>9 DEF LoopAgain
  <1>10. CASE TryAgain(p)
    BY <1>10 DEF TryAgain
  <1>11. CASE GiveUpToken(p)
    BY <1>11 DEF GiveUpToken
  <1>12. CASE GiveUpPanics(p)
    BY <1>12 DEF GiveUpPanics, Panic
  <1>13. CASE WaitLock(p)
    BY <1>13 DEF WaitLock
  <1>14. CASE WaitLockFails(p)
    BY <1>14 DEF WaitLockFails, Abort
  <1>15. CASE Unlock(p)
    BY <1>15 DEF Unlock
  <1>16. CASE FailedElsewhere(p)
    BY <1>16 DEF FailedElsewhere
  <1>17. CASE BuildLocked(p)
    BY <1>17 DEF BuildLocked, StartJob, SkipJob
  <1>18. CASE BuildPanics(p)
    BY <1>18 DEF BuildPanics, Panic
  <1>19. CASE \E j \in Job : Record(p, j)
    BY <1>19 DEF Record
  <1>20. CASE Finish(p)
    BY <1>20 DEF Finish
  <1> QED
    BY <1>1, <1>2, <1>3, <1>4, <1>5, <1>6, <1>7, <1>8, <1>9, <1>10, <1>11,
       <1>12, <1>13, <1>14, <1>15, <1>16, <1>17, <1>18, <1>19, <1>20
    DEF RunStep

LEMMA ServerStepRefines ==
  ASSUME NEW p \in Proc, ServerStep(p)
  PROVE  JS!Next
  BY DEF ServerStep, Select, Reap, ReadToken, Granted, GrantPanics, PollWaitAll,
         Cheat, Proc, JS!Next, JS!ServerStep

LEMMA ScriptStepRefines ==
  ASSUME NEW j \in Job, ScriptStep(j)
  PROVE  JS!Next
  BY DEF ScriptStep, Ask, Exit, Buried, JS!Next, JS!ScriptStep

LEMMA NextRefines == [Next]_vars => [JS!Next]_JS!vars
  <1> SUFFICES ASSUME [Next]_vars PROVE [JS!Next]_JS!vars
    OBVIOUS
  <1>1. CASE \E p \in Proc : RunStep(p) \/ ServerStep(p)
    BY <1>1, RunStepRefines, ServerStepRefines
  <1>2. CASE \E j \in Job : ScriptStep(j)
    BY <1>2, ScriptStepRefines
  <1>3. CASE LogStep
    BY <1>3 DEF LogStep, TailUp, TailDown, JS!vars, serverVars
  <1>4. CASE Rest \/ UNCHANGED vars
    BY <1>4 DEF Rest, vars, JS!vars, serverVars
  <1> QED BY <1>1, <1>2, <1>3, <1>4 DEF Next

\* builder::run, in every process of a build at once, uses the job server only
\* through its operations, and only as their callers may.
THEOREM BuilderImplementsJobServer == Spec => JobServerSpec
  BY InitRefines, NextRefines, PTL DEF Spec, JobServerSpec, JS!Spec

-----------------------------------------------------------------------------
(* JS and JSP are instances of one module: their definitions agree.        *)

LEMMA NamesDiffer ==
  /\ JSP!JobAssumption
  /\ JSP!TokenFdAssumption
  /\ JSP!TopLevelAssumption
  /\ JSP!KillableAssumption
  /\ JSP!BoundAssumption
  <1>1. \A S : IsFiniteSet(S) => JSP!IsFiniteSet(S)
    BY DEF JSP!IsFiniteSet, IsFiniteSet
  <1>2. IsFiniteSet(Job)
    <2>1. IsFiniteSet(1 .. MaxBuilds)
      BY TargetAssumption, FS_Interval
    <2>2. IsFiniteSet(Target)
      BY TargetAssumption
    <2> QED BY <2>1, <2>2, FS_Product DEF Job
  <1> QED
    BY <1>1, <1>2, NameAssumption, ServerAssumption
    DEF JSP!JobAssumption, JSP!TokenFdAssumption, JSP!TopLevelAssumption,
        JSP!KillableAssumption, JSP!BoundAssumption

LEMMA SameInit == JS!Init <=> JSP!Init
  BY DEF JS!Init, JSP!Init, JS!Proc, JSP!Proc

LEMMA SameNext == [JS!Next]_JS!vars <=> [JSP!Next]_JSP!vars
  BY ZenonT(60) DEF JS!Next, JS!vars, JS!Proc, JS!RedoStep, JS!ServerStep, JS!ScriptStep,
         JS!Start, JS!StartFails, JS!EnsureToken, JS!WaitAll, JS!ReleaseMine,
         JS!Leave, JS!LeaveRedo, JS!Select, JS!Reap, JS!ReadToken, JS!Granted,
         JS!GrantPanics, JS!PollWaitAll, JS!Cheat, JS!EnterRedo, JS!Exit,
         JS!Killed, JS!Buried, JS!WaitAllPending, JS!WaitAllReady,
         JS!SelfTestFails, JS!SelfTestPasses, JS!SelfTest, JS!Running,
         JS!HasToken, JS!WantsToken, JS!ReleaseDownTo, JS!Created, JS!Returned,
         JS!Sane, JS!Least, JS!Progress, JS!InRedo, JS!Awaits, JS!Total,
         JS!Units, JS!Cardinality,
         JSP!Next, JSP!vars, JSP!Proc, JSP!RedoStep, JSP!ServerStep,
         JSP!ScriptStep, JSP!Start, JSP!StartFails, JSP!EnsureToken,
         JSP!WaitAll, JSP!ReleaseMine, JSP!Leave, JSP!LeaveRedo, JSP!Select,
         JSP!Reap, JSP!ReadToken, JSP!Granted, JSP!GrantPanics,
         JSP!PollWaitAll, JSP!Cheat, JSP!EnterRedo, JSP!Exit, JSP!Killed,
         JSP!Buried, JSP!WaitAllPending, JSP!WaitAllReady, JSP!SelfTestFails,
         JSP!SelfTestPasses, JSP!SelfTest, JSP!Running, JSP!HasToken,
         JSP!WantsToken, JSP!ReleaseDownTo, JSP!Created, JSP!Returned,
         JSP!Sane, JSP!Least, JSP!Progress, JSP!InRedo, JSP!Awaits, JSP!Total,
         JSP!Units, JSP!Cardinality

LEMMA SameInv == JS!Inv <=> JSP!Inv
  BY DEF JS!Inv, JS!TypeOK, JS!Hands, JS!Answers, JS!Parents, JS!Restraint,
         JS!NoHoarding, JS!Ledger, JS!Proc, JS!Phases, JS!InRedo, JS!Awaits,
         JS!Alive, JS!WantsToken, JS!Total, JS!Units, JS!Cardinality,
         JSP!Inv, JSP!TypeOK, JSP!Hands, JSP!Answers, JSP!Parents,
         JSP!Restraint, JSP!NoHoarding, JSP!Ledger, JSP!Proc, JSP!Phases,
         JSP!InRedo, JSP!Awaits, JSP!Alive, JSP!WantsToken, JSP!Total,
         JSP!Units, JSP!Cardinality

LEMMA SameConsequences ==
  /\ JS!IdleBalance <=> JSP!IdleBalance
  /\ JS!BoundedParallelism <=> JSP!BoundedParallelism
  BY DEF JS!IdleBalance, JS!AllJobsGone, JS!BoundedParallelism, JS!Working,
         JS!Total, JS!Units, JS!Proc, JS!Cardinality,
         JSP!IdleBalance, JSP!AllJobsGone, JSP!BoundedParallelism,
         JSP!Working, JSP!Total, JSP!Units, JSP!Proc, JSP!Cardinality

-----------------------------------------------------------------------------
(* The invariants of JobServer hold of builds.                             *)

LEMMA ServerInvInit == Init => JS!Inv
  BY NamesDiffer, InitRefines, SameInit, SameInv, JSP!InvInit

LEMMA ServerInvNext == JS!Inv /\ [Next]_vars => JS!Inv'
  <1>1. JSP!Inv /\ [JSP!Next]_JSP!vars => JSP!Inv'
    BY NamesDiffer, JSP!InvNext
  <1>2. JS!Inv' <=> JSP!Inv'
    BY SameInv, PTL
  <1> QED BY <1>1, <1>2, NextRefines, SameNext, SameInv

\* The inductive invariant of JobServer is one of Builder.
THEOREM ServerInvAlways == Spec => []JS!Inv
  BY ServerInvInit, ServerInvNext, PTL DEF Spec

LEMMA ServerInvLedger == JS!Inv => LedgerHolds
  <1>1. JSP!Inv => JSP!IdleBalance
    BY NamesDiffer, JSP!InvIdleBalance
  <1> QED BY <1>1, SameInv, SameConsequences DEF LedgerHolds, JS!Inv

\* The tokens of a build add up, and the toplevel's self-test sees exactly the
\* drift, for every dependency graph, whatever processes cheat, fail, panic or
\* leave their jobs behind.
THEOREM LedgerHoldsAlways == Spec => []LedgerHolds
  BY ServerInvAlways, ServerInvLedger, PTL
=============================================================================
