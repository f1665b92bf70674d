--------------------------- MODULE JobServerProofs ---------------------------
(***************************************************************************)
(* Proofs about JobServer, for any number of jobs and any -j value: the    *)
(* type invariant, the ledger of tokens, and what follows from them for    *)
(* the self-test of the toplevel and for the bound on parallelism.         *)
(***************************************************************************)
EXTENDS JobServer, FiniteSetTheorems, TLAPS

USE JobAssumption, TokenFdAssumption

-----------------------------------------------------------------------------
(* Sums over the processes.                                                *)

\* The units that f counts for processes other than p.
Others(f, p) == UNION {{q} \X (1 .. f[q]) : q \in Proc \ {p}}

LEMMA ProcFinite == IsFiniteSet(Proc)
  BY FS_AddElement DEF Proc

\* The share of one process is as large as f says.
LEMMA PartCardinality ==
  ASSUME NEW p, NEW n \in Nat
  PROVE  /\ IsFiniteSet({p} \X (1 .. n))
         /\ Cardinality({p} \X (1 .. n)) = n
  <1> DEFINE pair == [i \in 1 .. n |-> <<p, i>>]
  <1>1. IsFiniteSet(1 .. n) /\ Cardinality(1 .. n) = n
    BY FS_Interval
  <1>2. pair \in Bijection(1 .. n, {p} \X (1 .. n))
    <2>1. pair \in [1 .. n -> {p} \X (1 .. n)]
      OBVIOUS
    <2>2. \A i, k \in 1 .. n : pair[i] = pair[k] => i = k
      OBVIOUS
    <2>3. \A u \in {p} \X (1 .. n) : \E i \in 1 .. n : pair[i] = u
      OBVIOUS
    <2> QED BY <2>1, <2>2, <2>3
            DEF Bijection, Injection, Surjection, IsInjective
  <1> QED BY <1>1, <1>2, FS_Bijection DEF ExistsBijection

LEMMA UnitsFinite ==
  ASSUME NEW f \in [Proc -> Nat]
  PROVE  IsFiniteSet(Units(f)) /\ Total(f) \in Nat
  <1> DEFINE share == [p \in Proc |-> {p} \X (1 .. f[p])]
             Shares == {{p} \X (1 .. f[p]) : p \in Proc}
  <1>1. share \in Surjection(Proc, Shares)
    BY DEF Surjection
  <1>2. IsFiniteSet(Shares)
    BY <1>1, ProcFinite, FS_Surjection
  <1>3. \A T \in Shares : IsFiniteSet(T)
    <2> SUFFICES ASSUME NEW p \in Proc
                 PROVE  IsFiniteSet({p} \X (1 .. f[p]))
      OBVIOUS
    <2>1. f[p] \in Nat
      OBVIOUS
    <2> QED BY <2>1, PartCardinality
  <1>4. IsFiniteSet(UNION Shares)
    BY <1>2, <1>3, FS_UNION
  <1> QED BY <1>4, FS_CardinalityType DEF Units, Total

\* Changing the count of one process changes the sum by the difference.
LEMMA TotalChange ==
  ASSUME NEW f \in [Proc -> Nat], NEW g \in [Proc -> Nat], NEW p \in Proc,
         \A x \in Proc \ {p} : g[x] = f[x]
  PROVE  Total(g) = Total(f) - f[p] + g[p]
  <1>1. Units(f) = Others(f, p) \cup ({p} \X (1 .. f[p]))
    BY DEF Units, Others
  <1>2. Others(g, p) = Others(f, p)
    BY DEF Others
  <1>3. Units(g) = Others(f, p) \cup ({p} \X (1 .. g[p]))
    <2>1. Units(g) = Others(g, p) \cup ({p} \X (1 .. g[p]))
      BY DEF Units, Others
    <2> QED BY <1>2, <2>1
  <1>4. IsFiniteSet(Others(f, p)) /\ Cardinality(Others(f, p)) \in Nat
    BY <1>1, UnitsFinite, FS_Subset, FS_CardinalityType
  <1>5. ASSUME NEW n \in Nat
        PROVE  Cardinality(Others(f, p) \cup ({p} \X (1 .. n)))
                 = Cardinality(Others(f, p)) + n
    <2>1. Others(f, p) \cap ({p} \X (1 .. n)) = {}
      BY DEF Others
    <2>2. /\ IsFiniteSet({p} \X (1 .. n))
          /\ Cardinality({p} \X (1 .. n)) = n
      BY PartCardinality
    <2>3. Cardinality(Others(f, p) \cup ({p} \X (1 .. n)))
            = Cardinality(Others(f, p)) + n - Cardinality({})
      BY <1>4, <2>1, <2>2, FS_Union
    <2> QED BY <1>4, <2>3, FS_EmptySet
  <1>6. f[p] \in Nat /\ g[p] \in Nat
    OBVIOUS
  <1>7. Total(f) = Cardinality(Others(f, p)) + f[p]
    BY <1>1, <1>5, <1>6 DEF Total
  <1>8. Total(g) = Cardinality(Others(f, p)) + g[p]
    BY <1>3, <1>5, <1>6 DEF Total
  <1> QED BY <1>4, <1>6, <1>7, <1>8

\* A function that counts nothing sums to zero; one that counts only at p sums
\* to what it counts there.
LEMMA TotalZero == Total([p \in Proc |-> 0]) = 0
  <1>1. Units([p \in Proc |-> 0]) = {}
    BY DEF Units
  <1> QED BY <1>1, FS_EmptySet DEF Total

LEMMA TotalSingle ==
  ASSUME NEW f \in [Proc -> Nat], NEW p \in Proc,
         \A q \in Proc \ {p} : f[q] = 0
  PROVE  Total(f) = f[p]
  <1> DEFINE none == [q \in Proc |-> 0]
  <1>1. /\ none \in [Proc -> Nat]
        /\ none[p] = 0
        /\ \A q \in Proc \ {p} : f[q] = none[q]
    OBVIOUS
  <1>2. Total(none) = 0
    BY TotalZero
  <1>3. f[p] \in Nat
    OBVIOUS
  <1> HIDE DEF none
  <1>4. Total(f) = Total(none) - none[p] + f[p]
    BY <1>1, TotalChange
  <1> QED BY <1>1, <1>2, <1>3, <1>4

\* Processes that each own a token are no more than the tokens owned.
LEMMA OwnersBounded ==
  ASSUME NEW f \in [Proc -> Nat], NEW S \in SUBSET Proc,
         \A p \in S : f[p] >= 1
  PROVE  IsFiniteSet(S) /\ Cardinality(S) <= Total(f)
  <1> DEFINE unit == [p \in S |-> <<p, 1>>]
  <1>1. \A p \in S : <<p, 1>> \in Units(f)
    <2> SUFFICES ASSUME NEW p \in S PROVE <<p, 1>> \in Units(f)
      OBVIOUS
    <2>1. f[p] \in Nat /\ 1 \in 1 .. f[p]
      OBVIOUS
    <2> QED BY <2>1 DEF Units
  <1>2. unit \in Injection(S, Units(f))
    BY <1>1 DEF Injection, IsInjective
  <1> QED BY <1>2, UnitsFinite, FS_Injection DEF Total

-----------------------------------------------------------------------------
(* What the operations on ServerState return.                              *)

LEMMA LeastFacts ==
  ASSUME NEW a \in Nat, NEW b \in Nat
  PROVE  /\ Least(a, b) \in Nat
         /\ Least(a, b) <= a
         /\ Least(a, b) <= b
         /\ Least(a, b) = a \/ Least(a, b) = b
  BY DEF Least

\* create_tokens(n) and release_except_mine keep one token at most, and the
\* tokens above the cheats grow by n.
LEMMA CreatedFacts ==
  ASSUME TypeOK, NEW p \in Proc, NEW n \in Nat
  PROVE  /\ Created(p, n).my \in {0, 1}
         /\ Created(p, n).cheats \in Nat
         /\ Created(p, n).cheats <= cheats[p]
         /\ Created(p, n).pipe \in Nat
         /\ Created(p, n).my + Created(p, n).pipe - Created(p, n).cheats
              = my[p] + pipe - cheats[p] + n
  <1> DEFINE swallowed == Least(cheats[p], n)
             m         == my[p] + n - swallowed
             kept      == Least(m, 1)
             cancelled == Least(cheats[p] - swallowed, m - kept)
  <1>1. my[p] \in Nat /\ cheats[p] \in Nat /\ pipe \in Nat
    BY DEF TypeOK
  <1>2. swallowed \in Nat /\ swallowed <= cheats[p] /\ swallowed <= n
    BY <1>1, LeastFacts
  <1>3. m \in Nat
    BY <1>1, <1>2
  <1> HIDE DEF swallowed, m
  <1>4. kept \in {0, 1} /\ kept <= m
    BY <1>3, LeastFacts
  <1>5. /\ cheats[p] - swallowed \in Nat
        /\ m - kept \in Nat
    BY <1>1, <1>2, <1>3, <1>4
  <1> HIDE DEF kept
  <1>6. /\ cancelled \in Nat
        /\ cancelled <= cheats[p] - swallowed
        /\ cancelled <= m - kept
    BY <1>5, LeastFacts
  <1> HIDE DEF cancelled
  <1>7. Created(p, n) = [my     |-> kept,
                         cheats |-> cheats[p] - swallowed - cancelled,
                         pipe   |-> pipe + (m - kept) - cancelled]
    BY DEF Created, swallowed, m, kept, cancelled
  <1>8. m = my[p] + n - swallowed
    BY DEF m
  <1> QED BY <1>1, <1>2, <1>3, <1>4, <1>5, <1>6, <1>7, <1>8

LEMMA WaitingFinite ==
  ASSUME TypeOK, NEW p \in Proc
  PROVE  /\ IsFiniteSet(waitFds[p])
         /\ Cardinality(waitFds[p]) \in Nat
  BY FS_Subset, FS_CardinalityType DEF TypeOK

\* release() down to k tokens moves each token to the pipe or cancels a cheat.
LEMMA ReleaseFacts ==
  ASSUME TypeOK, NEW p \in Proc, NEW k \in Nat, k <= my[p],
         ReleaseDownTo(p, k)
  PROVE  \E c \in Nat :
           /\ c <= cheats[p]
           /\ c <= my[p] - k
           /\ my' = [my EXCEPT ![p] = k]
           /\ cheats' = [cheats EXCEPT ![p] = cheats[p] - c]
           /\ pipe' = pipe + (my[p] - k) - c
           /\ pipe' \in Nat
  <1> DEFINE c == Least(cheats[p], my[p] - k)
  <1>1. my[p] \in Nat /\ cheats[p] \in Nat /\ pipe \in Nat /\ my[p] - k \in Nat
    BY DEF TypeOK
  <1>2. c \in Nat /\ c <= cheats[p] /\ c <= my[p] - k
    BY <1>1, LeastFacts
  <1>3. /\ my' = [my EXCEPT ![p] = k]
        /\ cheats' = [cheats EXCEPT ![p] = cheats[p] - c]
        /\ pipe' = pipe + (my[p] - k) - c
    BY DEF ReleaseDownTo
  <1> HIDE DEF c
  <1>4. pipe' \in Nat
    BY <1>1, <1>2, <1>3
  <1> QED BY <1>2, <1>3, <1>4

-----------------------------------------------------------------------------
(* The type invariant.                                                     *)

LEMMA TypeInit == Init => TypeOK
  BY TopLevelAssumption DEF Init, TypeOK, Proc, Phases, Awaits

LEMMA TypeRelease ==
  ASSUME TypeOK, NEW p \in Proc, NEW k \in Nat, k <= my[p],
         ReleaseDownTo(p, k)
  PROVE  /\ pipe' \in Nat
         /\ my' \in [Proc -> Nat]
         /\ cheats' \in [Proc -> Nat]
  <1>1. PICK c \in Nat :
           /\ c <= cheats[p]
           /\ my' = [my EXCEPT ![p] = k]
           /\ cheats' = [cheats EXCEPT ![p] = cheats[p] - c]
           /\ pipe' \in Nat
    BY ReleaseFacts
  <1>2. cheats[p] - c \in Nat
    BY <1>1 DEF TypeOK
  <1> QED BY <1>1, <1>2 DEF TypeOK

LEMMA TypeLeave ==
  ASSUME TypeOK, NEW p \in Proc, LeaveRedo(p)
  PROVE  TypeOK'
  <1> DEFINE r == Returned(p)
  <1>1. /\ r.my \in {0, 1}
        /\ r.cheats \in Nat
        /\ r.pipe \in Nat
    BY WaitingFinite, CreatedFacts DEF Returned
  <1> HIDE DEF r
  <1>2. PICK lost \in {0, r.cheats} :
          /\ cheatPipe' = cheatPipe + r.cheats - lost
          /\ drift' = IF p = Root THEN drift ELSE drift + (1 - r.my) + lost
    BY DEF LeaveRedo, r
  <1>3. pipe' \in Nat /\ cheatPipe' \in Nat /\ drift' \in Int
    BY <1>1, <1>2 DEF LeaveRedo, TypeOK, r
  <1>4. my' \in [Proc -> Nat] /\ cheats' \in [Proc -> Nat]
    BY <1>1 DEF LeaveRedo, TypeOK, r
  <1>5. /\ waitFds' \in [Proc -> SUBSET Job]
        /\ ready' \in [Proc -> SUBSET (Job \cup {TokenFd})]
        /\ orphans' \in SUBSET Job
    BY DEF LeaveRedo, TypeOK
  <1>6. phase' \in [Proc -> Phases]
    BY DEF LeaveRedo, TypeOK, Phases
  <1> QED BY <1>3, <1>4, <1>5, <1>6 DEF TypeOK

\* The three ways a poll of AllJobsDone ends.
LEMMA TypeAllJobsDone ==
  ASSUME TypeOK, NEW p \in Proc,
         WaitAllPending(p) \/ WaitAllReady(p) \/ SelfTestFails(p)
  PROVE  TypeOK'
  <1>1. CASE WaitAllPending(p)
    <2>1. my[p] \in Nat
      BY DEF TypeOK
    <2>2. /\ pipe' \in Nat
          /\ my' \in [Proc -> Nat]
          /\ cheats' \in [Proc -> Nat]
      BY <1>1, <2>1, TypeRelease DEF WaitAllPending
    <2> QED BY <1>1, <2>2 DEF WaitAllPending, TypeOK, Phases, Awaits
  <1>2. CASE WaitAllReady(p) /\ p = Root
    BY <1>2 DEF WaitAllReady, SelfTest, TypeOK, Phases
  <1>3. CASE WaitAllReady(p) /\ p # Root
    <2>1. my[p] \in Nat /\ Least(my[p], 1) \in Nat /\ Least(my[p], 1) <= my[p]
      BY LeastFacts DEF TypeOK
    <2>2. /\ pipe' \in Nat
          /\ my' \in [Proc -> Nat]
          /\ cheats' \in [Proc -> Nat]
      BY <1>3, <2>1, TypeRelease DEF WaitAllReady
    <2> QED BY <1>3, <2>2 DEF WaitAllReady, TypeOK, Phases
  <1>4. CASE SelfTestFails(p)
    <2>1. drift' \in Int
      BY <1>4 DEF SelfTestFails, TypeOK
    <2> QED BY <1>4, <2>1 DEF SelfTestFails, TypeOK, Phases
  <1> QED BY <1>1, <1>2, <1>3, <1>4

LEMMA TypeNext == TypeOK /\ [Next]_vars => TypeOK'
  <1> SUFFICES ASSUME TypeOK, [Next]_vars PROVE TypeOK'
    OBVIOUS
  <1> USE DEF Phases, Awaits, Proc
  <1>1. ASSUME NEW p \in Proc, NEW j \in Job, Start(p, j)
        PROVE  TypeOK'
    BY <1>1 DEF Start, TypeOK
  <1>2. ASSUME NEW p \in Proc, StartFails(p)
        PROVE  TypeOK'
    BY <1>2 DEF StartFails, TypeOK
  <1>3. ASSUME NEW p \in Proc, EnsureToken(p)
        PROVE  TypeOK'
    BY <1>3 DEF EnsureToken, TypeOK
  <1>4. ASSUME NEW p \in Proc, WaitAll(p) \/ PollWaitAll(p)
        PROVE  TypeOK'
    BY <1>4, TypeAllJobsDone DEF WaitAll, PollWaitAll
  <1>5. ASSUME NEW p \in Proc, ReleaseMine(p)
        PROVE  TypeOK'
    <2>1. my[p] \in Nat /\ my[p] - 1 \in Nat /\ my[p] - 1 <= my[p]
      BY <1>5 DEF ReleaseMine, HasToken, TypeOK
    <2> QED BY <1>5, <2>1, TypeRelease DEF ReleaseMine, TypeOK
  <1>6. ASSUME NEW p \in Proc, Leave(p) \/ GrantPanics(p)
        PROVE  TypeOK'
    BY <1>6, TypeLeave DEF Leave, GrantPanics
  <1>7. ASSUME NEW p \in Proc, Select(p)
        PROVE  TypeOK'
    BY <1>7 DEF Select, TypeOK
  <1>8. ASSUME NEW p \in Proc, NEW j \in Job, Reap(p, j)
        PROVE  TypeOK'
    <2>1. /\ Created(p, 1).my \in {0, 1}
          /\ Created(p, 1).cheats \in Nat
          /\ Created(p, 1).pipe \in Nat
      BY CreatedFacts
    <2> QED BY <1>8, <2>1 DEF Reap, TypeOK
  <1>9. ASSUME NEW p \in Proc, ReadToken(p)
        PROVE  TypeOK'
    <2>1. Least(pipe, 1) \in Nat /\ pipe - Least(pipe, 1) \in Nat
      BY DEF Least, TypeOK
    <2> QED BY <1>9, <2>1 DEF ReadToken, TypeOK
  <1>10. ASSUME NEW p \in Proc, Granted(p)
         PROVE  TypeOK'
    BY <1>10 DEF Granted, TypeOK
  <1>11. ASSUME NEW p \in Proc, Cheat(p)
         PROVE  TypeOK'
    BY <1>11 DEF Cheat, TypeOK
  <1>12. ASSUME NEW j \in Job, EnterRedo(j)
         PROVE  TypeOK'
    BY <1>12 DEF EnterRedo, TypeOK
  <1>13. ASSUME NEW j \in Job, Exit(j)
         PROVE  TypeOK'
    BY <1>13 DEF Exit, TypeOK
  <1>14. ASSUME NEW j \in Job, Killed(j)
         PROVE  TypeOK'
    BY <1>14, WaitingFinite DEF Killed, TypeOK
  <1>15. ASSUME NEW j \in Job, Buried(j)
         PROVE  TypeOK'
    BY <1>15 DEF Buried, TypeOK
  <1>16. CASE UNCHANGED vars
    BY <1>16 DEF vars, TypeOK
  <1> QED
    BY <1>1, <1>2, <1>3, <1>4, <1>5, <1>6, <1>7, <1>8, <1>9, <1>10, <1>11,
       <1>12, <1>13, <1>14, <1>15, <1>16
    DEF Next, RedoStep, ServerStep, ScriptStep

\* In every reachable state the counters are natural numbers: no assertion of
\* ServerState about a negative count can fail.
THEOREM TypeCorrect == Spec => []TypeOK
  BY TypeInit, TypeNext, PTL DEF Spec

-----------------------------------------------------------------------------
(* The parts of the inductive invariant that are about who knows whom.     *)

LEMMA InvInit == Init => Inv
  <1> SUFFICES ASSUME Init PROVE Inv
    OBVIOUS
  <1>1. TypeOK
    BY TypeInit
  <1>2. Hands /\ Answers /\ Parents /\ Restraint /\ NoHoarding
    BY DEF Init, Hands, Answers, Parents, Restraint, NoHoarding, Proc, Alive,
           InRedo, Awaits
  <1>3. Ledger
    <2>1. /\ my \in [Proc -> Nat]
          /\ \A q \in Proc \ {Root} : my[q] = 0
          /\ my[Root] = 1
      BY DEF Init, Proc
    <2>2. Total(my) = 1
      BY <2>1, TotalSingle DEF Proc
    <2>3. Total(cheats) = 0
      BY TotalZero DEF Init
    <2> QED BY <2>2, <2>3, TopLevelAssumption, FS_EmptySet DEF Init, Ledger
  <1> QED BY <1>1, <1>2, <1>3 DEF Inv

LEMMA HandsNext == Inv /\ [Next]_vars => Hands'
  <1> SUFFICES ASSUME Inv, [Next]_vars PROVE Hands'
    OBVIOUS
  <1>t. TypeOK /\ Hands /\ Answers /\ Parents
    BY DEF Inv
  <1> USE <1>t DEF TypeOK, Hands, Phases, Awaits, Proc, InRedo
  <1>1. ASSUME NEW p \in Proc, NEW j \in Job, Start(p, j)
        PROVE  Hands'
    BY <1>1 DEF Start
  <1>2. ASSUME NEW p \in Proc, StartFails(p)
        PROVE  Hands'
    BY <1>2 DEF StartFails
  <1>3. ASSUME NEW p \in Proc, EnsureToken(p)
        PROVE  Hands'
    BY <1>3 DEF EnsureToken
  <1>4. ASSUME NEW p \in Proc, WaitAll(p) \/ PollWaitAll(p)
        PROVE  Hands'
    <2>1. phase[p] \in {"redo", "waitAll"}
      BY <1>4 DEF WaitAll, PollWaitAll
    <2>2. CASE WaitAllPending(p)
      <3>1. 0 <= my[p] /\ 0 \in Nat
        OBVIOUS
      <3>2. PICK c \in Nat :
              /\ c <= cheats[p]
              /\ my' = [my EXCEPT ![p] = 0]
              /\ cheats' = [cheats EXCEPT ![p] = cheats[p] - c]
        BY <2>2, <3>1, ReleaseFacts DEF WaitAllPending
      <3> QED BY <2>1, <2>2, <3>2 DEF WaitAllPending
    <2>3. CASE WaitAllReady(p) /\ p = Root
      BY <2>1, <2>3 DEF WaitAllReady, SelfTest
    <2>4. CASE WaitAllReady(p) /\ p # Root
      <3>1. Least(my[p], 1) \in Nat /\ Least(my[p], 1) <= my[p]
        BY LeastFacts
      <3>2. PICK c \in Nat :
              /\ c <= cheats[p]
              /\ my' = [my EXCEPT ![p] = Least(my[p], 1)]
              /\ cheats' = [cheats EXCEPT ![p] = cheats[p] - c]
        BY <2>4, <3>1, ReleaseFacts DEF WaitAllReady
      <3> QED BY <2>1, <2>4, <3>1, <3>2 DEF WaitAllReady
    <2>5. CASE SelfTestFails(p)
      BY <2>1, <2>5 DEF SelfTestFails
    <2> QED BY <1>4, <2>2, <2>3, <2>4, <2>5 DEF WaitAll, PollWaitAll
  <1>5. ASSUME NEW p \in Proc, ReleaseMine(p)
        PROVE  Hands'
    <2>1. my[p] - 1 \in Nat /\ my[p] - 1 <= my[p]
      BY <1>5 DEF ReleaseMine, HasToken
    <2>2. PICK c \in Nat :
            /\ c <= cheats[p]
            /\ my' = [my EXCEPT ![p] = my[p] - 1]
            /\ cheats' = [cheats EXCEPT ![p] = cheats[p] - c]
      BY <1>5, <2>1, ReleaseFacts DEF ReleaseMine
    <2> QED BY <1>5, <2>2 DEF ReleaseMine
  <1>6. ASSUME NEW p \in Proc, Leave(p) \/ GrantPanics(p)
        PROVE  Hands'
    <2>1. LeaveRedo(p) /\ phase[p] \in InRedo
      BY <1>6 DEF Leave, GrantPanics
    <2> QED BY <2>1 DEF LeaveRedo
  <1>7. ASSUME NEW p \in Proc, Select(p)
        PROVE  Hands'
    BY <1>7 DEF Select
  <1>8. ASSUME NEW p \in Proc, NEW j \in Job, Reap(p, j)
        PROVE  Hands'
    <2>1. phase[j] = "zombie" /\ phase[p] \in Awaits
      BY <1>8 DEF Reap, Answers
    <2>2. /\ Created(p, 1).my \in {0, 1}
          /\ Created(p, 1).cheats \in Nat
          /\ Created(p, 1).cheats <= cheats[p]
      BY CreatedFacts
    <2> QED BY <1>8, <2>1, <2>2 DEF Reap
  <1>9. ASSUME NEW p \in Proc, ReadToken(p)
        PROVE  Hands'
    <2>1. phase[p] \in Awaits
      BY <1>9 DEF ReadToken, Answers
    <2> QED BY <1>9, <2>1 DEF ReadToken
  <1>10. ASSUME NEW p \in Proc, Granted(p)
         PROVE  Hands'
    BY <1>10 DEF Granted, WantsToken
  <1>11. ASSUME NEW p \in Proc, Cheat(p)
         PROVE  Hands'
    BY <1>11 DEF Cheat
  <1>12. ASSUME NEW j \in Job, EnterRedo(j)
         PROVE  Hands'
    BY <1>12 DEF EnterRedo
  <1>13. ASSUME NEW j \in Job, Exit(j)
         PROVE  Hands'
    BY <1>13 DEF Exit
  <1>14. ASSUME NEW j \in Job, Killed(j)
         PROVE  Hands'
    BY <1>14 DEF Killed
  <1>15. ASSUME NEW j \in Job, Buried(j)
         PROVE  Hands'
    BY <1>15 DEF Buried
  <1>16. CASE UNCHANGED vars
    BY <1>16 DEF vars
  <1> QED
    BY <1>1, <1>2, <1>3, <1>4, <1>5, <1>6, <1>7, <1>8, <1>9, <1>10, <1>11,
       <1>12, <1>13, <1>14, <1>15, <1>16
    DEF Next, RedoStep, ServerStep, ScriptStep

LEMMA AnswersNext == Inv /\ [Next]_vars => Answers'
  <1> SUFFICES ASSUME Inv, [Next]_vars PROVE Answers'
    OBVIOUS
  <1>t. TypeOK /\ Hands /\ Answers /\ Parents
    BY DEF Inv
  <1> USE <1>t DEF TypeOK, Answers, Awaits, Proc
  <1>1. ASSUME NEW p \in Proc, NEW j \in Job, Start(p, j)
        PROVE  Answers'
    BY <1>1 DEF Start
  <1>2. ASSUME NEW p \in Proc, StartFails(p)
        PROVE  Answers'
    BY <1>2 DEF StartFails
  <1>3. ASSUME NEW p \in Proc, EnsureToken(p)
        PROVE  Answers'
    BY <1>3 DEF EnsureToken
  <1>4. ASSUME NEW p \in Proc, WaitAll(p) \/ PollWaitAll(p)
        PROVE  Answers'
    <2>1. ready[p] = {} /\ phase[p] # "zombie"
      BY <1>4 DEF WaitAll, PollWaitAll
    <2>2. ready' = ready /\ waitFds' = waitFds
      BY <1>4 DEF WaitAll, PollWaitAll, WaitAllPending, WaitAllReady,
                  SelfTestFails
    <2>3. \E s : phase' = [phase EXCEPT ![p] = s]
      BY <1>4 DEF WaitAll, PollWaitAll, WaitAllPending, WaitAllReady,
                  SelfTestFails
    <2> QED BY <2>1, <2>2, <2>3
  <1>5. ASSUME NEW p \in Proc, ReleaseMine(p)
        PROVE  Answers'
    BY <1>5 DEF ReleaseMine
  <1>6. ASSUME NEW p \in Proc, Leave(p) \/ GrantPanics(p)
        PROVE  Answers'
    <2>1. LeaveRedo(p) /\ phase[p] # "zombie"
      BY <1>6 DEF Leave, GrantPanics
    <2> QED BY <2>1 DEF LeaveRedo
  <1>7. ASSUME NEW p \in Proc, Select(p)
        PROVE  Answers'
    BY <1>7, TokenFdAssumption DEF Select
  <1>8. ASSUME NEW p \in Proc, NEW j \in Job, Reap(p, j)
        PROVE  Answers'
    <2>1. phase[j] = "zombie" /\ j \in waitFds[p]
      BY <1>8 DEF Reap
    <2>2. \A q \in Proc : q # p => j \notin ready[q]
      BY <2>1 DEF Parents
    <2> QED BY <1>8, <2>1, <2>2 DEF Reap
  <1>9. ASSUME NEW p \in Proc, ReadToken(p)
        PROVE  Answers'
    BY <1>9 DEF ReadToken
  <1>10. ASSUME NEW p \in Proc, Granted(p)
         PROVE  Answers'
    BY <1>10 DEF Granted, WantsToken
  <1>11. ASSUME NEW p \in Proc, Cheat(p)
         PROVE  Answers'
    BY <1>11 DEF Cheat
  <1>12. ASSUME NEW j \in Job, EnterRedo(j)
         PROVE  Answers'
    BY <1>12 DEF EnterRedo
  <1>13. ASSUME NEW j \in Job, Exit(j)
         PROVE  Answers'
    BY <1>13 DEF Exit
  <1>14. ASSUME NEW j \in Job, Killed(j)
         PROVE  Answers'
    BY <1>14 DEF Killed, InRedo
  <1>15. ASSUME NEW j \in Job, Buried(j)
         PROVE  Answers'
    BY <1>15 DEF Buried, Parents
  <1>16. CASE UNCHANGED vars
    BY <1>16 DEF vars
  <1> QED
    BY <1>1, <1>2, <1>3, <1>4, <1>5, <1>6, <1>7, <1>8, <1>9, <1>10, <1>11,
       <1>12, <1>13, <1>14, <1>15, <1>16
    DEF Next, RedoStep, ServerStep, ScriptStep

LEMMA ParentsNext == Inv /\ [Next]_vars => Parents'
  <1> SUFFICES ASSUME Inv, [Next]_vars PROVE Parents'
    OBVIOUS
  <1>t. TypeOK /\ Hands /\ Answers /\ Parents
    BY DEF Inv
  <1> USE <1>t DEF TypeOK, Parents, Proc, Alive
  <1>1. ASSUME NEW p \in Proc, NEW j \in Job, Start(p, j)
        PROVE  Parents'
    BY <1>1 DEF Start
  <1>2. ASSUME NEW p \in Proc, StartFails(p)
        PROVE  Parents'
    BY <1>2 DEF StartFails
  <1>3. ASSUME NEW p \in Proc, EnsureToken(p)
        PROVE  Parents'
    BY <1>3 DEF EnsureToken
  <1>4. ASSUME NEW p \in Proc, WaitAll(p) \/ PollWaitAll(p)
        PROVE  Parents'
    <2>1. waitFds' = waitFds /\ orphans' = orphans
      BY <1>4 DEF WaitAll, PollWaitAll, WaitAllPending, WaitAllReady,
                  SelfTestFails
    <2>2. CASE p = Root
      <3>1. \E s : phase' = [phase EXCEPT ![Root] = s]
        BY <1>4, <2>2 DEF WaitAll, PollWaitAll, WaitAllPending, WaitAllReady,
                          SelfTestFails
      <3>2. \A j \in Job : phase'[j] = phase[j]
        BY <3>1, JobAssumption
      <3> QED BY <2>1, <3>2
    <2>3. CASE p # Root
      <3>1. phase' = [phase EXCEPT ![p] = "redo"]
              \/ phase' = [phase EXCEPT ![p] = "waitAll"]
        BY <1>4, <2>3 DEF WaitAll, PollWaitAll, WaitAllPending, WaitAllReady,
                          SelfTestFails
      <3>2. \A j \in Job : phase[j] \notin {"unborn", "gone"}
                             => phase'[j] \notin {"unborn", "gone"}
        BY <3>1
      <3> QED BY <2>1, <3>2
    <2> QED BY <2>2, <2>3
  <1>5. ASSUME NEW p \in Proc, ReleaseMine(p)
        PROVE  Parents'
    BY <1>5 DEF ReleaseMine
  <1>6. ASSUME NEW p \in Proc, Leave(p) \/ GrantPanics(p)
        PROVE  Parents'
    <2>1. LeaveRedo(p)
      BY <1>6 DEF Leave, GrantPanics
    <2>2. /\ waitFds' = [waitFds EXCEPT ![p] = {}]
          /\ orphans' = orphans \cup waitFds[p]
      BY <2>1 DEF LeaveRedo
    <2>3. \A j \in Job : Alive(j) => Alive(j)'
      BY <2>1, JobAssumption DEF LeaveRedo
    <2> QED BY <2>2, <2>3
  <1>7. ASSUME NEW p \in Proc, Select(p)
        PROVE  Parents'
    BY <1>7 DEF Select
  <1>8. ASSUME NEW p \in Proc, NEW j \in Job, Reap(p, j)
        PROVE  Parents'
    <2>1. phase[j] = "zombie" /\ j \in waitFds[p]
      BY <1>8 DEF Reap, Answers
    <2>2. /\ waitFds' = [waitFds EXCEPT ![p] = @ \ {j}]
          /\ phase' = [phase EXCEPT ![j] = "gone"]
          /\ orphans' = orphans
      BY <1>8 DEF Reap
    <2> QED BY <2>1, <2>2
  <1>9. ASSUME NEW p \in Proc, ReadToken(p)
        PROVE  Parents'
    BY <1>9 DEF ReadToken
  <1>10. ASSUME NEW p \in Proc, Granted(p)
         PROVE  Parents'
    BY <1>10 DEF Granted
  <1>11. ASSUME NEW p \in Proc, Cheat(p)
         PROVE  Parents'
    BY <1>11 DEF Cheat
  <1>12. ASSUME NEW j \in Job, EnterRedo(j)
         PROVE  Parents'
    BY <1>12 DEF EnterRedo
  <1>13. ASSUME NEW j \in Job, Exit(j)
         PROVE  Parents'
    <2>1. waitFds' = waitFds
      BY <1>13 DEF Exit
    <2>2. CASE j \in orphans
      BY <1>13, <2>1, <2>2 DEF Exit
    <2>3. CASE j \notin orphans
      BY <1>13, <2>1, <2>3 DEF Exit
    <2> QED BY <2>2, <2>3
  <1>14. ASSUME NEW j \in Job, Killed(j)
         PROVE  Parents'
    <2>1. /\ waitFds' = [waitFds EXCEPT ![j] = {}]
          /\ orphans' = orphans \cup waitFds[j]
          /\ phase' = [phase EXCEPT ![j] = "script"]
      BY <1>14 DEF Killed
    <2> QED BY <2>1
  <1>15. ASSUME NEW j \in Job, Buried(j)
         PROVE  Parents'
    BY <1>15 DEF Buried
  <1>16. CASE UNCHANGED vars
    BY <1>16 DEF vars
  <1> QED
    BY <1>1, <1>2, <1>3, <1>4, <1>5, <1>6, <1>7, <1>8, <1>9, <1>10, <1>11,
       <1>12, <1>13, <1>14, <1>15, <1>16
    DEF Next, RedoStep, ServerStep, ScriptStep

LEMMA RestraintNext == Inv /\ [Next]_vars => Restraint' /\ NoHoarding'
  <1> SUFFICES ASSUME Inv, [Next]_vars PROVE Restraint' /\ NoHoarding'
    OBVIOUS
  <1>t. TypeOK /\ Hands /\ Answers /\ Parents /\ Restraint /\ NoHoarding
    BY DEF Inv
  <1> USE <1>t DEF TypeOK, Restraint, NoHoarding, WantsToken, Proc
  <1>1. ASSUME NEW p \in Proc, NEW j \in Job, Start(p, j)
        PROVE  Restraint' /\ NoHoarding'
    BY <1>1 DEF Start
  <1>2. ASSUME NEW p \in Proc, StartFails(p)
        PROVE  Restraint' /\ NoHoarding'
    BY <1>2 DEF StartFails
  <1>3. ASSUME NEW p \in Proc, EnsureToken(p)
        PROVE  Restraint' /\ NoHoarding'
    BY <1>3 DEF EnsureToken, HasToken, Running, Answers, Awaits
  <1>4. ASSUME NEW p \in Proc, WaitAll(p) \/ PollWaitAll(p)
        PROVE  Restraint' /\ NoHoarding'
    <2>1. phase[p] \in {"redo", "waitAll"}
      BY <1>4 DEF WaitAll, PollWaitAll
    <2>2. /\ phase' = [phase EXCEPT ![p] = "redo"]
               \/ phase' = [phase EXCEPT ![p] = "waitAll"]
               \/ phase' = [phase EXCEPT ![p] = "gone"]
          /\ ready' = ready /\ waitFds' = waitFds
      BY <1>4 DEF WaitAll, PollWaitAll, WaitAllPending, WaitAllReady,
                  SelfTestFails
    <2>3. my' = [my EXCEPT ![p] = 0] \/ my' = [my EXCEPT ![p] = Least(my[p], 1)]
      BY <1>4 DEF WaitAll, PollWaitAll, WaitAllPending, WaitAllReady,
                  SelfTestFails, SelfTest, ReleaseDownTo
    <2>4. Least(my[p], 1) \in Nat /\ Least(my[p], 1) <= 1
      BY LeastFacts
    <2> QED BY <2>1, <2>2, <2>3, <2>4
  <1>5. ASSUME NEW p \in Proc, ReleaseMine(p)
        PROVE  Restraint' /\ NoHoarding'
    <2>1. my' = [my EXCEPT ![p] = my[p] - 1]
      BY <1>5 DEF ReleaseMine, ReleaseDownTo
    <2> QED BY <1>5, <2>1 DEF ReleaseMine
  <1>6. ASSUME NEW p \in Proc, Leave(p) \/ GrantPanics(p)
        PROVE  Restraint' /\ NoHoarding'
    <2>1. LeaveRedo(p)
      BY <1>6 DEF Leave, GrantPanics
    <2>2. Returned(p).my \in {0, 1}
      BY WaitingFinite, CreatedFacts DEF Returned
    <2>3. /\ phase' = [phase EXCEPT ![p] = IF p = Root THEN "gone"
                                           ELSE "script"]
          /\ ready' = [ready EXCEPT ![p] = {}]
          /\ waitFds' = [waitFds EXCEPT ![p] = {}]
          /\ my' = [my EXCEPT ![p] = IF p = Root THEN Returned(p).my ELSE 1]
      BY <2>1 DEF LeaveRedo
    <2> QED BY <2>2, <2>3
  <1>7. ASSUME NEW p \in Proc, Select(p)
        PROVE  Restraint' /\ NoHoarding'
    BY <1>7, TokenFdAssumption DEF Select, Progress, HasToken
  <1>8. ASSUME NEW p \in Proc, NEW j \in Job, Reap(p, j)
        PROVE  Restraint' /\ NoHoarding'
    <2>1. phase[j] = "zombie" /\ j \in waitFds[p] /\ j # p
      BY <1>8 DEF Reap, Answers, Awaits
    <2>2. phase[p] # "ensureIdle"
      BY <2>1
    <2>3. Created(p, 1).my \in {0, 1}
      BY CreatedFacts
    <2>4. /\ phase' = [phase EXCEPT ![j] = "gone"]
          /\ ready' = [ready EXCEPT ![p] = @ \ {j}]
          /\ waitFds' = [waitFds EXCEPT ![p] = @ \ {j}]
      BY <1>8 DEF Reap
    <2>5. my' = [my EXCEPT ![j] = 0]
            \/ my' = [my EXCEPT ![p] = Created(p, 1).my, ![j] = 0]
      BY <1>8 DEF Reap
    <2> QED BY <2>1, <2>2, <2>3, <2>4, <2>5
  <1>9. ASSUME NEW p \in Proc, ReadToken(p)
        PROVE  Restraint' /\ NoHoarding'
    <2>1. Least(pipe, 1) \in Nat /\ Least(pipe, 1) <= 1
      BY DEF Least
    <2> QED BY <1>9, <2>1 DEF ReadToken
  <1>10. ASSUME NEW p \in Proc, Granted(p)
         PROVE  Restraint' /\ NoHoarding'
    BY <1>10 DEF Granted
  <1>11. ASSUME NEW p \in Proc, Cheat(p)
         PROVE  Restraint' /\ NoHoarding'
    BY <1>11 DEF Cheat
  <1>12. ASSUME NEW j \in Job, EnterRedo(j)
         PROVE  Restraint' /\ NoHoarding'
    BY <1>12 DEF EnterRedo
  <1>13. ASSUME NEW j \in Job, Exit(j)
         PROVE  Restraint' /\ NoHoarding'
    BY <1>13 DEF Exit
  <1>14. ASSUME NEW j \in Job, Killed(j)
         PROVE  Restraint' /\ NoHoarding'
    BY <1>14 DEF Killed
  <1>15. ASSUME NEW j \in Job, Buried(j)
         PROVE  Restraint' /\ NoHoarding'
    BY <1>15 DEF Buried
  <1>16. CASE UNCHANGED vars
    BY <1>16 DEF vars
  <1> QED
    BY <1>1, <1>2, <1>3, <1>4, <1>5, <1>6, <1>7, <1>8, <1>9, <1>10, <1>11,
       <1>12, <1>13, <1>14, <1>15, <1>16
    DEF Next, RedoStep, ServerStep, ScriptStep

-----------------------------------------------------------------------------
(* The ledger.                                                             *)

\* The same for two processes.
LEMMA TotalChange2 ==
  ASSUME NEW f \in [Proc -> Nat], NEW g \in [Proc -> Nat],
         NEW p \in Proc, NEW q \in Proc, p # q,
         \A x \in Proc \ {p, q} : g[x] = f[x]
  PROVE  Total(g) = Total(f) - f[p] - f[q] + g[p] + g[q]
  <1> DEFINE h == [f EXCEPT ![p] = g[p]]
  <1>1. /\ h \in [Proc -> Nat]
        /\ h[p] = g[p] /\ h[q] = f[q]
        /\ \A x \in Proc \ {p} : h[x] = f[x]
        /\ \A x \in Proc \ {q} : g[x] = h[x]
    OBVIOUS
  <1>2. /\ Total(f) \in Nat /\ Total(g) \in Nat
        /\ f[p] \in Nat /\ f[q] \in Nat /\ g[p] \in Nat /\ g[q] \in Nat
    BY UnitsFinite
  <1> HIDE DEF h
  <1>3. Total(h) = Total(f) - f[p] + h[p]
    BY <1>1, TotalChange
  <1>4. Total(g) = Total(h) - h[q] + g[q]
    BY <1>1, TotalChange
  <1> QED BY <1>1, <1>2, <1>3, <1>4

\* A step that changes what is owned, or cheated, by one or two processes.
LEMMA MyChange ==
  ASSUME TypeOK, TypeOK', NEW p \in Proc,
         \A x \in Proc \ {p} : my'[x] = my[x]
  PROVE  Total(my') = Total(my) - my[p] + my'[p]
  <1>1. my \in [Proc -> Nat] /\ my' \in [Proc -> Nat]
    BY DEF TypeOK
  <1> QED BY <1>1, TotalChange

LEMMA MyChange2 ==
  ASSUME TypeOK, TypeOK', NEW p \in Proc, NEW q \in Proc, p # q,
         \A x \in Proc \ {p, q} : my'[x] = my[x]
  PROVE  Total(my') = Total(my) - my[p] - my[q] + my'[p] + my'[q]
  <1>1. my \in [Proc -> Nat] /\ my' \in [Proc -> Nat]
    BY DEF TypeOK
  <1> QED BY <1>1, TotalChange2

LEMMA CheatsChange ==
  ASSUME TypeOK, TypeOK', NEW p \in Proc,
         \A x \in Proc \ {p} : cheats'[x] = cheats[x]
  PROVE  Total(cheats') = Total(cheats) - cheats[p] + cheats'[p]
  <1>1. cheats \in [Proc -> Nat] /\ cheats' \in [Proc -> Nat]
    BY DEF TypeOK
  <1> QED BY <1>1, TotalChange

\* The terms of the ledger are numbers.
LEMMA LedgerTypes ==
  ASSUME TypeOK
  PROVE  /\ pipe \in Nat /\ cheatPipe \in Nat /\ drift \in Int
         /\ Total(my) \in Nat /\ Total(cheats) \in Nat
         /\ IsFiniteSet(orphans) /\ Cardinality(orphans) \in Nat
         /\ TopLevel \in Nat
  BY UnitsFinite, FS_Subset, FS_CardinalityType, TopLevelAssumption DEF TypeOK

\* Releasing tokens keeps what is owned and piped, less the cheats.
LEMMA LedgerRelease ==
  ASSUME TypeOK, TypeOK', NEW p \in Proc, NEW k \in Nat, k <= my[p],
         ReleaseDownTo(p, k)
  PROVE  pipe' + Total(my') - Total(cheats') = pipe + Total(my) - Total(cheats)
  <1>1. my[p] \in Nat /\ cheats[p] \in Nat /\ my \in [Proc -> Nat]
          /\ cheats \in [Proc -> Nat]
    BY DEF TypeOK
  <1>2. PICK c \in Nat :
          /\ c <= cheats[p]
          /\ my' = [my EXCEPT ![p] = k]
          /\ cheats' = [cheats EXCEPT ![p] = cheats[p] - c]
          /\ pipe' = pipe + (my[p] - k) - c
    BY ReleaseFacts
  <1>3. Total(my') = Total(my) - my[p] + k
    BY <1>1, <1>2, MyChange
  <1>4. Total(cheats') = Total(cheats) - cheats[p] + (cheats[p] - c)
    BY <1>1, <1>2, CheatsChange
  <1> QED BY <1>1, <1>2, <1>3, <1>4, LedgerTypes

\* Leaving a redo command: what is returned, handed to the cheat pipe, deserted
\* and drifts adds up.
LEMMA LedgerLeave ==
  ASSUME Inv, NEW p \in Proc, LeaveRedo(p)
  PROVE  Ledger'
  <1> DEFINE r == Returned(p)
             n == Cardinality(waitFds[p])
  <1>1. TypeOK /\ Hands /\ Parents /\ Ledger /\ TypeOK'
    BY TypeLeave DEF Inv
  <1>2. /\ my \in [Proc -> Nat] /\ cheats \in [Proc -> Nat]
        /\ my[p] \in Nat /\ cheats[p] \in Nat
    BY <1>1 DEF TypeOK
  <1>3. n \in Nat
    BY <1>1, WaitingFinite
  <1> HIDE DEF n
  <1>4. /\ r.my \in {0, 1}
        /\ r.cheats \in Nat
        /\ r.cheats <= cheats[p]
        /\ r.pipe \in Nat
        /\ r.my + r.pipe - r.cheats = my[p] + pipe - cheats[p] + n
    BY <1>1, <1>3, CreatedFacts DEF Returned, n
  <1>5. Cardinality(orphans') = Cardinality(orphans) + n
    <2>1. orphans' = orphans \cup waitFds[p]
      BY DEF LeaveRedo
    <2>2. IsFiniteSet(orphans) /\ IsFiniteSet(waitFds[p])
      BY <1>1, LedgerTypes, WaitingFinite
    <2>3. orphans \cap waitFds[p] = {}
      BY <1>1 DEF Parents
    <2>4. Cardinality(orphans') = Cardinality(orphans) + n - Cardinality({})
      BY <2>1, <2>2, <2>3, FS_Union DEF n
    <2> QED BY <1>1, <1>3, <2>4, LedgerTypes, FS_EmptySet
  <1>6. Total(cheats') = Total(cheats) - cheats[p]
    <2>1. cheats' = [cheats EXCEPT ![p] = 0]
      BY DEF LeaveRedo
    <2>2. Total(cheats') = Total(cheats) - cheats[p] + 0
      BY <1>1, <1>2, <2>1, CheatsChange
    <2> QED BY <1>1, <1>2, <2>2, LedgerTypes
  <1>7. CASE p = Root
    <2>1. r.cheats = 0 /\ cheats[p] = 0
      BY <1>1, <1>4, <1>7 DEF Hands
    <2>2. pipe' = r.pipe /\ drift' = drift /\ my' = [my EXCEPT ![p] = r.my]
      BY <1>7 DEF LeaveRedo
    <2>3. cheatPipe' = cheatPipe
      BY <1>1, <2>1, LedgerTypes DEF LeaveRedo, r
    <2>4. Total(my') = Total(my) - my[p] + r.my
      BY <1>1, <1>2, <2>2, MyChange
    <2> HIDE DEF r
    <2>5. pipe' + Total(my') = pipe + Total(my) + n
      BY <1>1, <1>2, <1>3, <1>4, <2>1, <2>2, <2>4, LedgerTypes
    <2>6. Total(cheats') = Total(cheats)
      BY <1>1, <1>6, <2>1, LedgerTypes
    <2> QED BY <1>1, <1>3, <1>5, <2>2, <2>3, <2>5, <2>6, LedgerTypes DEF Ledger
  <1>8. CASE p # Root
    <2>1. PICK lost \in {0, r.cheats} :
            /\ pipe' = r.pipe
            /\ cheatPipe' = cheatPipe + r.cheats - lost
            /\ drift' = drift + (1 - r.my) + lost
            /\ my' = [my EXCEPT ![p] = 1]
      BY <1>8 DEF LeaveRedo
    <2>2. Total(my') = Total(my) - my[p] + 1
      BY <1>1, <1>2, <2>1, MyChange
    <2> HIDE DEF r
    <2> QED BY <1>1, <1>2, <1>3, <1>4, <1>5, <1>6, <2>1, <2>2,
               LedgerTypes DEF Ledger
  <1> QED BY <1>7, <1>8

LEMMA LedgerAllJobsDone ==
  ASSUME Inv, NEW p \in Proc,
         WaitAllPending(p) \/ WaitAllReady(p) \/ SelfTestFails(p)
  PROVE  Ledger'
  <1>1. TypeOK /\ Ledger /\ TypeOK'
    BY TypeAllJobsDone DEF Inv
  <1>2. my \in [Proc -> Nat] /\ my[p] \in Nat
    BY <1>1 DEF TypeOK
  <1>3. CASE WaitAllPending(p)
    <2>1. pipe' + Total(my') - Total(cheats') = pipe + Total(my) - Total(cheats)
      BY <1>1, <1>2, <1>3, LedgerRelease DEF WaitAllPending
    <2>3. UNCHANGED <<cheatPipe, orphans, drift>>
      BY <1>3 DEF WaitAllPending
    <2>4. pipe' \in Nat /\ Total(my') \in Nat /\ Total(cheats') \in Nat
      BY <1>1, UnitsFinite DEF TypeOK
    <2>5. /\ Cardinality(orphans') = Cardinality(orphans)
          /\ cheatPipe' = cheatPipe
          /\ drift' = drift
      BY <2>3
    <2> QED BY <1>1, <2>1, <2>4, <2>5, LedgerTypes, SMTT(30) DEF Ledger
  <1>4. CASE WaitAllReady(p) /\ p = Root
    <2>1. /\ pipe' = pipe + my[p]
          /\ cheatPipe' = 0
          /\ drift' = drift + cheatPipe
          /\ my' = [my EXCEPT ![p] = 0]
          /\ UNCHANGED <<cheats, orphans>>
      BY <1>4 DEF WaitAllReady, SelfTest
    <2>2. Total(my') = Total(my) - my[p] + 0
      BY <1>1, <1>2, <2>1, MyChange
    <2> QED BY <1>1, <1>2, <2>1, <2>2, LedgerTypes DEF Ledger
  <1>5. CASE WaitAllReady(p) /\ p # Root
    <2>1. Least(my[p], 1) \in Nat /\ Least(my[p], 1) <= my[p]
      BY <1>2, LeastFacts
    <2>2. pipe' + Total(my') - Total(cheats') = pipe + Total(my) - Total(cheats)
      BY <1>1, <1>5, <2>1, LedgerRelease DEF WaitAllReady
    <2>4. UNCHANGED <<cheatPipe, orphans, drift>>
      BY <1>5 DEF WaitAllReady
    <2>5. pipe' \in Nat /\ Total(my') \in Nat /\ Total(cheats') \in Nat
      BY <1>1, UnitsFinite DEF TypeOK
    <2>6. /\ Cardinality(orphans') = Cardinality(orphans)
          /\ cheatPipe' = cheatPipe
          /\ drift' = drift
      BY <2>4
    <2> QED BY <1>1, <2>2, <2>5, <2>6, LedgerTypes, SMTT(30) DEF Ledger
  <1>6. CASE SelfTestFails(p)
    <2>1. Total(my') = Total(my) - my[p] + 0
      BY <1>1, <1>2, <1>6, MyChange DEF SelfTestFails
    <2> QED BY <1>1, <1>2, <1>6, <2>1, LedgerTypes DEF SelfTestFails, Ledger
  <1> QED BY <1>3, <1>4, <1>5, <1>6

LEMMA LedgerNext == Inv /\ [Next]_vars => Ledger'
  <1> SUFFICES ASSUME Inv, [Next]_vars PROVE Ledger'
    OBVIOUS
  <1>t. TypeOK /\ Hands /\ Answers /\ Parents /\ Ledger /\ TypeOK'
    BY TypeNext DEF Inv
  <1>u. /\ my \in [Proc -> Nat] /\ cheats \in [Proc -> Nat]
        /\ \A p \in Proc : my[p] \in Nat /\ cheats[p] \in Nat
        /\ Job \subseteq Proc
    BY <1>t DEF TypeOK, Proc
  <1>1. ASSUME NEW p \in Proc, NEW j \in Job, Start(p, j)
        PROVE  Ledger'
    <2>1. p # j /\ my[p] = 1 /\ my[j] = 0
      BY <1>1, <1>t DEF Start, Hands
    <2>2. Total(my') = Total(my) - my[p] - my[j] + 0 + 1
      BY <1>1, <1>t, <1>u, <2>1, MyChange2 DEF Start
    <2> QED BY <1>1, <1>t, <2>1, <2>2, LedgerTypes DEF Start, Ledger
  <1>2. ASSUME NEW p \in Proc, StartFails(p)
        PROVE  Ledger'
    <2>1. Total(my') = Total(my) - my[p] + 0
      BY <1>2, <1>t, <1>u, MyChange DEF StartFails
    <2> QED BY <1>2, <1>t, <2>1, LedgerTypes DEF StartFails, Ledger
  <1>3. ASSUME NEW p \in Proc, EnsureToken(p)
        PROVE  Ledger'
    BY <1>3, <1>t DEF EnsureToken, Ledger
  <1>4. ASSUME NEW p \in Proc, WaitAll(p) \/ PollWaitAll(p)
        PROVE  Ledger'
    BY <1>4, LedgerAllJobsDone DEF WaitAll, PollWaitAll
  <1>5. ASSUME NEW p \in Proc, ReleaseMine(p)
        PROVE  Ledger'
    <2>1. my[p] - 1 \in Nat /\ my[p] - 1 <= my[p]
      BY <1>5, <1>u DEF ReleaseMine, HasToken
    <2>2. pipe' + Total(my') - Total(cheats') = pipe + Total(my) - Total(cheats)
      BY <1>5, <1>t, <2>1, LedgerRelease DEF ReleaseMine
    <2>4. pipe' \in Nat /\ Total(my') \in Nat /\ Total(cheats') \in Nat
      BY <1>t, UnitsFinite DEF TypeOK
    <2>5. UNCHANGED <<cheatPipe, orphans, drift>>
      BY <1>5 DEF ReleaseMine
    <2> QED BY <1>t, <2>2, <2>4, <2>5, LedgerTypes DEF Ledger
  <1>6. ASSUME NEW p \in Proc, Leave(p) \/ GrantPanics(p)
        PROVE  Ledger'
    BY <1>6, LedgerLeave DEF Leave, GrantPanics
  <1>7. ASSUME NEW p \in Proc, Select(p)
        PROVE  Ledger'
    BY <1>7, <1>t DEF Select, Ledger
  <1>8. ASSUME NEW p \in Proc, NEW j \in Job, Reap(p, j)
        PROVE  Ledger'
    <2>1. p # j /\ my[j] = 1
      BY <1>8, <1>t DEF Reap, Hands, Answers, Awaits
    <2>2. CASE cheatPipe > 0
      <3>1. Total(my') = Total(my) - my[j] + 0
        BY <1>8, <1>t, <1>u, <2>2, MyChange DEF Reap
      <3> QED BY <1>8, <1>t, <2>1, <2>2, <3>1, LedgerTypes DEF Reap, Ledger
    <2>3. CASE cheatPipe = 0
      <3> DEFINE r == Created(p, 1)
      <3>1. /\ r.my \in Nat
            /\ r.cheats \in Nat
            /\ r.pipe \in Nat
            /\ r.my + r.pipe - r.cheats = my[p] + pipe - cheats[p] + 1
        BY <1>t, CreatedFacts
      <3>2. /\ my' = [my EXCEPT ![p] = r.my, ![j] = 0]
            /\ cheats' = [cheats EXCEPT ![p] = r.cheats]
            /\ pipe' = r.pipe
            /\ UNCHANGED <<cheatPipe, orphans, drift>>
        BY <1>8, <2>3 DEF Reap
      <3> HIDE DEF r
      <3>3. Total(my') = Total(my) - my[p] - my[j] + r.my + 0
        BY <1>t, <1>u, <2>1, <3>2, MyChange2
      <3>4. Total(cheats') = Total(cheats) - cheats[p] + r.cheats
        BY <1>t, <1>u, <3>2, CheatsChange
      <3> QED BY <1>t, <1>u, <2>1, <3>1, <3>2, <3>3, <3>4, LedgerTypes
              DEF Ledger
    <2> QED BY <1>t, <2>2, <2>3, LedgerTypes
  <1>9. ASSUME NEW p \in Proc, ReadToken(p)
        PROVE  Ledger'
    <2>1. Least(pipe, 1) \in Nat
      BY <1>t DEF Least, TypeOK
    <2>2. Total(my') = Total(my) - my[p] + (my[p] + Least(pipe, 1))
      BY <1>9, <1>t, <1>u, <2>1, MyChange DEF ReadToken
    <2> QED BY <1>9, <1>t, <1>u, <2>1, <2>2, LedgerTypes DEF ReadToken, Ledger
  <1>10. ASSUME NEW p \in Proc, Granted(p)
         PROVE  Ledger'
    BY <1>10, <1>t DEF Granted, Ledger
  <1>11. ASSUME NEW p \in Proc, Cheat(p)
         PROVE  Ledger'
    <2>1. Total(my') = Total(my) - my[p] + 1
      BY <1>11, <1>t, <1>u, MyChange DEF Cheat
    <2>2. Total(cheats') = Total(cheats) - cheats[p] + (cheats[p] + 1)
      BY <1>11, <1>t, <1>u, CheatsChange DEF Cheat
    <2> QED BY <1>11, <1>t, <1>u, <2>1, <2>2, LedgerTypes DEF Cheat, Ledger
  <1>12. ASSUME NEW j \in Job, EnterRedo(j)
         PROVE  Ledger'
    BY <1>12, <1>t DEF EnterRedo, Ledger
  <1>13. ASSUME NEW j \in Job, Exit(j) \/ Buried(j)
         PROVE  Ledger'
    <2>1. my[j] = 1
      BY <1>13, <1>t DEF Exit, Buried, Hands
    <2>2. CASE j \in orphans
      <3>1. Total(my') = Total(my) - my[j] + 0
        BY <1>13, <1>t, <1>u, <2>2, MyChange DEF Exit, Buried
      <3>2. Cardinality(orphans') = Cardinality(orphans) - 1
        BY <1>13, <1>t, <2>2, LedgerTypes, FS_RemoveElement DEF Exit, Buried
      <3>3. UNCHANGED <<pipe, cheatPipe, cheats, drift>>
        BY <1>13 DEF Exit, Buried
      <3> QED BY <1>t, <2>1, <3>1, <3>2, <3>3, LedgerTypes DEF Ledger
    <2>3. CASE j \notin orphans
      BY <1>13, <1>t, <2>3 DEF Exit, Buried, Ledger
    <2> QED BY <2>2, <2>3
  <1>14. ASSUME NEW j \in Job, Killed(j)
         PROVE  Ledger'
    <2> DEFINE n == Cardinality(waitFds[j])
    <2>1. n \in Nat /\ IsFiniteSet(waitFds[j])
      BY <1>t, <1>u, WaitingFinite
    <2>2. Cardinality(orphans') = Cardinality(orphans) + n
      <3>1. orphans \cap waitFds[j] = {}
        BY <1>t, <1>u DEF Parents
      <3>2. Cardinality(orphans') = Cardinality(orphans) + n - Cardinality({})
        BY <1>14, <1>t, <2>1, <3>1, LedgerTypes, FS_Union DEF Killed
      <3> QED BY <1>t, <2>1, <3>2, LedgerTypes, FS_EmptySet
    <2>3. Total(my') = Total(my) - my[j] + 1
      BY <1>14, <1>t, <1>u, MyChange DEF Killed
    <2>4. Total(cheats') = Total(cheats) - cheats[j] + 0
      BY <1>14, <1>t, <1>u, CheatsChange DEF Killed
    <2>5. /\ drift' = drift + 1 - my[j] + cheats[j] - n
          /\ UNCHANGED <<pipe, cheatPipe>>
      BY <1>14 DEF Killed
    <2> HIDE DEF n
    <2> QED BY <1>t, <1>u, <2>1, <2>2, <2>3, <2>4, <2>5, LedgerTypes DEF Ledger
  <1>15. CASE UNCHANGED vars
    BY <1>15, <1>t DEF vars, Ledger
  <1> QED
    BY <1>1, <1>2, <1>3, <1>4, <1>5, <1>6, <1>7, <1>8, <1>9, <1>10, <1>11,
       <1>12, <1>13, <1>14, <1>15
    DEF Next, RedoStep, ServerStep, ScriptStep

-----------------------------------------------------------------------------
(* The theorems.                                                           *)

LEMMA InvNext == Inv /\ [Next]_vars => Inv'
  BY TypeNext, HandsNext, AnswersNext, ParentsNext, RestraintNext, LedgerNext
  DEF Inv

\* The invariant of the job server: who owns tokens, what select() reported,
\* who waits for whom and what the tokens add up to, whatever the redo
\* processes call and whoever is killed.
THEOREM InvAlways == Spec => []Inv
  <1> QED BY InvInit, InvNext, PTL DEF Spec

\* The tokens in the pipe and in the processes' hands are those the toplevel
\* set up plus the cheats, the deserted jobs and the drift: no operation of
\* jobserver.rs makes or loses a token in any other way.
THEOREM LedgerAlways == Spec => []Ledger
  <1>1. Inv => Ledger
    BY DEF Inv
  <1> QED BY InvAlways, <1>1, PTL

\* Outside the first wait of ensure_token_or_cheat a process owns at most one
\* token: release_except_mine gives every other one back.
THEOREM NoHoardingAlways == Spec => []NoHoarding
  <1>1. Inv => NoHoarding
    BY DEF Inv
  <1> QED BY InvAlways, <1>1, PTL

\* Once every job is gone, the toplevel's self-test finds the -j value plus
\* the drift.
LEMMA InvIdleBalance == Inv => IdleBalance
  <1> SUFFICES ASSUME Inv, AllJobsGone
               PROVE  pipe + my[Root] - cheatPipe = TopLevel + drift
    BY DEF IdleBalance
  <1>1. TypeOK /\ Hands /\ Parents /\ Ledger
    BY DEF Inv
  <1>2. \A j \in Job : my[j] = 0 /\ cheats[j] = 0
    BY <1>1 DEF AllJobsGone, Hands, InRedo, Awaits, Proc
  <1>3. orphans = {}
    BY <1>1 DEF AllJobsGone, Parents, Alive, TypeOK
  <1>4. my \in [Proc -> Nat] /\ cheats \in [Proc -> Nat] /\ Root \in Proc
    BY <1>1 DEF TypeOK, Proc
  <1>5. Proc \ {Root} \subseteq Job
    BY DEF Proc
  <1>6. Total(my) = my[Root]
    BY <1>2, <1>4, <1>5, TotalSingle
  <1>7. Total(cheats) = cheats[Root] /\ cheats[Root] = 0
    BY <1>1, <1>2, <1>4, <1>5, TotalSingle DEF Hands
  <1>8. Cardinality(orphans) = 0
    BY <1>3, FS_EmptySet
  <1>9. my[Root] \in Nat
    BY <1>4
  <1> QED BY <1>1, <1>6, <1>7, <1>8, <1>9, LedgerTypes DEF Ledger

THEOREM IdleBalanceAlways == Spec => []IdleBalance
  <1> QED BY InvAlways, InvIdleBalance, PTL

\* Scripts that work at the same time never outnumber the -j value by more
\* than the cheats, the deserted jobs and the drift: each owns a token, and
\* the tokens are counted by the ledger.
LEMMA InvBoundedParallelism == Inv => BoundedParallelism
  <1> SUFFICES ASSUME Inv PROVE BoundedParallelism
    OBVIOUS
  <1>1. TypeOK /\ Hands /\ Ledger
    BY DEF Inv
  <1>2. my \in [Proc -> Nat]
    BY <1>1 DEF TypeOK
  <1>3. Working \subseteq Proc
    BY DEF Working, Proc
  <1>4. \A j \in Working : my[j] >= 1
    BY <1>1 DEF Working, Hands
  <1>5. IsFiniteSet(Working) /\ Cardinality(Working) <= Total(my)
    BY <1>2, <1>3, <1>4, OwnersBounded
  <1>6. Cardinality(Working) \in Nat
    BY <1>5, FS_CardinalityType
  <1> QED BY <1>1, <1>5, <1>6, LedgerTypes DEF Ledger, BoundedParallelism

THEOREM ParallelismBounded == Spec => []BoundedParallelism
  <1> QED BY InvAlways, InvBoundedParallelism, PTL
=============================================================================
