--------------------------- MODULE DirtinessProofs ---------------------------
(***************************************************************************)
(* What the walk of private_is_dirty() leaves alone, and what it decides,  *)
(* for every database and every graph of dependencies.                     *)
(***************************************************************************)
EXTENDS Dirtiness, WellFoundedInduction, FiniteSetTheorems, TLAPS

----------------------------------------------------------------------------
(* Induction, and recursion on a rank.                                     *)

LessThan == {p \in Nat \X Nat : p[1] < p[2]}

\* No infinite descent among the natural numbers.
LEMMA LessThanWF == IsWellFoundedOn(LessThan, Nat)
  <1>1. LessThan = OpToRel(<, Nat)
    BY DEF LessThan, OpToRel
  <1> QED BY <1>1, NatLessThanWellFounded

\* A set of natural numbers has a least element.
LEMMA LeastOf ==
  ASSUME NEW S, S \subseteq Nat, S # {}
  PROVE  \E n \in S : \A m \in S : n <= m
  <1>1. PICK n \in S : \A m \in S : <<m, n>> \notin LessThan
    BY LessThanWF, WFMin
  <1>2. ASSUME NEW m \in S PROVE n <= m
    <2>1. <<m, n>> \notin LessThan /\ m \in Nat /\ n \in Nat
      BY <1>1
    <2>2. ~(m < n)
      BY <2>1 DEF LessThan
    <2> QED BY <2>1, <2>2
  <1> QED BY <1>2

\* Induction, for a set in place of a predicate.
LEMMA SetInduction ==
  ASSUME NEW S, 0 \in S, \A n \in Nat : n \in S => n + 1 \in S
  PROVE  Nat \subseteq S
  <1>1. SUFFICES ASSUME Nat \ S # {} PROVE FALSE
    OBVIOUS
  <1>2. PICK n \in Nat \ S : \A m \in Nat \ S : n <= m
    BY <1>1, LeastOf
  <1>3. n # 0 /\ n - 1 \in Nat /\ ~(n <= n - 1)
    BY <1>2
  <1>4. n - 1 \in S
    BY <1>2, <1>3
  <1>5. (n - 1) + 1 \in S
    BY <1>3, <1>4
  <1>6. (n - 1) + 1 = n
    BY <1>2
  <1> QED BY <1>2, <1>5, <1>6

\* What body makes of f at v depends only on the values of f at lower ranks, of
\* which there are finitely many.
Ranked(V, A, N, rank, body) ==
    /\ A # {} /\ N \in Nat
    /\ rank \in [V -> 0..N]
    /\ body \in [V \X [V -> A] -> A]
    /\ \A v \in V : \A f, g \in [V -> A] :
          (\A u \in V : rank[u] < rank[v] => f[u] = g[u])
             => body[<<v, f>>] = body[<<v, g>>]

\* A function may be defined by recursion, where its value at v depends only on
\* its values at places of a lower rank.
LEMMA RankRecursion ==
  ASSUME NEW V, NEW A, NEW N, NEW rank, NEW body, Ranked(V, A, N, rank, body)
  PROVE  \E f \in [V -> A] : \A v \in V : f[v] = body[<<v, f>>]
  <1> DEFINE Upto(f, n) == \A v \in V : rank[v] < n => f[v] = body[<<v, f>>]
             S == {n \in Nat : \E f \in [V -> A] : Upto(f, n)}
  <1>0. /\ A # {} /\ N \in Nat
        /\ rank \in [V -> 0..N]
        /\ body \in [V \X [V -> A] -> A]
    BY DEF Ranked
  <1>1. 0 \in S
    <2>1. PICK a : a \in A
      BY <1>0
    <2>2. [v \in V |-> a] \in [V -> A]
      BY <2>1
    <2>3. \A v \in V : ~(rank[v] < 0)
      BY <1>0
    <2>4. Upto([v \in V |-> a], 0)
      BY <2>3
    <2> QED BY <2>2, <2>4
  <1>2. ASSUME NEW n \in Nat, n \in S PROVE n + 1 \in S
    <2>1. PICK f \in [V -> A] : Upto(f, n)
      BY <1>2
    <2> DEFINE g == [v \in V |-> body[<<v, f>>]]
    <2>2. g \in [V -> A]
      BY <1>0
    <2>3. \A v \in V : rank[v] < n => g[v] = f[v]
      BY <2>1
    <2> HIDE DEF g
    <2>4. ASSUME NEW v \in V, rank[v] < n + 1 PROVE g[v] = body[<<v, g>>]
      <3>1. \A u \in V : rank[u] < rank[v] => f[u] = g[u]
        BY <1>0, <2>3, <2>4
      <3>2. body[<<v, f>>] = body[<<v, g>>]
        BY <2>2, <3>1 DEF Ranked
      <3>3. g[v] = body[<<v, f>>]
        BY DEF g
      <3> QED BY <3>2, <3>3
    <2>5. Upto(g, n + 1)
      BY <2>4
    <2> QED BY <2>2, <2>5
  <1>3. N + 1 \in S
    <2> HIDE DEF S
    <2> QED BY <1>0, <1>1, <1>2, SetInduction
  <1>4. PICK f \in [V -> A] : Upto(f, N + 1)
    BY <1>3
  <1>5. \A v \in V : rank[v] < N + 1
    BY <1>0
  <1> QED BY <1>4, <1>5

----------------------------------------------------------------------------
(* Loops.                                                                  *)

\* The order of the rows.
LEMMA OrderFacts ==
  /\ Len(Order) \in Nat
  /\ \A i \in 1..Len(Order) : Order[i] \in Names
  /\ IsFiniteSet(Names)
  <1>1. Order \in Seq(STRING)
    BY OrderAssumption
  <1>2. Len(Order) \in Nat /\ DOMAIN Order = 1..Len(Order)
    BY <1>1
  <1>3. IsFiniteSet(1..Len(Order))
    BY <1>2, FS_Interval
  <1>4. IsFiniteSet(Names)
    <2> DEFINE f == [i \in 1..Len(Order) |-> Order[i]]
    <2>1. f \in Surjection(1..Len(Order), Names)
      BY <1>2 DEF Names, Surjection
    <2> QED BY <1>3, <2>1, FS_Surjection
  <1> QED BY <1>2, <1>4 DEF Names

LEMMA LoopSteps ==
  ASSUME NEW A, NEW start \in A, NEW step \in [Names -> [A -> A]]
  PROVE  \E w \in [0..Len(Order) -> A] :
            /\ w[0] = start
            /\ \A i \in 1..Len(Order) : w[i] = step[Order[i]][w[i - 1]]
            /\ Loop(start, step) = w[Len(Order)]
  <1> DEFINE L == Len(Order)
             V == 0..L
             rank == [i \in V |-> i]
             Def(i, f) == IF i = 0 THEN start ELSE step[Order[i]][f[i - 1]]
             body == [p \in V \X [V -> A] |-> Def(p[1], p[2])]
             Is(f) == f = [i \in V |-> Def(i, f)]
             chosen == CHOOSE f : Is(f)
  <1>1. L \in Nat /\ \A i \in V : i # 0 => i - 1 \in V /\ Order[i] \in Names
    BY OrderFacts
  <1> HIDE DEF L
  <1>2. \A i \in V : \A f \in [V -> A] : Def(i, f) \in A
    BY <1>1
  <1> HIDE DEF Def
  <1>3. body \in [V \X [V -> A] -> A] /\ rank \in [V -> 0..L]
    BY <1>2
  <1>4. \A i \in V : \A f \in [V -> A] : body[<<i, f>>] = Def(i, f)
    OBVIOUS
  <1> HIDE DEF body
  <1>5. ASSUME NEW i \in V, NEW f \in [V -> A], NEW g \in [V -> A],
               \A u \in V : rank[u] < rank[i] => f[u] = g[u]
        PROVE  body[<<i, f>>] = body[<<i, g>>]
    <2>1. i # 0 => f[i - 1] = g[i - 1]
      BY <1>1, <1>5
    <2>2. Def(i, f) = Def(i, g)
      BY <2>1 DEF Def
    <2> QED BY <2>2, <1>4
  <1>6. \E f \in [V -> A] : \A i \in V : f[i] = body[<<i, f>>]
    <2>1. A # {} /\ L \in Nat
      BY <1>1
    <2> HIDE DEF V, rank
    <2>2. Ranked(V, A, L, rank, body)
      BY <1>3, <1>5, <2>1 DEF Ranked
    <2> QED BY <2>2, RankRecursion
  <1>7. PICK f \in [V -> A] : \A i \in V : f[i] = Def(i, f)
    BY <1>4, <1>6
  <1>8. Is(f)
    BY <1>7
  <1>9. Is(chosen)
    <2> HIDE DEF Is
    <2> QED BY <1>8
  <1>10. Loop(start, step) = chosen[L]
    BY DEF Loop, L, Def
  <1> HIDE DEF chosen
  <1> DEFINE T == {n \in Nat : n \in V => chosen[n] \in A}
  <1>11. \A i \in V : chosen[i] = Def(i, chosen)
    BY <1>9
  <1>12. 0 \in T
    BY <1>11 DEF Def
  <1>13. ASSUME NEW n \in Nat, n \in T PROVE n + 1 \in T
    <2>1. n + 1 \in V => n \in V /\ n + 1 # 0 /\ (n + 1) - 1 = n /\ Order[n + 1] \in Names
      BY <1>1
    <2>2. n + 1 \in V => chosen[n + 1] = step[Order[n + 1]][chosen[n]]
      BY <1>11, <2>1 DEF Def
    <2> QED BY <1>13, <2>1, <2>2
  <1>14. Nat \subseteq T
    <2> HIDE DEF T
    <2> QED BY <1>12, <1>13, SetInduction
  <1>15. \A i \in V : chosen[i] \in A
    BY <1>1, <1>14
  <1>16. chosen = [i \in V |-> chosen[i]]
    BY <1>9
  <1>17. chosen \in [V -> A]
    BY <1>15, <1>16
  <1>18. chosen[0] = start /\ \A i \in 1..L : chosen[i] = step[Order[i]][chosen[i - 1]]
    <2>1. 0 \in V /\ \A i \in 1..L : i \in V /\ i # 0
      BY <1>1
    <2> HIDE DEF V
    <2> QED BY <1>11, <2>1 DEF Def
  <1> QED BY <1>10, <1>17, <1>18 DEF L
----------------------------------------------------------------------------
(* What a walk does to the rows.                                           *)

\* What a row keeps of an earlier one, whatever walks have written since.
Kept(old, new, now) ==
    /\ new.override = old.override
    /\ new.stamp = old.stamp
    /\ new.csum = old.csum
    /\ new.generated # old.generated => ~new.generated /\ now = Missing
    /\ new.failed \in {old.failed, 0}

\* Visits and answers that keep what each of the databases B had.  If B is
\* empty, these are all visits and answers.
VisitsFrom(B, disk) ==
    {v \in Visits : \A b \in B : /\ \A n \in Names : Kept(b[n], v.db[n], disk[n].stamp)
                                /\ Kept(b[v.t], v.f, disk[v.t].stamp)}

AnswersFrom(B, disk) ==
    {a \in Answers : \A b \in B : /\ \A n \in Names : Kept(b[n], a.db[n], disk[n].stamp)
                                 /\ \A n \in a.need : b[n].csum # {}}

Deeper(v) == {u \in Visits : v.t \notin v.seen /\ u.seen = v.seen \cup {v.t}}

LEMMA FromNothing ==
  ASSUME NEW disk
  PROVE  VisitsFrom({}, disk) = Visits /\ AnswersFrom({}, disk) = Answers
  BY DEF VisitsFrom, AnswersFrom

LEMMA VisitFields ==
  ASSUME NEW v \in Visits
  PROVE  /\ v.t \in Names /\ v.f \in Row /\ v.max \in Int /\ v.seen \subseteq Names
         /\ v.db \in [Names -> Row] /\ v.cache \subseteq Names
  BY DEF Visits

LEMMA AnswerFields ==
  ASSUME NEW a \in Answers
  PROVE  /\ a.is \in Verdicts /\ a.need \subseteq Names
         /\ a.db \in [Names -> Row] /\ a.cache \subseteq Names
  BY DEF Answers

LEMMA RowFields ==
  ASSUME NEW f \in Row
  PROVE  /\ f.generated \in BOOLEAN /\ f.override \in BOOLEAN /\ f.checked \in RunIds
         /\ f.changed \in RunIds /\ f.failed \in RunIds /\ f.stamp \in RunIds
         /\ f.csum \in Content
  BY DEF Row

LEMMA RunIdFacts == RunIds \subseteq Int /\ 0 \in RunIds /\ None \in RunIds /\ Nat \subseteq RunIds
  BY DEF RunIds, None

\* An answer with the database and cache of a visit or an answer.
LEMMA AnswerFrom ==
  ASSUME NEW B, NEW disk, NEW is \in Verdicts, NEW need \in SUBSET Names,
         NEW at \in VisitsFrom(B, disk) \cup AnswersFrom(B, disk),
         \A b \in B : \A n \in need : b[n].csum # {}
  PROVE  Answer(is, need, at) \in AnswersFrom(B, disk)
  <1>1. /\ at.db \in [Names -> Row] /\ at.cache \subseteq Names
        /\ \A b \in B : \A n \in Names : Kept(b[n], at.db[n], disk[n].stamp)
    BY VisitFields, AnswerFields DEF VisitsFrom, AnswersFrom
  <1>2. Answer(is, need, at) \in Answers
    BY <1>1 DEF Answer, Answers
  <1>3. Answer(is, need, at).db = at.db /\ Answer(is, need, at).need = need
    BY DEF Answer
  <1> QED BY <1>1, <1>2, <1>3 DEF AnswersFrom

LEMMA FromColsRow ==
  ASSUME NEW f \in Row, NEW s, NEW r \in Nat
  PROVE  FromCols(s, f, r) \in Row /\ \A now : Kept(f, FromCols(s, f, r), now)
  BY RunIdFacts DEF Row, FromCols, Kept

LEMMA SetCheckedRow ==
  ASSUME NEW f \in Row, NEW r \in Nat
  PROVE  SetChecked(f, r) \in Row /\ \A now : Kept(f, SetChecked(f, r), now)
  BY RunIdFacts DEF Row, SetChecked, Kept

LEMMA KeptOn ==
  ASSUME NEW a \in Row, NEW b \in Row, NEW c \in Row, NEW now,
         Kept(a, b, now), Kept(b, c, now)
  PROVE  Kept(a, c, now)
  BY DEF Kept

LEMMA ForgetFrom ==
  ASSUME NEW B \in SUBSET [Names -> Row], NEW disk, NEW v \in VisitsFrom(B, disk)
  PROVE  LET u == Forget(v, disk[v.t].stamp)
         IN u \in VisitsFrom(B, disk) /\ u.t = v.t /\ u.f = v.f
  <1> DEFINE now == disk[v.t].stamp
             g == [v.f EXCEPT !.generated = FALSE, !.failed = 0]
             w == [v EXCEPT !.db[v.t] = g]
  <1>1. v \in Visits
    BY DEF VisitsFrom
  <1>2. g \in Row /\ (now = Missing /\ v.f.generated => Kept(v.f, g, now))
    BY <1>1, VisitFields, RunIdFacts DEF Row, Kept
  <1> HIDE DEF g
  <1>3. w \in Visits /\ w.t = v.t /\ w.f = v.f /\ w.db = [v.db EXCEPT ![v.t] = g]
    BY <1>1, <1>2 DEF Visits
  <1>4. ASSUME NEW b \in B, NEW n \in Names, now = Missing, v.f.generated
        PROVE  Kept(b[n], w.db[n], disk[n].stamp)
    <2>1. Kept(b[n], v.db[n], disk[n].stamp) /\ Kept(b[v.t], v.f, disk[v.t].stamp)
      BY <1>4 DEF VisitsFrom
    <2>2. b[n] \in Row /\ v.f \in Row /\ v.t \in Names /\ v.db \in [Names -> Row]
      BY <1>1, VisitFields
    <2>3. CASE n = v.t
      <3>1. w.db[n] = g
        BY <1>3, <2>2, <2>3
      <3>2. Kept(b[v.t], v.f, now) /\ Kept(v.f, g, now) /\ b[v.t] \in Row
        BY <1>2, <1>4, <2>1, <2>2, <2>3
      <3>3. Kept(b[v.t], g, now)
        BY <1>2, <2>2, <3>2, KeptOn
      <3> QED BY <2>3, <3>1, <3>3
    <2>4. CASE n # v.t
      <3>1. w.db[n] = v.db[n]
        BY <1>3, <2>2, <2>4
      <3> QED BY <2>1, <3>1
    <2> QED BY <2>3, <2>4
  <1>5. ASSUME NEW b \in B, now = Missing, v.f.generated
        PROVE  Kept(b[w.t], w.f, disk[w.t].stamp)
    BY <1>3, <1>5 DEF VisitsFrom
  <1>6. now = Missing /\ v.f.generated => w \in VisitsFrom(B, disk)
    BY <1>3, <1>4, <1>5 DEF VisitsFrom
  <1>7. Forget(v, now) = IF now = Missing /\ v.f.generated THEN w ELSE v
    BY DEF Forget, g
  <1> HIDE DEF w
  <1> QED BY <1>3, <1>6, <1>7

LEMMA DirtySelfFrom ==
  ASSUME NEW B, NEW disk, NEW v \in VisitsFrom(B, disk), NEW at \in VisitsFrom(B, disk) \cup AnswersFrom(B, disk)
  PROVE  DirtySelf(v, at) \in AnswersFrom(B, disk)
  <1>1. v.t \in Names /\ \A b \in B : b[v.t].csum = v.f.csum
    BY VisitFields DEF VisitsFrom, Kept
  <1>2. v.f.csum # {} => Answer("need", {v.t}, at) \in AnswersFrom(B, disk)
    BY <1>1, AnswerFrom DEF Verdicts
  <1>3. Answer("dirty", {}, at) \in AnswersFrom(B, disk)
    BY AnswerFrom DEF Verdicts
  <1> QED BY <1>2, <1>3 DEF DirtySelf

LEMMA RememberFrom ==
  ASSUME NEW B \in SUBSET [Names -> Row], NEW disk, NEW v \in VisitsFrom(B, disk), NEW so \in AnswersFrom(B, disk),
         NEW r \in Nat, NEW ood
  PROVE  Remember(v, so, r, ood) \in AnswersFrom(B, disk)
  <1> DEFINE g == SetChecked(v.f, r)
             a == [so EXCEPT !.cache = @ \cup {v.t}]
             c == [so EXCEPT !.db[v.t] = g]
  <1>1. v \in Visits /\ so \in Answers /\ v.t \in Names /\ v.f \in Row
    BY VisitFields DEF VisitsFrom, AnswersFrom
  <1>2. g \in Row /\ Kept(v.f, g, disk[v.t].stamp)
    BY <1>1, SetCheckedRow
  <1> HIDE DEF g
  <1>3. a \in Answers /\ a.db = so.db /\ a.need = so.need
    BY <1>1 DEF Answers
  <1>4. c \in Answers /\ c.db = [so.db EXCEPT ![v.t] = g] /\ c.need = so.need
    BY <1>1, <1>2 DEF Answers
  <1>5. ASSUME NEW b \in B, NEW n \in Names PROVE Kept(b[n], c.db[n], disk[n].stamp)
    <2>1. Kept(b[n], so.db[n], disk[n].stamp) /\ Kept(b[v.t], v.f, disk[v.t].stamp)
      BY <1>5 DEF VisitsFrom, AnswersFrom
    <2>2. b[n] \in Row /\ so.db \in [Names -> Row]
      BY <1>1, AnswerFields
    <2>3. CASE n = v.t
      <3>1. c.db[n] = g
        BY <1>1, <1>4, <2>2, <2>3
      <3> QED BY <1>1, <1>2, <2>1, <2>2, <2>3, <3>1, KeptOn
    <2>4. CASE n # v.t
      <3>1. c.db[n] = so.db[n]
        BY <1>4, <2>2, <2>4
      <3> QED BY <2>1, <3>1
    <2> QED BY <2>3, <2>4
  <1>6. c \in AnswersFrom(B, disk)
    BY <1>4, <1>5 DEF AnswersFrom
  <1>7. a \in AnswersFrom(B, disk)
    BY <1>3 DEF AnswersFrom
  <1> QED BY <1>6, <1>7 DEF Remember, g
----------------------------------------------------------------------------
(* One visit, given the answers of those below it.                         *)

Child(v, s, so, r) ==
    [t |-> s, f |-> FromCols(s, v.db[s], r), max |-> Later(v.f.changed, v.f.checked),
     seen |-> v.seen \cup {v.t}, db |-> so.db, cache |-> so.cache]

LEMMA ChildFrom ==
  ASSUME NEW B \in SUBSET [Names -> Row], NEW disk, NEW v \in VisitsFrom(B, disk), NEW so \in AnswersFrom(B, disk),
         NEW s \in Names, NEW r \in Nat, v.t \notin v.seen
  PROVE  Child(v, s, so, r) \in VisitsFrom(B, disk) \cap Deeper(v)
  <1> DEFINE c == Child(v, s, so, r)
  <1>1. v \in Visits /\ so \in Answers
    BY DEF VisitsFrom, AnswersFrom
  <1>2. v.db[s] \in Row /\ v.f \in Row /\ v.t \in Names /\ v.seen \subseteq Names
    BY <1>1, VisitFields
  <1>3. FromCols(s, v.db[s], r) \in Row /\ Kept(v.db[s], FromCols(s, v.db[s], r), disk[s].stamp)
    BY <1>2, FromColsRow
  <1>4. Later(v.f.changed, v.f.checked) \in Int
    BY <1>2, RowFields, RunIdFacts DEF Later
  <1>5. so.db \in [Names -> Row] /\ so.cache \subseteq Names
    BY <1>1, AnswerFields
  <1>6. c \in Visits
    BY <1>2, <1>3, <1>4, <1>5 DEF Child, Visits
  <1>7. c.t = s /\ c.f = FromCols(s, v.db[s], r) /\ c.db = so.db /\ c.seen = v.seen \cup {v.t}
    BY DEF Child
  <1>8. ASSUME NEW b \in B PROVE (\A n \in Names : Kept(b[n], c.db[n], disk[n].stamp)) /\ Kept(b[c.t], c.f, disk[c.t].stamp)
    <2>1. \A n \in Names : Kept(b[n], so.db[n], disk[n].stamp) /\ Kept(b[n], v.db[n], disk[n].stamp)
      BY <1>8 DEF VisitsFrom, AnswersFrom
    <2>2. b[s] \in Row
      BY <1>8
    <2>3. Kept(b[s], FromCols(s, v.db[s], r), disk[s].stamp)
      BY <1>2, <1>3, <2>1, <2>2, KeptOn
    <2> QED BY <1>7, <2>1, <2>3
  <1> QED BY <1>6, <1>7, <1>8 DEF VisitsFrom, Deeper

LEMMA AskFrom ==
  ASSUME NEW B \in SUBSET [Names -> Row], NEW disk, NEW v \in VisitsFrom(B, disk), NEW so \in AnswersFrom(B, disk),
         NEW s \in Names, NEW r \in Nat, v.t \notin v.seen, NEW deps,
         NEW told, \A u \in VisitsFrom(B, disk) \cap Deeper(v) : told[u] \in AnswersFrom(B, disk)
  PROVE  Ask(v, s, so, deps, disk, r, told) \in AnswersFrom(B, disk)
  <1>1. told[Child(v, s, so, r)] \in AnswersFrom(B, disk)
    BY ChildFrom
  <1>2. Answer("dirty", {}, so) \in AnswersFrom(B, disk) /\ Answer("clean", {}, so) \in AnswersFrom(B, disk)
    BY AnswerFrom DEF Verdicts
  <1> QED BY <1>1, <1>2 DEF Ask, Child

LEMMA CombineFrom ==
  ASSUME NEW B \in SUBSET [Names -> Row], NEW disk, NEW v \in VisitsFrom(B, disk), NEW so \in AnswersFrom(B, disk),
         NEW sub \in AnswersFrom(B, disk)
  PROVE  Combine(v, so, sub) \in AnswersFrom(B, disk)
  <1>1. /\ so.need \subseteq Names /\ sub.need \subseteq Names /\ sub.is \in Verdicts
        /\ \A b \in B : \A n \in so.need \cup sub.need : b[n].csum # {}
    BY AnswerFields DEF AnswersFrom
  <1>2. DirtySelf(v, sub) \in AnswersFrom(B, disk)
    BY DirtySelfFrom
  <1>3. Answer("clean", so.need \cup sub.need, sub) \in AnswersFrom(B, disk)
    BY <1>1, AnswerFrom DEF Verdicts
  <1>4. Answer(sub.is, so.need, sub) \in AnswersFrom(B, disk)
    BY <1>1, AnswerFrom
  <1> QED BY <1>2, <1>3, <1>4 DEF Combine

LEMMA StepAt ==
  ASSUME NEW v \in Visits, v.t \notin v.seen, NEW deps, NEW disk, NEW r \in Nat,
         NEW told, \A u \in Deeper(v) : told[u] \in Answers,
         NEW s \in Names, NEW so \in Answers
  PROVE  DepStep(v, deps, disk, r, told)[s][so]
           = IF so.is = "clean" /\ s \in {d.source : d \in DepsOf(deps, v.t, v.f)}
             THEN Combine(v, so, Ask(v, s, so, deps, disk, r, told)) ELSE so
  <1> DEFINE ask == Ask(v, s, so, deps, disk, r, told)
  <1>1. ask \in Answers
    BY FromNothing, AskFrom DEF Deeper
  <1> HIDE DEF ask
  <1>2. [sub \in Answers |-> Combine(v, so, sub)][ask] = Combine(v, so, ask)
    BY <1>1
  <1> QED BY <1>2 DEF DepStep, ask

LEMMA StepFrom ==
  ASSUME NEW B \in SUBSET [Names -> Row], NEW disk, NEW v \in VisitsFrom(B, disk), v.t \notin v.seen,
         NEW deps, NEW r \in Nat,
         NEW told, \A u \in Deeper(v) : told[u] \in Answers,
         \A u \in VisitsFrom(B, disk) \cap Deeper(v) : told[u] \in AnswersFrom(B, disk),
         NEW s \in Names, NEW so \in AnswersFrom(B, disk)
  PROVE  DepStep(v, deps, disk, r, told)[s][so] \in AnswersFrom(B, disk)
  <1>1. v \in Visits /\ so \in Answers
    BY DEF VisitsFrom, AnswersFrom
  <1>2. Combine(v, so, Ask(v, s, so, deps, disk, r, told)) \in AnswersFrom(B, disk)
    BY AskFrom, CombineFrom
  <1> QED BY <1>1, <1>2, StepAt

LEMMA StepType ==
  ASSUME NEW v \in Visits, v.t \notin v.seen, NEW deps, NEW disk, NEW r \in Nat,
         NEW told, \A u \in Deeper(v) : told[u] \in Answers
  PROVE  DepStep(v, deps, disk, r, told) \in [Names -> [Answers -> Answers]]
  <1> DEFINE step == DepStep(v, deps, disk, r, told)
             at(s) == [so \in Answers |-> step[s][so]]
  <1>1. \A s \in Names : \A so \in Answers : step[s][so] \in Answers
    BY FromNothing, StepFrom
  <1>2. step = [s \in Names |-> at(s)]
    BY DEF DepStep
  <1>3. \A s \in Names : at(s) \in [Answers -> Answers]
    BY <1>1
  <1> HIDE DEF step, at
  <1>4. step \in [Names -> [Answers -> Answers]]
    BY <1>2, <1>3
  <1> QED BY <1>4 DEF step

LEMMA WalkFrom ==
  ASSUME NEW B \in SUBSET [Names -> Row], NEW disk, NEW v \in VisitsFrom(B, disk), v.t \notin v.seen,
         NEW deps, NEW r \in Nat,
         NEW told, \A u \in Deeper(v) : told[u] \in Answers,
         \A u \in VisitsFrom(B, disk) \cap Deeper(v) : told[u] \in AnswersFrom(B, disk)
  PROVE  WalkDeps(v, deps, disk, r, told) \in AnswersFrom(B, disk)
  <1> DEFINE start == Answer("clean", {}, v)
             step == DepStep(v, deps, disk, r, told)
  <1>1. v \in Visits
    BY DEF VisitsFrom
  <1>2. start \in AnswersFrom(B, disk) /\ start \in Answers
    BY AnswerFrom DEF Verdicts, AnswersFrom
  <1>3. step \in [Names -> [Answers -> Answers]]
    BY <1>1, StepType
  <1>4. \A s \in Names : \A so \in AnswersFrom(B, disk) : step[s][so] \in AnswersFrom(B, disk)
    BY StepFrom
  <1>5. WalkDeps(v, deps, disk, r, told) = Loop(start, step)
    BY DEF WalkDeps
  <1> HIDE DEF start, step
  <1>6. PICK w \in [0..Len(Order) -> Answers] :
            /\ w[0] = start
            /\ \A i \in 1..Len(Order) : w[i] = step[Order[i]][w[i - 1]]
            /\ Loop(start, step) = w[Len(Order)]
    BY <1>2, <1>3, LoopSteps
  <1> DEFINE T == {n \in Nat : n <= Len(Order) => w[n] \in AnswersFrom(B, disk)}
  <1>7. 0 \in T
    BY <1>2, <1>6
  <1>8. ASSUME NEW n \in Nat, n \in T PROVE n + 1 \in T
    <2>1. SUFFICES ASSUME n + 1 <= Len(Order) PROVE w[n + 1] \in AnswersFrom(B, disk)
      OBVIOUS
    <2>2. n + 1 \in 1..Len(Order) /\ n <= Len(Order) /\ (n + 1) - 1 = n
      BY <2>1, OrderFacts
    <2>3. w[n + 1] = step[Order[n + 1]][w[n]] /\ Order[n + 1] \in Names
      BY <1>6, <2>2, OrderFacts
    <2>4. w[n] \in AnswersFrom(B, disk)
      BY <1>8, <2>2
    <2> QED BY <1>4, <2>3, <2>4
  <1>9. Nat \subseteq T
    <2> HIDE DEF T
    <2> QED BY <1>7, <1>8, SetInduction
  <1>10. w[Len(Order)] \in AnswersFrom(B, disk)
    BY <1>9, OrderFacts
  <1> QED BY <1>5, <1>6, <1>10

LEMMA VisitOneFrom ==
  ASSUME NEW B \in SUBSET [Names -> Row], NEW disk, NEW v \in VisitsFrom(B, disk),
         NEW deps, NEW r \in Nat, NEW ood,
         NEW told, \A u \in Deeper(v) : told[u] \in Answers,
         \A u \in VisitsFrom(B, disk) \cap Deeper(v) : told[u] \in AnswersFrom(B, disk)
  PROVE  VisitOne(v, deps, disk, r, ood, told) \in AnswersFrom(B, disk)
  <1> DEFINE so == WalkDeps(v, deps, disk, r, told)
             one == VisitOne(v, deps, disk, r, ood, told)
             forgot == Forget(v, disk[v.t].stamp)
  <1>1. \A is \in {"clean", "dirty", "cycle"} : Answer(is, {}, v) \in AnswersFrom(B, disk)
    BY AnswerFrom DEF Verdicts
  <1>2. DirtySelf(v, forgot) \in AnswersFrom(B, disk)
    BY ForgetFrom, DirtySelfFrom
  <1>3. ASSUME v.t \notin v.seen PROVE Conclude(v, so, r, ood) \in AnswersFrom(B, disk)
    <2>1. so \in AnswersFrom(B, disk)
      BY <1>3, WalkFrom
    <2> HIDE DEF so
    <2>2. Remember(v, so, r, ood) \in AnswersFrom(B, disk)
      BY <2>1, RememberFrom
    <2>3. Answer("clean", {}, Remember(v, so, r, ood)) \in AnswersFrom(B, disk)
      BY <2>2, AnswerFrom DEF Verdicts
    <2>4. Answer("need", so.need, so) \in AnswersFrom(B, disk)
      <3>1. so \in Answers /\ \A b \in B : \A n \in so.need : b[n].csum # {}
        BY <2>1 DEF AnswersFrom
      <3>2. so.need \in SUBSET Names /\ "need" \in Verdicts
        BY <3>1, AnswerFields DEF Verdicts
      <3> QED BY <2>1, <3>1, <3>2, AnswerFrom
    <2> QED BY <2>1, <2>3, <2>4 DEF Conclude
  <1>4. \/ one \in {Answer(is, {}, v) : is \in {"clean", "dirty", "cycle"}}
        \/ one = DirtySelf(v, forgot)
        \/ v.t \notin v.seen /\ one = Conclude(v, so, r, ood)
    BY DEF VisitOne
  <1> HIDE DEF one, so, forgot
  <1>5. one \in AnswersFrom(B, disk)
    BY <1>1, <1>2, <1>3, <1>4
  <1> QED BY <1>5 DEF one

\* A visit only asks those one level below.
LEMMA VisitOneLocal ==
  ASSUME NEW v \in Visits, NEW deps, NEW disk, NEW r \in Nat, NEW ood,
         NEW f \in [Visits -> Answers], NEW g \in [Visits -> Answers],
         \A u \in Deeper(v) : f[u] = g[u]
  PROVE  VisitOne(v, deps, disk, r, ood, f) = VisitOne(v, deps, disk, r, ood, g)
  <1>1. CASE v.t \in v.seen
    BY <1>1 DEF VisitOne
  <1>2. CASE v.t \notin v.seen
    <2>1. ASSUME NEW s \in Names, NEW so \in Answers
          PROVE  Ask(v, s, so, deps, disk, r, f) = Ask(v, s, so, deps, disk, r, g)
      <3>1. Child(v, s, so, r) \in Deeper(v)
        BY <1>2, ChildFrom, FromNothing
      <3>2. f[Child(v, s, so, r)] = g[Child(v, s, so, r)]
        BY <3>1
      <3> QED BY <3>2 DEF Ask, Child
    <2>2. DepStep(v, deps, disk, r, f) = DepStep(v, deps, disk, r, g)
      BY <2>1 DEF DepStep
    <2>3. WalkDeps(v, deps, disk, r, f) = WalkDeps(v, deps, disk, r, g)
      BY <2>2 DEF WalkDeps
    <2> QED BY <2>3 DEF VisitOne
  <1> QED BY <1>1, <1>2
----------------------------------------------------------------------------
(* The whole walk.                                                         *)

\* How many names a walk has not come through.
Unseen(v) == Cardinality(Names \ v.seen)

LEMMA UnseenFacts ==
  ASSUME NEW v \in Visits
  PROVE  /\ Unseen(v) \in 0..Cardinality(Names)
         /\ \A u \in Deeper(v) : Unseen(u) < Unseen(v)
  <1>1. IsFiniteSet(Names) /\ Cardinality(Names) \in Nat
    BY OrderFacts, FS_CardinalityType
  <1>2. IsFiniteSet(Names \ v.seen) /\ Cardinality(Names \ v.seen) <= Cardinality(Names)
    BY <1>1, FS_Subset
  <1>3. Cardinality(Names \ v.seen) \in Nat
    BY <1>2, FS_CardinalityType
  <1>4. ASSUME NEW u \in Deeper(v) PROVE Unseen(u) < Unseen(v)
    <2>1. v.t \in Names \ v.seen /\ Names \ u.seen = (Names \ v.seen) \ {v.t}
      BY <1>4, VisitFields DEF Deeper
    <2>2. Cardinality((Names \ v.seen) \ {v.t}) = Cardinality(Names \ v.seen) - 1
      BY <1>2, <2>1, FS_RemoveElement
    <2> QED BY <1>3, <2>1, <2>2 DEF Unseen
  <1> QED BY <1>1, <1>2, <1>3, <1>4 DEF Unseen

\* Induction on Unseen: if the visits below a visit answer well, so does it.
LEMMA VisitsAnswer ==
  ASSUME NEW B \in SUBSET [Names -> Row], NEW deps, NEW disk, NEW r \in Nat, NEW ood,
         NEW visit, \A v \in Visits : visit[v] = VisitOne(v, deps, disk, r, ood, visit),
         B = {} \/ \A v \in Visits : visit[v] \in Answers
  PROVE  \A v \in VisitsFrom(B, disk) : visit[v] \in AnswersFrom(B, disk)
  <1> DEFINE T == {n \in Nat : \A v \in VisitsFrom(B, disk) : Unseen(v) < n => visit[v] \in AnswersFrom(B, disk)}
  <1>1. \A v \in VisitsFrom(B, disk) : v \in Visits /\ Unseen(v) \in 0..Cardinality(Names)
    BY UnseenFacts DEF VisitsFrom
  <1>2. Cardinality(Names) \in Nat
    BY OrderFacts, FS_CardinalityType
  <1>3. 0 \in T
    BY <1>1, <1>2
  <1>4. ASSUME NEW n \in Nat, n \in T PROVE n + 1 \in T
    <2>1. SUFFICES ASSUME NEW v \in VisitsFrom(B, disk), Unseen(v) < n + 1
                   PROVE  visit[v] \in AnswersFrom(B, disk)
      OBVIOUS
    <2>2. \A u \in Deeper(v) : Unseen(u) < n
      <3>1. SUFFICES ASSUME NEW u \in Deeper(v) PROVE Unseen(u) < n
        OBVIOUS
      <3>2. u \in Visits /\ Unseen(u) < Unseen(v)
        BY <1>1, UnseenFacts DEF Deeper
      <3>3. Unseen(u) \in Int /\ Unseen(v) \in Int
        BY <1>1, <1>2, <3>2, UnseenFacts
      <3> QED BY <2>1, <3>2, <3>3
    <2>3. \A u \in VisitsFrom(B, disk) \cap Deeper(v) : visit[u] \in AnswersFrom(B, disk)
      BY <1>4, <2>2
    <2>4. \A u \in Deeper(v) : visit[u] \in Answers
      BY <2>3, FromNothing DEF Deeper
    <2>5. VisitOne(v, deps, disk, r, ood, visit) \in AnswersFrom(B, disk)
      BY <2>3, <2>4, VisitOneFrom
    <2> QED BY <1>1, <2>5
  <1>5. Nat \subseteq T
    <2> HIDE DEF T
    <2> QED BY <1>3, <1>4, SetInduction
  <1>6. Cardinality(Names) + 1 \in T
    BY <1>2, <1>5
  <1> QED BY <1>1, <1>2, <1>6

\* The walk is well defined, whatever dependencies have been recorded, circles
\* among them: what private_is_dirty() (src/src/deps.rs) answers for a file is
\* computed from its answers one call further down, and no call is deeper than
\* there are names.
THEOREM WalkIsDefined ==
  ASSUME NEW deps, NEW disk, NEW r \in Nat, NEW ood
  PROVE  \E visit \in [Visits -> Answers] :
            /\ \A v \in Visits : visit[v] = VisitOne(v, deps, disk, r, ood, visit)
            /\ \A v : PrivateIsDirty(v, deps, disk, r, ood) = visit[v]
  <1> DEFINE N == Cardinality(Names)
             rank == [v \in Visits |-> Unseen(v)]
             Def(v, f) == VisitOne(v, deps, disk, r, ood, f)
             body == [p \in Visits \X [Visits -> Answers] |-> Def(p[1], p[2])]
             Is(f) == f = [v \in Visits |-> Def(v, f)]
             chosen == CHOOSE f : Is(f)
  <1>1. \A v \in Visits : \A f \in [Visits -> Answers] : Def(v, f) \in Answers
    <2>1. SUFFICES ASSUME NEW v \in Visits, NEW f \in [Visits -> Answers]
                   PROVE  Def(v, f) \in Answers
      OBVIOUS
    <2>2. \A u \in Deeper(v) : f[u] \in Answers
      BY DEF Deeper
    <2> QED BY <2>2, VisitOneFrom, FromNothing
  <1>2. ASSUME NEW v \in Visits, NEW f \in [Visits -> Answers], NEW g \in [Visits -> Answers],
               \A u \in Visits : rank[u] < rank[v] => f[u] = g[u]
        PROVE  Def(v, f) = Def(v, g)
    <2>1. \A u \in Deeper(v) : f[u] = g[u]
      BY <1>2, UnseenFacts DEF Deeper
    <2> QED BY <2>1, VisitOneLocal
  <1> HIDE DEF Def
  <1>3. body \in [Visits \X [Visits -> Answers] -> Answers]
    BY <1>1
  <1>4. \A v \in Visits : \A f \in [Visits -> Answers] : body[<<v, f>>] = Def(v, f)
    OBVIOUS
  <1>5. rank \in [Visits -> 0..N]
    BY UnseenFacts
  <1>6. N \in Nat
    BY OrderFacts, FS_CardinalityType
  <1>7. Answers # {}
    <2>1. [n \in Names |-> Blank] \in [Names -> Row]
      BY RunIdFacts DEF Blank, Row, Content
    <2>2. [is |-> "clean", need |-> {}, db |-> [n \in Names |-> Blank], cache |-> {}] \in Answers
      BY <2>1 DEF Answers, Verdicts
    <2> QED BY <2>2
  <1> HIDE DEF body, rank, N
  <1>8. Ranked(Visits, Answers, N, rank, body)
    BY <1>2, <1>3, <1>4, <1>5, <1>6, <1>7 DEF Ranked
  <1>9. PICK f \in [Visits -> Answers] : \A v \in Visits : f[v] = body[<<v, f>>]
    BY <1>8, RankRecursion
  <1>10. Is(f)
    BY <1>4, <1>9
  <1>11. Is(chosen)
    <2> HIDE DEF Is
    <2> QED BY <1>10
  <1>12. \A v : PrivateIsDirty(v, deps, disk, r, ood) = chosen[v]
    BY DEF PrivateIsDirty, Def
  <1> HIDE DEF chosen
  <1>13. \A v \in Visits : chosen[v] = VisitOne(v, deps, disk, r, ood, chosen)
    BY <1>11 DEF Def
  <1>14. \A v \in Visits : chosen[v] \in Answers
    <2>1. \A v \in VisitsFrom({}, disk) : chosen[v] \in AnswersFrom({}, disk)
      BY <1>13, VisitsAnswer
    <2> QED BY <2>1, FromNothing
  <1>15. chosen = [v \in Visits |-> chosen[v]]
    BY <1>11
  <1>16. chosen \in [Visits -> Answers]
    BY <1>14, <1>15
  <1> QED BY <1>12, <1>13, <1>16

\* The answer to a question keeps what any earlier state of the database had.
LEMMA PrivateIsDirtyFrom ==
  ASSUME NEW B \in SUBSET [Names -> Row], NEW disk, NEW v \in VisitsFrom(B, disk),
         NEW deps, NEW r \in Nat, NEW ood
  PROVE  PrivateIsDirty(v, deps, disk, r, ood) \in AnswersFrom(B, disk)
  <1>1. PICK visit \in [Visits -> Answers] :
            /\ \A u \in Visits : visit[u] = VisitOne(u, deps, disk, r, ood, visit)
            /\ \A u : PrivateIsDirty(u, deps, disk, r, ood) = visit[u]
    BY WalkIsDefined
  <1>2. \A u \in VisitsFrom(B, disk) : visit[u] \in AnswersFrom(B, disk)
    BY <1>1, VisitsAnswer
  <1> QED BY <1>1, <1>2

\* A file that is neither generated nor has a checksum needs no other to be
\* built first.
LEMMA PlainNeedsNothing ==
  ASSUME NEW v \in Visits, ~v.f.generated, v.f.csum = {},
         NEW deps, NEW disk, NEW r \in Nat, NEW ood
  PROVE  PrivateIsDirty(v, deps, disk, r, ood).is # "need"
  <1>1. PICK told \in [Visits -> Answers] :
            /\ \A u \in Visits : told[u] = VisitOne(u, deps, disk, r, ood, told)
            /\ \A u : PrivateIsDirty(u, deps, disk, r, ood) = told[u]
    BY WalkIsDefined
  <1> DEFINE start == Answer("clean", {}, v)
             step == DepStep(v, deps, disk, r, told)
             so == WalkDeps(v, deps, disk, r, told)
  <1>2. ASSUME v.t \notin v.seen PROVE so = start
    <2>1. start \in Answers
      BY VisitFields DEF Answers, Answer, Verdicts
    <2>2. \A u \in Deeper(v) : told[u] \in Answers
      BY <1>1 DEF Deeper
    <2>3. step \in [Names -> [Answers -> Answers]]
      BY <1>2, <2>2, StepType
    <2>4. DepsOf(deps, v.t, v.f) = {}
      BY DEF DepsOf
    <2>5. \A s \in Names : \A a \in Answers : step[s][a] = a
      BY <1>2, <2>2, <2>4, StepAt
    <2>6. so = Loop(start, step)
      BY DEF WalkDeps
    <2> HIDE DEF start, step, so
    <2>7. PICK w \in [0..Len(Order) -> Answers] :
              /\ w[0] = start
              /\ \A i \in 1..Len(Order) : w[i] = step[Order[i]][w[i - 1]]
              /\ Loop(start, step) = w[Len(Order)]
      BY <2>1, <2>3, LoopSteps
    <2> DEFINE T == {n \in Nat : n <= Len(Order) => w[n] = start}
    <2>8. 0 \in T
      BY <2>7
    <2>9. ASSUME NEW n \in Nat, n \in T PROVE n + 1 \in T
      <3>1. SUFFICES ASSUME n + 1 <= Len(Order) PROVE w[n + 1] = start
        OBVIOUS
      <3>2. n + 1 \in 1..Len(Order) /\ n <= Len(Order) /\ (n + 1) - 1 = n
        BY <3>1, OrderFacts
      <3>3. w[n + 1] = step[Order[n + 1]][w[n]] /\ Order[n + 1] \in Names
        BY <2>7, <3>2, OrderFacts
      <3> QED BY <2>1, <2>5, <2>9, <3>2, <3>3
    <2>10. Nat \subseteq T
      <3> HIDE DEF T
      <3> QED BY <2>8, <2>9, SetInduction
    <2> QED BY <2>6, <2>7, <2>10, OrderFacts
  <1>3. VisitOne(v, deps, disk, r, ood, told).is # "need"
    <2>1. start.is = "clean" /\ start.need = {}
      BY DEF Answer
    <2>2. v.t \notin v.seen => Conclude(v, so, r, ood).is # "need"
      <3> HIDE DEF start, so
      <3> QED BY <1>2, <2>1 DEF Conclude, Answer
    <2>3. DirtySelf(v, Forget(v, disk[v.t].stamp)).is # "need"
      BY DEF DirtySelf, Answer
    <2> QED BY <2>2, <2>3 DEF VisitOne, Answer
  <1> QED BY <1>1, <1>3

\* should_build() of redo-ifchange (src/src/bin/redo/ifchange.rs) writes to the
\* database only that files were checked, or that they are gone; it asks only
\* for files with a checksum to be built first, and only on behalf of a target.
THEOREM ShouldBuildFacts ==
  ASSUME NEW t \in Names, NEW db \in [Names -> Row], NEW deps, NEW disk, NEW r \in Nat
  PROVE  LET a == ShouldBuild(t, db, deps, disk, r)
         IN /\ a \in Answers
            /\ \A n \in Names : Kept(db[n], a.db[n], disk[n].stamp)
            /\ \A n \in a.need : db[n].csum # {}
            /\ a.is = "need" => db[t].generated \/ db[t].csum # {}
  <1> DEFINE f == FromCols(t, db[t], r)
             v == [t |-> t, f |-> f, max |-> r, seen |-> {}, db |-> db, cache |-> {}]
             a == PrivateIsDirty(v, deps, disk, r, FALSE)
  <1>1. db[t] \in Row /\ f \in Row /\ Kept(db[t], f, disk[t].stamp)
    BY FromColsRow
  <1>2. \A n \in Names : Kept(db[n], db[n], disk[n].stamp)
    BY DEF Kept
  <1> HIDE DEF f
  <1>3. v \in VisitsFrom({db}, disk)
    BY <1>1, <1>2 DEF VisitsFrom, Visits
  <1>4. v.f = f /\ v \in Visits
    BY <1>3 DEF VisitsFrom
  <1>5. a = IsDirty(t, f, [db |-> db, cache |-> {}], deps, disk, r, FALSE)
    BY DEF IsDirty
  <1> HIDE DEF v, a
  <1>6. a \in AnswersFrom({db}, disk)
    BY <1>3, PrivateIsDirtyFrom DEF a
  <1>7. a.is = "need" => f.generated \/ f.csum # {}
    BY <1>4, PlainNeedsNothing DEF a
  <1>8. a.is = "need" => db[t].generated \/ db[t].csum # {}
    BY <1>1, <1>7 DEF Kept
  <1>9. a \in Answers /\ (\A n \in Names : Kept(db[n], a.db[n], disk[n].stamp)) /\ \A n \in a.need : db[n].csum # {}
    BY <1>6 DEF AnswersFrom
  <1>10. ShouldBuild(t, db, deps, disk, r) \in {a, [a EXCEPT !.is = "dirty", !.need = {}]}
    BY <1>5 DEF ShouldBuild, f
  <1> QED BY <1>8, <1>9, <1>10 DEF Answers, Verdicts

----------------------------------------------------------------------------
(* What the walk computes: the least set of files that are in order, given *)
(* that those below them are.                                              *)

\* S takes in every place of ok that has only places of S below it.
TakesIn(S, ok, below) == \A u \in ok : below[u] \subseteq S => u \in S

\* With a place, S has those below it.
LeadsDown(S, below) == \A x \in S : below[x] \subseteq S

Least(ok, below) == {n \in Names : \A S \in SUBSET Names : TakesIn(S, ok, below) => n \in S}

Reach(below, u) ==
    {x \in Names : \A S \in SUBSET Names : below[u] \subseteq S /\ LeadsDown(S, below) => x \in S}

LEMMA LeastInduct ==
  ASSUME NEW ok, NEW below, NEW S \in SUBSET Names, TakesIn(S, ok, below)
  PROVE  Least(ok, below) \subseteq S
  BY DEF Least

\* A least set: what it has is in order, and so is what lies below that.
LEMMA LeastFixed ==
  ASSUME NEW ok \in SUBSET Names, NEW below \in [Names -> SUBSET Names], NEW u \in Names
  PROVE  u \in Least(ok, below) <=> u \in ok /\ below[u] \subseteq Least(ok, below)
  <1> DEFINE L == Least(ok, below)
             S == {x \in ok : below[x] \subseteq L}
  <1>1. ASSUME NEW x \in ok, below[x] \subseteq L PROVE x \in L
    <2>1. SUFFICES ASSUME NEW Z \in SUBSET Names, TakesIn(Z, ok, below) PROVE x \in Z
      BY DEF Least
    <2>2. L \subseteq Z
      BY <2>1, LeastInduct
    <2> QED BY <1>1, <2>1, <2>2 DEF TakesIn
  <1> HIDE DEF L
  <1>2. S \in SUBSET Names /\ S \subseteq L
    BY <1>1
  <1>3. TakesIn(S, ok, below)
    BY <1>2 DEF TakesIn
  <1>4. L \subseteq S
    <2> HIDE DEF S
    <2> QED BY <1>2, <1>3, LeastInduct DEF L
  <1>5. u \in L <=> u \in ok /\ below[u] \subseteq L
    BY <1>1, <1>4
  <1> QED BY <1>5 DEF L

LEMMA ReachFacts ==
  ASSUME NEW below \in [Names -> SUBSET Names], NEW u \in Names
  PROVE  /\ Reach(below, u) \in SUBSET Names
         /\ below[u] \subseteq Reach(below, u)
         /\ \A x \in Reach(below, u) : below[x] \subseteq Reach(below, u)
         /\ \A x \in Reach(below, u) : Reach(below, x) \subseteq Reach(below, u)
  <1> DEFINE R == Reach(below, u)
  <1>1. R \in SUBSET Names /\ below[u] \subseteq R
    BY DEF Reach
  <1>2. ASSUME NEW x \in R, NEW y \in below[x] PROVE y \in R
    <2>1. x \in Names /\ y \in Names
      BY <1>1, <1>2
    <2>2. SUFFICES ASSUME NEW Z \in SUBSET Names, below[u] \subseteq Z, LeadsDown(Z, below)
                   PROVE  y \in Z
      BY <2>1 DEF Reach
    <2>3. x \in Z
      BY <1>2, <2>2 DEF Reach
    <2> QED BY <1>2, <2>2, <2>3 DEF LeadsDown
  <1> HIDE DEF R
  <1>3. LeadsDown(R, below)
    BY <1>2 DEF LeadsDown
  <1>4. ASSUME NEW x \in R PROVE Reach(below, x) \subseteq R
    <2>1. below[x] \subseteq R
      BY <1>2
    <2> QED BY <1>1, <1>3, <2>1 DEF Reach
  <1>5. R \in SUBSET Names /\ below[u] \subseteq R /\ (\A x \in R : below[x] \subseteq R)
        /\ \A x \in R : Reach(below, x) \subseteq R
    BY <1>1, <1>2, <1>4
  <1> QED BY <1>5 DEF R

\* No circle goes through a place of the least set.
LEMMA LeastApart ==
  ASSUME NEW ok \in SUBSET Names, NEW below \in [Names -> SUBSET Names],
         NEW u \in Least(ok, below)
  PROVE  u \notin Reach(below, u)
  <1> DEFINE L == Least(ok, below)
             T == {x \in L : x \notin Reach(below, x)}
             D(x) == below[x] \cup UNION {Reach(below, s) : s \in below[x]}
  <1>1. L \in SUBSET Names
    BY DEF Least
  <1>2. ASSUME NEW x \in ok, below[x] \subseteq T PROVE x \in T
    <2>1. x \in Names /\ below[x] \in SUBSET Names
      BY <1>2
    <2>2. x \in L
      BY <1>2, <2>1, LeastFixed
    <2>3. \A s \in below[x] : s \in Names /\ s \notin Reach(below, s)
      BY <1>2, <2>1
    <2>4. D(x) \in SUBSET Names
      BY <2>1, ReachFacts
    <2>5. ASSUME NEW y \in D(x) PROVE below[y] \subseteq D(x)
      <3>1. CASE y \in below[x]
        <4>1. below[y] \subseteq Reach(below, y)
          BY <2>3, <3>1, ReachFacts
        <4> QED BY <3>1, <4>1
      <3>2. CASE \E s \in below[x] : y \in Reach(below, s)
        <4>1. PICK s \in below[x] : y \in Reach(below, s)
          BY <3>2
        <4>2. below[y] \subseteq Reach(below, s)
          BY <2>3, <4>1, ReachFacts
        <4> QED BY <4>2
      <3> QED BY <2>5, <3>1, <3>2
    <2>6. Reach(below, x) \subseteq D(x)
      <3>1. LeadsDown(D(x), below) /\ below[x] \subseteq D(x)
        BY <2>5 DEF LeadsDown
      <3> HIDE DEF D
      <3> QED BY <2>4, <3>1 DEF Reach
    <2>7. ASSUME x \in Reach(below, x) PROVE FALSE
      <3>1. x \in D(x)
        BY <2>6, <2>7
      <3>2. CASE x \in below[x]
        BY <2>3, <2>7, <3>2
      <3>3. CASE \E s \in below[x] : x \in Reach(below, s)
        <4>1. PICK s \in below[x] : x \in Reach(below, s)
          BY <3>3
        <4>2. below[x] \subseteq Reach(below, s)
          BY <2>3, <4>1, ReachFacts
        <4> QED BY <2>3, <4>2
      <3> QED BY <3>1, <3>2, <3>3
    <2> QED BY <2>2, <2>7
  <1>3. T \in SUBSET Names /\ TakesIn(T, ok, below)
    BY <1>1, <1>2 DEF TakesIn
  <1>4. L \subseteq T
    <2> HIDE DEF T
    <2> QED BY <1>3, LeastInduct
  <1> QED BY <1>4

----------------------------------------------------------------------------
(* What a walk may meet and may leave.                                     *)

(***************************************************************************)
(* A question: the database, the dependencies and the files when it was    *)
(* asked, the run it was asked in, and whether it was asked by redo-ood.   *)
(***************************************************************************)
Question(q) ==
    /\ q.db \in [Names -> Row]
    /\ q.r \in Nat /\ q.r > 0 /\ q.ood \in BOOLEAN

As(q, n) == FromCols(n, q.db[n], q.r)

\* What the walk takes for granted.
Recent(q, u) == ~q.ood /\ IsChecked(As(q, u), q.r)

Asks(q, u) == DepsOf(q.deps, u, As(q, u))

MustNotExist(q, u) == {s \in Names : \E d \in Asks(q, u) : d.source = s /\ d.mode = Created}

MustBeFine(q, u) == {s \in Names : \E d \in Asks(q, u) : d.source = s} \ MustNotExist(q, u)

Latest(q, u) == Later(As(q, u).changed, As(q, u).checked)

Late(q, s, max) == As(q, s).failed # None \/ As(q, s).changed = None \/ As(q, s).changed > max

InOrder(q, u) ==
    \/ Recent(q, u)
    \/ /\ As(q, u).stamp # None /\ As(q, u).stamp = q.disk[u].stamp
       /\ \A s \in MustNotExist(q, u) : q.disk[s].stamp = Missing
       /\ \A s \in MustBeFine(q, u) : ~Late(q, s, Latest(q, u))

AllInOrder(q) == {u \in Names : InOrder(q, u)}

Under(q) == [u \in Names |-> IF Recent(q, u) THEN {} ELSE MustBeFine(q, u)]

\* What is up to date, with all that it depends on.
Fine(q) == Least(AllInOrder(q), Under(q))

Forgotten(f) == [f EXCEPT !.generated = FALSE, !.failed = 0]

\* The rows that a walk may come across: as they were, or as it left them.
Kin(q, n, f) ==
    \/ f = As(q, n)
    \/ ~q.ood /\ n \in Fine(q) /\ f = SetChecked(As(q, n), q.r)
    \/ n \notin Fine(q) /\ f = Forgotten(As(q, n))

RowsOk(q, at) ==
    /\ at.db \in [Names -> Row]
    /\ \A n \in Names : at.db[n] = q.db[n] \/ Kin(q, n, at.db[n])
    /\ at.cache \subseteq Fine(q)

VisitOk(q, v) == v \in Visits /\ RowsOk(q, v) /\ Kin(q, v.t, v.f)

AnswerOk(q, a) == a \in Answers /\ RowsOk(q, a) /\ (a.is = "need" => a.need # {})

Fit(q, v) == v.t \in Fine(q) /\ ~Late(q, v.t, v.max)

Sound(q, v, a) == AnswerOk(q, a) /\ (a.is = "clean" => Fit(q, v))

LEMMA AsRow ==
  ASSUME NEW q, Question(q), NEW n \in Names
  PROVE  /\ As(q, n) \in Row /\ As(q, n).checked \in Int /\ As(q, n).changed \in Int
         /\ FromCols(n, As(q, n), q.r) = As(q, n)
  <1>1. q.db[n] \in Row /\ q.r \in Nat
    BY DEF Question
  <1>2. As(q, n) \in Row
    BY <1>1, FromColsRow DEF As
  <1>3. As(q, n).checked \in Int /\ As(q, n).changed \in Int
    BY <1>2, RowFields, RunIdFacts
  <1>4. FromCols(n, As(q, n), q.r) = As(q, n)
    BY <1>1, RowFields, RunIdFacts DEF FromCols, As, Row
  <1> QED BY <1>2, <1>3, <1>4

LEMMA FineFixed ==
  ASSUME NEW q, NEW u \in Names
  PROVE  u \in Fine(q) <=> InOrder(q, u) /\ (Recent(q, u) \/ MustBeFine(q, u) \subseteq Fine(q))
  <1>1. AllInOrder(q) \in SUBSET Names /\ Under(q) \in [Names -> SUBSET Names]
    BY DEF AllInOrder, Under, MustBeFine
  <1>2. u \in Fine(q) <=> u \in AllInOrder(q) /\ Under(q)[u] \subseteq Fine(q)
    BY <1>1, LeastFixed DEF Fine
  <1>3. u \in AllInOrder(q) <=> InOrder(q, u)
    BY DEF AllInOrder
  <1>4. Under(q)[u] = IF Recent(q, u) THEN {} ELSE MustBeFine(q, u)
    BY DEF Under
  <1> QED BY <1>2, <1>3, <1>4

\* What a row says of the file, whatever the walk has made of it.
LEMMA KinFacts ==
  ASSUME NEW q, Question(q), NEW v, VisitOk(q, v)
  PROVE  /\ ~Overdue(v) => ~Late(q, v.t, v.max)
         /\ Fit(q, v) => ~Overdue(v)
         /\ Recall(v, q.r, q.ood) /\ ~Overdue(v) => v.t \in Fine(q)
         /\ ~Recall(v, q.r, q.ood) /\ ~Overdue(v) => v.f = As(q, v.t) /\ ~Recent(q, v.t)
  <1> DEFINE n == v.t
             f == v.f
  <1>1. n \in Names /\ f \in Row /\ Kin(q, n, f) /\ As(q, n) \in Row /\ q.r \in Nat /\ q.r > 0
    BY AsRow, VisitFields DEF VisitOk, Question
  <1>2. CASE f = As(q, n)
    <2>1. Overdue(v) <=> Late(q, n, v.max)
      BY <1>2 DEF Overdue, Late
    <2>2. ~q.ood => (Recall(v, q.r, q.ood) <=> Recent(q, n))
      BY <1>2 DEF Recall, Recent
    <2>3. q.ood => (Recall(v, q.r, q.ood) <=> n \in v.cache) /\ ~Recent(q, n)
      BY DEF Recall, Recent
    <2>4. v.cache \subseteq Fine(q)
      BY DEF VisitOk, RowsOk
    <2>5. Recent(q, n) => n \in Fine(q)
      BY <1>1, FineFixed DEF InOrder
    <2> QED BY <1>2, <2>1, <2>2, <2>3, <2>4, <2>5 DEF Fit
  <1>3. CASE ~q.ood /\ n \in Fine(q) /\ f = SetChecked(As(q, n), q.r)
    <2>1. f.failed = As(q, n).failed /\ f.changed = As(q, n).changed /\ f.checked = q.r
      BY <1>1, <1>3 DEF SetChecked, Row
    <2>2. Overdue(v) <=> Late(q, n, v.max)
      BY <2>1 DEF Overdue, Late
    <2>3. Recall(v, q.r, q.ood)
      BY <1>1, <1>3, <2>1 DEF Recall, IsChecked, InRun
    <2> QED BY <1>3, <2>2, <2>3 DEF Fit
  <1>4. CASE n \notin Fine(q) /\ f = Forgotten(As(q, n))
    <2>1. f.failed = 0
      BY <1>1, <1>4 DEF Forgotten, Row
    <2>2. Overdue(v)
      BY <2>1 DEF Overdue, None
    <2> QED BY <1>4, <2>2 DEF Fit
  <1> QED BY <1>1, <1>2, <1>3, <1>4 DEF Kin

LEMMA KinRead ==
  ASSUME NEW q, Question(q), NEW n \in Names, NEW f, f = q.db[n] \/ Kin(q, n, f)
  PROVE  Kin(q, n, FromCols(n, f, q.r))
  <1>1. As(q, n) \in Row /\ FromCols(n, As(q, n), q.r) = As(q, n)
    BY AsRow
  <1>2. CASE f = q.db[n]
    BY <1>2 DEF Kin, As
  <1>3. CASE f = As(q, n)
    BY <1>1, <1>3 DEF Kin
  <1> DEFINE c == SetChecked(As(q, n), q.r)
             g == Forgotten(As(q, n))
             k == As(q, n)
  <1>4. n = ALWAYS => ~(k.changed < q.r)
    <2>1. q.db[n] \in Row /\ q.r \in Nat
      BY DEF Question
    <2> QED BY <2>1 DEF As, FromCols, Row
  <1>5. c.changed = k.changed /\ g.changed = k.changed
    BY <1>1 DEF SetChecked, Forgotten, Row
  <1>6. FromCols(n, c, q.r) = c /\ FromCols(n, g, q.r) = g
    BY <1>4, <1>5 DEF FromCols
  <1> HIDE DEF c, g, k
  <1>7. CASE ~q.ood /\ n \in Fine(q) /\ f = c
    BY <1>6, <1>7 DEF Kin, c, k
  <1>8. CASE n \notin Fine(q) /\ f = g
    BY <1>6, <1>8 DEF Kin, g, k
  <1> QED BY <1>2, <1>3, <1>7, <1>8 DEF Kin, c, g, k

LEMMA AnswerRows ==
  ASSUME NEW q, NEW at, RowsOk(q, at), NEW is \in Verdicts, NEW need \in SUBSET Names,
         is = "need" => need # {}
  PROVE  AnswerOk(q, Answer(is, need, at))
  <1> DEFINE a == Answer(is, need, at)
  <1>1. a.is = is /\ a.need = need /\ a.db = at.db /\ a.cache = at.cache
    BY DEF Answer
  <1>2. Fine(q) \subseteq Names
    BY DEF Fine, Least
  <1>3. a \in Answers
    BY <1>2 DEF Answer, Answers, RowsOk
  <1>4. RowsOk(q, a)
    BY <1>1 DEF RowsOk
  <1> QED BY <1>1, <1>3, <1>4 DEF AnswerOk

LEMMA AnswerIs ==
  ASSUME NEW is, NEW need, NEW at
  PROVE  /\ Answer(is, need, at).is = is /\ Answer(is, need, at).need = need
         /\ Answer(is, need, at).db = at.db /\ Answer(is, need, at).cache = at.cache
  BY DEF Answer

LEMMA DirtySelfOk ==
  ASSUME NEW q, NEW v \in Visits, NEW at, RowsOk(q, at)
  PROVE  AnswerOk(q, DirtySelf(v, at)) /\ DirtySelf(v, at).is # "clean"
  <1>1. v.t \in Names
    BY VisitFields
  <1>2. AnswerOk(q, Answer("need", {v.t}, at)) /\ AnswerOk(q, Answer("dirty", {}, at))
    BY <1>1, AnswerRows DEF Verdicts
  <1>3. DirtySelf(v, at) = Answer("dirty", {}, at) \/ DirtySelf(v, at) = Answer("need", {v.t}, at)
    BY DEF DirtySelf
  <1> QED BY <1>2, <1>3, AnswerIs

\* Only what is not in order is forgotten.
LEMMA ForgetOk ==
  ASSUME NEW q, Question(q), NEW v, VisitOk(q, v), v.f = As(q, v.t), ~Recent(q, v.t),
         v.f.stamp # q.disk[v.t].stamp, NEW now
  PROVE  RowsOk(q, Forget(v, now))
  <1> DEFINE g == Forgotten(v.f)
             w == [v EXCEPT !.db[v.t] = g]
  <1>1. v \in Visits /\ v.t \in Names /\ v.f \in Row /\ RowsOk(q, v)
    BY VisitFields DEF VisitOk
  <1>2. v.t \notin Fine(q)
    BY <1>1, FineFixed DEF InOrder
  <1>3. g \in Row
    BY <1>1, RunIdFacts DEF Forgotten, Row
  <1>4. Kin(q, v.t, g)
    BY <1>2 DEF Kin
  <1> HIDE DEF g
  <1>5. w.db = [v.db EXCEPT ![v.t] = g] /\ w.cache = v.cache
    BY <1>1 DEF Visits
  <1> HIDE DEF w
  <1>6. RowsOk(q, w)
    BY <1>1, <1>3, <1>4, <1>5 DEF RowsOk
  <1>7. Forget(v, now) = w \/ Forget(v, now) = v
    BY DEF Forget, w, g, Forgotten
  <1> QED BY <1>1, <1>6, <1>7

\* Only what is fine is remembered.
LEMMA RememberOk ==
  ASSUME NEW q, Question(q), NEW v, VisitOk(q, v), v.f = As(q, v.t), v.t \in Fine(q),
         NEW so \in Answers, RowsOk(q, so)
  PROVE  RowsOk(q, Remember(v, so, q.r, q.ood))
  <1> DEFINE g == SetChecked(v.f, q.r)
             a == [so EXCEPT !.cache = @ \cup {v.t}]
             c == [so EXCEPT !.db[v.t] = g]
  <1>1. v.t \in Names /\ v.f \in Row /\ q.r \in Nat
    BY VisitFields DEF VisitOk, Question
  <1>2. g \in Row
    BY <1>1, SetCheckedRow
  <1>3. ~q.ood => Kin(q, v.t, g)
    BY DEF Kin
  <1> HIDE DEF g
  <1>4. a.db = so.db /\ a.cache = so.cache \cup {v.t}
    BY DEF Answers
  <1>5. c.db = [so.db EXCEPT ![v.t] = g] /\ c.cache = so.cache
    BY DEF Answers
  <1> HIDE DEF a, c
  <1>6. RowsOk(q, a)
    BY <1>4 DEF RowsOk
  <1>7. ~q.ood => RowsOk(q, c)
    BY <1>1, <1>2, <1>3, <1>5 DEF RowsOk
  <1>8. Remember(v, so, q.r, q.ood) = IF q.ood THEN a ELSE c
    BY DEF Remember, a, c, g
  <1> QED BY <1>6, <1>7, <1>8

\* What is asked of a dependency.
LEMMA ChildOk ==
  ASSUME NEW q, Question(q), NEW v, VisitOk(q, v), v.t \notin v.seen,
         NEW so, AnswerOk(q, so), NEW s \in Names
  PROVE  /\ VisitOk(q, Child(v, s, so, q.r)) /\ Child(v, s, so, q.r) \in Deeper(v)
         /\ Child(v, s, so, q.r).t = s
         /\ Child(v, s, so, q.r).seen = v.seen \cup {v.t}
         /\ Child(v, s, so, q.r).max = Later(v.f.changed, v.f.checked)
  <1> DEFINE c == Child(v, s, so, q.r)
  <1>1. v \in Visits /\ so \in Answers /\ q.r \in Nat /\ RowsOk(q, v) /\ RowsOk(q, so)
    BY DEF VisitOk, AnswerOk, Question
  <1>2. c \in Visits /\ c \in Deeper(v)
    <2>1. v \in VisitsFrom({}, q.disk) /\ so \in AnswersFrom({}, q.disk) /\ {} \in SUBSET [Names -> Row]
      BY <1>1, FromNothing
    <2>2. c \in VisitsFrom({}, q.disk) \cap Deeper(v)
      BY <1>1, <2>1, ChildFrom
    <2> QED BY <2>2, FromNothing
  <1>3. c.t = s /\ c.f = FromCols(s, v.db[s], q.r) /\ c.db = so.db /\ c.cache = so.cache
        /\ c.seen = v.seen \cup {v.t} /\ c.max = Later(v.f.changed, v.f.checked)
    BY DEF Child
  <1>4. Kin(q, s, c.f)
    BY <1>1, <1>3, KinRead DEF RowsOk
  <1> HIDE DEF c
  <1>5. RowsOk(q, c)
    BY <1>1, <1>3 DEF RowsOk
  <1>6. VisitOk(q, c)
    BY <1>2, <1>3, <1>4, <1>5 DEF VisitOk
  <1> QED BY <1>2, <1>3, <1>6 DEF c

----------------------------------------------------------------------------
(* What a walk finds clean is fine.                                        *)

\* Induction over the rows.
LEMMA LoopKeeps ==
  ASSUME NEW A, NEW start \in A, NEW step \in [Names -> [A -> A]],
         NEW I \in [0..Len(Order) -> SUBSET A], start \in I[0],
         \A i \in 1..Len(Order) : \A a \in I[i - 1] : step[Order[i]][a] \in I[i]
  PROVE  Loop(start, step) \in I[Len(Order)]
  <1>1. PICK w \in [0..Len(Order) -> A] :
            /\ w[0] = start
            /\ \A i \in 1..Len(Order) : w[i] = step[Order[i]][w[i - 1]]
            /\ Loop(start, step) = w[Len(Order)]
    BY LoopSteps
  <1> DEFINE T == {n \in Nat : n <= Len(Order) => w[n] \in I[n]}
  <1>2. 0 \in T
    BY <1>1
  <1>3. ASSUME NEW n \in Nat, n \in T PROVE n + 1 \in T
    <2>1. SUFFICES ASSUME n + 1 <= Len(Order) PROVE w[n + 1] \in I[n + 1]
      OBVIOUS
    <2>2. n + 1 \in 1..Len(Order) /\ n <= Len(Order) /\ (n + 1) - 1 = n
      BY <2>1, OrderFacts
    <2>3. w[n + 1] = step[Order[n + 1]][w[n]]
      BY <1>1, <2>2
    <2>4. w[n] \in I[n]
      BY <1>3, <2>2
    <2> QED BY <2>2, <2>3, <2>4
  <1>4. Nat \subseteq T
    <2> HIDE DEF T
    <2> QED BY <1>2, <1>3, SetInduction
  <1> QED BY <1>1, <1>4, OrderFacts

\* The rows that a loop has come to.
Passed(i) == {Order[k] : k \in 1..i}

LEMMA PassedFacts ==
  /\ Passed(0) = {} /\ Passed(Len(Order)) = Names
  /\ \A i \in 1..Len(Order) : Passed(i) = Passed(i - 1) \cup {Order[i]}
  <1>1. DOMAIN Order = 1..Len(Order) /\ Len(Order) \in Nat
    BY OrderAssumption
  <1>2. Passed(0) = {} /\ Passed(Len(Order)) = Names
    BY <1>1 DEF Passed, Names
  <1>3. ASSUME NEW i \in 1..Len(Order) PROVE Passed(i) = Passed(i - 1) \cup {Order[i]}
    <2>1. 1..i = (1..(i - 1)) \cup {i}
      BY <1>1
    <2> QED BY <2>1 DEF Passed
  <1> QED BY <1>2, <1>3

\* The dependency does not make the file dirty.
Meets(q, u, s) ==
    /\ s \in MustNotExist(q, u) => q.disk[s].stamp = Missing
    /\ s \in MustBeFine(q, u) => s \in Fine(q) /\ ~Late(q, s, Latest(q, u))

\* The visits below answer well.
Told(q, v, told) ==
    \A u \in Deeper(v) : told[u] \in Answers /\ (VisitOk(q, u) => Sound(q, u, told[u]))

LEMMA AskSound ==
  ASSUME NEW q, Question(q), NEW v, VisitOk(q, v), v.t \notin v.seen, v.f = As(q, v.t),
         NEW told, Told(q, v, told), NEW so, AnswerOk(q, so), NEW s \in Names,
         NEW sub, sub = Ask(v, s, so, q.deps, q.disk, q.r, told)
  PROVE  AnswerOk(q, sub) /\ (sub.is = "clean" => Meets(q, v.t, s))
  <1>1. RowsOk(q, so)
    BY DEF AnswerOk
  <1>2. CASE s \in MustNotExist(q, v.t)
    <2>1. sub = Answer(IF q.disk[s].stamp # Missing THEN "dirty" ELSE "clean", {}, so)
      BY <1>2 DEF Ask, MustNotExist, Asks
    <2>2. sub.is = IF q.disk[s].stamp # Missing THEN "dirty" ELSE "clean"
      BY <2>1, AnswerIs
    <2>3. AnswerOk(q, sub)
      BY <1>1, <2>1, AnswerRows DEF Verdicts
    <2>4. s \notin MustBeFine(q, v.t)
      BY <1>2 DEF MustBeFine
    <2> QED BY <2>2, <2>3, <2>4 DEF Meets
  <1>3. CASE s \notin MustNotExist(q, v.t)
    <2> DEFINE c == Child(v, s, so, q.r)
    <2>1. sub = told[c]
      BY <1>3 DEF Ask, MustNotExist, Asks, Child
    <2>2. VisitOk(q, c) /\ c \in Deeper(v) /\ c.t = s /\ c.max = Later(v.f.changed, v.f.checked)
      BY ChildOk
    <2> HIDE DEF c
    <2>3. Sound(q, c, sub)
      BY <2>1, <2>2 DEF Told
    <2>4. c.max = Latest(q, v.t)
      BY <2>2 DEF Latest
    <2> QED BY <1>3, <2>2, <2>3, <2>4 DEF Sound, Fit, Meets
  <1> QED BY <1>2, <1>3

LEMMA StepSound ==
  ASSUME NEW q, Question(q), NEW v, VisitOk(q, v), v.t \notin v.seen, v.f = As(q, v.t),
         NEW told, Told(q, v, told), NEW so, AnswerOk(q, so), NEW s \in Names,
         NEW new, new = DepStep(v, q.deps, q.disk, q.r, told)[s][so]
  PROVE  AnswerOk(q, new)
           /\ (new.is = "clean" /\ new.need = {} => so.is = "clean" /\ so.need = {} /\ Meets(q, v.t, s))
  <1> DEFINE sub == Ask(v, s, so, q.deps, q.disk, q.r, told)
             mine == {d.source : d \in DepsOf(q.deps, v.t, v.f)}
  <1>1. v \in Visits /\ so \in Answers /\ q.r \in Nat /\ \A u \in Deeper(v) : told[u] \in Answers
    BY DEF VisitOk, AnswerOk, Question, Told
  <1>2. new = IF so.is = "clean" /\ s \in mine THEN Combine(v, so, sub) ELSE so
    BY <1>1, StepAt
  <1>3. AnswerOk(q, sub) /\ (sub.is = "clean" => Meets(q, v.t, s))
    BY AskSound
  <1> HIDE DEF sub
  <1>4. CASE ~(so.is = "clean" /\ s \in mine)
    <2>1. s \notin mine => Meets(q, v.t, s)
      BY DEF Meets, MustNotExist, MustBeFine, Asks
    <2> HIDE DEF mine
    <2> QED BY <1>2, <1>4, <2>1
  <1>5. CASE so.is = "clean" /\ s \in mine
    <2>1. new = Combine(v, so, sub)
      BY <1>2, <1>5
    <2>2. sub \in Answers /\ RowsOk(q, sub) /\ (sub.is = "need" => sub.need # {}) /\ RowsOk(q, so)
      BY <1>3 DEF AnswerOk
    <2>3. sub.need \subseteq Names /\ so.need \subseteq Names /\ sub.is \in Verdicts
      BY <1>1, <2>2, AnswerFields
    <2>4. CASE sub.is = "dirty"
      <3>1. new = DirtySelf(v, sub)
        BY <2>1, <2>4 DEF Combine
      <3> QED BY <1>1, <2>2, <3>1, DirtySelfOk
    <2>5. CASE sub.is = "need"
      <3>1. new = Answer("clean", so.need \cup sub.need, sub)
        BY <2>1, <2>5 DEF Combine
      <3>2. AnswerOk(q, new)
        BY <2>2, <2>3, <3>1, AnswerRows DEF Verdicts
      <3>3. new.need # {}
        BY <2>2, <2>5, <3>1, AnswerIs
      <3> QED BY <3>2, <3>3
    <2>6. CASE sub.is \notin {"dirty", "need"}
      <3>1. new = Answer(sub.is, so.need, sub)
        BY <2>1, <2>6 DEF Combine
      <3>2. AnswerOk(q, new)
        BY <2>2, <2>3, <2>6, <3>1, AnswerRows
      <3>3. new.is = sub.is /\ new.need = so.need
        BY <3>1, AnswerIs
      <3> QED BY <1>3, <1>5, <3>2, <3>3
    <2> QED BY <2>4, <2>5, <2>6
  <1> QED BY <1>4, <1>5

LEMMA WalkSound ==
  ASSUME NEW q, Question(q), NEW v, VisitOk(q, v), v.t \notin v.seen, v.f = As(q, v.t),
         NEW told, Told(q, v, told),
         NEW so, so = WalkDeps(v, q.deps, q.disk, q.r, told)
  PROVE  AnswerOk(q, so) /\ (so.is = "clean" /\ so.need = {} => \A s \in Names : Meets(q, v.t, s))
  <1> DEFINE start == Answer("clean", {}, v)
             step == DepStep(v, q.deps, q.disk, q.r, told)
             I == [i \in 0..Len(Order) |->
                     {a \in Answers : /\ AnswerOk(q, a)
                                      /\ a.is = "clean" /\ a.need = {}
                                           => \A s \in Passed(i) : Meets(q, v.t, s)}]
  <1>1. v \in Visits /\ RowsOk(q, v) /\ q.r \in Nat /\ \A u \in Deeper(v) : told[u] \in Answers
    BY DEF VisitOk, Question, Told
  <1>2. AnswerOk(q, start)
    BY <1>1, AnswerRows DEF Verdicts
  <1>3. step \in [Names -> [Answers -> Answers]]
    BY <1>1, StepType
  <1>4. \A s \in Names : \A a \in Answers : AnswerOk(q, a) =>
            AnswerOk(q, step[s][a])
              /\ (step[s][a].is = "clean" /\ step[s][a].need = {}
                    => a.is = "clean" /\ a.need = {} /\ Meets(q, v.t, s))
    BY StepSound
  <1>5. so = Loop(start, step)
    BY DEF WalkDeps
  <1>6. start \in Answers
    BY <1>2 DEF AnswerOk
  <1> HIDE DEF start, step
  <1>7. start \in I[0]
    BY <1>2, <1>6, PassedFacts, OrderFacts
  <1>8. ASSUME NEW i \in 1..Len(Order), NEW a \in I[i - 1] PROVE step[Order[i]][a] \in I[i]
    <2>1. i \in 0..Len(Order) /\ i - 1 \in 0..Len(Order) /\ Order[i] \in Names
      BY OrderFacts
    <2>2. a \in Answers /\ AnswerOk(q, a)
          /\ (a.is = "clean" /\ a.need = {} => \A s \in Passed(i - 1) : Meets(q, v.t, s))
      BY <1>8, <2>1
    <2>3. PICK new : new = step[Order[i]][a]
      OBVIOUS
    <2>4. new \in Answers
      BY <1>3, <2>1, <2>2, <2>3
    <2>5. AnswerOk(q, new)
          /\ (new.is = "clean" /\ new.need = {} => a.is = "clean" /\ a.need = {} /\ Meets(q, v.t, Order[i]))
      BY <1>4, <2>1, <2>2, <2>3
    <2>6. new.is = "clean" /\ new.need = {} => \A s \in Passed(i) : Meets(q, v.t, s)
      BY <2>2, <2>5, PassedFacts
    <2>7. new \in I[i]
      BY <2>1, <2>4, <2>5, <2>6
    <2> QED BY <2>3, <2>7
  <1>9. I \in [0..Len(Order) -> SUBSET Answers]
    OBVIOUS
  <1>10. so \in I[Len(Order)]
    <2> HIDE DEF I
    <2>1. \A i \in 1..Len(Order) : \A a \in I[i - 1] : step[Order[i]][a] \in I[i]
      BY <1>8
    <2>2. Loop(start, step) \in I[Len(Order)]
      BY <1>3, <1>6, <1>7, <1>9, <2>1, LoopKeeps
    <2> QED BY <1>5, <2>2
  <1> QED BY <1>10, OrderFacts, PassedFacts

\* All dependencies say so: the file is fine.
LEMMA MeetsFine ==
  ASSUME NEW q, NEW u \in Names, As(q, u).stamp # None, As(q, u).stamp = q.disk[u].stamp,
         \A s \in Names : Meets(q, u, s)
  PROVE  u \in Fine(q)
  <1>1. MustBeFine(q, u) \subseteq Names /\ MustNotExist(q, u) \subseteq Names
    BY DEF MustBeFine, MustNotExist
  <1>2. MustBeFine(q, u) \subseteq Fine(q) /\ InOrder(q, u)
    BY <1>1 DEF InOrder, Meets
  <1> QED BY <1>2, FineFixed

LEMMA VisitOneSound ==
  ASSUME NEW q, Question(q), NEW v, VisitOk(q, v), NEW told, Told(q, v, told),
         NEW a, a = VisitOne(v, q.deps, q.disk, q.r, q.ood, told)
  PROVE  Sound(q, v, a)
  <1>1. v \in Visits /\ RowsOk(q, v) /\ v.t \in Names
    BY VisitFields DEF VisitOk
  <1>2. \A is \in {"clean", "dirty", "cycle"} :
            AnswerOk(q, Answer(is, {}, v)) /\ Answer(is, {}, v).is = is
    BY <1>1, AnswerRows, AnswerIs DEF Verdicts
  <1>3. CASE v.t \in v.seen
    <2>1. a = Answer("cycle", {}, v)
      BY <1>3 DEF VisitOne
    <2> QED BY <1>2, <2>1 DEF Sound
  <1>4. CASE v.t \notin v.seen /\ Overdue(v)
    <2>1. a = Answer("dirty", {}, v)
      BY <1>4 DEF VisitOne
    <2> QED BY <1>2, <2>1 DEF Sound
  <1>5. CASE v.t \notin v.seen /\ ~Overdue(v) /\ Recall(v, q.r, q.ood)
    <2>1. a = Answer("clean", {}, v)
      BY <1>5 DEF VisitOne
    <2>2. Fit(q, v)
      BY <1>5, KinFacts DEF Fit
    <2> QED BY <1>2, <2>1, <2>2 DEF Sound
  <1>6. CASE v.t \notin v.seen /\ ~Overdue(v) /\ ~Recall(v, q.r, q.ood)
    <2>1. v.f = As(q, v.t) /\ ~Recent(q, v.t) /\ ~Late(q, v.t, v.max)
      BY <1>6, KinFacts
    <2>2. CASE v.f.stamp = None
      <3>1. a = Answer("dirty", {}, v)
        BY <1>6, <2>2 DEF VisitOne
      <3> QED BY <1>2, <3>1 DEF Sound
    <2>3. CASE v.f.stamp # None /\ v.f.stamp # q.disk[v.t].stamp
      <3> DEFINE w == Forget(v, q.disk[v.t].stamp)
      <3>1. a = DirtySelf(v, w)
        BY <1>6, <2>3 DEF VisitOne
      <3>2. RowsOk(q, w)
        BY <2>1, <2>3, ForgetOk
      <3> HIDE DEF w
      <3> QED BY <1>1, <3>1, <3>2, DirtySelfOk DEF Sound
    <2>4. CASE v.f.stamp # None /\ v.f.stamp = q.disk[v.t].stamp
      <3>1. PICK so : so = WalkDeps(v, q.deps, q.disk, q.r, told)
        OBVIOUS
      <3>2. a = Conclude(v, so, q.r, q.ood)
        BY <1>6, <2>4, <3>1 DEF VisitOne
      <3>3. AnswerOk(q, so) /\ (so.is = "clean" /\ so.need = {} => \A s \in Names : Meets(q, v.t, s))
        BY <1>6, <2>1, <3>1, WalkSound
      <3>4. so \in Answers /\ RowsOk(q, so) /\ so.need \subseteq Names
        BY <3>3, AnswerFields DEF AnswerOk
      <3>5. CASE so.is # "clean"
        <4>1. a = so
          BY <3>2, <3>5 DEF Conclude
        <4> QED BY <3>3, <3>5, <4>1 DEF Sound
      <3>6. CASE so.is = "clean" /\ so.need # {}
        <4>1. a = Answer("need", so.need, so)
          BY <3>2, <3>6 DEF Conclude
        <4> QED BY <3>4, <3>6, <4>1, AnswerRows, AnswerIs DEF Sound, Verdicts
      <3>7. CASE so.is = "clean" /\ so.need = {}
        <4> DEFINE w == Remember(v, so, q.r, q.ood)
        <4>1. a = Answer("clean", {}, w)
          BY <3>2, <3>7 DEF Conclude
        <4>2. v.t \in Fine(q)
          BY <1>1, <2>1, <2>4, <3>3, <3>7, MeetsFine
        <4>3. RowsOk(q, w)
          BY <2>1, <3>4, <4>2, RememberOk
        <4> HIDE DEF w
        <4>4. AnswerOk(q, a)
          BY <4>1, <4>3, AnswerRows DEF Verdicts
        <4> QED BY <2>1, <4>2, <4>4 DEF Sound, Fit
      <3> QED BY <3>5, <3>6, <3>7
    <2> QED BY <2>2, <2>3, <2>4
  <1> QED BY <1>3, <1>4, <1>5, <1>6

\* Induction on Unseen: whatever the walk finds clean is fine.
LEMMA VisitsSound ==
  ASSUME NEW q, Question(q), NEW visit \in [Visits -> Answers],
         \A v \in Visits : visit[v] = VisitOne(v, q.deps, q.disk, q.r, q.ood, visit)
  PROVE  \A v \in Visits : VisitOk(q, v) => Sound(q, v, visit[v])
  <1> DEFINE T == {n \in Nat : \A v \in Visits : Unseen(v) < n /\ VisitOk(q, v) => Sound(q, v, visit[v])}
  <1>1. \A v \in Visits : Unseen(v) \in 0..Cardinality(Names)
    BY UnseenFacts
  <1>2. Cardinality(Names) \in Nat
    BY OrderFacts, FS_CardinalityType
  <1>3. 0 \in T
    BY <1>1, <1>2
  <1>4. ASSUME NEW n \in Nat, n \in T PROVE n + 1 \in T
    <2>1. SUFFICES ASSUME NEW v \in Visits, Unseen(v) < n + 1, VisitOk(q, v)
                   PROVE  Sound(q, v, visit[v])
      OBVIOUS
    <2>2. \A u \in Deeper(v) : Unseen(u) < n
      <3>1. SUFFICES ASSUME NEW u \in Deeper(v) PROVE Unseen(u) < n
        OBVIOUS
      <3>2. u \in Visits /\ Unseen(u) < Unseen(v)
        BY UnseenFacts DEF Deeper
      <3>3. Unseen(u) \in Int /\ Unseen(v) \in Int
        BY <1>1, <1>2, <3>2
      <3> QED BY <2>1, <3>2, <3>3
    <2>3. Told(q, v, visit)
      BY <1>4, <2>2 DEF Told, Deeper
    <2> QED BY <2>1, <2>3, VisitOneSound
  <1>5. Nat \subseteq T
    <2> HIDE DEF T
    <2> QED BY <1>3, <1>4, SetInduction
  <1>6. Cardinality(Names) + 1 \in T
    BY <1>2, <1>5
  <1> QED BY <1>1, <1>2, <1>6

----------------------------------------------------------------------------
(* What is fine is found clean.                                            *)

\* What lies below the file was not visited on the way to it.
Ahead(q, v) == v.seen \cap ({v.t} \cup Reach(Under(q), v.t)) = {}

\* What is fine is found clean, where the dependencies are.
LEMMA WalkClean ==
  ASSUME NEW q, Question(q), NEW v, VisitOk(q, v), v.t \notin v.seen, v.f = As(q, v.t),
         NEW told, Told(q, v, told), \A s \in Names : Meets(q, v.t, s),
         \A u \in Deeper(v) : VisitOk(q, u) /\ u.t \in MustBeFine(q, v.t) /\ Fit(q, u) => told[u].is = "clean",
         NEW so, so = WalkDeps(v, q.deps, q.disk, q.r, told)
  PROVE  so.is = "clean" /\ so.need = {}
  <1> DEFINE start == Answer("clean", {}, v)
             step == DepStep(v, q.deps, q.disk, q.r, told)
             mine == {d.source : d \in DepsOf(q.deps, v.t, v.f)}
             good == {a \in Answers : AnswerOk(q, a) /\ a.is = "clean" /\ a.need = {}}
             I == [i \in 0..Len(Order) |-> good]
  <1>1. v \in Visits /\ RowsOk(q, v) /\ q.r \in Nat /\ \A u \in Deeper(v) : told[u] \in Answers
    BY DEF VisitOk, Question, Told
  <1>2. AnswerOk(q, start) /\ start.is = "clean" /\ start.need = {}
    BY <1>1, AnswerRows, AnswerIs DEF Verdicts
  <1>3. step \in [Names -> [Answers -> Answers]]
    BY <1>1, StepType
  <1>4. ASSUME NEW s \in Names, NEW a \in good PROVE step[s][a] \in good
    <2>1. PICK new : new = step[s][a]
      OBVIOUS
    <2>2. a \in Answers /\ AnswerOk(q, a) /\ a.is = "clean" /\ a.need = {} /\ RowsOk(q, a)
      BY DEF AnswerOk
    <2>3. AnswerOk(q, new)
      BY <2>1, <2>2, StepSound
    <2>4. PICK sub : sub = Ask(v, s, a, q.deps, q.disk, q.r, told)
      OBVIOUS
    <2>5. new = IF a.is = "clean" /\ s \in mine THEN Combine(v, a, sub) ELSE a
      BY <1>1, <2>1, <2>2, <2>4, StepAt
    <2>6. ASSUME s \in mine PROVE sub.is = "clean"
      <3>1. CASE s \in MustNotExist(q, v.t)
        <4>1. q.disk[s].stamp = Missing
          BY <3>1 DEF Meets
        <4>2. sub = Answer("clean", {}, a)
          BY <2>4, <3>1, <4>1 DEF Ask, MustNotExist, Asks
        <4> QED BY <4>2, AnswerIs
      <3>2. CASE s \notin MustNotExist(q, v.t)
        <4> DEFINE c == Child(v, s, a, q.r)
        <4>1. sub = told[c]
          BY <2>4, <3>2 DEF Ask, MustNotExist, Asks, Child
        <4>2. VisitOk(q, c) /\ c \in Deeper(v) /\ c.t = s /\ c.max = Later(v.f.changed, v.f.checked)
          BY <2>2, ChildOk
        <4> HIDE DEF c
        <4>3. s \in MustBeFine(q, v.t)
          BY <2>6, <3>2 DEF MustBeFine, Asks
        <4>4. Fit(q, c)
          BY <4>2, <4>3 DEF Meets, Fit, Latest
        <4> QED BY <4>1, <4>2, <4>3, <4>4
      <3> QED BY <3>1, <3>2
    <2>7. CASE s \in mine
      <3>1. new = Answer("clean", {}, sub)
        BY <2>2, <2>5, <2>6, <2>7 DEF Combine
      <3>2. new.is = "clean" /\ new.need = {}
        BY <3>1, AnswerIs
      <3>3. new \in Answers
        BY <2>3 DEF AnswerOk
      <3> QED BY <2>1, <2>3, <3>2, <3>3
    <2>8. CASE s \notin mine
      <3>1. new = a
        BY <2>5, <2>8
      <3> QED BY <2>1, <3>1
    <2> QED BY <2>7, <2>8
  <1>5. start \in good
    BY <1>2 DEF AnswerOk
  <1>6. so = Loop(start, step)
    BY DEF WalkDeps
  <1> HIDE DEF start, step
  <1>7. start \in Answers /\ good \in SUBSET Answers
    BY <1>5
  <1> HIDE DEF good
  <1>8. I \in [0..Len(Order) -> SUBSET Answers] /\ start \in I[0] /\ I[Len(Order)] = good
    BY <1>5, <1>7, OrderFacts
  <1>9. \A i \in 1..Len(Order) : \A a \in I[i - 1] : step[Order[i]][a] \in I[i]
    <2>1. SUFFICES ASSUME NEW i \in 1..Len(Order), NEW a \in I[i - 1] PROVE step[Order[i]][a] \in I[i]
      OBVIOUS
    <2>2. i \in 0..Len(Order) /\ i - 1 \in 0..Len(Order) /\ Order[i] \in Names
      BY OrderFacts
    <2> QED BY <1>4, <2>2
  <1>10. Loop(start, step) \in I[Len(Order)]
    <2> HIDE DEF I
    <2> QED BY <1>3, <1>7, <1>8, <1>9, LoopKeeps
  <1> QED BY <1>6, <1>8, <1>10 DEF good

\* No visit misses a file that is fine, unless it comes to it a second time.
LEMMA VisitsClean ==
  ASSUME NEW q, Question(q), NEW visit \in [Visits -> Answers],
         \A v \in Visits : visit[v] = VisitOne(v, q.deps, q.disk, q.r, q.ood, visit)
  PROVE  \A v \in Visits : VisitOk(q, v) /\ Fit(q, v) /\ Ahead(q, v) => visit[v].is = "clean"
  <1> DEFINE ok == AllInOrder(q)
             T == {u \in Names : \A v \in Visits :
                      v.t = u /\ VisitOk(q, v) /\ Fit(q, v) /\ Ahead(q, v) => visit[v].is = "clean"}
  <1>1. ok \in SUBSET Names /\ Under(q) \in [Names -> SUBSET Names]
    BY DEF AllInOrder, Under, MustBeFine
  <1>2. Fine(q) = Least(ok, Under(q))
    BY DEF Fine
  <1> HIDE DEF ok
  <1>3. ASSUME NEW u \in ok, Under(q)[u] \subseteq T PROVE u \in T
    <2>1. SUFFICES ASSUME NEW v \in Visits, v.t = u, VisitOk(q, v), Fit(q, v), Ahead(q, v)
                   PROVE  visit[v].is = "clean"
      BY <1>1
    <2>2. ~Overdue(v) /\ v.t \notin v.seen /\ v.t \in Names /\ v.t \in Fine(q)
      BY <2>1, KinFacts, VisitFields DEF Ahead, Fit
    <2>3. CASE Recall(v, q.r, q.ood)
      <3>1. visit[v] = Answer("clean", {}, v)
        BY <2>2, <2>3 DEF VisitOne
      <3> QED BY <3>1, AnswerIs
    <2>4. CASE ~Recall(v, q.r, q.ood)
      <3>1. v.f = As(q, u) /\ ~Recent(q, u)
        BY <2>1, <2>2, <2>4, KinFacts
      <3>2. InOrder(q, u) /\ MustBeFine(q, u) \subseteq Fine(q) /\ Under(q)[u] = MustBeFine(q, u)
        BY <2>1, <2>2, <3>1, FineFixed DEF Under
      <3>3. v.f.stamp # None /\ v.f.stamp = q.disk[v.t].stamp
        BY <2>1, <3>1, <3>2 DEF InOrder
      <3>4. \A s \in Names : Meets(q, u, s)
        BY <3>1, <3>2 DEF InOrder, Meets
      <3>5. Told(q, v, visit)
        BY VisitsSound DEF Told, Deeper
      <3>6. ASSUME NEW w \in Deeper(v), VisitOk(q, w), w.t \in MustBeFine(q, u), Fit(q, w)
            PROVE  visit[w].is = "clean"
        <4>1. w \in Visits /\ w.seen = v.seen \cup {u}
          BY <2>1, <3>6 DEF Deeper
        <4>2. w.t \in T /\ w.t \in Under(q)[u]
          BY <1>3, <3>2, <3>6
        <4>3. w.t \in Reach(Under(q), u) /\ Reach(Under(q), w.t) \subseteq Reach(Under(q), u)
          BY <1>1, <2>1, <2>2, <4>2, ReachFacts
        <4>4. u \notin Reach(Under(q), u)
          BY <1>1, <1>2, <2>1, <2>2, LeastApart
        <4>5. Ahead(q, w)
          BY <2>1, <4>1, <4>3, <4>4 DEF Ahead
        <4> QED BY <3>6, <4>1, <4>2, <4>5
      <3>7. PICK so : so = WalkDeps(v, q.deps, q.disk, q.r, visit)
        OBVIOUS
      <3>8. so.is = "clean" /\ so.need = {}
        BY <2>1, <2>2, <3>1, <3>4, <3>5, <3>6, <3>7, WalkClean
      <3>9. visit[v] = Conclude(v, so, q.r, q.ood)
        BY <2>2, <2>4, <3>3, <3>7 DEF VisitOne
      <3>10. visit[v] = Answer("clean", {}, Remember(v, so, q.r, q.ood))
        BY <3>8, <3>9 DEF Conclude
      <3> QED BY <3>10, AnswerIs
    <2> QED BY <2>3, <2>4
  <1>4. T \in SUBSET Names /\ TakesIn(T, ok, Under(q))
    BY <1>3 DEF TakesIn
  <1>5. Fine(q) \subseteq T
    <2> HIDE DEF T
    <2> QED BY <1>2, <1>4, LeastInduct
  <1> QED BY <1>5 DEF Fit

\* An answer, and what it says of the file: the walk finds it clean if and only
\* if it is fine and not late, whatever it has met before.
LEMMA WalkDecides ==
  ASSUME NEW q, Question(q), NEW v, VisitOk(q, v), v.seen = {}
  PROVE  LET a == PrivateIsDirty(v, q.deps, q.disk, q.r, q.ood)
         IN AnswerOk(q, a) /\ (a.is = "clean" <=> Fit(q, v))
  <1>1. q.r \in Nat /\ v \in Visits
    BY DEF Question, VisitOk
  <1>2. PICK visit \in [Visits -> Answers] :
            /\ \A u \in Visits : visit[u] = VisitOne(u, q.deps, q.disk, q.r, q.ood, visit)
            /\ \A u : PrivateIsDirty(u, q.deps, q.disk, q.r, q.ood) = visit[u]
    <2>1. PICK deps, disk, r, ood : deps = q.deps /\ disk = q.disk /\ r = q.r /\ ood = q.ood
      OBVIOUS
    <2>2. \E visit \in [Visits -> Answers] :
            /\ \A u \in Visits : visit[u] = VisitOne(u, deps, disk, r, ood, visit)
            /\ \A u : PrivateIsDirty(u, deps, disk, r, ood) = visit[u]
      BY <1>1, <2>1, WalkIsDefined
    <2> QED BY <2>1, <2>2
  <1>3. Sound(q, v, visit[v])
    BY <1>1, <1>2, VisitsSound
  <1>4. Ahead(q, v)
    BY DEF Ahead
  <1>5. Fit(q, v) => visit[v].is = "clean"
    BY <1>1, <1>2, <1>4, VisitsClean
  <1>6. PrivateIsDirty(v, q.deps, q.disk, q.r, q.ood) = visit[v]
    BY <1>2
  <1> QED BY <1>3, <1>5, <1>6 DEF Sound

----------------------------------------------------------------------------
(* The questions that commands ask.                                        *)

\* What the walk is to answer about a file that a command asks for.
Clean(q, t) == t \in Fine(q) /\ ~Late(q, t, q.r)

LEMMA AskedFor ==
  ASSUME NEW q, Question(q), NEW t \in Names, NEW at, RowsOk(q, at),
         NEW a, a = IsDirty(t, As(q, t), at, q.deps, q.disk, q.r, q.ood)
  PROVE  AnswerOk(q, a) /\ (a.is = "clean" <=> Clean(q, t))
  <1> DEFINE v == [t |-> t, f |-> As(q, t), max |-> q.r, seen |-> {}, db |-> at.db, cache |-> at.cache]
  <1>1. As(q, t) \in Row /\ q.r \in Int /\ Fine(q) \subseteq Names
    BY AsRow DEF Question, Fine, Least
  <1>2. v \in Visits
    BY <1>1 DEF Visits, RowsOk
  <1>3. v.t = t /\ v.f = As(q, t) /\ v.max = q.r /\ v.seen = {} /\ v.db = at.db /\ v.cache = at.cache
    OBVIOUS
  <1>4. a = PrivateIsDirty(v, q.deps, q.disk, q.r, q.ood)
    BY DEF IsDirty
  <1> HIDE DEF v
  <1>5. RowsOk(q, v) /\ Kin(q, t, v.f)
    BY <1>3 DEF RowsOk, Kin
  <1>6. VisitOk(q, v)
    BY <1>2, <1>3, <1>5 DEF VisitOk
  <1>7. AnswerOk(q, a) /\ (a.is = "clean" <=> Fit(q, v))
    BY <1>3, <1>4, <1>6, WalkDecides
  <1>8. Fit(q, v) <=> Clean(q, t)
    BY <1>3 DEF Fit, Clean
  <1> QED BY <1>7, <1>8

\* The questions of redo-ifchange, and of redo-ood.
IfchangeAsks(db, deps, disk, r) ==
    [db |-> db, deps |-> deps, disk |-> disk, r |-> r, ood |-> FALSE]

OodAsks(db, deps, disk, r) == [db |-> db, deps |-> deps, disk |-> disk, r |-> r, ood |-> TRUE]

\* Nothing has been found out yet.
LEMMA AtFirst ==
  ASSUME NEW q, Question(q), NEW at, at.db = q.db, at.cache = {}
  PROVE  RowsOk(q, at)
  BY DEF RowsOk, Question

LEMMA ShouldBuildIs ==
  ASSUME NEW t \in Names, NEW db \in [Names -> Row], NEW deps, NEW disk, NEW r \in Nat, r > 0,
         NEW q, q = IfchangeAsks(db, deps, disk, r),
         NEW a, a = ShouldBuild(t, db, deps, disk, r)
  PROVE  RowsOk(q, a) /\ (a.is = "clean" <=> Clean(q, t))
  <1> DEFINE b == IsDirty(t, FromCols(t, db[t], r), [db |-> db, cache |-> {}], deps, disk, r, FALSE)
  <1>1. q.db = db /\ q.deps = deps /\ q.disk = disk /\ q.r = r /\ q.ood = FALSE
    BY DEF IfchangeAsks, OodAsks
  <1>2. Question(q)
    BY <1>1 DEF Question
  <1>3. PICK at : at = [db |-> db, cache |-> {}]
    OBVIOUS
  <1>4. RowsOk(q, at)
    <2>1. at.db = q.db /\ at.cache = {}
      BY <1>1, <1>3
    <2> QED BY <1>2, <2>1, AtFirst
  <1>5. b = IsDirty(t, As(q, t), at, q.deps, q.disk, q.r, q.ood)
    BY <1>1, <1>3 DEF As
  <1>6. a = IF b.is = "need" /\ b.need = {t} THEN [b EXCEPT !.is = "dirty", !.need = {}] ELSE b
    BY DEF ShouldBuild
  <1> HIDE DEF b
  <1>7. AnswerOk(q, b) /\ (b.is = "clean" <=> Clean(q, t))
    BY <1>2, <1>4, <1>5, AskedFor
  <1>8. b \in Answers /\ RowsOk(q, b)
    BY <1>7 DEF AnswerOk
  <1>9. PICK c : c = [b EXCEPT !.is = "dirty", !.need = {}]
    OBVIOUS
  <1>10. c.is = "dirty" /\ c.db = b.db /\ c.cache = b.cache
    BY <1>8, <1>9 DEF Answers
  <1>11. RowsOk(q, c)
    BY <1>8, <1>10 DEF RowsOk
  <1> QED BY <1>6, <1>7, <1>8, <1>9, <1>10, <1>11

\* The walk of redo-ifchange only ever marks a row as checked in this run.
LEMMA CheckedRows ==
  ASSUME NEW t \in Names, NEW db \in [Names -> Row], NEW deps, NEW disk, NEW r \in Nat, r > 0
  PROVE  \A n \in Names : ShouldBuild(t, db, deps, disk, r).db[n].checked \in {db[n].checked, r}
  <1>1. PICK q, a : q = IfchangeAsks(db, deps, disk, r) /\ a = ShouldBuild(t, db, deps, disk, r)
    OBVIOUS
  <1>2. q.db = db /\ q.r = r
    BY <1>1 DEF IfchangeAsks, OodAsks
  <1>3. RowsOk(q, a)
    BY <1>1, ShouldBuildIs
  <1>4. ASSUME NEW n \in Names PROVE a.db[n].checked \in {db[n].checked, r}
    <2>1. db[n] \in Row
      OBVIOUS
    <2>2. As(q, n) \in Row /\ As(q, n).checked = db[n].checked
      BY <1>2, <2>1, FromColsRow DEF As, FromCols, Row
    <2>3. SetChecked(As(q, n), r).checked = r /\ Forgotten(As(q, n)).checked = As(q, n).checked
      BY <2>2 DEF SetChecked, Forgotten, Row
    <2> QED BY <1>2, <1>3, <2>2, <2>3 DEF RowsOk, Kin
  <1> QED BY <1>1, <1>4

LEMMA RedoOodIs ==
  ASSUME NEW db \in [Names -> Row], NEW deps, NEW disk, NEW r \in Nat, r > 0,
         NEW q, q = OodAsks(db, deps, disk, r)
  PROVE  RedoOod(db, deps, disk, r) = {t \in RedoTargets(db, disk, r) : ~Clean(q, t)}
  <1> DEFINE targets == RedoTargets(db, disk, r)
             asked(t, so) == IsDirty(t, FromCols(t, db[t], r), so, deps, disk, r, TRUE)
             noted(a, t, so) == [a EXCEPT !.need = so.need \cup (IF a.is = "clean" THEN {} ELSE {t})]
             step == [t \in Names |-> [so \in Answers |->
                        IF t \in targets
                        THEN [a \in Answers |-> noted(a, t, so)][asked(t, so)]
                        ELSE so]]
             start == Answer("clean", {}, [db |-> db, cache |-> {}])
             found(S) == {t \in targets \cap S : ~Clean(q, t)}
             I == [i \in 0..Len(Order) |->
                     {a \in Answers : RowsOk(q, a) /\ a.need = found(Passed(i))}]
  <1>1. q.db = db /\ q.deps = deps /\ q.disk = disk /\ q.r = r /\ q.ood = TRUE
    BY DEF IfchangeAsks, OodAsks
  <1>2. Question(q)
    BY <1>1 DEF Question
  <1>3. targets \subseteq Names
    BY DEF RedoTargets
  <1>4. RedoOod(db, deps, disk, r) = Loop(start, step).need
    BY DEF RedoOod
  <1>5. start.db = db /\ start.cache = {} /\ start.need = {} /\ start \in Answers
    BY DEF Answer, Answers, Verdicts
  <1>6. RowsOk(q, start)
    <2>1. start.db = q.db /\ start.cache = {}
      BY <1>1, <1>5
    <2> QED BY <1>2, <2>1, AtFirst
  <1> HIDE DEF targets, start
  <1>7. ASSUME NEW t \in Names, NEW so \in Answers PROVE asked(t, so) \in Answers
    <2> DEFINE v == [t |-> t, f |-> FromCols(t, db[t], r), max |-> r, seen |-> {},
                     db |-> so.db, cache |-> so.cache]
    <2>1. FromCols(t, db[t], r) \in Row /\ so.db \in [Names -> Row] /\ so.cache \subseteq Names
      BY FromColsRow, AnswerFields
    <2>2. v \in Visits
      BY <2>1 DEF Visits
    <2>3. asked(t, so) = PrivateIsDirty(v, deps, disk, r, TRUE)
      BY DEF IsDirty
    <2> HIDE DEF v, asked
    <2>4. v \in VisitsFrom({}, disk) /\ {} \in SUBSET [Names -> Row]
      BY <2>2, FromNothing
    <2>5. PrivateIsDirty(v, deps, disk, r, TRUE) \in AnswersFrom({}, disk)
      BY <2>4, PrivateIsDirtyFrom
    <2> QED BY <2>3, <2>5, FromNothing
  <1>8. ASSUME NEW t \in Names, NEW so \in Answers, NEW a \in Answers
        PROVE  /\ noted(a, t, so) \in Answers
               /\ noted(a, t, so).need = so.need \cup (IF a.is = "clean" THEN {} ELSE {t})
               /\ RowsOk(q, a) => RowsOk(q, noted(a, t, so))
    <2>1. PICK m : m = so.need \cup (IF a.is = "clean" THEN {} ELSE {t})
      OBVIOUS
    <2>2. m \subseteq Names
      BY <2>1, AnswerFields
    <2>3. PICK b : b = [a EXCEPT !.need = m]
      OBVIOUS
    <2>4. b \in Answers /\ b.need = m /\ b.db = a.db /\ b.cache = a.cache
      BY <2>2, <2>3 DEF Answers
    <2>5. RowsOk(q, a) => RowsOk(q, b)
      BY <2>4 DEF RowsOk
    <2>6. b = noted(a, t, so)
      BY <2>1, <2>3
    <2> HIDE DEF noted
    <2> QED BY <2>1, <2>4, <2>5, <2>6
  <1>9. ASSUME NEW t \in Names, NEW so \in Answers, RowsOk(q, so)
        PROVE  RowsOk(q, asked(t, so)) /\ (asked(t, so).is = "clean" <=> Clean(q, t))
    <2>1. PICK a : a = asked(t, so)
      OBVIOUS
    <2>2. a = IsDirty(t, As(q, t), so, q.deps, q.disk, q.r, q.ood)
      BY <1>1, <2>1 DEF As
    <2>3. AnswerOk(q, a) /\ (a.is = "clean" <=> Clean(q, t))
      BY <1>2, <1>9, <2>2, AskedFor
    <2> HIDE DEF asked
    <2> QED BY <2>1, <2>3 DEF AnswerOk
  <1> HIDE DEF asked, noted
  <1>10. ASSUME NEW t \in Names, NEW so \in Answers
         PROVE  step[t][so] = IF t \in targets THEN noted(asked(t, so), t, so) ELSE so
    BY <1>7
  <1>11. step \in [Names -> [Answers -> Answers]]
    <2>1. \A t \in Names : \A so \in Answers :
             (IF t \in targets THEN [a \in Answers |-> noted(a, t, so)][asked(t, so)] ELSE so) \in Answers
      BY <1>7, <1>8
    <2> QED BY <2>1
  <1> HIDE DEF step
  <1>12. start \in I[0]
    <2>1. found(Passed(0)) = {} /\ 0 \in 0..Len(Order)
      BY PassedFacts, OrderFacts DEF found
    <2> HIDE DEF found
    <2> QED BY <1>5, <1>6, <2>1
  <1>13. ASSUME NEW i \in 1..Len(Order), NEW so \in I[i - 1] PROVE step[Order[i]][so] \in I[i]
    <2>1. i \in 0..Len(Order) /\ i - 1 \in 0..Len(Order) /\ Order[i] \in Names
      BY OrderFacts
    <2>2. so \in Answers /\ RowsOk(q, so) /\ so.need = found(Passed(i - 1))
      BY <1>13, <2>1
    <2>3. PICK t : t = Order[i]
      OBVIOUS
    <2>4. PICK a : a = asked(t, so)
      OBVIOUS
    <2>5. a \in Answers /\ RowsOk(q, a) /\ (a.is = "clean" <=> Clean(q, t))
      BY <1>7, <1>9, <2>1, <2>2, <2>3, <2>4
    <2>6. PICK b : b = noted(a, t, so)
      OBVIOUS
    <2>7. b \in Answers /\ RowsOk(q, b) /\ b.need = so.need \cup (IF a.is = "clean" THEN {} ELSE {t})
      <3>1. t \in Names /\ so \in Answers /\ a \in Answers /\ RowsOk(q, a)
        BY <2>1, <2>2, <2>3, <2>5
      <3> HIDE DEF I, found
      <3> QED BY <1>8, <2>6, <3>1
    <2>8. Passed(i) = Passed(i - 1) \cup {t}
      BY <2>3, PassedFacts
    <2>9. found(Passed(i)) = so.need \cup (IF t \in targets /\ ~Clean(q, t) THEN {t} ELSE {})
      BY <2>2, <2>8
    <2>10. step[t][so] = IF t \in targets THEN b ELSE so
      BY <1>10, <2>1, <2>2, <2>3, <2>4, <2>6
    <2> HIDE DEF found
    <2>11. CASE t \in targets
      <3>1. b.need = found(Passed(i))
        BY <2>5, <2>7, <2>9, <2>11
      <3> QED BY <2>1, <2>3, <2>7, <2>10, <2>11, <3>1
    <2>12. CASE t \notin targets
      <3>1. so.need = found(Passed(i))
        BY <2>9, <2>12
      <3> QED BY <2>1, <2>2, <2>3, <2>10, <2>12, <3>1
    <2> QED BY <2>11, <2>12
  <1>14. I \in [0..Len(Order) -> SUBSET Answers]
    OBVIOUS
  <1>15. Loop(start, step) \in I[Len(Order)]
    <2> HIDE DEF I, found
    <2>1. \A i \in 1..Len(Order) : \A so \in I[i - 1] : step[Order[i]][so] \in I[i]
      BY <1>13
    <2> QED BY <1>5, <1>11, <1>12, <1>14, <2>1, LoopKeeps
  <1>16. Loop(start, step).need = found(Names)
    <2>1. Len(Order) \in 0..Len(Order) /\ Passed(Len(Order)) = Names
      BY OrderFacts, PassedFacts
    <2> HIDE DEF found
    <2> QED BY <1>15, <2>1
  <1>17. Loop(start, step).need = {t \in targets : ~Clean(q, t)}
    BY <1>3, <1>16
  <1> QED BY <1>4, <1>17 DEF targets, step, start, asked, noted

\* redo-ood and redo-ifchange take a file for fine on the same grounds, as long
\* as nothing was checked in the run they ask about.
LEMMA FineAlike ==
  ASSUME NEW db \in [Names -> Row], NEW deps, NEW disk, NEW r \in Nat, r > 0,
         \A n \in Names : db[n].checked < r,
         NEW p, p = IfchangeAsks(db, deps, disk, r), NEW q, q = OodAsks(db, deps, disk, r)
  PROVE  \A t : Clean(p, t) <=> Clean(q, t)
  <1>1. /\ p.db = db /\ p.deps = deps /\ p.disk = disk /\ p.r = r
        /\ q.db = db /\ q.deps = deps /\ q.disk = disk /\ q.r = r /\ q.ood = TRUE
    BY DEF IfchangeAsks, OodAsks
  <1>2. \A n : As(p, n) = As(q, n)
    BY <1>1 DEF As
  <1>3. \A n \in Names : ~Recent(p, n) /\ ~Recent(q, n)
    <2>1. SUFFICES ASSUME NEW n \in Names PROVE ~Recent(p, n) /\ ~Recent(q, n)
      OBVIOUS
    <2>2. db[n] \in Row /\ db[n].checked < r
      OBVIOUS
    <2>3. As(p, n).checked = db[n].checked
      BY <1>1, <2>2, FromColsRow DEF As, FromCols, Row
    <2>4. db[n].checked \in Int
      BY <2>2, RowFields, RunIdFacts
    <2>5. ~IsChecked(As(p, n), r)
      <3>1. \A c \in Int : c < r => ~InRun(c, r)
        BY DEF InRun
      <3> QED BY <2>2, <2>3, <2>4, <3>1 DEF IsChecked
    <2> QED BY <1>1, <1>2, <2>5 DEF Recent
  <1>4. \A n : /\ MustNotExist(p, n) = MustNotExist(q, n) /\ MustBeFine(p, n) = MustBeFine(q, n)
               /\ Latest(p, n) = Latest(q, n)
    <2>1. \A n : Asks(p, n) = Asks(q, n)
      BY <1>1, <1>2 DEF Asks
    <2>2. \A n : MustNotExist(p, n) = MustNotExist(q, n)
      BY <2>1 DEF MustNotExist
    <2>3. \A n : MustBeFine(p, n) = MustBeFine(q, n)
      BY <2>1, <2>2 DEF MustBeFine
    <2>4. \A n : Latest(p, n) = Latest(q, n)
      BY <1>2 DEF Latest
    <2> QED BY <2>2, <2>3, <2>4
  <1>5. \A n, m : Late(p, n, m) <=> Late(q, n, m)
    BY <1>2 DEF Late
  <1>6. \A n \in Names : InOrder(p, n) <=> InOrder(q, n)
    <2>1. SUFFICES ASSUME NEW n \in Names PROVE InOrder(p, n) <=> InOrder(q, n)
      OBVIOUS
    <2>2. ~Recent(p, n) /\ ~Recent(q, n)
      BY <1>3
    <2>3. \A s : Late(p, s, Latest(p, n)) <=> Late(q, s, Latest(q, n))
      BY <1>4, <1>5
    <2>4. /\ MustNotExist(p, n) = MustNotExist(q, n) /\ MustBeFine(p, n) = MustBeFine(q, n)
          /\ As(p, n) = As(q, n) /\ p.disk = q.disk
      BY <1>1, <1>2, <1>4
    <2> QED BY <2>2, <2>3, <2>4 DEF InOrder
  <1>7. AllInOrder(p) = AllInOrder(q)
    BY <1>6 DEF AllInOrder
  <1>8. Under(p) = Under(q)
    BY <1>3, <1>4 DEF Under
  <1>9. Fine(p) = Fine(q)
    BY <1>7, <1>8 DEF Fine
  <1> QED BY <1>1, <1>5, <1>9 DEF Clean

\* redo-ood asks about all targets with one cache, redo-ifchange about one with
\* the database (private_is_dirty() of src/src/deps.rs): in a run that has not
\* checked anything yet they agree, in whatever order redo-ood asks and whatever
\* circles the dependencies have.
THEOREM OodAsksTheSame ==
  ASSUME NEW db \in [Names -> Row], NEW deps, NEW disk, NEW r \in Nat, r > 0,
         \A n \in Names : db[n].checked < r
  PROVE  RedoOod(db, deps, disk, r)
           = {t \in RedoTargets(db, disk, r) : ShouldBuild(t, db, deps, disk, r).is # "clean"}
  <1>0. PICK p : p = IfchangeAsks(db, deps, disk, r)
    OBVIOUS
  <1>1. PICK q : q = OodAsks(db, deps, disk, r)
    OBVIOUS
  <1>2. \A t \in Names : ShouldBuild(t, db, deps, disk, r).is = "clean" <=> Clean(p, t)
    BY <1>0, ShouldBuildIs
  <1>3. \A t : Clean(p, t) <=> Clean(q, t)
    BY <1>0, <1>1, FineAlike
  <1>4. RedoOod(db, deps, disk, r) = {t \in RedoTargets(db, disk, r) : ~Clean(q, t)}
    BY <1>1, RedoOodIs
  <1>5. RedoTargets(db, disk, r) \subseteq Names
    BY DEF RedoTargets
  <1> QED BY <1>2, <1>3, <1>4, <1>5
=============================================================================
