----------------------------- MODULE PathsProofs -----------------------------
(***************************************************************************)
(* For paths of every length: normpath() leads where the path led, and the *)
(* search for .do files tries every rule once, in the right order.         *)
(***************************************************************************)
EXTENDS Paths, WellFoundedInduction, FiniteSetTheorems, SequenceTheorems, TLAPS

----------------------------------------------------------------------------
(* Induction, and definition by recursion. *)

\* Induction, for a set in place of a predicate.
LEMMA SetInduction ==
  ASSUME NEW S, 0 \in S, \A n \in Nat : n \in S => n + 1 \in S
  PROVE  Nat \subseteq S
  <1> DEFINE less == OpToRel(<, Nat)
  <1>1. SUFFICES ASSUME Nat \ S # {} PROVE FALSE
    OBVIOUS
  <1>2. PICK n \in Nat \ S : \A m \in Nat \ S : <<m, n>> \notin less
    BY <1>1, NatLessThanWellFounded, WFMin
  <1> HIDE DEF less
  <1>3. n # 0 /\ n - 1 \in Nat /\ (n - 1) + 1 = n
    BY <1>2
  <1>4. <<n - 1, n>> \in less
    BY <1>3 DEF OpToRel, less
  <1>5. n - 1 \in S
    BY <1>2, <1>3, <1>4
  <1> QED BY <1>2, <1>3, <1>5

LEMMA LessBy ==
  ASSUME NEW a \in Nat, NEW b \in Nat, b <= a
  PROVE  a - b \in Nat
  OBVIOUS

LEMMA LessFrom ==
  ASSUME NEW n \in Int, NEW x \in Int, NEW y \in Int, x < y
  PROVE  n - x > n - y
  OBVIOUS

\* The steps of a loop, one after the other.
Iterates(A, start, n, step, w) ==
    w \in [0..n -> A] /\ w[0] = start /\ \A i \in 1..n : w[i] = step[i][w[i - 1]]

LEMMA Iteration ==
  ASSUME NEW A, NEW start \in A, NEW n \in Nat, NEW step \in [1..n -> [A -> A]]
  PROVE  \E w : Iterates(A, start, n, step, w)
  <1> DEFINE Good(m, w) == w[0] = start /\ \A i \in 1..m : w[i] = step[i][w[i - 1]]
             T == {m \in Nat : m <= n => \E w \in [0..m -> A] : Good(m, w)}
  <1>1. 0 \in T
    <2>1. [i \in 0..0 |-> start] \in [0..0 -> A] /\ Good(0, [i \in 0..0 |-> start])
      OBVIOUS
    <2> QED BY <2>1
  <1>2. ASSUME NEW m \in Nat, m \in T PROVE m + 1 \in T
    <2>1. SUFFICES ASSUME m + 1 <= n PROVE \E w \in [0..(m + 1) -> A] : Good(m + 1, w)
      OBVIOUS
    <2>2. PICK w \in [0..m -> A] : Good(m, w)
      BY <1>2, <2>1
    <2> DEFINE x == [i \in 0..(m + 1) |-> IF i <= m THEN w[i] ELSE step[m + 1][w[m]]]
    <2>3. m + 1 \in 1..n /\ m \in 0..m
      BY <2>1
    <2>4. w[m] \in A /\ step[m + 1] \in [A -> A]
      BY <2>2, <2>3
    <2>5. step[m + 1][w[m]] \in A
      BY <2>4
    <2>6. x \in [0..(m + 1) -> A]
      BY <2>2, <2>5
    <2>7. x[0] = start
      BY <2>2
    <2>8. \A i \in 1..(m + 1) : x[i] = step[i][x[i - 1]]
      <3>1. SUFFICES ASSUME NEW i \in 1..(m + 1) PROVE x[i] = step[i][x[i - 1]]
        OBVIOUS
      <3>2. CASE i = m + 1
        BY <3>2
      <3>3. CASE i <= m
        <4>1. i \in 1..m /\ i \in 0..(m + 1) /\ i - 1 \in 0..(m + 1) /\ i - 1 <= m
          BY <3>3
        <4>2. x[i] = w[i] /\ x[i - 1] = w[i - 1]
          BY <3>3, <4>1
        <4> QED BY <2>2, <4>1, <4>2
      <3> QED BY <3>2, <3>3
    <2> HIDE DEF x
    <2> QED BY <2>6, <2>7, <2>8
  <1>3. Nat \subseteq T
    <2> HIDE DEF T
    <2> QED BY <1>1, <1>2, SetInduction
  <1>4. \E w \in [0..n -> A] : Good(n, w)
    BY <1>3
  <1> QED BY <1>4 DEF Iterates

\* What a loop preserves holds at its end.
LEMMA Stays ==
  ASSUME NEW A, NEW n \in Nat, NEW f, f[0] \in A,
         \A i \in 1..n : f[i - 1] \in A => f[i] \in A
  PROVE  \A i \in 0..n : f[i] \in A
  <1> DEFINE T == {m \in Nat : m <= n => f[m] \in A}
  <1>1. 0 \in T
    OBVIOUS
  <1>2. ASSUME NEW m \in Nat, m \in T PROVE m + 1 \in T
    <2>1. SUFFICES ASSUME m + 1 <= n PROVE f[m + 1] \in A
      OBVIOUS
    <2>2. m + 1 \in 1..n /\ m <= n /\ (m + 1) - 1 = m
      BY <2>1
    <2>3. f[m] \in A
      BY <1>2, <2>2
    <2> QED BY <2>2, <2>3
  <1>3. Nat \subseteq T
    <2> HIDE DEF T
    <2> QED BY <1>1, <1>2, SetInduction
  <1> QED BY <1>3

----------------------------------------------------------------------------
(* Strings, and the elements of a path. *)

Strings == Seq(Symbols)

Splits == [done : Seq(Names), part : Strings]

SplitStep(x, c) ==
    IF c = "/" THEN [done |-> Close(x), part |-> <<>>] ELSE [x EXCEPT !.part = Append(@, c)]

LEMMA CloseType ==
  ASSUME NEW x \in Splits
  PROVE  Close(x) \in Seq(Names)
  BY DEF Splits, Close, Names, Strings

LEMMA CloseFacts ==
  ASSUME NEW d, NEW e
  PROVE  /\ Close([done |-> d, part |-> <<>>]) = d
         /\ e # <<>> => Close([done |-> d, part |-> e]) = Append(d, e)
  BY DEF Close

LEMMA SplitStepType ==
  ASSUME NEW x \in Splits, NEW c \in Symbols
  PROVE  SplitStep(x, c) \in Splits
  <1>1. x.part \in Strings /\ Append(x.part, c) \in Strings
    BY DEF Splits, Strings
  <1>2. [x EXCEPT !.part = Append(x.part, c)] \in Splits
    BY <1>1 DEF Splits
  <1>3. Close(x) \in Seq(Names) /\ <<>> \in Strings
    BY CloseType DEF Strings
  <1>4. [done |-> Close(x), part |-> <<>>] \in Splits
    BY <1>3 DEF Splits
  <1> QED BY <1>2, <1>4 DEF SplitStep

LEMMA SplitFacts ==
  ASSUME NEW s \in Strings
  PROVE  /\ Split(s) \in [0..Len(s) -> Splits]
         /\ Split(s)[0] = [done |-> <<>>, part |-> <<>>]
         /\ \A i \in 1..Len(s) : Split(s)[i] = SplitStep(Split(s)[i - 1], s[i])
  <1> DEFINE start == [done |-> <<>>, part |-> <<>>]
             Def(f) == [i \in 0..Len(s) |->
                          IF i = 0 THEN start
                          ELSE IF s[i] = "/" THEN [done |-> Close(f[i - 1]), part |-> <<>>]
                          ELSE [f[i - 1] EXCEPT !.part = Append(@, s[i])]]
             step == [i \in 1..Len(s) |-> [x \in Splits |-> SplitStep(x, s[i])]]
             chosen == CHOOSE f : f = Def(f)
  <1>1. start \in Splits /\ Len(s) \in Nat /\ \A i \in 1..Len(s) : s[i] \in Symbols
    BY DEF Splits, Strings
  <1>2. step \in [1..Len(s) -> [Splits -> Splits]]
    BY <1>1, SplitStepType
  <1>3. \A i \in 1..Len(s) : \A x \in Splits : step[i][x] = SplitStep(x, s[i])
    OBVIOUS
  <1> HIDE DEF start, step
  <1>4. PICK w \in [0..Len(s) -> Splits] :
               w[0] = start /\ \A i \in 1..Len(s) : w[i] = step[i][w[i - 1]]
    <2> DEFINE n == Len(s)
    <2>1. n \in Nat /\ start \in Splits /\ step \in [1..n -> [Splits -> Splits]]
      BY <1>1, <1>2
    <2> HIDE DEF n, chosen
    <2>2. \E w : Iterates(Splits, start, n, step, w)
      BY <2>1, Iteration, Zenon
    <2>3. \E w \in [0..n -> Splits] : w[0] = start /\ \A i \in 1..n : w[i] = step[i][w[i - 1]]
      BY <2>2 DEF Iterates
    <2> QED BY <2>3 DEF n
  <1>5. \A i \in 1..Len(s) : w[i] = SplitStep(w[i - 1], s[i])
    <2>1. SUFFICES ASSUME NEW i \in 1..Len(s) PROVE w[i] = SplitStep(w[i - 1], s[i])
      OBVIOUS
    <2>2. i - 1 \in 0..Len(s)
      BY <1>1
    <2> QED BY <1>3, <1>4, <2>2
  <1>6. w = Def(w)
    <2>1. SUFFICES ASSUME NEW i \in 0..Len(s) PROVE w[i] = Def(w)[i]
      OBVIOUS
    <2>2. CASE i = 0
      BY <1>4, <2>2
    <2>3. CASE i # 0
      <3>1. i \in 1..Len(s) /\ w[i] = SplitStep(w[i - 1], s[i])
        BY <1>1, <1>5, <2>3
      <3> QED BY <2>3, <3>1 DEF SplitStep
    <2> QED BY <2>2, <2>3
  <1>7. chosen = Def(chosen)
    <2> HIDE DEF Def
    <2> QED BY <1>6
  <1>8. Split(s) = chosen
    BY DEF Split, start
  <1> HIDE DEF chosen
  <1>9. chosen[0] = start
    BY <1>1, <1>7
  <1>10. ASSUME NEW i \in 1..Len(s) PROVE chosen[i] = SplitStep(chosen[i - 1], s[i])
    <2>1. i \in 0..Len(s) /\ i # 0
      BY <1>1
    <2> QED BY <1>7, <2>1 DEF SplitStep
  <1>11. \A i \in 0..Len(s) : chosen[i] \in Splits
    BY <1>1, <1>9, <1>10, SplitStepType, Stays
  <1>12. chosen \in [0..Len(s) -> Splits]
    BY <1>7, <1>11
  <1> QED BY <1>8, <1>9, <1>10, <1>12 DEF start

LEMMA ElementsType ==
  ASSUME NEW s \in Strings
  PROVE  /\ Len(s) \in Nat /\ Split(s)[Len(s)] \in Splits
         /\ ElementsOf(s) \in Seq(Names)
  <1>1. Len(s) \in Nat
    BY DEF Strings
  <1>2. Split(s)[Len(s)] \in Splits
    BY <1>1, SplitFacts
  <1> QED BY <1>1, <1>2, CloseType DEF ElementsOf

(* What has been split depends on what has been read. *)
LEMMA SplitPrefix ==
  ASSUME NEW s \in Strings, NEW t \in Strings, NEW n \in Nat, n <= Len(s), n <= Len(t),
         \A i \in 1..n : s[i] = t[i]
  PROVE  \A i \in 0..n : Split(s)[i] = Split(t)[i]
  <1> DEFINE T == {m \in Nat : m <= n => Split(s)[m] = Split(t)[m]}
  <1>1. 0 \in T
    BY SplitFacts
  <1>2. ASSUME NEW m \in Nat, m \in T PROVE m + 1 \in T
    <2>1. SUFFICES ASSUME m + 1 <= n PROVE Split(s)[m + 1] = Split(t)[m + 1]
      OBVIOUS
    <2>2. /\ m + 1 \in 1..n /\ m + 1 \in 1..Len(s) /\ m + 1 \in 1..Len(t)
          /\ m <= n /\ (m + 1) - 1 = m
      BY <2>1, ElementsType
    <2>3. Split(s)[m] = Split(t)[m]
      BY <1>2, <2>2
    <2>4. Split(s)[m + 1] = SplitStep(Split(s)[m], s[m + 1])
      BY <2>2, SplitFacts
    <2>5. Split(t)[m + 1] = SplitStep(Split(t)[m], t[m + 1])
      BY <2>2, SplitFacts
    <2> QED BY <2>2, <2>3, <2>4, <2>5
  <1>3. Nat \subseteq T
    <2> HIDE DEF T
    <2> QED BY <1>1, <1>2, SetInduction
  <1> QED BY <1>3

LEMMA PartEmpty ==
  ASSUME NEW s \in Strings, NEW i \in 0..Len(s)
  PROVE  Split(s)[i].part = <<>> <=> i = 0 \/ s[i] = "/"
  <1>1. CASE i = 0
    BY <1>1, SplitFacts
  <1>2. CASE i # 0
    <2>1. i \in 1..Len(s) /\ i - 1 \in 0..Len(s)
      BY <1>2, ElementsType
    <2>2. Split(s)[i] = SplitStep(Split(s)[i - 1], s[i]) /\ Split(s)[i - 1] \in Splits
      BY <2>1, SplitFacts
    <2>3. Split(s)[i - 1].part \in Strings
      BY <2>2 DEF Splits
    <2>4. Append(Split(s)[i - 1].part, s[i]) # <<>>
      <3>1. s[i] \in Symbols
        BY <2>1 DEF Strings
      <3> QED BY <2>3, <3>1, AppendProperties DEF Strings
    <2> DEFINE x == Split(s)[i - 1]
    <2>5. [x EXCEPT !.part = Append(@, s[i])].part = Append(x.part, s[i])
      BY <2>2 DEF Splits
    <2> QED BY <1>2, <2>2, <2>4, <2>5 DEF SplitStep
  <1> QED BY <1>1, <1>2

LEMMA ConcatFacts ==
  ASSUME NEW s \in Strings, NEW t \in Strings
  PROVE  /\ s \o t \in Strings /\ Len(s \o t) = Len(s) + Len(t)
         /\ Len(s) \in Nat /\ Len(t) \in Nat
         /\ \A i \in 1..Len(s) : (s \o t)[i] = s[i]
         /\ \A i \in 1..Len(t) : (s \o t)[Len(s) + i] = t[i]
  BY DEF Strings

LEMMA SplitConcat ==
  ASSUME NEW s \in Strings, NEW t \in Strings
  PROVE  \A i \in 0..Len(s) : Split(s \o t)[i] = Split(s)[i]
  <1> DEFINE u == s \o t
  <1>1. /\ u \in Strings /\ Len(s) \in Nat /\ Len(s) <= Len(s) /\ Len(s) <= Len(u)
        /\ \A i \in 1..Len(s) : u[i] = s[i]
    BY ConcatFacts
  <1> HIDE DEF u
  <1>2. \A i \in 0..Len(s) : Split(u)[i] = Split(s)[i]
    BY <1>1, SplitPrefix
  <1> QED BY <1>2 DEF u

\* The string u is made up of s and t.
Extends(s, t, u) ==
    /\ u \in Strings /\ Len(u) = Len(s) + Len(t)
    /\ \A i \in 1..Len(s) : u[i] = s[i]
    /\ \A i \in 1..Len(t) : u[Len(s) + i] = t[i]
    /\ \A i \in 0..Len(s) : Split(u)[i] = Split(s)[i]

LEMMA Longer ==
  ASSUME NEW s \in Strings, NEW t \in Strings, NEW u, u = s \o t
  PROVE  Extends(s, t, u)
  <1>1. /\ s \o t \in Strings /\ Len(s \o t) = Len(s) + Len(t)
        /\ \A i \in 1..Len(s) : (s \o t)[i] = s[i]
        /\ \A i \in 1..Len(t) : (s \o t)[Len(s) + i] = t[i]
    BY ConcatFacts
  <1>2. \A i \in 0..Len(s) : Split(s \o t)[i] = Split(s)[i]
    BY SplitConcat
  <1> QED BY <1>1, <1>2 DEF Extends

\* A slash ends an element, if there is one.
LEMMA AddSlash ==
  ASSUME NEW s \in Strings, NEW t, t = s \o <<"/">>
  PROVE  /\ t \in Strings /\ Len(t) = Len(s) + 1
         /\ Split(t)[Len(t)] = [done |-> ElementsOf(s), part |-> <<>>]
         /\ ElementsOf(t) = ElementsOf(s)
  <1>1. <<"/">> \in Strings
    BY DEF Strings, Symbols
  <1>2. t \in Strings /\ Len(t) = Len(s) + 1 /\ Len(s) \in Nat /\ t[Len(s) + 1] = "/"
    BY <1>1, ConcatFacts
  <1>3. Split(t)[Len(s)] = Split(s)[Len(s)]
    BY <1>1, <1>2, SplitConcat
  <1>4. Len(t) \in 1..Len(t) /\ Len(t) - 1 = Len(s)
    BY <1>2
  <1>5. Split(t)[Len(t)] = SplitStep(Split(t)[Len(s)], "/")
    BY <1>2, <1>4, SplitFacts
  <1>6. Split(t)[Len(t)] = [done |-> ElementsOf(s), part |-> <<>>]
    BY <1>3, <1>5 DEF SplitStep, ElementsOf
  <1>7. ElementsOf(t) = ElementsOf(s)
    BY <1>6, CloseFacts DEF ElementsOf
  <1> QED BY <1>2, <1>6, <1>7

\* Symbols that are no slashes make up an element.
LEMMA AddPart ==
  ASSUME NEW s \in Strings, NEW e \in Strings, \A i \in 1..Len(e) : e[i] # "/",
         Split(s)[Len(s)].part = <<>>
  PROVE  \A i \in 0..Len(e) :
            Split(s \o e)[Len(s) + i] = [done |-> ElementsOf(s), part |-> SubSeq(e, 1, i)]
  <1> DEFINE t == s \o e
             T == {i \in Nat : i <= Len(e) =>
                       Split(t)[Len(s) + i] = [done |-> ElementsOf(s), part |-> SubSeq(e, 1, i)]}
  <1>0. /\ t \in Strings /\ Len(t) = Len(s) + Len(e) /\ Len(s) \in Nat /\ Len(e) \in Nat
        /\ \A i \in 1..Len(e) : t[Len(s) + i] = e[i]
    BY ConcatFacts
  <1>1. 0 \in T
    <2>1. Split(t)[Len(s)] = Split(s)[Len(s)]
      BY <1>0, SplitConcat
    <2>2. Split(s)[Len(s)] = [done |-> ElementsOf(s), part |-> <<>>]
      <3>1. Split(s)[Len(s)] \in Splits
        BY ElementsType
      <3>2. ElementsOf(s) = Split(s)[Len(s)].done
        BY DEF ElementsOf, Close
      <3> QED BY <3>1, <3>2 DEF Splits
    <2>3. SubSeq(e, 1, 0) = <<>> /\ Len(s) + 0 = Len(s)
      BY <1>0, SubSeqEmpty DEF Strings
    <2> QED BY <2>1, <2>2, <2>3
  <1>2. ASSUME NEW i \in Nat, i \in T PROVE i + 1 \in T
    <2>1. SUFFICES ASSUME i + 1 <= Len(e)
                   PROVE  Split(t)[Len(s) + (i + 1)]
                            = [done |-> ElementsOf(s), part |-> SubSeq(e, 1, i + 1)]
      OBVIOUS
    <2> DEFINE x == [done |-> ElementsOf(s), part |-> SubSeq(e, 1, i)]
    <2>2. i + 1 \in 1..Len(e) /\ Len(s) + (i + 1) \in 1..Len(t) /\ (Len(s) + (i + 1)) - 1 = Len(s) + i
      BY <1>0, <2>1
    <2>3. Split(t)[Len(s) + i] = x
      BY <1>0, <1>2, <2>1
    <2>4. t[Len(s) + (i + 1)] = e[i + 1] /\ e[i + 1] # "/"
      BY <1>0, <2>2
    <2>5. Split(t)[Len(s) + (i + 1)] = SplitStep(Split(t)[Len(s) + i], e[i + 1])
      BY <1>0, <2>2, <2>4, SplitFacts
    <2>6. SubSeq(e, 1, i + 1) = Append(SubSeq(e, 1, i), e[i + 1])
      BY <1>0, <2>2 DEF Strings
    <2> HIDE DEF t
    <2>7. SplitStep(x, e[i + 1]) = [done |-> ElementsOf(s), part |-> Append(SubSeq(e, 1, i), e[i + 1])]
      BY <2>4 DEF SplitStep
    <2> QED BY <2>3, <2>5, <2>6, <2>7
  <1>3. Nat \subseteq T
    <2> HIDE DEF T
    <2> QED BY <1>1, <1>2, SetInduction
  <1> QED BY <1>0, <1>3

\* The path t is s with one more element.
OneMore(s, e, t) ==
    /\ t \in Strings /\ Len(t) = Len(s) + Len(e)
    /\ Split(t)[Len(t)].part = e
    /\ ElementsOf(t) = Append(ElementsOf(s), e)

LEMMA AddElement ==
  ASSUME NEW s \in Strings, NEW e \in Names, \A i \in 1..Len(e) : e[i] # "/",
         Split(s)[Len(s)].part = <<>>, NEW t, t = s \o e
  PROVE  OneMore(s, e, t)
  <1>1. e \in Strings /\ e # <<>>
    BY DEF Names, Strings
  <1>2. t \in Strings /\ Len(t) = Len(s) + Len(e) /\ Len(e) \in Nat
    BY <1>1, ConcatFacts
  <1>3. SubSeq(e, 1, Len(e)) = e
    BY <1>1 DEF Strings
  <1>4. Split(t)[Len(t)] = [done |-> ElementsOf(s), part |-> e]
    <2>1. Len(e) \in 0..Len(e)
      BY <1>2
    <2>2. Split(s \o e)[Len(s) + Len(e)] = [done |-> ElementsOf(s), part |-> SubSeq(e, 1, Len(e))]
      BY <1>1, <2>1, AddPart
    <2> QED BY <1>2, <1>3, <2>2
  <1>5. ElementsOf(t) = Append(ElementsOf(s), e)
    BY <1>1, <1>4, CloseFacts DEF ElementsOf
  <1> QED BY <1>2, <1>4, <1>5 DEF OneMore

LEMMA NoElements ==
  /\ <<>> \in Strings /\ ElementsOf(<<>>) = <<>> /\ Split(<<>>)[0].part = <<>>
  /\ <<"/">> \in Strings /\ ElementsOf(<<"/">>) = <<>> /\ Split(<<"/">>)[1].part = <<>>
  <1>1. <<>> \in Strings /\ Len(<<>>) = 0
    BY DEF Strings
  <1>2. Split(<<>>)[0] = [done |-> <<>>, part |-> <<>>]
    BY <1>1, SplitFacts
  <1>3. ElementsOf(<<>>) = <<>>
    BY <1>1, <1>2 DEF ElementsOf, Close
  <1>4. <<>> \o <<"/">> = <<"/">>
    OBVIOUS
  <1>5. PICK u : u = <<"/">>
    OBVIOUS
  <1>6. u \in Strings /\ Len(u) = 1 /\ Split(u)[Len(u)].part = <<>> /\ ElementsOf(u) = <<>>
    <2>1. PICK s : s = <<>>
      OBVIOUS
    <2>2. s \in Strings /\ Len(s) = 0 /\ ElementsOf(s) = <<>> /\ u = s \o <<"/">>
      BY <1>1, <1>3, <1>4, <1>5, <2>1
    <2>3. /\ u \in Strings /\ Len(u) = Len(s) + 1 /\ ElementsOf(u) = ElementsOf(s)
          /\ Split(u)[Len(u)] = [done |-> ElementsOf(s), part |-> <<>>]
      BY <2>2, AddSlash
    <2> QED BY <2>2, <2>3
  <1> QED BY <1>1, <1>2, <1>3, <1>5, <1>6

----------------------------------------------------------------------------
(* Where a path leads. *)

Places == [rooted : BOOLEAN, up : Nat, down : Seq(Names)]

LEMMA StepType ==
  ASSUME NEW p \in Places, NEW e \in Names
  PROVE  Step(p, e) \in Places
  <1>1. p.down \in Seq(Names) /\ p.up \in Nat /\ Append(p.down, e) \in Seq(Names) /\ p.up + 1 \in Nat
    BY DEF Places
  <1>2. p.down # <<>> => Front(p.down) \in Seq(Names)
    BY <1>1 DEF Front
  <1>3. /\ [p EXCEPT !.down = Append(p.down, e)] \in Places
        /\ [p EXCEPT !.up = p.up + 1] \in Places
        /\ p.down # <<>> => [p EXCEPT !.down = Front(p.down)] \in Places
    BY <1>1, <1>2 DEF Places
  <1> QED BY <1>3 DEF Step

\* The way along the elements of a path.
Way(p, es, w) ==
    w \in [0..Len(es) -> Places] /\ w[0] = p /\ \A i \in 1..Len(es) : w[i] = Step(w[i - 1], es[i])

LEMMA WalkFacts ==
  ASSUME NEW p \in Places, NEW es \in Seq(Names)
  PROVE  \E w : Way(p, es, w) /\ Walk(p, es) = w[Len(es)]
  <1> DEFINE n == Len(es)
             Def(f) == [i \in 0..Len(es) |-> IF i = 0 THEN p ELSE Step(f[i - 1], es[i])]
             step == [i \in 1..n |-> [x \in Places |-> Step(x, es[i])]]
             chosen == CHOOSE f : f = Def(f)
  <1>1. n \in Nat /\ \A i \in 1..n : es[i] \in Names
    OBVIOUS
  <1>2. step \in [1..n -> [Places -> Places]]
    BY <1>1, StepType
  <1>3. \A i \in 1..n : \A x \in Places : step[i][x] = Step(x, es[i])
    OBVIOUS
  <1>4. PICK w \in [0..n -> Places] : w[0] = p /\ \A i \in 1..n : w[i] = step[i][w[i - 1]]
    <2>1. n \in Nat /\ p \in Places /\ step \in [1..n -> [Places -> Places]]
      BY <1>1, <1>2
    <2> HIDE DEF n, step, chosen
    <2>2. PICK N, S : N = n /\ S = step
      OBVIOUS
    <2>3. N \in Nat /\ S \in [1..N -> [Places -> Places]]
      BY <2>1, <2>2
    <2>4. PICK w : Iterates(Places, p, N, S, w)
      BY <2>3, Iteration, Zenon
    <2>5. w \in [0..N -> Places] /\ w[0] = p /\ \A i \in 1..N : w[i] = S[i][w[i - 1]]
      BY <2>4 DEF Iterates
    <2> QED BY <2>2, <2>5
  <1> HIDE DEF step
  <1>5. \A i \in 1..n : w[i] = Step(w[i - 1], es[i])
    <2>1. SUFFICES ASSUME NEW i \in 1..n PROVE w[i] = Step(w[i - 1], es[i])
      OBVIOUS
    <2>2. i - 1 \in 0..n
      BY <1>1
    <2> QED BY <1>3, <1>4, <2>2
  <1>6. w = Def(w)
    <2>1. \A i \in 0..n : w[i] = Def(w)[i]
      BY <1>1, <1>4, <1>5
    <2> QED BY <1>4, <2>1
  <1>7. chosen = Def(chosen)
    <2> HIDE DEF Def
    <2> QED BY <1>6
  <1>8. Walk(p, es) = chosen[n]
    BY DEF Walk
  <1> HIDE DEF chosen
  <1>9. chosen[0] = p /\ \A i \in 1..n : chosen[i] = Step(chosen[i - 1], es[i])
    BY <1>1, <1>7
  <1>10. \A i \in 0..n : chosen[i] \in Places
    BY <1>1, <1>9, StepType, Stays
  <1>11. chosen \in [0..n -> Places]
    BY <1>7, <1>10
  <1> QED BY <1>8, <1>9, <1>11 DEF Way

Agree(es, fs, n) ==
    /\ es \in Seq(Names) /\ fs \in Seq(Names) /\ n \in Nat /\ n <= Len(es) /\ n <= Len(fs)
    /\ \A i \in 1..n : es[i] = fs[i]

LEMMA WayPrefix ==
  ASSUME NEW p, NEW es, NEW fs, NEW n, Agree(es, fs, n), NEW w, Way(p, es, w), NEW x, Way(p, fs, x)
  PROVE  w[n] = x[n]
  <1> USE DEF Agree
  <1> DEFINE T == {m \in Nat : m <= n => w[m] = x[m]}
  <1>1. 0 \in T
    BY DEF Way
  <1>2. ASSUME NEW m \in Nat, m \in T PROVE m + 1 \in T
    <2>1. SUFFICES ASSUME m + 1 <= n PROVE w[m + 1] = x[m + 1]
      OBVIOUS
    <2>2. /\ m + 1 \in 1..n /\ m + 1 \in 1..Len(es) /\ m + 1 \in 1..Len(fs)
          /\ m <= n /\ (m + 1) - 1 = m
      BY <2>1
    <2>3. w[m] = x[m]
      BY <1>2, <2>2
    <2>4. w[m + 1] = Step(w[m], es[m + 1]) /\ x[m + 1] = Step(x[m], fs[m + 1])
      BY <2>2 DEF Way
    <2> QED BY <2>2, <2>3, <2>4
  <1>3. Nat \subseteq T
    <2> HIDE DEF T
    <2> QED BY <1>1, <1>2, SetInduction
  <1> QED BY <1>3

LEMMA WalkNowhere ==
  ASSUME NEW p \in Places
  PROVE  Walk(p, <<>>) = p
  <1>1. PICK es : es = <<>>
    OBVIOUS
  <1>2. es \in Seq(Names) /\ Len(es) = 0
    BY <1>1
  <1>3. PICK w : Way(p, es, w) /\ Walk(p, es) = w[Len(es)]
    BY <1>2, WalkFacts
  <1>4. w[0] = p
    BY <1>3 DEF Way
  <1> QED BY <1>1, <1>2, <1>3, <1>4

LEMMA WalkOn ==
  ASSUME NEW p \in Places, NEW es \in Seq(Names), NEW e \in Names
  PROVE  /\ Walk(p, es) \in Places
         /\ Walk(p, Append(es, e)) = Step(Walk(p, es), e)
  <1>1. PICK fs : fs = Append(es, e)
    OBVIOUS
  <1>2. /\ fs \in Seq(Names) /\ Len(fs) = Len(es) + 1 /\ Len(es) \in Nat /\ fs[Len(es) + 1] = e
        /\ \A i \in 1..Len(es) : es[i] = fs[i]
    BY <1>1
  <1>3. PICK w : Way(p, es, w) /\ Walk(p, es) = w[Len(es)]
    BY WalkFacts
  <1>4. PICK x : Way(p, fs, x) /\ Walk(p, fs) = x[Len(fs)]
    BY <1>2, WalkFacts
  <1>5. w[Len(es)] = x[Len(es)]
    <2>1. PICK n \in Nat : n = Len(es)
      BY <1>2
    <2>2. n <= Len(es) /\ n <= Len(fs) /\ \A i \in 1..n : es[i] = fs[i]
      BY <1>2, <2>1
    <2>3. Agree(es, fs, n)
      BY <1>2, <2>2 DEF Agree
    <2>4. w[n] = x[n]
      <3>1. Way(p, es, w) /\ Way(p, fs, x)
        BY <1>3, <1>4
      <3> QED BY <2>3, <3>1, WayPrefix, SMTT(30)
    <2> QED BY <2>1, <2>4
  <1>6. x[Len(fs)] = Step(x[Len(es)], e)
    <2>1. Len(fs) \in 1..Len(fs) /\ Len(fs) - 1 = Len(es)
      BY <1>2
    <2> QED BY <1>2, <1>4, <2>1 DEF Way
  <1>7. w[Len(es)] \in Places
    BY <1>2, <1>3 DEF Way
  <1> QED BY <1>1, <1>3, <1>4, <1>5, <1>6, <1>7

\* Down into a directory and up again leads nowhere.
LEMMA DownAndUp ==
  ASSUME NEW p \in Places, NEW e \in Names, Plain(e)
  PROVE  Step(Step(p, e), <<".", ".">>) = p
  <1> DEFINE q == [p EXCEPT !.down = Append(p.down, e)]
  <1>1. p.down \in Seq(Names)
    BY DEF Places
  <1>2. Step(p, e) = q
    BY DEF Step, Plain
  <1>3. q \in Places /\ q.down = Append(p.down, e) /\ q.rooted = p.rooted /\ q.up = p.up
    BY <1>1 DEF Places
  <1>4. q.down # <<>> /\ Front(q.down) = p.down
    <2>1. Append(p.down, e) # <<>> /\ SubSeq(Append(p.down, e), 1, Len(p.down)) = p.down
      BY <1>1
    <2>2. Len(Append(p.down, e)) - 1 = Len(p.down)
      BY <1>1
    <2> QED BY <1>3, <2>1, <2>2 DEF Front
  <1>5. Step(q, <<".", ".">>) = [q EXCEPT !.down = Front(q.down)]
    <2>1. <<".", ".">> # <<".">>
      OBVIOUS
    <2> HIDE DEF q
    <2> QED BY <1>4, <2>1 DEF Step
  <1>6. [q EXCEPT !.down = p.down] = p
    BY <1>3 DEF Places
  <1> QED BY <1>2, <1>4, <1>5, <1>6

----------------------------------------------------------------------------
(* The output of normpath(). *)

LEMMA FromType ==
  ASSUME NEW rooted \in BOOLEAN
  PROVE  From(rooted) \in Places /\ Base(rooted) \in {0, 1}
  BY DEF From, Places, Base

LEMMA PrefixFacts ==
  ASSUME NEW s \in Strings, NEW n \in 0..Len(s)
  PROVE  /\ Prefix(s, n) \in Strings /\ Len(Prefix(s, n)) = n
         /\ \A i \in 1..n : Prefix(s, n)[i] = s[i]
         /\ \A i \in 0..n : Split(Prefix(s, n))[i] = Split(s)[i]
  <1>1. PICK t : t = Prefix(s, n)
    OBVIOUS
  <1>2. t \in Strings /\ Len(t) = n /\ n \in Nat /\ Len(s) \in Nat /\ \A i \in 1..n : t[i] = s[i]
    BY <1>1 DEF Prefix, Strings
  <1>3. \A i \in 0..n : Split(t)[i] = Split(s)[i]
    BY <1>2, SplitPrefix
  <1> QED BY <1>1, <1>2, <1>3

LEMMA PrefixFull ==
  ASSUME NEW s \in Strings, NEW n, n = Len(s)
  PROVE  Prefix(s, n) = s
  BY DEF Prefix, Strings

LEMMA PrefixRest ==
  ASSUME NEW s \in Strings, NEW n \in 0..Len(s)
  PROVE  s = Prefix(s, n) \o SubSeq(s, n + 1, Len(s))
  <1>1. /\ s \in Seq(Symbols) /\ 1 \in 1..(Len(s) + 1) /\ n \in (1 - 1)..Len(s)
        /\ Len(s) \in n..Len(s)
    BY DEF Strings
  <1>2. SubSeq(s, 1, n) \o SubSeq(s, n + 1, Len(s)) = SubSeq(s, 1, Len(s))
    BY <1>1, ConcatAdjacentSubSeq, Zenon
  <1> QED BY <1>2, PrefixFull DEF Prefix

\* What is written for one more element.
Slash(rooted, v) == IF Len(v) # Base(rooted) THEN <<"/">> ELSE <<>>

Wrote(rooted, v, e, u) ==
    /\ u \in Strings /\ Len(u) = Len(v) + Len(Slash(rooted, v)) + Len(e)
    /\ \A i \in 1..Len(v) : u[i] = v[i]
    /\ \A i \in 0..Len(v) : Split(u)[i] = Split(v)[i]
    /\ Len(v) # Base(rooted) => u[Len(v) + 1] = "/"
    /\ \A i \in (Len(v) + Len(Slash(rooted, v)) + 1)..Len(u) : u[i] # "/"
    /\ Split(u)[Len(u)].part = e
    /\ ElementsOf(u) = Append(ElementsOf(v), e)

LEMMA WriteElement ==
  ASSUME NEW rooted \in BOOLEAN, NEW v \in Strings, NEW d, Shape(rooted, v, d),
         NEW e \in Names, \A i \in 1..Len(e) : e[i] # "/",
         NEW u, u = v \o (Slash(rooted, v) \o e)
  PROVE  Wrote(rooted, v, e, u)
  <1>1. /\ e \in Strings /\ Len(e) \in Nat /\ Len(v) \in Nat /\ Base(rooted) \in {0, 1}
        /\ Len(v) >= Base(rooted)
    BY FromType DEF Names, Strings, Shape
  <1>2. CASE Len(v) = Base(rooted)
    <2>1. Slash(rooted, v) \o e = e /\ Len(Slash(rooted, v)) = 0
      BY <1>1, <1>2 DEF Slash, Strings
    <2>2. Split(v)[Len(v)].part = <<>>
      <3>1. Len(v) = 0 \/ v[Len(v)] = "/"
        BY <1>2 DEF Base, Shape, Slashes
      <3> QED BY <1>1, <3>1, PartEmpty
    <2>3. u = v \o e
      BY <2>1
    <2>4. /\ u \in Strings /\ Len(u) = Len(v) + Len(e) /\ Split(u)[Len(u)].part = e
          /\ ElementsOf(u) = Append(ElementsOf(v), e)
      <3>1. OneMore(v, e, u)
        BY <2>2, <2>3, AddElement, Zenon
      <3> QED BY <3>1 DEF OneMore
    <2>5. /\ \A i \in 1..Len(v) : u[i] = v[i]
          /\ \A i \in 1..Len(e) : u[Len(v) + i] = e[i]
          /\ \A i \in 0..Len(v) : Split(u)[i] = Split(v)[i]
      <3>1. Extends(v, e, u)
        BY <1>1, <2>3, Longer, Zenon
      <3> QED BY <3>1 DEF Extends
    <2>6. ASSUME NEW i \in (Len(v) + 1)..Len(u) PROVE u[i] # "/"
      <3>1. i - Len(v) \in 1..Len(e) /\ Len(v) + (i - Len(v)) = i
        BY <1>1, <2>4
      <3> QED BY <2>5, <3>1
    <2> QED BY <1>1, <1>2, <2>1, <2>4, <2>5, <2>6 DEF Wrote
  <1>3. CASE Len(v) # Base(rooted)
    <2>1. Slash(rooted, v) = <<"/">> /\ Len(Slash(rooted, v)) = 1 /\ <<"/">> \in Strings
      BY <1>3, NoElements DEF Slash
    <2>2. PICK t : t = v \o <<"/">>
      OBVIOUS
    <2>3. u = t \o e
      BY <1>1, <2>1, <2>2 DEF Strings
    <2>4. /\ t \in Strings /\ Len(t) = Len(v) + 1 /\ ElementsOf(t) = ElementsOf(v)
          /\ Split(t)[Len(t)].part = <<>>
      <3>1. /\ t \in Strings /\ Len(t) = Len(v) + 1 /\ ElementsOf(t) = ElementsOf(v)
            /\ Split(t)[Len(t)] = [done |-> ElementsOf(v), part |-> <<>>]
        BY <2>2, AddSlash
      <3> QED BY <3>1
    <2>5. /\ u \in Strings /\ Len(u) = Len(t) + Len(e) /\ Split(u)[Len(u)].part = e
          /\ ElementsOf(u) = Append(ElementsOf(t), e)
      <3>1. OneMore(t, e, u)
        BY <2>3, <2>4, AddElement, Zenon
      <3> QED BY <3>1 DEF OneMore
    <2>6. /\ \A i \in 1..Len(t) : u[i] = t[i]
          /\ \A i \in 1..Len(e) : u[Len(t) + i] = e[i]
          /\ \A i \in 0..Len(t) : Split(u)[i] = Split(t)[i]
      <3>1. Extends(t, e, u)
        BY <1>1, <2>3, <2>4, Longer, Zenon
      <3> QED BY <3>1 DEF Extends
    <2>7. /\ \A i \in 1..Len(v) : t[i] = v[i]
          /\ t[Len(v) + 1] = "/"
          /\ \A i \in 0..Len(v) : Split(t)[i] = Split(v)[i]
      <3>1. 1 \in 1..Len(<<"/">>) /\ <<"/">>[1] = "/"
        OBVIOUS
      <3>2. /\ \A i \in 1..Len(v) : t[i] = v[i]
            /\ \A i \in 1..Len(<<"/">>) : t[Len(v) + i] = <<"/">>[i]
            /\ \A i \in 0..Len(v) : Split(t)[i] = Split(v)[i]
        <4>1. Extends(v, <<"/">>, t)
          BY <2>1, <2>2, Longer, Zenon
        <4> QED BY <4>1 DEF Extends
      <3> QED BY <3>1, <3>2
    <2>8. ASSUME NEW i \in (Len(v) + 1 + 1)..Len(u) PROVE u[i] # "/"
      <3>1. i - Len(t) \in 1..Len(e) /\ Len(t) + (i - Len(t)) = i
        BY <1>1, <2>4, <2>5
      <3> QED BY <2>6, <3>1
    <2>9. /\ \A i \in 1..Len(v) : u[i] = v[i]
          /\ \A i \in 0..Len(v) : Split(u)[i] = Split(v)[i]
          /\ u[Len(v) + 1] = "/"
      <3>1. \A i \in 1..Len(v) : i \in 1..Len(t)
        BY <1>1, <2>4
      <3>2. \A i \in 0..Len(v) : i \in 0..Len(t)
        BY <1>1, <2>4
      <3>3. Len(v) + 1 \in 1..Len(t)
        BY <1>1, <2>4
      <3> QED BY <2>6, <2>7, <3>1, <3>2, <3>3
    <2> HIDE DEF Slash
    <2> QED BY <1>1, <2>1, <2>4, <2>5, <2>8, <2>9 DEF Wrote
  <1> QED BY <1>2, <1>3

LEMMA WroteSlashes ==
  ASSUME NEW rooted \in BOOLEAN, NEW v \in Strings, NEW d, Shape(rooted, v, d),
         NEW e \in Names, NEW u, Wrote(rooted, v, e, u), NEW c \in {d, Len(u)}, rooted => c = 1
  PROVE  Slashes(rooted, u, c) /\ d \in 0..Len(v) /\ c \in Base(rooted)..Len(u)
  <1> DEFINE base == Base(rooted)
             m == Len(v)
             n == Len(v) + Len(Slash(rooted, v))
  <1>1. m \in Nat /\ Len(e) \in Nat /\ Len(e) > 0 /\ base \in {0, 1} /\ d \in base..m
    BY FromType DEF Names, Strings, Shape
  <1>2. n = (IF m # base THEN m + 1 ELSE m) /\ Len(u) = n + Len(e)
    BY <1>1 DEF Slash, Wrote
  <1>3. /\ rooted => v[1] = "/" /\ m >= 1
        /\ \A i \in (base + 1)..m : v[i] = "/" => i < m /\ i > 1 /\ v[i - 1] # "/"
        /\ d \in (base + 1)..(m - 1) => v[d + 1] = "/"
    BY <1>1 DEF Shape, Slashes, Base
  <1>4. /\ \A i \in 1..m : u[i] = v[i]
        /\ m # base => u[m + 1] = "/"
        /\ \A i \in (n + 1)..Len(u) : u[i] # "/"
    BY DEF Wrote
  <1> HIDE DEF m, n, base
  <1>5. rooted => c = 1 /\ u[1] = "/"
    BY <1>1, <1>3, <1>4
  <1>6. ASSUME NEW i \in (base + 1)..Len(u), u[i] = "/"
        PROVE  i < Len(u) /\ i > 1 /\ u[i - 1] # "/"
    <2>1. i \in 1..n /\ i \in Int
      BY <1>1, <1>2, <1>4, <1>6
    <2>2. CASE i <= m
      <3>1. i \in 1..m /\ i \in (base + 1)..m
        BY <1>1, <2>1, <2>2
      <3>2. i < m /\ i > 1 /\ v[i - 1] # "/" /\ i - 1 \in 1..m
        BY <1>1, <1>3, <1>4, <1>6, <3>1
      <3> QED BY <1>1, <1>2, <1>4, <3>2
    <2>3. CASE i > m
      <3>1. i = m + 1 /\ m # base /\ m \in (base + 1)..m /\ m \in 1..m
        BY <1>1, <1>2, <2>1, <2>3
      <3>2. v[m] # "/"
        BY <1>1, <1>3, <3>1
      <3> QED BY <1>1, <1>2, <1>4, <3>1, <3>2
    <2> QED BY <1>1, <2>1, <2>2, <2>3
  <1>7. c \in (base + 1)..(Len(u) - 1) => u[c + 1] = "/"
    <2>1. SUFFICES ASSUME c \in (base + 1)..(Len(u) - 1) PROVE u[c + 1] = "/"
      OBVIOUS
    <2>2. c = d /\ c \in Int
      BY <1>1, <1>2, <2>1
    <2>3. CASE d < m
      BY <1>1, <1>3, <1>4, <2>1, <2>2, <2>3
    <2>4. CASE d = m
      BY <1>1, <1>4, <2>1, <2>2, <2>4
    <2> QED BY <1>1, <2>3, <2>4
  <1>8. c \in base..Len(u)
    BY <1>1, <1>2
  <1> QED BY <1>1, <1>5, <1>6, <1>7, <1>8 DEF Slashes, base, m

LEMMA PrefixElements ==
  ASSUME NEW s \in Strings, NEW n \in 0..Len(s)
  PROVE  ElementsOf(Prefix(s, n)) = Close(Split(s)[n])
  <1>1. Len(Prefix(s, n)) = n /\ Split(Prefix(s, n))[n] = Split(s)[n]
    BY PrefixFacts
  <1> QED BY <1>1 DEF ElementsOf

LEMMA RisesKept ==
  ASSUME NEW rooted \in BOOLEAN, NEW v \in Strings, NEW d \in 0..Len(v), Rises(rooted, v, d),
         NEW u \in Strings, d <= Len(u), Split(u)[d] = Split(v)[d]
  PROVE  Rises(rooted, u, d)
  <1>1. Len(u) \in Nat /\ d \in 0..Len(u)
    BY ElementsType
  <1>2. ElementsOf(Prefix(u, d)) = ElementsOf(Prefix(v, d))
    BY <1>1, PrefixElements
  <1> QED BY <1>2 DEF Rises

LEMMA NoDotsMore ==
  ASSUME NEW rooted \in BOOLEAN, NEW es \in Seq(Names), NEW e \in Names
  PROVE  /\ NoDots(rooted, Append(es, e)) => NoDots(rooted, es)
         /\ NoDots(rooted, es) /\ Plain(e) => NoDots(rooted, Append(es, e))
  <1> DEFINE fs == Append(es, e)
  <1>1. /\ Len(es) \in Nat /\ DOMAIN es = 1..Len(es) /\ DOMAIN fs = 1..(Len(es) + 1)
        /\ \A i \in 1..Len(es) : fs[i] = es[i]
        /\ fs[Len(es) + 1] = e
    OBVIOUS
  <1> HIDE DEF fs
  <1>2. ASSUME NoDots(rooted, fs) PROVE NoDots(rooted, es)
    <2>1. SUFFICES ASSUME NEW i \in 1..Len(es)
                   PROVE  /\ es[i] # <<".">>
                          /\ es[i] = <<".", ".">> => ~rooted /\ \A k \in 1..i : es[k] = <<".", ".">>
      BY <1>1 DEF NoDots
    <2>2. i \in DOMAIN fs /\ \A k \in 1..i : k \in 1..Len(es)
      BY <1>1
    <2> QED BY <1>1, <1>2, <2>2 DEF NoDots
  <1>3. ASSUME NoDots(rooted, es), Plain(e) PROVE NoDots(rooted, fs)
    <2>1. SUFFICES ASSUME NEW i \in 1..(Len(es) + 1)
                   PROVE  /\ fs[i] # <<".">>
                          /\ fs[i] = <<".", ".">> => ~rooted /\ \A k \in 1..i : fs[k] = <<".", ".">>
      BY <1>1 DEF NoDots
    <2>2. CASE i = Len(es) + 1
      BY <1>1, <1>3, <2>2 DEF Plain
    <2>3. CASE i # Len(es) + 1
      <3>1. i \in 1..Len(es) /\ \A k \in 1..i : k \in 1..Len(es)
        BY <1>1, <2>3
      <3> QED BY <1>1, <1>3, <3>1 DEF NoDots
    <2> QED BY <2>2, <2>3
  <1> QED BY <1>2, <1>3 DEF fs

\* A file or directory name is added to the output.
LEMMA ShapeElement ==
  ASSUME NEW rooted \in BOOLEAN, NEW v \in Strings, NEW d, Shape(rooted, v, d),
         NEW e \in Names, Plain(e), NEW u, Wrote(rooted, v, e, u)
  PROVE  Shape(rooted, u, d)
  <1>1. /\ Len(v) \in Nat /\ Len(e) \in Nat /\ Len(e) > 0 /\ Base(rooted) \in {0, 1}
        /\ d \in Base(rooted)..Len(v) /\ ElementsOf(v) \in Seq(Names)
    BY FromType, ElementsType DEF Names, Shape
  <1>2. /\ Len(Slash(rooted, v)) = (IF Len(v) # Base(rooted) THEN 1 ELSE 0)
        /\ u \in Strings /\ Len(u) = Len(v) + Len(Slash(rooted, v)) + Len(e)
    BY <1>1 DEF Slash, Wrote
  <1>3. Slashes(rooted, u, d)
    BY WroteSlashes DEF Shape, Slashes
  <1>4. NoDots(rooted, ElementsOf(u))
    BY <1>1, NoDotsMore DEF Shape, Wrote
  <1>5. Rises(rooted, u, d)
    <2>1. d \in 0..Len(v) /\ d <= Len(u) /\ Split(u)[d] = Split(v)[d]
      BY <1>1, <1>2 DEF Wrote
    <2> QED BY <1>2, <2>1, RisesKept DEF Shape
  <1>6. Falls(u, d)
    <2>1. SUFFICES ASSUME NEW i \in (d + 1)..Len(u), u[i] # "/", i = Len(u) \/ u[i + 1] = "/"
                   PROVE  Plain(Split(u)[i].part)
      BY DEF Falls
    <2>2. i \in Int /\ d \in Int
      BY <1>1
    <2>3. CASE i < Len(v)
      <3>1. i \in (d + 1)..Len(v) /\ i \in 1..Len(v) /\ i + 1 \in 1..Len(v) /\ i \in 0..Len(v)
        BY <1>1, <2>2, <2>3
      <3>2. u[i] = v[i] /\ u[i + 1] = v[i + 1] /\ Split(u)[i] = Split(v)[i]
        BY <3>1 DEF Wrote
      <3>3. i # Len(u)
        BY <1>1, <1>2, <2>3
      <3> QED BY <2>1, <3>1, <3>2, <3>3 DEF Shape, Falls
    <2>4. CASE i = Len(v)
      <3>1. i \in (d + 1)..Len(v) /\ i \in 1..Len(v) /\ i \in 0..Len(v)
        BY <1>1, <2>2, <2>4
      <3>2. u[i] = v[i] /\ Split(u)[i] = Split(v)[i]
        BY <3>1 DEF Wrote
      <3> QED BY <2>1, <2>4, <3>1, <3>2 DEF Shape, Falls
    <2>5. CASE i > Len(v)
      <3> DEFINE n == Len(v) + Len(Slash(rooted, v))
      <3>1. i \in (n + 1)..Len(u)
        BY <1>1, <1>2, <2>1, <2>2, <2>5 DEF Wrote
      <3>2. \A k \in (n + 1)..Len(u) : u[k] # "/"
        BY DEF Wrote
      <3>3. i = Len(u)
        <4>1. SUFFICES ASSUME i # Len(u) PROVE FALSE
          OBVIOUS
        <4>2. i + 1 \in (n + 1)..Len(u) /\ u[i + 1] = "/"
          BY <1>1, <1>2, <2>1, <2>2, <3>1, <4>1
        <4> QED BY <3>2, <4>2
      <3>4. Split(u)[i].part = e
        BY <3>3 DEF Wrote
      <3> QED BY <3>4
    <2> QED BY <1>1, <2>2, <2>3, <2>4, <2>5
  <1>7. d \in Base(rooted)..Len(u)
    BY <1>1, <1>2
  <1> QED BY <1>3, <1>4, <1>5, <1>6, <1>7 DEF Shape

\* Another ".." is added to an output that only leads up.
LEMMA ShapeUp ==
  ASSUME NEW v \in Strings, NEW d, Shape(FALSE, v, d), d = Len(v),
         NEW u, Wrote(FALSE, v, <<".", ".">>, u)
  PROVE  Shape(FALSE, u, Len(u))
  <1>1. <<".", ".">> \in Names /\ Len(<<".", ".">>) = 2
    BY DEF Names, Symbols
  <1>2. Len(v) \in Nat /\ Len(u) \in Nat /\ u \in Strings /\ ElementsOf(v) \in Seq(Names)
    BY ElementsType DEF Wrote
  <1>3. Slashes(FALSE, u, Len(u)) /\ Len(u) \in Base(FALSE)..Len(u)
    BY <1>1, WroteSlashes
  <1>4. Prefix(v, d) = v /\ Prefix(u, Len(u)) = u
    BY <1>2 DEF Prefix, Strings
  <1> DEFINE es == ElementsOf(v)
             fs == ElementsOf(u)
             p == Walk(From(FALSE), es)
  <1>5. fs = Append(es, <<".", ".">>)
    BY DEF Wrote
  <1>6. p.down = <<>> /\ \A i \in DOMAIN es : es[i] = <<".", ".">>
    BY <1>4 DEF Shape, Rises
  <1>7. \A i \in DOMAIN fs : fs[i] = <<".", ".">>
    <2> HIDE DEF es, fs
    <2>1. es \in Seq(Names)
      BY <1>2 DEF es
    <2> QED BY <1>5, <1>6, <2>1
  <1>8. \A i \in DOMAIN fs : \A k \in 1..i : k \in DOMAIN fs
    <2> HIDE DEF es, fs
    <2>1. es \in Seq(Names)
      BY <1>2 DEF es
    <2> QED BY <1>1, <1>5, <2>1
  <1>9. NoDots(FALSE, fs)
    <2>1. <<".", ".">> # <<".">>
      OBVIOUS
    <2> HIDE DEF fs
    <2> QED BY <1>7, <1>8, <2>1 DEF NoDots
  <1>10. Walk(From(FALSE), fs).down = <<>>
    <2>1. p \in Places /\ Walk(From(FALSE), fs) = Step(p, <<".", ".">>)
      <3>1. From(FALSE) \in Places /\ es \in Seq(Names) /\ <<".", ".">> \in Names
        BY <1>1, <1>2, FromType
      <3> HIDE DEF es, fs
      <3> QED BY <1>5, <3>1, WalkOn, Zenon DEF p
    <2>2. Step(p, <<".", ".">>).down = <<>>
      <3>1. <<".", ".">> # <<".">>
        OBVIOUS
      <3> HIDE DEF p
      <3>2. Step(p, <<".", ".">>) \in {p, [p EXCEPT !.up = p.up + 1]}
        BY <1>6, <3>1 DEF Step
      <3>3. [p EXCEPT !.up = p.up + 1].down = p.down
        BY <2>1 DEF Places
      <3> QED BY <1>6, <3>2, <3>3
    <2> QED BY <2>1, <2>2
  <1>11. Rises(FALSE, u, Len(u))
    BY <1>4, <1>7, <1>10 DEF Rises
  <1>12. Falls(u, Len(u))
    BY <1>2 DEF Falls
  <1> QED BY <1>3, <1>9, <1>11, <1>12 DEF Shape

\* The last name of the output is given up.
LEMMA ShapeBack ==
  ASSUME NEW rooted \in BOOLEAN, NEW v \in Strings, NEW d, Shape(rooted, v, d),
         NEW k \in d..(Len(v) - 1), k = d \/ v[k + 1] = "/",
         \A m \in (k + 1)..(Len(v) - 1) : v[m + 1] # "/"
  PROVE  /\ Shape(rooted, Prefix(v, k), d)
         /\ \E e \in Names : Plain(e) /\ ElementsOf(v) = Append(ElementsOf(Prefix(v, k)), e)
  <1> DEFINE base == Base(rooted)
             p == Prefix(v, k)
  <1>1. /\ Len(v) \in Nat /\ base \in {0, 1} /\ d \in base..Len(v) /\ d \in Int
        /\ k \in Nat /\ k < Len(v) /\ k >= d /\ k \in 0..Len(v)
    BY FromType, ElementsType DEF Shape
  <1>2. /\ rooted => d = 1 /\ v[1] = "/" /\ base = 1
        /\ ~rooted => base = 0
        /\ \A i \in (base + 1)..Len(v) : v[i] = "/" => i < Len(v) /\ i > 1 /\ v[i - 1] # "/"
        /\ d \in (base + 1)..(Len(v) - 1) => v[d + 1] = "/"
    BY DEF Shape, Slashes, Base
  <1>3. /\ p \in Strings /\ Len(p) = k
        /\ \A i \in 1..k : p[i] = v[i]
        /\ \A i \in 0..k : Split(p)[i] = Split(v)[i]
    BY <1>1, PrefixFacts
  <1> HIDE DEF base
  <1>4. v[Len(v)] # "/"
    <2>1. CASE k + 1 = Len(v)
      BY <1>1, <1>2, <2>1
    <2>2. CASE k + 1 # Len(v)
      <3>1. Len(v) - 1 \in (k + 1)..(Len(v) - 1) /\ (Len(v) - 1) + 1 = Len(v)
        BY <1>1, <2>2
      <3> QED BY <3>1
    <2> QED BY <2>1, <2>2
  <1>5. PICK j \in k..(k + 1) :
            /\ j < Len(v) /\ \A i \in (j + 1)..Len(v) : v[i] # "/"
            /\ Split(v)[j].part = <<>> /\ Close(Split(v)[j]) = ElementsOf(p)
    <2>1. \A i \in (k + 2)..Len(v) : v[i] # "/"
      <3> SUFFICES ASSUME NEW i \in (k + 2)..Len(v) PROVE v[i] # "/"
        OBVIOUS
      <3>1. i - 1 \in (k + 1)..(Len(v) - 1) /\ (i - 1) + 1 = i
        BY <1>1
      <3> QED BY <3>1
    <2>2. Close(Split(v)[k]) = ElementsOf(p)
      BY <1>1, PrefixElements
    <2>3. CASE v[k + 1] = "/"
      <3>1. k + 1 \in 1..Len(v) /\ (k + 1) - 1 = k /\ k + 1 < Len(v) /\ k + 1 \in 0..Len(v)
        BY <1>1, <1>4, <2>3
      <3>2. Split(v)[k + 1] = [done |-> Close(Split(v)[k]), part |-> <<>>]
        BY <2>3, <3>1, SplitFacts DEF SplitStep
      <3>3. Close(Split(v)[k + 1]) = ElementsOf(p)
        BY <2>2, <3>2, CloseFacts
      <3>4. \A i \in ((k + 1) + 1)..Len(v) : v[i] # "/"
        BY <1>1, <2>1
      <3>5. Split(v)[k + 1].part = <<>>
        BY <3>2
      <3>6. k + 1 \in k..(k + 1)
        BY <1>1
      <3> QED BY <3>1, <3>3, <3>4, <3>5, <3>6
    <2>4. CASE v[k + 1] # "/"
      <3>1. k = d /\ (k = 0 \/ v[k] = "/")
        BY <1>1, <1>2, <2>4
      <3>2. Split(v)[k].part = <<>>
        BY <1>1, <3>1, PartEmpty
      <3>3. \A i \in (k + 1)..Len(v) : v[i] # "/"
        BY <1>1, <2>1, <2>4
      <3>4. k \in k..(k + 1)
        BY <1>1
      <3> QED BY <1>1, <2>2, <3>2, <3>3, <3>4
    <2> QED BY <2>3, <2>4
  <1>6. PICK t : t = Prefix(v, j)
    OBVIOUS
  <1>7. PICK e : e = SubSeq(v, j + 1, Len(v))
    OBVIOUS
  <1>8. /\ t \in Strings /\ Len(t) = j /\ Split(t)[Len(t)].part = <<>> /\ ElementsOf(t) = ElementsOf(p)
    <2>1. j \in 0..Len(v)
      BY <1>1, <1>5
    <2> QED BY <1>5, <1>6, <2>1, PrefixFacts, PrefixElements
  <1>9. e \in Names /\ \A i \in 1..Len(e) : e[i] # "/"
    <2>1. j \in Nat /\ j + 1 \in 1..Len(v) /\ v \in Seq(Symbols)
      BY <1>1, <1>5 DEF Strings
    <2>2. e \in Seq(Symbols) /\ Len(e) = Len(v) - j /\ \A i \in 1..Len(e) : e[i] = v[j + i]
      BY <1>7, <2>1
    <2>3. \A i \in 1..Len(e) : j + i \in (j + 1)..Len(v)
      BY <1>1, <2>1, <2>2
    <2>4. e # <<>>
      BY <1>1, <2>1, <2>2
    <2> QED BY <1>5, <2>2, <2>3, <2>4 DEF Names
  <1>10. v = t \o e
    <2>1. j \in 0..Len(v)
      BY <1>1, <1>5
    <2> QED BY <1>6, <1>7, <2>1, PrefixRest
  <1>11. ElementsOf(v) = Append(ElementsOf(p), e) /\ Split(v)[Len(v)].part = e
    <2>1. ElementsOf(v) = Append(ElementsOf(t), e) /\ Split(v)[Len(v)].part = e
      <3> HIDE DEF p
      <3>1. t \in Strings /\ Split(t)[Len(t)].part = <<>>
        BY <1>8
      <3>2. OneMore(t, e, v)
        BY <1>9, <1>10, <3>1, AddElement, Zenon
      <3> QED BY <3>2 DEF OneMore
    <2> QED BY <1>8, <2>1
  <1>12. Plain(e)
    <2>1. Len(v) \in (d + 1)..Len(v)
      BY <1>1
    <2> QED BY <1>4, <1>11, <2>1 DEF Shape, Falls
  <1>13. Slashes(rooted, p, d)
    <2>1. rooted => d = 1 /\ p[1] = "/"
      BY <1>1, <1>2, <1>3
    <2>2. ASSUME NEW i \in (base + 1)..k, p[i] = "/" PROVE i < k /\ i > 1 /\ p[i - 1] # "/"
      <3>1. i \in (base + 1)..Len(v) /\ i \in 1..k /\ i \in Int
        BY <1>1
      <3>2. v[i] = "/" /\ i > 1 /\ v[i - 1] # "/" /\ p[i - 1] = v[i - 1]
        BY <1>1, <1>2, <1>3, <2>2, <3>1
      <3>3. i # k
        <4>1. SUFFICES ASSUME i = k PROVE FALSE
          OBVIOUS
        <4>2. v[k + 1] = "/"
          BY <1>1, <1>2, <3>1, <4>1
        <4>3. k + 1 \in (base + 1)..Len(v) /\ (k + 1) - 1 = k
          BY <1>1
        <4> QED BY <1>2, <3>2, <4>1, <4>2, <4>3
      <3> QED BY <3>1, <3>2, <3>3
    <2>3. d \in (base + 1)..(k - 1) => p[d + 1] = "/"
      BY <1>1, <1>2, <1>3
    <2> QED BY <1>3, <2>1, <2>2, <2>3 DEF Slashes, base
  <1>14. NoDots(rooted, ElementsOf(p))
    <2>1. ElementsOf(p) \in Seq(Names)
      BY <1>3, ElementsType
    <2> QED BY <1>9, <1>11, <2>1, NoDotsMore DEF Shape
  <1>15. Rises(rooted, p, d)
    <2>1. d \in 0..Len(v) /\ d <= Len(p) /\ Split(p)[d] = Split(v)[d]
      BY <1>1, <1>3
    <2> QED BY <1>3, <2>1, RisesKept DEF Shape
  <1>16. Falls(p, d)
    <2>1. SUFFICES ASSUME NEW i \in (d + 1)..k, p[i] # "/", i = k \/ p[i + 1] = "/"
                   PROVE  Plain(Split(p)[i].part)
      BY <1>3 DEF Falls
    <2>2. i \in (d + 1)..Len(v) /\ i \in 1..k /\ i \in 0..k /\ i \in Int
      BY <1>1
    <2>3. v[i] # "/" /\ v[i + 1] = "/" /\ Split(p)[i] = Split(v)[i]
      <3>1. CASE i = k
        BY <1>1, <1>3, <2>1, <2>2, <3>1
      <3>2. CASE i # k
        <4>1. i + 1 \in 1..k
          BY <1>1, <2>2, <3>2
        <4> QED BY <1>3, <2>1, <2>2, <3>2, <4>1
      <3> QED BY <3>1, <3>2
    <2> QED BY <2>2, <2>3 DEF Shape, Falls
  <1>17. d \in base..Len(p)
    BY <1>1, <1>3
  <1>18. Shape(rooted, p, d)
    BY <1>13, <1>14, <1>15, <1>16, <1>17 DEF Shape, base
  <1> QED BY <1>9, <1>11, <1>12, <1>18

\* Nothing has been written yet.
LEMMA ShapeNothing ==
  /\ Shape(FALSE, <<>>, 0)
  /\ Shape(TRUE, <<"/">>, 1)
  <1>1. ASSUME NEW rooted \in BOOLEAN, NEW v \in Strings, NEW d \in Nat, d = Len(v), d = Base(rooted),
               rooted => v[1] = "/", ElementsOf(v) = <<>>
        PROVE  Shape(rooted, v, d)
    <2>1. Prefix(v, d) = v
      BY <1>1, PrefixFull
    <2>2. Walk(From(rooted), <<>>).down = <<>>
      BY WalkNowhere, FromType DEF From
    <2>3. Rises(rooted, v, d)
      BY <1>1, <2>1, <2>2 DEF Rises
    <2>4. NoDots(rooted, ElementsOf(v))
      BY <1>1 DEF NoDots
    <2>5. Slashes(rooted, v, d) /\ Falls(v, d)
      BY <1>1 DEF Slashes, Falls, Base
    <2> QED BY <1>1, <2>3, <2>4, <2>5 DEF Shape
  <1>2. PICK v : v = <<>>
    OBVIOUS
  <1>3. Shape(FALSE, v, 0)
    BY <1>1, <1>2, NoElements DEF Base
  <1>4. PICK u : u = <<"/">>
    OBVIOUS
  <1>5. Shape(TRUE, u, 1)
    <2>1. u \in Strings /\ Len(u) = 1 /\ u[1] = "/" /\ ElementsOf(u) = <<>>
      BY <1>4, NoElements
    <2> QED BY <1>1, <2>1 DEF Base
  <1> QED BY <1>2, <1>3, <1>4, <1>5

----------------------------------------------------------------------------
(* Reading and writing. *)

\* A slash that is read ends an element, if there is one.
LEMMA ReadSlash ==
  ASSUME NEW s \in Strings, NEW n \in Nat, n + 1 <= Len(s), s[n + 1] = "/"
  PROVE  ElementsOf(Prefix(s, n + 1)) = ElementsOf(Prefix(s, n))
  <1>1. /\ n \in 0..Len(s) /\ n + 1 \in 0..Len(s) /\ n + 1 \in 1..Len(s) /\ (n + 1) - 1 = n
    BY ElementsType
  <1>2. Split(s)[n + 1] = [done |-> Close(Split(s)[n]), part |-> <<>>]
    BY <1>1, SplitFacts DEF SplitStep
  <1>3. Close(Split(s)[n + 1]) = Close(Split(s)[n])
    BY <1>2, CloseFacts
  <1> QED BY <1>1, <1>3, PrefixElements

\* The symbols up to the next slash are one element.
ReadOne(s, n, m) ==
    /\ SubSeq(s, n + 1, m) \in Names /\ Len(SubSeq(s, n + 1, m)) = m - n
    /\ \A i \in 1..(m - n) : SubSeq(s, n + 1, m)[i] = s[n + i] /\ s[n + i] # "/"
    /\ ElementsOf(Prefix(s, m)) = Append(ElementsOf(Prefix(s, n)), SubSeq(s, n + 1, m))

LEMMA ReadElement ==
  ASSUME NEW s \in Strings, NEW n \in Nat, n = 0 \/ s[n] = "/",
         NEW m \in (n + 1)..Len(s), \A k \in (n + 1)..m : s[k] # "/"
  PROVE  ReadOne(s, n, m)
  <1>1. /\ Len(s) \in Nat /\ n \in 0..Len(s) /\ m \in 0..Len(s) /\ m \in Nat /\ n < m
        /\ n + 1 \in 1..Len(s)
    BY ElementsType
  <1>2. PICK e : e = SubSeq(s, n + 1, m)
    OBVIOUS
  <1>3. /\ e \in Strings /\ Len(e) = m - n /\ \A i \in 1..(m - n) : e[i] = s[n + i]
    BY <1>1, <1>2 DEF Strings
  <1>4. e \in Names
    BY <1>1, <1>3 DEF Names, Strings
  <1>5. \A i \in 1..(m - n) : s[n + i] # "/"
    <2> SUFFICES ASSUME NEW i \in 1..(m - n) PROVE s[n + i] # "/"
      OBVIOUS
    <2>1. n + i \in (n + 1)..m
      BY <1>1
    <2> QED BY <2>1
  <1>6. \A i \in 1..Len(e) : e[i] # "/"
    BY <1>3, <1>5
  <1>7. PICK t : t = Prefix(s, n)
    OBVIOUS
  <1>8. t \in Strings /\ Len(t) = n /\ Split(t)[Len(t)].part = <<>>
    <2>1. t \in Strings /\ Len(t) = n /\ Split(t)[n] = Split(s)[n]
      BY <1>1, <1>7, PrefixFacts
    <2> QED BY <1>1, <2>1, PartEmpty
  <1>9. PICK u : u = Prefix(s, m)
    OBVIOUS
  <1>10. u = t \o e
    <2>1. /\ s \in Seq(Symbols) /\ 1 \in 1..(Len(s) + 1) /\ n \in (1 - 1)..Len(s)
          /\ m \in n..Len(s)
      BY <1>1 DEF Strings
    <2>2. SubSeq(s, 1, n) \o SubSeq(s, n + 1, m) = SubSeq(s, 1, m)
      BY <2>1, ConcatAdjacentSubSeq, Zenon
    <2> QED BY <1>2, <1>7, <1>9, <2>2 DEF Prefix
  <1>11. OneMore(t, e, u)
    BY <1>4, <1>6, <1>8, <1>10, AddElement, Zenon
  <1>12. ElementsOf(u) = Append(ElementsOf(t), e)
    BY <1>11 DEF OneMore
  <1> QED BY <1>2, <1>3, <1>4, <1>5, <1>7, <1>9, <1>12 DEF ReadOne

\* What is in a LazyBuf of the path p.
Text(p, o) == SubSeq(IF o.buf = NoBuf THEN p ELSE o.buf, 1, o.w)

Sound(p, o) ==
    /\ o \in [buf : Strings \cup {NoBuf}, w : Nat]
    /\ o.w <= Len(IF o.buf = NoBuf THEN p ELSE o.buf)

LEMMA NoBufIsNone == NoBuf \notin Strings
  <1>1. SUFFICES ASSUME NoBuf \in Strings PROVE FALSE
    OBVIOUS
  <1>2. PICK b : b = NoBuf
    OBVIOUS
  <1>3. Len(b) = 1 /\ b \in Seq(Symbols)
    BY <1>1, <1>2 DEF NoBuf, Strings
  <1>4. b[1] \in Symbols
    BY <1>3
  <1>5. b[1] = "no buffer"
    BY <1>2 DEF NoBuf
  <1> QED BY <1>4, <1>5 DEF Symbols

LEMMA TextType ==
  ASSUME NEW p \in Strings, NEW o, Sound(p, o)
  PROVE  Text(p, o) \in Strings /\ Len(Text(p, o)) = o.w /\ o.w \in Nat
  <1> DEFINE b == IF o.buf = NoBuf THEN p ELSE o.buf
  <1>1. b \in Seq(Symbols) /\ o.w \in Nat /\ o.w <= Len(b) /\ Text(p, o) = SubSeq(b, 1, o.w)
    BY DEF Sound, Text, Strings
  <1> HIDE DEF b
  <1> QED BY <1>1 DEF Strings

\* A LazyBuf to which t is added.
Added(p, o, t, q) ==
    /\ Sound(p, q) /\ q.w = o.w + Len(t)
    /\ Text(p, q) = Text(p, o) \o t

LEMMA AddedText ==
  ASSUME path \in Strings, NEW o, Sound(path, o), NEW t \in Strings, NEW q, q = AppendAll(o, t)
  PROVE  Added(path, o, t, q)
  <1>1. /\ Text(path, o) \in Strings /\ Len(Text(path, o)) = o.w /\ o.w \in Nat
        /\ Len(t) \in Nat /\ Len(path) \in Nat /\ View(o) = Text(path, o)
    BY TextType DEF Strings, View, Text
  <1>2. CASE o.buf = NoBuf /\ o.w + Len(t) <= Len(path) /\ SubSeq(path, o.w + 1, o.w + Len(t)) = t
    <2>0. PICK m \in Nat : m = o.w + Len(t)
      BY <1>1
    <2>1. q = [o EXCEPT !.w = m]
      BY <1>2, <2>0 DEF AppendAll
    <2>2. q.w = o.w + Len(t) /\ q.buf = NoBuf /\ q \in [buf : Strings \cup {NoBuf}, w : Nat]
      BY <1>2, <2>0, <2>1 DEF Sound
    <2>3. Sound(path, q)
      BY <1>2, <2>2 DEF Sound
    <2>4. SubSeq(path, 1, o.w) \o SubSeq(path, o.w + 1, o.w + Len(t)) = SubSeq(path, 1, o.w + Len(t))
      <3>1. PICK n \in Nat : n = o.w
        BY <1>1
      <3>2. n <= m /\ m <= Len(path)
        BY <1>1, <1>2, <2>0, <3>1
      <3>3. /\ path \in Seq(Symbols) /\ 1 \in 1..(Len(path) + 1) /\ n \in (1 - 1)..Len(path)
            /\ m \in n..Len(path)
        BY <1>1, <3>2 DEF Strings
      <3>4. SubSeq(path, 1, n) \o SubSeq(path, n + 1, m) = SubSeq(path, 1, m)
        BY <3>3, ConcatAdjacentSubSeq, Zenon
      <3> QED BY <2>0, <3>1, <3>4
    <2>5. Text(path, q) = Text(path, o) \o t
      BY <1>2, <2>2, <2>4 DEF Text
    <2> QED BY <2>2, <2>3, <2>5 DEF Added
  <1>3. CASE ~(o.buf = NoBuf /\ o.w + Len(t) <= Len(path) /\ SubSeq(path, o.w + 1, o.w + Len(t)) = t)
    <2> DEFINE b == Text(path, o) \o t
    <2>1. q = [buf |-> b, w |-> o.w + Len(t)]
      BY <1>1, <1>3 DEF AppendAll
    <2>2. b \in Strings /\ Len(b) = o.w + Len(t)
      <3>1. PICK v : v = Text(path, o)
        OBVIOUS
      <3>2. v \in Strings /\ Len(v) = o.w
        BY <1>1, <3>1
      <3>3. v \o t \in Strings /\ Len(v \o t) = Len(v) + Len(t)
        BY <3>2, ConcatFacts
      <3> QED BY <3>1, <3>2, <3>3
    <2> HIDE DEF b
    <2>3. b # NoBuf
      BY <2>2, NoBufIsNone
    <2>4. q.buf = b /\ q.w = o.w + Len(t) /\ q \in [buf : Strings \cup {NoBuf}, w : Nat]
      BY <1>1, <2>1, <2>2
    <2>5. Sound(path, q)
      BY <1>1, <2>2, <2>3, <2>4 DEF Sound
    <2>6. Text(path, q) = b
      <3>1. Text(path, q) = SubSeq(b, 1, Len(b))
        BY <2>2, <2>3, <2>4 DEF Text
      <3> QED BY <2>2, <3>1 DEF Strings
    <2> QED BY <2>4, <2>5, <2>6 DEF Added, b
  <1> QED BY <1>2, <1>3

LEMMA CutText ==
  ASSUME NEW p \in Strings, NEW o, Sound(p, o), NEW k \in 0..o.w
  PROVE  /\ Sound(p, [o EXCEPT !.w = k]) /\ [o EXCEPT !.w = k].w = k
         /\ Text(p, [o EXCEPT !.w = k]) = Prefix(Text(p, o), k)
  <1> DEFINE b == IF o.buf = NoBuf THEN p ELSE o.buf
             q == [o EXCEPT !.w = k]
  <1>1. o.w \in Nat /\ k \in Nat /\ k <= o.w
    BY DEF Sound
  <1>2. q.buf = o.buf /\ q.w = k /\ q \in [buf : Strings \cup {NoBuf}, w : Nat]
    BY <1>1 DEF Sound
  <1>3. b \in Seq(Symbols) /\ Len(b) \in Nat /\ o.w <= Len(b)
    BY DEF Sound, Strings
  <1>4. Text(p, q) = SubSeq(b, 1, k) /\ Text(p, o) = SubSeq(b, 1, o.w)
    BY <1>2 DEF Text
  <1>5. Sound(p, q)
    BY <1>1, <1>2, <1>3 DEF Sound
  <1>6. SubSeq(b, 1, k) = SubSeq(SubSeq(b, 1, o.w), 1, k)
    <2> HIDE DEF b
    <2> QED BY <1>1, <1>3
  <1> QED BY <1>2, <1>4, <1>5, <1>6 DEF Prefix

----------------------------------------------------------------------------
(* The steps of normpath(). *)

LEMMA Least ==
  ASSUME NEW S, S \subseteq Nat, S # {}
  PROVE  \E m \in S : \A k \in S : m <= k
  <1> DEFINE less == OpToRel(<, Nat)
  <1>1. PICK m \in S : \A k \in S : <<k, m>> \notin less
    BY NatLessThanWellFounded, WFMin
  <1>2. ASSUME NEW k \in S PROVE m <= k
    <2>1. m \in Nat /\ k \in Nat
      OBVIOUS
    <2>2. k < m => <<k, m>> \in less
      BY <2>1 DEF OpToRel
    <2> HIDE DEF less
    <2>3. ~(k < m)
      BY <1>1, <2>2
    <2> QED BY <2>1, <2>3
  <1> QED BY <1>2

LEMMA Greatest ==
  ASSUME NEW n \in Nat, NEW S, S \subseteq 0..n, S # {}
  PROVE  \E m \in S : \A k \in S : k <= m
  <1> DEFINE T == {i \in Nat : i <= n /\ n - i \in S}
  <1>1. T \subseteq Nat /\ T # {}
    <2>1. PICK k \in S : k \in 0..n
      OBVIOUS
    <2>2. n - k \in Nat /\ n - k <= n /\ n - (n - k) = k
      BY <2>1
    <2>3. n - k \in T
      BY <2>1, <2>2
    <2> QED BY <2>3
  <1>2. PICK i \in T : \A j \in T : i <= j
    <2> HIDE DEF T
    <2> QED BY <1>1, Least
  <1>3. ASSUME NEW k \in S PROVE k <= n - i
    <2>1. k \in 0..n /\ i \in Nat
      BY <1>1
    <2>2. n - k \in Nat /\ n - k <= n /\ n - (n - k) = k
      BY <2>1
    <2>3. n - k \in T
      BY <2>2
    <2>4. i <= n - k
      BY <1>2, <2>3
    <2> QED BY <2>1, <2>4
  <1> QED BY <1>3

LEMMA DotNames ==
  ASSUME NEW e \in Names
  PROVE  /\ e = <<".">> <=> Len(e) = 1 /\ e[1] = "."
         /\ e = <<".", ".">> <=> Len(e) = 2 /\ e[1] = "." /\ e[2] = "."
  BY DEF Names

IsRooted(p) == p # <<>> /\ p[1] = "/"

Stops(p, i) == i <= Len(p) => p[i] = "/"

At(p, s) == Walk(From(IsRooted(p)), ElementsOf(s))

\* NormInv, for one value of the variables.
Normed(p, r, o, d) ==
    /\ p \in Strings /\ r \in 0..Len(p) /\ Sound(p, o) /\ o.w <= r
    /\ Shape(IsRooted(p), Text(p, o), d)
    /\ ~Stops(p, r + 1) => o.w < r \/ o.w = Base(IsRooted(p))
    /\ r = 0 \/ p[r] = "/" \/ Stops(p, r + 1)
    /\ At(p, Text(p, o)) = At(p, Prefix(p, r))

LEMMA NormedType ==
  ASSUME NEW p, NEW r, NEW o, NEW d, Normed(p, r, o, d)
  PROVE  /\ p \in Strings /\ Len(p) \in Nat /\ r \in Nat /\ r <= Len(p) /\ o.w \in Nat /\ o.w <= r
         /\ Text(p, o) \in Strings /\ Len(Text(p, o)) = o.w
         /\ IsRooted(p) \in BOOLEAN /\ Base(IsRooted(p)) \in {0, 1}
         /\ d \in Base(IsRooted(p))..o.w /\ Shape(IsRooted(p), Text(p, o), d)
         /\ Sound(p, o) /\ At(p, Text(p, o)) = At(p, Prefix(p, r)) /\ Prefix(p, r) \in Strings
  <1>1. /\ p \in Strings /\ r \in 0..Len(p) /\ Sound(p, o) /\ o.w <= r
        /\ Shape(IsRooted(p), Text(p, o), d) /\ At(p, Text(p, o)) = At(p, Prefix(p, r))
    BY DEF Normed
  <1>2. Text(p, o) \in Strings /\ Len(Text(p, o)) = o.w /\ o.w \in Nat
    BY <1>1, TextType
  <1>3. IsRooted(p) \in BOOLEAN
    BY DEF IsRooted
  <1>4. d \in Base(IsRooted(p))..Len(Text(p, o))
    BY <1>1 DEF Shape
  <1>5. Prefix(p, r) \in Strings
    BY <1>1, PrefixFacts
  <1> QED BY <1>1, <1>2, <1>3, <1>4, <1>5, ElementsType, FromType

\* The next element of the input.
LEMMA NextElement ==
  ASSUME NEW p, NEW r, NEW o, NEW d, Normed(p, r, o, d),
         NEW m \in (r + 1)..Len(p), \A k \in (r + 1)..m : p[k] # "/"
  PROVE  /\ ReadOne(p, r, m)
         /\ o.w < r \/ o.w = Base(IsRooted(p))
         /\ At(p, Text(p, o)) \in Places
         /\ At(p, Prefix(p, m)) = Step(At(p, Text(p, o)), SubSeq(p, r + 1, m))
  <1>1. ~Stops(p, r + 1)
    <2>1. r + 1 \in (r + 1)..m /\ r + 1 <= Len(p)
      BY NormedType
    <2> QED BY <2>1 DEF Stops
  <1>2. (r = 0 \/ p[r] = "/") /\ (o.w < r \/ o.w = Base(IsRooted(p)))
    BY <1>1 DEF Normed
  <1>3. ReadOne(p, r, m)
    <2>1. p \in Strings /\ r \in Nat
      BY NormedType
    <2> QED BY <1>2, <2>1, ReadElement
  <1> DEFINE es == ElementsOf(Prefix(p, r))
             e == SubSeq(p, r + 1, m)
  <1>4. e \in Names /\ ElementsOf(Prefix(p, m)) = Append(es, e)
    BY <1>3 DEF ReadOne
  <1>5. es \in Seq(Names) /\ From(IsRooted(p)) \in Places
    BY NormedType, ElementsType, FromType
  <1> HIDE DEF e, es
  <1>6. /\ Walk(From(IsRooted(p)), es) \in Places
        /\ Walk(From(IsRooted(p)), Append(es, e)) = Step(Walk(From(IsRooted(p)), es), e)
    BY <1>4, <1>5, WalkOn
  <1>7. At(p, Text(p, o)) = Walk(From(IsRooted(p)), es)
    BY NormedType DEF At, es
  <1>8. At(p, Prefix(p, m)) = Walk(From(IsRooted(p)), Append(es, e))
    BY <1>4 DEF At
  <1> QED BY <1>2, <1>3, <1>6, <1>7, <1>8 DEF e

LEMMA SkipStep ==
  ASSUME Normed(path, read, out, dotdot), Skip
  PROVE  Normed(path, read + 1, out, dotdot)
  <1>1. /\ path \in Strings /\ Len(path) \in Nat /\ read \in Nat /\ read + 1 <= Len(path)
        /\ read + 1 \in 0..Len(path) /\ out.w \in Nat /\ out.w <= read
        /\ At(path, Text(path, out)) = At(path, Prefix(path, read))
    BY NormedType DEF Skip, Reading
  <1>2. /\ At(path, Text(path, out)) = At(path, Prefix(path, read + 1))
        /\ path[read + 1] = "/" \/ Stops(path, read + 2)
    <2>1. CASE Is(read + 1, "/")
      <3>1. path[read + 1] = "/"
        BY <2>1 DEF Is
      <3>2. ElementsOf(Prefix(path, read + 1)) = ElementsOf(Prefix(path, read))
        BY <1>1, <3>1, ReadSlash
      <3> QED BY <1>1, <3>1, <3>2 DEF At
    <2>2. CASE AtDot
      <3>1. path[read + 1] = "." /\ Stops(path, read + 2)
        BY <2>2 DEF AtDot, Is, Ends, Stops
      <3>2. read + 1 \in (read + 1)..Len(path) /\ \A k \in (read + 1)..(read + 1) : path[k] # "/"
        BY <1>1, <3>1
      <3>3. /\ ReadOne(path, read, read + 1)
            /\ At(path, Prefix(path, read + 1)) = Step(At(path, Text(path, out)), SubSeq(path, read + 1, read + 1))
        BY <3>2, NextElement
      <3>4. SubSeq(path, read + 1, read + 1) = <<".">>
        <4>1. PICK e : e = SubSeq(path, read + 1, read + 1)
          OBVIOUS
        <4>2. e \in Names /\ Len(e) = (read + 1) - read /\ \A i \in 1..((read + 1) - read) : e[i] = path[read + i]
          BY <3>3, <4>1 DEF ReadOne
        <4>3. Len(e) = 1 /\ e[1] = "."
          BY <1>1, <3>1, <4>2
        <4> QED BY <4>1, <4>2, <4>3, DotNames
      <3>5. At(path, Prefix(path, read + 1)) = At(path, Text(path, out))
        BY <3>3, <3>4 DEF Step
      <3> QED BY <3>1, <3>5
    <2> QED BY <2>1, <2>2 DEF Skip
  <1>3. (read + 1) + 1 = read + 2 /\ out.w < read + 1
    BY <1>1
  <1> QED BY <1>1, <1>2, <1>3 DEF Normed

\* Where the next element ends.
LEMMA NextEnd ==
  ASSUME Normed(path, read, out, dotdot), read < Len(path), path[read + 1] # "/"
  PROVE  \E i \in (read + 1)..Len(path) : Ends(i + 1) /\ \A k \in (read + 1)..i : path[k] # "/"
  <1> DEFINE S == {i \in (read + 1)..Len(path) : Ends(i + 1)}
  <1>1. Len(path) \in Nat /\ read \in Nat
    BY NormedType
  <1>2. S \subseteq Nat /\ Len(path) \in S
    BY <1>1 DEF Ends
  <1>3. PICK i \in S : \A k \in S : i <= k
    <2> HIDE DEF S
    <2> QED BY <1>2, Least
  <1>4. i \in (read + 1)..Len(path) /\ Ends(i + 1)
    BY <1>3
  <1>5. ASSUME NEW k \in (read + 1)..i PROVE path[k] # "/"
    <2>1. SUFFICES ASSUME path[k] = "/" PROVE FALSE
      OBVIOUS
    <2>2. k # read + 1
      BY <2>1
    <2>3. k - 1 \in (read + 1)..Len(path) /\ (k - 1) + 1 = k
      BY <1>1, <1>4, <2>2
    <2>4. k - 1 \in S
      BY <2>1, <2>3 DEF Ends
    <2>5. i <= k - 1
      BY <1>3, <2>4
    <2> QED BY <1>1, <1>4, <2>5
  <1> QED BY <1>4, <1>5

LEMMA ElementStep ==
  ASSUME Normed(path, read, out, dotdot), Element
  PROVE  Normed(path, read', out', dotdot)
  <1>1. /\ path \in Strings /\ Len(path) \in Nat /\ read \in Nat /\ read < Len(path)
        /\ out.w \in Nat /\ out.w <= read /\ Sound(path, out)
        /\ Text(path, out) \in Strings /\ Len(Text(path, out)) = out.w
        /\ Shape(IsRooted(path), Text(path, out), dotdot) /\ IsRooted(path) \in BOOLEAN
    BY NormedType DEF Element, Reading
  <1>2. path[read + 1] # "/" /\ ~AtDot /\ ~AtDotDot
    BY <1>1 DEF Element, Is
  <1>3. /\ read' \in (read + 1)..Len(path) /\ Ends(read' + 1)
        /\ \A k \in (read + 1)..read' : path[k] # "/"
    BY <1>1, <1>2, NextEnd DEF Element
  <1>4. PICK m : m = read'
    OBVIOUS
  <1>5. m \in (read + 1)..Len(path) /\ Ends(m + 1) /\ \A k \in (read + 1)..m : path[k] # "/"
    BY <1>3, <1>4
  <1>6. PICK v : v = Text(path, out)
    OBVIOUS
  <1>7. PICK e : e = SubSeq(path, read + 1, m)
    OBVIOUS
  <1>8. PICK t : t = Slash(IsRooted(path), v) \o e
    OBVIOUS
  <1>9. out' = AppendAll(out, t)
    <2>1. IsRooted(path) = Rooted /\ Len(v) = out.w
      BY <1>1, <1>6 DEF IsRooted, Rooted
    <2> QED BY <1>4, <1>7, <1>8, <2>1 DEF Element, Slash, Base
  <1>10. /\ ReadOne(path, read, m)
         /\ out.w < read \/ out.w = Base(IsRooted(path))
         /\ At(path, v) \in Places
         /\ At(path, Prefix(path, m)) = Step(At(path, v), e)
    BY <1>5, <1>6, <1>7, NextElement
  <1>11. e \in Names /\ e \in Strings /\ Len(e) = m - read /\ \A i \in 1..(m - read) : e[i] = path[read + i] /\ e[i] # "/"
    BY <1>7, <1>10 DEF ReadOne, Names, Strings
  <1>12. Plain(e)
    <2>1. e # <<".">>
      <3>1. SUFFICES ASSUME Len(e) = 1, e[1] = "." PROVE FALSE
        BY <1>11, DotNames
      <3>2. m = read + 1 /\ path[read + 1] = "."
        <4>0. m \in Int
          BY <1>1, <1>5
        <4>1. m - read = 1
          BY <1>11, <3>1
        <4>2. m = read + 1 /\ 1 \in 1..(m - read)
          BY <1>1, <4>0, <4>1
        <4> QED BY <1>11, <3>1, <4>2
      <3>3. m + 1 = read + 2
        BY <1>1, <3>2
      <3> QED BY <1>1, <1>2, <1>5, <3>2, <3>3 DEF AtDot, Is
    <2>2. e # <<".", ".">>
      <3>1. SUFFICES ASSUME Len(e) = 2, e[1] = ".", e[2] = "." PROVE FALSE
        BY <1>11, DotNames
      <3>2. m = read + 2 /\ path[read + 1] = "." /\ path[read + 2] = "."
        <4>0. m \in Int
          BY <1>1, <1>5
        <4>1. m - read = 2
          BY <1>11, <3>1
        <4>2. m = read + 2 /\ 1 \in 1..(m - read) /\ 2 \in 1..(m - read)
          BY <1>1, <4>0, <4>1
        <4> QED BY <1>11, <3>1, <4>2
      <3>3. m + 1 = read + 3 /\ read + 2 <= Len(path)
        BY <1>1, <1>5, <3>2
      <3> QED BY <1>1, <1>2, <1>5, <3>2, <3>3 DEF AtDotDot, Is
    <2> QED BY <2>1, <2>2 DEF Plain
  <1>13. t \in Strings /\ Len(t) = Len(Slash(IsRooted(path), v)) + Len(e)
    <2>1. PICK s : s = Slash(IsRooted(path), v)
      OBVIOUS
    <2>2. s \in Strings
      BY <2>1, NoElements DEF Slash
    <2>3. s \o e \in Strings /\ Len(s \o e) = Len(s) + Len(e)
      BY <1>11, <2>2, ConcatFacts
    <2> QED BY <1>8, <2>1, <2>3
  <1>14. Added(path, out, t, out')
    BY <1>1, <1>9, <1>13, AddedText
  <1>15. PICK u : u = Text(path, out')
    OBVIOUS
  <1>16. u = v \o t /\ Sound(path, out') /\ out'.w = out.w + Len(t)
    BY <1>6, <1>14, <1>15 DEF Added
  <1>17. Wrote(IsRooted(path), v, e, u)
    <2>1. Shape(IsRooted(path), v, dotdot) /\ v \in Strings /\ IsRooted(path) \in BOOLEAN
      BY <1>1, <1>6
    <2>2. \A i \in 1..Len(e) : e[i] # "/"
      BY <1>11
    <2>3. u = v \o (Slash(IsRooted(path), v) \o e)
      BY <1>8, <1>16
    <2> QED BY <1>11, <2>1, <2>2, <2>3, WriteElement, Zenon
  <1>18. Shape(IsRooted(path), u, dotdot)
    BY <1>1, <1>6, <1>11, <1>12, <1>17, ShapeElement
  <1>19. At(path, u) = Step(At(path, v), e)
    <2>1. ElementsOf(u) = Append(ElementsOf(v), e)
      BY <1>17 DEF Wrote
    <2>2. ElementsOf(v) \in Seq(Names) /\ From(IsRooted(path)) \in Places
      BY <1>1, <1>6, ElementsType, FromType
    <2> QED BY <1>11, <2>1, <2>2, WalkOn DEF At
  <1>20. out'.w <= m
    <2>1. Len(Slash(IsRooted(path), v)) = IF out.w # Base(IsRooted(path)) THEN 1 ELSE 0
      BY <1>1, <1>6 DEF Slash
    <2> QED BY <1>1, <1>5, <1>10, <1>11, <1>13, <1>16, <2>1
  <1>21. m \in 0..Len(path) /\ Stops(path, m + 1)
    BY <1>1, <1>5 DEF Ends, Stops
  <1>22. Normed(path, m, out', dotdot)
    BY <1>1, <1>10, <1>15, <1>16, <1>18, <1>19, <1>20, <1>21 DEF Normed
  <1> QED BY <1>4, <1>22

\* A ".." that is read leads up from where the output leads.
LEMMA ReadUp ==
  ASSUME Normed(path, read, out, dotdot), Parent
  PROVE  /\ read + 2 <= Len(path) /\ Stops(path, read + 3)
         /\ At(path, Text(path, out)) \in Places
         /\ out.w < read \/ out.w = Base(IsRooted(path))
         /\ At(path, Prefix(path, read + 2)) = Step(At(path, Text(path, out)), <<".", ".">>)
  <1>1. Len(path) \in Nat /\ read \in Nat
    BY NormedType
  <1>2. /\ path[read + 1] = "." /\ path[read + 2] = "." /\ read + 2 <= Len(path)
        /\ Stops(path, read + 3)
    BY DEF Parent, AtDotDot, Is, Ends, Stops
  <1>3. PICK m : m = read + 2
    OBVIOUS
  <1>4. m \in (read + 1)..Len(path) /\ \A k \in (read + 1)..m : path[k] # "/"
    <2>1. \A k \in (read + 1)..m : k \in {read + 1, read + 2}
      BY <1>1, <1>3
    <2> QED BY <1>1, <1>2, <1>3, <2>1
  <1>5. PICK e : e = SubSeq(path, read + 1, m)
    OBVIOUS
  <1>6. /\ ReadOne(path, read, m) /\ At(path, Text(path, out)) \in Places
        /\ out.w < read \/ out.w = Base(IsRooted(path))
        /\ At(path, Prefix(path, m)) = Step(At(path, Text(path, out)), e)
    BY <1>4, <1>5, NextElement
  <1>7. e = <<".", ".">>
    <2>1. e \in Names /\ Len(e) = m - read /\ \A i \in 1..(m - read) : e[i] = path[read + i]
      BY <1>5, <1>6 DEF ReadOne
    <2>2. m - read = 2
      BY <1>1, <1>3
    <2>3. Len(e) = 2 /\ e[1] = "." /\ e[2] = "."
      BY <1>2, <2>1, <2>2
    <2> QED BY <2>1, <2>3, DotNames
  <1> QED BY <1>2, <1>3, <1>6, <1>7

LEMMA BacktrackFacts ==
  ASSUME Normed(path, read, out, dotdot), out.w > dotdot,
         NEW v, v = Text(path, out), NEW k, k = Backtrack(out)
  PROVE  /\ k \in dotdot..(Len(v) - 1)
         /\ k = dotdot \/ v[k + 1] = "/"
         /\ \A m \in (k + 1)..(Len(v) - 1) : v[m + 1] # "/"
  <1>1. Len(v) = out.w /\ out.w \in Nat /\ dotdot \in Nat /\ View(out) = v
    <2>1. Len(v) = out.w /\ out.w \in Nat /\ dotdot \in Nat
      BY NormedType
    <2> QED BY <2>1 DEF View, Text
  <1> DEFINE S == {i \in dotdot..(out.w - 1) : i = dotdot \/ v[i + 1] = "/"}
  <1>2. PICK i \in S : \A j \in S : j <= i
    <2>1. PICK n \in Nat : n = out.w - 1
      BY <1>1
    <2>2. S \subseteq 0..n /\ dotdot \in S
      BY <1>1, <2>1
    <2> HIDE DEF S
    <2> QED BY <2>2, Greatest
  <1>3. i \in dotdot..(out.w - 1) /\ (i = dotdot \/ v[i + 1] = "/")
    BY <1>2
  <1>4. ASSUME NEW m \in (i + 1)..(out.w - 1) PROVE v[m + 1] # "/"
    <2>1. SUFFICES ASSUME v[m + 1] = "/" PROVE FALSE
      OBVIOUS
    <2>2. m \in dotdot..(out.w - 1)
      BY <1>1, <1>3
    <2>3. m \in S
      BY <2>1, <2>2
    <2>4. m <= i
      BY <1>2, <2>3
    <2> QED BY <1>1, <1>3, <2>2, <2>4
  <1> DEFINE Here(j) == /\ j = dotdot \/ v[j + 1] = "/"
                        /\ \A m \in (j + 1)..(out.w - 1) : v[m + 1] # "/"
  <1>5. i \in dotdot..(out.w - 1) /\ Here(i)
    BY <1>3, <1>4
  <1>6. k = CHOOSE j \in dotdot..(out.w - 1) : Here(j)
    BY <1>1 DEF Backtrack
  <1>7. k \in dotdot..(out.w - 1) /\ Here(k)
    <2> HIDE DEF Here
    <2> QED BY <1>5, <1>6
  <1> QED BY <1>1, <1>7

LEMMA SlashDots ==
  /\ <<"/">> \o <<".", ".">> = <<"/", ".", ".">>
  /\ <<>> \o <<".", ".">> = <<".", ".">>
  <1>1. PICK a : a = <<"/">>
    OBVIOUS
  <1>2. PICK b : b = <<".", ".">>
    OBVIOUS
  <1>3. a \in Strings /\ Len(a) = 1 /\ a[1] = "/"
    BY <1>1 DEF Strings, Symbols
  <1>4. b \in Strings /\ Len(b) = 2 /\ b[1] = "." /\ b[2] = "."
    BY <1>2 DEF Strings, Symbols
  <1>5. PICK c : c = a \o b
    OBVIOUS
  <1>6. c \in Seq(Symbols) /\ Len(c) = 3 /\ c[1] = "/" /\ c[2] = "." /\ c[3] = "."
    <2>1. /\ c \in Strings /\ Len(c) = Len(a) + Len(b)
          /\ \A i \in 1..Len(a) : c[i] = a[i]
          /\ \A i \in 1..Len(b) : c[Len(a) + i] = b[i]
      BY <1>3, <1>4, <1>5, ConcatFacts
    <2>2. 1 \in 1..Len(a) /\ 1 \in 1..Len(b) /\ 2 \in 1..Len(b)
      BY <1>3, <1>4
    <2> QED BY <1>3, <1>4, <2>1, <2>2 DEF Strings
  <1>7. c = <<"/", ".", ".">>
    BY <1>6
  <1>8. <<>> \o b = b
    BY <1>4 DEF Strings
  <1> QED BY <1>1, <1>2, <1>5, <1>7, <1>8

LEMMA ParentStep ==
  ASSUME Normed(path, read, out, dotdot), Parent
  PROVE  Normed(path, read + 2, out', dotdot')
  <1>1. /\ path \in Strings /\ Len(path) \in Nat /\ read \in Nat
        /\ out.w \in Nat /\ out.w <= read /\ Sound(path, out)
        /\ IsRooted(path) \in BOOLEAN /\ Base(IsRooted(path)) \in {0, 1}
        /\ dotdot \in Base(IsRooted(path))..out.w
    BY NormedType
  <1>2. PICK v : v = Text(path, out)
    OBVIOUS
  <1>3. /\ v \in Strings /\ Len(v) = out.w /\ Shape(IsRooted(path), v, dotdot)
        /\ ElementsOf(v) \in Seq(Names) /\ From(IsRooted(path)) \in Places
    BY <1>1, <1>2, NormedType, ElementsType, FromType
  <1>4. /\ read + 2 <= Len(path) /\ Stops(path, read + 3) /\ At(path, v) \in Places
        /\ out.w < read \/ out.w = Base(IsRooted(path))
        /\ At(path, Prefix(path, read + 2)) = Step(At(path, v), <<".", ".">>)
    BY <1>2, ReadUp
  <1>5. /\ read + 2 \in 0..Len(path) /\ read + 2 \in Nat /\ (read + 2) + 1 = read + 3
        /\ <<".", ".">> \in Names /\ <<".", ".">> \in Strings /\ Len(<<".", ".">>) = 2
    BY <1>1, <1>4 DEF Names, Strings, Symbols
  <1>6. CASE out.w > dotdot
    <2>1. PICK k : k = Backtrack(out)
      OBVIOUS
    <2>2. out' = [out EXCEPT !.w = k] /\ dotdot' = dotdot
      BY <1>6, <2>1 DEF Parent
    <2>3. /\ k \in dotdot..(Len(v) - 1)
          /\ k = dotdot \/ v[k + 1] = "/"
          /\ \A m \in (k + 1)..(Len(v) - 1) : v[m + 1] # "/"
      BY <1>2, <1>6, <2>1, BacktrackFacts
    <2>4. /\ Shape(IsRooted(path), Prefix(v, k), dotdot)
          /\ \E e \in Names : Plain(e) /\ ElementsOf(v) = Append(ElementsOf(Prefix(v, k)), e)
      BY <1>1, <1>3, <2>3, ShapeBack
    <2>5. k \in 0..out.w /\ k \in Nat /\ k <= out.w
      BY <1>1, <1>3, <2>3
    <2>6. Sound(path, out') /\ out'.w = k /\ Text(path, out') = Prefix(v, k)
      BY <1>1, <1>2, <2>2, <2>5, CutText
    <2>7. PICK e \in Names : Plain(e) /\ ElementsOf(v) = Append(ElementsOf(Prefix(v, k)), e)
      BY <2>4
    <2>8. At(path, Prefix(v, k)) = Step(At(path, v), <<".", ".">>)
      <3>1. k \in 0..Len(v)
        BY <1>3, <2>5
      <3>2. ElementsOf(Prefix(v, k)) \in Seq(Names)
        BY <1>3, <3>1, PrefixFacts, ElementsType
      <3>3. /\ At(path, Prefix(v, k)) \in Places
            /\ At(path, v) = Step(At(path, Prefix(v, k)), e)
        BY <1>3, <2>7, <3>2, WalkOn DEF At
      <3> QED BY <2>7, <3>3, DownAndUp
    <2>9. out'.w <= read + 2
      BY <1>1, <2>5, <2>6
    <2> QED BY <1>1, <1>4, <1>5, <2>2, <2>4, <2>6, <2>8, <2>9 DEF Normed
  <1>7. CASE ~(out.w > dotdot) /\ IsRooted(path)
    <2>1. out' = out /\ dotdot' = dotdot
      BY <1>7 DEF Parent, Rooted, IsRooted
    <2>2. v = <<"/">>
      <3>1. dotdot = 1 /\ v[1] = "/"
        BY <1>3, <1>7 DEF Shape, Slashes
      <3>2. Len(v) = 1
        BY <1>1, <1>3, <1>7, <3>1
      <3> QED BY <1>3, <3>1, <3>2 DEF Strings
    <2>3. At(path, v) = From(IsRooted(path))
      BY <1>3, <2>2, NoElements, WalkNowhere DEF At
    <2>4. Step(From(IsRooted(path)), <<".", ".">>) = From(IsRooted(path))
      <3>1. <<".", ".">> # <<".">>
        OBVIOUS
      <3>2. From(IsRooted(path)).down = <<>> /\ From(IsRooted(path)).rooted
        BY <1>7 DEF From
      <3> QED BY <3>1, <3>2 DEF Step
    <2>5. At(path, v) = At(path, Prefix(path, read + 2))
      BY <1>4, <2>3, <2>4
    <2>6. out'.w <= read + 2
      BY <1>1, <2>1
    <2> QED BY <1>1, <1>2, <1>3, <1>4, <1>5, <2>1, <2>5, <2>6 DEF Normed
  <1>8. CASE ~(out.w > dotdot) /\ ~IsRooted(path)
    <2>0. IsRooted(path) = FALSE
      BY <1>8 DEF IsRooted
    <2>1. PICK t : t = Slash(FALSE, v) \o <<".", ".">>
      OBVIOUS
    <2>2. out' = AppendAll(out, t) /\ dotdot' = out'.w
      <3>1. t = IF out.w > 0 THEN <<"/", ".", ".">> ELSE <<".", ".">>
        <4>1. Len(v) # Base(FALSE) <=> out.w > 0
          BY <1>1, <1>3 DEF Base
        <4> QED BY <2>1, <4>1, SlashDots DEF Slash
      <3> QED BY <1>8, <3>1 DEF Parent, Rooted, IsRooted
    <2>3. t \in Strings /\ Len(t) = (IF out.w > 0 THEN 3 ELSE 2)
      <3>1. Len(v) # Base(FALSE) <=> out.w > 0
        BY <1>1, <1>3 DEF Base
      <3>2. CASE out.w > 0
        <4>1. t = <<"/", ".", ".">>
          BY <2>1, <3>1, <3>2, SlashDots DEF Slash
        <4> QED BY <3>2, <4>1 DEF Strings, Symbols
      <3>3. CASE ~(out.w > 0)
        <4>1. t = <<".", ".">>
          BY <2>1, <3>1, <3>3, SlashDots DEF Slash
        <4> QED BY <3>3, <4>1 DEF Strings, Symbols
      <3> QED BY <3>2, <3>3
    <2>4. Added(path, out, t, out')
      BY <1>1, <2>2, <2>3, AddedText
    <2>5. PICK u : u = Text(path, out')
      OBVIOUS
    <2>6. u = v \o t /\ Sound(path, out') /\ out'.w = out.w + Len(t)
      BY <1>2, <2>4, <2>5 DEF Added
    <2>7. Wrote(FALSE, v, <<".", ".">>, u)
      <3>1. PICK e : e = <<".", ".">>
        OBVIOUS
      <3>2. e \in Names /\ \A i \in 1..Len(e) : e[i] # "/"
        BY <1>5, <3>1
      <3>3. Shape(FALSE, v, dotdot) /\ FALSE \in BOOLEAN /\ u = v \o (Slash(FALSE, v) \o e)
        BY <1>3, <2>0, <2>1, <2>6, <3>1, Zenon
      <3>4. Wrote(FALSE, v, e, u)
        BY <1>3, <3>2, <3>3, WriteElement, Zenon
      <3> QED BY <3>1, <3>4
    <2>8. dotdot = Len(v) /\ Shape(FALSE, v, dotdot)
      <3>1. dotdot = Len(v)
        BY <1>1, <1>3, <1>8
      <3>2. Shape(FALSE, v, dotdot)
        BY <1>3, <2>0, Zenon
      <3> QED BY <3>1, <3>2
    <2>9. u \in Strings /\ Len(u) = out'.w
      BY <1>1, <2>5, <2>6, TextType
    <2>10. Shape(FALSE, u, Len(u))
      BY <1>3, <2>7, <2>8, ShapeUp
    <2>11. Shape(IsRooted(path), u, dotdot')
      BY <2>0, <2>2, <2>9, <2>10, Zenon
    <2>12. At(path, u) = Step(At(path, v), <<".", ".">>)
      <3>1. ElementsOf(u) = Append(ElementsOf(v), <<".", ".">>)
        BY <2>7 DEF Wrote
      <3> QED BY <1>3, <1>5, <3>1, WalkOn DEF At
    <2>13. out'.w <= read + 2
      <3>1. Base(IsRooted(path)) = 0
        BY <1>8 DEF Base
      <3> QED BY <1>1, <1>4, <2>3, <2>6, <3>1
    <2> QED BY <1>1, <1>4, <1>5, <2>5, <2>6, <2>11, <2>12, <2>13 DEF Normed
  <1> QED BY <1>6, <1>7, <1>8

----------------------------------------------------------------------------
(* The invariant of normpath(). *)

Modes == {"normpath", "first", "recursive", "stopped", "panic"}

Normalizing ==
    /\ path \in PathStrings /\ search \in Modes
    /\ Normed(path, read, out, dotdot)
    /\ search # "normpath" =>
          read = Len(path) /\ norm = IF out.w = 0 THEN <<".">> ELSE Text(path, out)

LEMMA PathIsString == PathStrings \subseteq Strings
  <1>1. \A n \in 0..MaxLen : n \in Nat
    BY PathAssumption
  <1> QED BY <1>1, SeqDef DEF PathStrings, Strings

LEMMA NormalizingInit == Init => Normalizing
  <1>1. SUFFICES ASSUME Init PROVE Normalizing
    OBVIOUS
  <1>2. path \in PathStrings /\ path \in Strings /\ Len(path) \in Nat
    BY <1>1, PathIsString, ElementsType DEF Init
  <1>3. PICK r \in {0, 1} : r = Base(IsRooted(path))
    BY DEF Base
  <1>4. read = r /\ dotdot = r /\ out = [buf |-> NoBuf, w |-> r] /\ search = "normpath"
    BY <1>1, <1>3 DEF Init, Rooted, IsRooted, Base
  <1>5. r <= Len(path) /\ r \in 0..Len(path) /\ r \in Nat
    BY <1>2, <1>3 DEF IsRooted, Base, Strings
  <1>6. Sound(path, out) /\ out.w = r /\ out.buf = NoBuf
    BY <1>4, <1>5 DEF Sound
  <1>7. Text(path, out) = Prefix(path, r)
    BY <1>6 DEF Text, Prefix
  <1>8. Shape(IsRooted(path), Prefix(path, r), r) /\ (r = 0 \/ path[r] = "/")
    <2>1. CASE IsRooted(path)
      <3>1. r = 1 /\ path[1] = "/" /\ IsRooted(path) = TRUE
        BY <1>3, <2>1 DEF Base, IsRooted
      <3>2. PICK u : u = Prefix(path, r)
        OBVIOUS
      <3>3. u \in Strings /\ Len(u) = 1 /\ u[1] = "/"
        <4>1. 1 \in 0..Len(path) /\ 1 \in 1..1 /\ u = Prefix(path, 1)
          BY <1>5, <3>1, <3>2
        <4>2. u \in Strings /\ Len(u) = 1 /\ \A i \in 1..1 : u[i] = path[i]
          BY <1>2, <4>1, PrefixFacts
        <4> QED BY <3>1, <4>1, <4>2
      <3>4. u = <<"/">>
        BY <3>3 DEF Strings
      <3>5. Shape(TRUE, u, 1)
        BY <3>4, ShapeNothing
      <3> QED BY <3>1, <3>2, <3>5, Zenon
    <2>2. CASE ~IsRooted(path)
      <3>1. r = 0 /\ IsRooted(path) = FALSE
        BY <1>3, <2>2 DEF Base, IsRooted
      <3>2. Prefix(path, r) = <<>>
        BY <1>2, <3>1 DEF Prefix, Strings
      <3> QED BY <3>1, <3>2, ShapeNothing
    <2> QED BY <2>1, <2>2
  <1>9. Normed(path, read, out, dotdot)
    BY <1>2, <1>3, <1>4, <1>5, <1>6, <1>7, <1>8 DEF Normed
  <1> QED BY <1>2, <1>4, <1>9 DEF Normalizing, Modes

LEMMA NormalizingNext == Normalizing /\ [Next]_vars => Normalizing'
  <1>1. SUFFICES ASSUME Normalizing, [Next]_vars PROVE Normalizing'
    OBVIOUS
  <1>2. /\ path \in PathStrings /\ path \in Strings /\ search \in Modes
        /\ Normed(path, read, out, dotdot)
    BY <1>1, PathIsString DEF Normalizing
  <1>3. CASE Skip
    <2>1. /\ path' = path /\ read' = read + 1 /\ out' = out /\ dotdot' = dotdot
          /\ search' = "normpath"
      BY <1>3 DEF Skip, Reading, searching
    <2>2. Normed(path, read + 1, out, dotdot)
      BY <1>2, <1>3, SkipStep
    <2>3. Normed(path', read', out', dotdot')
      BY <2>1, <2>2
    <2> QED BY <1>2, <2>1, <2>3 DEF Normalizing, Modes
  <1>4. CASE Parent
    <2>1. path' = path /\ read' = read + 2 /\ search' = "normpath"
      BY <1>4 DEF Parent, Reading, searching
    <2>2. Normed(path, read + 2, out', dotdot')
      BY <1>2, <1>4, ParentStep
    <2>3. Normed(path', read', out', dotdot')
      BY <2>1, <2>2
    <2> QED BY <1>2, <2>1, <2>3 DEF Normalizing, Modes
  <1>5. CASE Element
    <2>1. path' = path /\ dotdot' = dotdot /\ search' = "normpath"
      BY <1>5 DEF Element, Reading, searching
    <2>2. Normed(path, read', out', dotdot)
      BY <1>2, <1>5, ElementStep
    <2>3. Normed(path', read', out', dotdot')
      BY <2>1, <2>2
    <2> QED BY <1>2, <2>1, <2>3 DEF Normalizing, Modes
  <1>6. CASE Done
    <2>1. /\ path' = path /\ read' = read /\ out' = out /\ dotdot' = dotdot
          /\ search' \in {"first", "stopped"} /\ read = Len(path)
          /\ norm' = IF out.w = 0 THEN <<".">> ELSE Text(path, out)
      BY <1>6 DEF Done, View, Text
    <2> QED BY <1>2, <2>1 DEF Normalizing, Modes
  <1>7. CASE Panic \/ First \/ Recursive
    <2>1. /\ path' = path /\ read' = read /\ out' = out /\ dotdot' = dotdot /\ norm' = norm
          /\ search # "normpath" /\ search' \in Modes
      BY <1>7 DEF Panic, NoName, First, Recursive, Modes
    <2> QED BY <1>1, <1>2, <2>1 DEF Normalizing
  <1>8. CASE UNCHANGED vars
    BY <1>1, <1>8 DEF vars, Normalizing
  <1> QED BY <1>1, <1>3, <1>4, <1>5, <1>6, <1>7, <1>8 DEF Next

LEMMA NormalizingAlways == Spec => []Normalizing
  BY NormalizingInit, NormalizingNext, PTL DEF Spec

NormTypeOK ==
    /\ path \in PathStrings /\ read \in 0..Len(path)
    /\ out \in [buf : Seq(Symbols) \cup {NoBuf}, w : 0..read] /\ dotdot \in 0..out.w
    /\ out.buf # NoBuf => out.w <= Len(out.buf)
    /\ search \in Modes

LEMMA NormalizingMeans == Normalizing => NormTypeOK /\ NormInv
  <1>1. SUFFICES ASSUME Normalizing PROVE NormTypeOK /\ NormInv
    OBVIOUS
  <1>2. /\ path \in PathStrings /\ search \in Modes
        /\ Normed(path, read, out, dotdot)
        /\ search # "normpath" =>
              read = Len(path) /\ norm = IF out.w = 0 THEN <<".">> ELSE Text(path, out)
    BY <1>1 DEF Normalizing
  <1>3. /\ read \in 0..Len(path) /\ out.w \in 0..read /\ dotdot \in 0..out.w
        /\ out \in [buf : Seq(Symbols) \cup {NoBuf}, w : Nat]
        /\ out.buf # NoBuf => out.w <= Len(out.buf)
    <2>1. /\ Len(path) \in Nat /\ read \in Nat /\ read <= Len(path) /\ out.w \in Nat /\ out.w <= read
          /\ Base(IsRooted(path)) \in {0, 1} /\ dotdot \in Base(IsRooted(path))..out.w
          /\ Sound(path, out)
      BY <1>2, NormedType
    <2>2. /\ read \in 0..Len(path) /\ out.w \in 0..read /\ dotdot \in 0..out.w
      BY <2>1
    <2> QED BY <2>1, <2>2 DEF Sound, Strings
  <1>4. out \in [buf : Seq(Symbols) \cup {NoBuf}, w : 0..read]
    BY <1>3
  <1>5. NormTypeOK
    BY <1>2, <1>3, <1>4 DEF NormTypeOK
  <1>6. View(out) = Text(path, out) /\ Rooted = IsRooted(path)
    BY DEF View, Text, Rooted, IsRooted
  <1>7. Behind /\ SamePlace
    BY <1>2, <1>6 DEF Behind, SamePlace, Normed, Stops, Ends, At
  <1>8. Shape(Rooted, View(out), dotdot)
    BY <1>2, <1>6 DEF Normed
  <1> QED BY <1>2, <1>5, <1>6, <1>7, <1>8 DEF NormInv

\* The output of normpath() has its shape, and leads where the input has led
\* so far, also in the middle of a path.
THEOREM NormInvAlways == Spec => []NormInv
  BY NormalizingAlways, NormalizingMeans, PTL

LEMMA ADotIsNormal ==
  /\ Normal(<<".">>)
  /\ ElementsOf(<<".">>) = <<<<".">>>>
  <1>1. PICK e : e = <<".">>
    OBVIOUS
  <1>2. e \in Names /\ Len(e) = 1 /\ e[1] = "." /\ e \in Strings
    BY <1>1 DEF Names, Symbols, Strings
  <1>3. PICK s : s = <<>>
    OBVIOUS
  <1>4. /\ s \in Strings /\ Len(s) = 0 /\ ElementsOf(s) = <<>> /\ Split(s)[Len(s)].part = <<>>
        /\ e = s \o e
    <2>1. s \in Strings /\ Len(s) = 0 /\ ElementsOf(s) = <<>> /\ Split(s)[0].part = <<>>
      BY <1>3, NoElements
    <2>2. s \o e = e
      BY <1>2, <1>3 DEF Strings
    <2> QED BY <2>1, <2>2
  <1>5. OneMore(s, e, e)
    <2>1. \A i \in 1..Len(e) : e[i] # "/"
      BY <1>2
    <2> QED BY <1>2, <1>4, <2>1, AddElement, Zenon
  <1>6. ElementsOf(e) = <<e>>
    <2>1. Append(<<>>, e) = <<e>>
      OBVIOUS
    <2> QED BY <1>4, <1>5, <2>1 DEF OneMore
  <1>7. Normal(e)
    <2> DEFINE es == ElementsOf(e)
    <2>1. DOMAIN es = {1} /\ es[1] = e
      BY <1>6
    <2> HIDE DEF es
    <2>2. \A i \in DOMAIN es : es[i] # <<".", ".">>
      BY <1>2, <2>1, DotNames
    <2>3. \A i \in 2..Len(e) : FALSE
      BY <1>2
    <2> QED BY <1>1, <2>2, <2>3 DEF Normal, es
  <1> QED BY <1>1, <1>6, <1>7

LEMMA ShapeIsNormal ==
  ASSUME NEW p \in Strings, NEW v \in Strings, NEW d, Shape(IsRooted(p), v, d), v # <<>>
  PROVE  Normal(v) /\ (IsRooted(v) <=> IsRooted(p)) /\ Place(v) = At(p, v)
  <1>1. PICK rooted \in BOOLEAN : rooted = IsRooted(p)
    BY DEF IsRooted
  <1>2. Slashes(rooted, v, d) /\ NoDots(rooted, ElementsOf(v)) /\ Len(v) \in Nat
    BY <1>1, ElementsType DEF Shape
  <1>3. (rooted => v[1] = "/") /\ (~rooted => v[1] # "/")
    <2>1. 1 \in 1..Len(v)
      BY <1>2 DEF Strings
    <2>2. ASSUME ~rooted PROVE v[1] # "/"
      <3>1. Base(rooted) = 0
        BY <2>2 DEF Base
      <3> QED BY <1>2, <2>1, <3>1 DEF Slashes
    <2> QED BY <1>2, <2>2 DEF Slashes
  <1>4. ASSUME NEW i \in 2..Len(v), v[i] = "/" PROVE v[i - 1] # "/" /\ i < Len(v)
    <2>1. i \in (Base(rooted) + 1)..Len(v)
      BY FromType, <1>2
    <2> QED BY <1>2, <1>4, <2>1 DEF Slashes
  <1>5. Normal(v)
    BY <1>2, <1>3, <1>4 DEF Normal, NoDots
  <1>6. IsRooted(v) <=> rooted
    BY <1>3 DEF IsRooted
  <1>7. From(v # <<>> /\ v[1] = "/") = From(IsRooted(p))
    BY <1>1, <1>3 DEF From
  <1> QED BY <1>1, <1>5, <1>6, <1>7 DEF Place, At

\* normpath(): the result is normal, and leads where the path led.
THEOREM NormPathAlwaysOK == Spec => []NormPathOK
  <1>1. ASSUME Normalizing PROVE NormPathOK
    <2>1. SUFFICES ASSUME search # "normpath" PROVE Normal(norm) /\ Place(norm) = Place(path)
      BY DEF NormPathOK
    <2>2. /\ path \in Strings /\ Normed(path, read, out, dotdot)
          /\ read = Len(path) /\ norm = IF out.w = 0 THEN <<".">> ELSE Text(path, out)
      BY <1>1, <2>1, PathIsString DEF Normalizing
    <2>3. PICK v : v = Text(path, out)
      OBVIOUS
    <2>4. /\ v \in Strings /\ Len(v) = out.w /\ Shape(IsRooted(path), v, dotdot)
          /\ At(path, v) = At(path, Prefix(path, read))
      BY <2>2, <2>3, NormedType
    <2>5. Prefix(path, read) = path
      BY <2>2, PrefixFull
    <2>6. At(path, v) = Place(path)
      BY <2>4, <2>5 DEF At, Place, IsRooted
    <2>7. CASE out.w = 0
      <3>1. v = <<>> /\ norm = <<".">>
        BY <2>2, <2>4, <2>7 DEF Strings
      <3>2. IsRooted(path) = FALSE
        <4>1. ~IsRooted(path)
          BY <2>2, <2>7, NormedType DEF Base
        <4> QED BY <4>1 DEF IsRooted
      <3>3. Place(path) = From(FALSE)
        BY <2>6, <3>1, <3>2, NoElements, WalkNowhere, FromType DEF At
      <3>4. Place(norm) = Walk(From(FALSE), Append(<<>>, <<".">>))
        <4>1. (<<".">> # <<>> /\ <<".">>[1] = "/") = FALSE
          OBVIOUS
        <4>2. Append(<<>>, <<".">>) = <<<<".">>>>
          OBVIOUS
        <4> QED BY <3>1, <4>1, <4>2, ADotIsNormal DEF Place
      <3>5. Walk(From(FALSE), Append(<<>>, <<".">>)) = From(FALSE)
        <4>1. PICK e : e = <<".">>
          OBVIOUS
        <4>2. e \in Names
          BY <4>1 DEF Names, Symbols
        <4>3. PICK es : es = <<>>
          OBVIOUS
        <4>4. es \in Seq(Names) /\ From(FALSE) \in Places /\ Walk(From(FALSE), es) = From(FALSE)
          <5>1. From(FALSE) \in Places
            BY DEF From, Places
          <5>2. Walk(From(FALSE), <<>>) = From(FALSE)
            BY <5>1, WalkNowhere
          <5>3. es \in Seq(Names)
            BY <4>3
          <5> QED BY <4>3, <5>1, <5>2, <5>3, Zenon
        <4>5. Walk(From(FALSE), Append(es, e)) = Step(From(FALSE), e)
          BY <4>2, <4>4, WalkOn
        <4> QED BY <4>1, <4>3, <4>5 DEF Step
      <3> QED BY <3>1, <3>3, <3>4, <3>5, ADotIsNormal
    <2>8. CASE out.w # 0
      <3>1. norm = v /\ v # <<>>
        BY <2>2, <2>3, <2>4, <2>8
      <3> QED BY <2>2, <2>4, <2>6, <3>1, ShapeIsNormal
    <2> QED BY <2>7, <2>8
  <1> QED BY <1>1, NormalizingAlways, PTL

----------------------------------------------------------------------------
(* The rules that could build a target. *)

\* Where the dots of the first m symbols are.
DotsUpTo(name, x, m) ==
    /\ x \in Seq(Nat) /\ \A i \in 1..Len(x) : x[i] \in 1..m
    /\ \A i \in 1..Len(x), j \in 1..Len(x) : i < j => x[i] < x[j]
    /\ IsFiniteSet({i \in 1..m : name[i] = "."})
    /\ Len(x) = Cardinality({i \in 1..m : name[i] = "."})

LEMMA NoDotsYet ==
  ASSUME NEW name
  PROVE  DotsUpTo(name, <<>>, 0)
  <1>1. {i \in 1..0 : name[i] = "."} = {}
    OBVIOUS
  <1>2. PICK x : x = <<>>
    OBVIOUS
  <1>3. x \in Seq(Nat) /\ Len(x) = 0
    BY <1>2
  <1>4. DotsUpTo(name, x, 0)
    BY <1>1, <1>3, FS_EmptySet DEF DotsUpTo
  <1> QED BY <1>2, <1>4

LEMMA AppendFacts ==
  ASSUME NEW S, NEW x \in Seq(S), NEW e \in S
  PROVE  /\ Append(x, e) \in Seq(S) /\ Len(Append(x, e)) = Len(x) + 1 /\ Len(x) \in Nat
         /\ Append(x, e)[Len(x) + 1] = e
         /\ \A i \in 1..Len(x) : Append(x, e)[i] = x[i]
  OBVIOUS

LEMMA OneMoreDot ==
  ASSUME NEW name, NEW m \in Nat, NEW x, DotsUpTo(name, x, m)
  PROVE  /\ name[m + 1] = "." => DotsUpTo(name, Append(x, m + 1), m + 1)
         /\ name[m + 1] # "." => DotsUpTo(name, x, m + 1)
  <1> DEFINE S == {i \in 1..m : name[i] = "."}
             T == {i \in 1..(m + 1) : name[i] = "."}
  <1>1. /\ x \in Seq(Nat) /\ Len(x) \in Nat
        /\ \A i \in 1..Len(x) : x[i] \in 1..m
        /\ \A i \in 1..Len(x), j \in 1..Len(x) : i < j => x[i] < x[j]
        /\ IsFiniteSet(S) /\ Len(x) = Cardinality(S)
    <2>1. /\ x \in Seq(Nat)
          /\ \A i \in 1..Len(x) : x[i] \in 1..m
          /\ \A i \in 1..Len(x), j \in 1..Len(x) : i < j => x[i] < x[j]
          /\ IsFiniteSet(S) /\ Len(x) = Cardinality(S)
      BY Zenon DEF DotsUpTo
    <2>2. Len(x) \in Nat
      BY <2>1
    <2> QED BY <2>1, <2>2
  <1>2. ASSUME name[m + 1] = "." PROVE DotsUpTo(name, Append(x, m + 1), m + 1)
    <2>1. PICK y : y = Append(x, m + 1)
      OBVIOUS
    <2>2. /\ y \in Seq(Nat) /\ Len(y) = Len(x) + 1 /\ y[Len(x) + 1] = m + 1
          /\ \A i \in 1..Len(x) : y[i] = x[i]
      <3>1. x \in Seq(Nat) /\ m + 1 \in Nat
        BY <1>1
      <3> QED BY <2>1, <3>1, AppendFacts
    <2>3. \A i \in 1..Len(y) : i = Len(x) + 1 \/ i \in 1..Len(x)
      <3>1. Len(x) \in Nat /\ Len(y) = Len(x) + 1
        BY <1>1, <2>2
      <3> QED BY <3>1
    <2>4. ASSUME NEW i \in 1..Len(y) PROVE y[i] \in 1..(m + 1)
      <3>1. CASE i = Len(x) + 1
        <4>1. y[i] = m + 1
          BY <2>2, <3>1
        <4> QED BY <4>1
      <3>2. CASE i \in 1..Len(x)
        <4>1. y[i] = x[i] /\ x[i] \in 1..m
          BY <1>1, <2>2, <3>2
        <4> QED BY <4>1
      <3> QED BY <2>3, <3>1, <3>2
    <2>5. ASSUME NEW i \in 1..Len(y), NEW j \in 1..Len(y), i < j PROVE y[i] < y[j]
      <3>1. i \in 1..Len(x)
        BY <1>1, <2>2, <2>5
      <3>2. CASE j = Len(x) + 1
        <4>1. y[i] = x[i] /\ x[i] \in 1..m /\ y[j] = m + 1
          BY <1>1, <2>2, <3>1, <3>2
        <4> QED BY <4>1
      <3>3. CASE j # Len(x) + 1
        <4>1. j \in 1..Len(x)
          BY <2>3, <3>3
        <4>2. x[i] < x[j]
          BY <1>1, <2>5, <3>1, <4>1
        <4> QED BY <2>2, <3>1, <4>1, <4>2
      <3> QED BY <3>2, <3>3
    <2>6. T = S \cup {m + 1} /\ m + 1 \notin S
      BY <1>2
    <2> HIDE DEF S, T
    <2>7. IsFiniteSet(T) /\ Cardinality(T) = Cardinality(S) + 1
      BY <1>1, <2>6, FS_AddElement
    <2>8. Len(y) = Cardinality(T)
      BY <1>1, <2>2, <2>7
    <2> QED BY <2>1, <2>2, <2>4, <2>5, <2>7, <2>8 DEF DotsUpTo, T
  <1>3. ASSUME name[m + 1] # "." PROVE DotsUpTo(name, x, m + 1)
    <2>1. S = T
      BY <1>3
    <2>2. \A i \in 1..Len(x) : x[i] \in 1..(m + 1)
      BY <1>1
    <2> HIDE DEF S
    <2> QED BY <1>1, <2>1, <2>2 DEF DotsUpTo
  <1> QED BY <1>2, <1>3

LEMMA DotsFacts ==
  ASSUME NEW name \in Strings
  PROVE  DotsUpTo(name, Dots(name), Len(name))
  <1> DEFINE n == Len(name)
             Next1(x, i) == IF name[i] = "." THEN Append(x, i) ELSE x
             Def(f) == [i \in 0..Len(name) |->
                          IF i = 0 THEN <<>>
                          ELSE IF name[i] = "." THEN Append(f[i - 1], i) ELSE f[i - 1]]
             step == [i \in 1..n |-> [x \in Seq(Nat) |-> Next1(x, i)]]
             chosen == CHOOSE f : f = Def(f)
  <1>1. n \in Nat /\ <<>> \in Seq(Nat)
    BY ElementsType
  <1>2. step \in [1..n -> [Seq(Nat) -> Seq(Nat)]]
    <2>1. \A i \in 1..n, x \in Seq(Nat) : Next1(x, i) \in Seq(Nat)
      BY <1>1
    <2> QED BY <2>1
  <1>3. \A i \in 1..n : \A x \in Seq(Nat) : step[i][x] = Next1(x, i)
    OBVIOUS
  <1>4. PICK w \in [0..n -> Seq(Nat)] : w[0] = <<>> /\ \A i \in 1..n : w[i] = step[i][w[i - 1]]
    <2>1. PICK start : start = <<>>
      OBVIOUS
    <2>2. PICK A : A = Seq(Nat)
      OBVIOUS
    <2>3. n \in Nat /\ start \in A /\ step \in [1..n -> [A -> A]]
      BY <1>1, <1>2, <2>1, <2>2
    <2> HIDE DEF n, step, chosen
    <2>4. \E w : Iterates(A, start, n, step, w)
      BY <2>3, Iteration, Zenon
    <2>5. \E w \in [0..n -> A] : w[0] = start /\ \A i \in 1..n : w[i] = step[i][w[i - 1]]
      BY <2>4 DEF Iterates
    <2> QED BY <2>1, <2>2, <2>5
  <1> HIDE DEF step
  <1>5. \A i \in 1..n : w[i] = Next1(w[i - 1], i)
    <2>1. SUFFICES ASSUME NEW i \in 1..n PROVE w[i] = Next1(w[i - 1], i)
      OBVIOUS
    <2>2. i - 1 \in 0..n
      BY <1>1
    <2> QED BY <1>3, <1>4, <2>2
  <1>6. w = Def(w)
    <2>1. SUFFICES ASSUME NEW i \in 0..n PROVE w[i] = Def(w)[i]
      BY <1>4
    <2>2. CASE i = 0
      BY <1>4, <2>2
    <2>3. CASE i # 0
      <3>1. i \in 1..n
        BY <1>1, <2>3
      <3>2. Def(w)[i] = Next1(w[i - 1], i)
        BY <2>3
      <3> QED BY <1>5, <3>1, <3>2
    <2> QED BY <2>2, <2>3
  <1>7. chosen = Def(chosen)
    <2> HIDE DEF Def
    <2> QED BY <1>6
  <1>8. Dots(name) = chosen[n]
    BY DEF Dots
  <1> HIDE DEF chosen
  <1>9. chosen[0] = <<>> /\ \A i \in 1..n : chosen[i] = Next1(chosen[i - 1], i)
    <2>1. chosen[0] = <<>>
      BY <1>1, <1>7
    <2>2. ASSUME NEW i \in 1..n PROVE chosen[i] = Next1(chosen[i - 1], i)
      <3>1. i \in 0..n /\ i # 0
        BY <1>1
      <3>2. chosen[i] = Def(chosen)[i]
        BY <1>7
      <3>3. Def(chosen)[i] = Next1(chosen[i - 1], i)
        BY <3>1
      <3> QED BY <3>2, <3>3
    <2> QED BY <2>1, <2>2
  <1> DEFINE U == {m \in Nat : m <= n => DotsUpTo(name, chosen[m], m)}
  <1>10. 0 \in U
    BY <1>9, NoDotsYet
  <1>11. ASSUME NEW m \in Nat, m \in U PROVE m + 1 \in U
    <2>1. SUFFICES ASSUME m + 1 <= n PROVE DotsUpTo(name, chosen[m + 1], m + 1)
      OBVIOUS
    <2>2. m + 1 \in 1..n /\ m <= n /\ (m + 1) - 1 = m
      BY <1>1, <2>1
    <2>3. DotsUpTo(name, chosen[m], m)
      BY <1>11, <2>2
    <2>4. chosen[m + 1] = Next1(chosen[m], m + 1)
      BY <1>9, <2>2
    <2> QED BY <2>3, <2>4, OneMoreDot
  <1>12. Nat \subseteq U
    <2> HIDE DEF U
    <2> QED BY <1>10, <1>11, SetInduction
  <1> QED BY <1>1, <1>8, <1>12

\* The rules of one directory: the positions of the dots, and the end.
RulesOf(name, rules) ==
    /\ rules \in Seq(Nat) /\ Len(rules) \in Nat /\ Len(rules) > 0
    /\ \A i \in 1..Len(rules) : rules[i] \in 1..(Len(name) + 1)
    /\ \A i \in 1..Len(rules), j \in 1..Len(rules) : i < j => rules[i] < rules[j]
    /\ Len(rules) = Cardinality({i \in DOMAIN name : name[i] = "."}) + 1

LEMMA RulesFacts ==
  ASSUME NEW name \in Strings, NEW rules, rules = DefaultDoFiles(name)
  PROVE  RulesOf(name, rules)
  <1>1. PICK x : x = Dots(name)
    OBVIOUS
  <1>2. PICK n \in Nat : n = Len(name)
    BY ElementsType
  <1>3. /\ x \in Seq(Nat) /\ Len(x) \in Nat
        /\ \A i \in 1..Len(x) : x[i] \in 1..n
        /\ \A i \in 1..Len(x), j \in 1..Len(x) : i < j => x[i] < x[j]
        /\ Len(x) = Cardinality({i \in 1..n : name[i] = "."})
    <2>1. DotsUpTo(name, x, n)
      BY <1>1, <1>2, DotsFacts
    <2>2. /\ x \in Seq(Nat)
          /\ \A i \in 1..Len(x) : x[i] \in 1..n
          /\ \A i \in 1..Len(x), j \in 1..Len(x) : i < j => x[i] < x[j]
          /\ Len(x) = Cardinality({i \in 1..n : name[i] = "."})
      BY <2>1, Zenon DEF DotsUpTo
    <2>3. Len(x) \in Nat
      BY <2>2
    <2> QED BY <2>2, <2>3
  <1>4. rules = Append(x, n + 1)
    BY <1>1, <1>2 DEF DefaultDoFiles
  <1>5. /\ rules \in Seq(Nat) /\ Len(rules) = Len(x) + 1 /\ rules[Len(x) + 1] = n + 1
        /\ \A i \in 1..Len(x) : rules[i] = x[i]
    <2>1. x \in Seq(Nat) /\ n + 1 \in Nat
      BY <1>3
    <2> QED BY <1>4, <2>1, AppendFacts
  <1>6. \A i \in 1..Len(rules) : i = Len(x) + 1 \/ i \in 1..Len(x)
    BY <1>3, <1>5
  <1>7. ASSUME NEW i \in 1..Len(rules) PROVE rules[i] \in 1..(n + 1)
    <2>1. CASE i = Len(x) + 1
      <3>1. rules[i] = n + 1
        BY <1>5, <2>1
      <3> QED BY <1>2, <3>1
    <2>2. CASE i \in 1..Len(x)
      <3>1. rules[i] = x[i] /\ x[i] \in 1..n
        BY <1>3, <1>5, <2>2
      <3> QED BY <1>2, <3>1
    <2> QED BY <1>6, <2>1, <2>2
  <1>8. ASSUME NEW i \in 1..Len(rules), NEW j \in 1..Len(rules), i < j PROVE rules[i] < rules[j]
    <2>1. i \in 1..Len(x)
      BY <1>3, <1>5, <1>8
    <2>2. CASE j = Len(x) + 1
      <3>1. rules[i] = x[i] /\ x[i] \in 1..n /\ rules[j] = n + 1
        BY <1>3, <1>5, <2>1, <2>2
      <3> QED BY <3>1
    <2>3. CASE j # Len(x) + 1
      <3>1. j \in 1..Len(x)
        BY <1>6, <2>3
      <3>2. x[i] < x[j]
        BY <1>3, <1>8, <2>1, <3>1
      <3> QED BY <1>5, <2>1, <3>1, <3>2
    <2> QED BY <2>2, <2>3
  <1>9. DOMAIN name = 1..n
    BY <1>2 DEF Strings
  <1>10. Len(rules) = Cardinality({i \in DOMAIN name : name[i] = "."}) + 1
    BY <1>3, <1>5, <1>9
  <1>11. Len(rules) \in Nat /\ Len(rules) > 0
    BY <1>3, <1>5
  <1> QED BY <1>2, <1>5, <1>7, <1>8, <1>10, <1>11, Zenon DEF RulesOf

\* The directories, nearest first.
BitsOf(d, bits) ==
    /\ bits \in Seq([base : Seq(Names), sub : Seq(Names)]) /\ Len(bits) = Len(d) + 1
    /\ \A n \in 1..Len(bits) :
          /\ bits[n].base = SubSeq(d, 1, Len(d) + 1 - n) /\ Len(bits[n].base) = Len(d) + 1 - n
          /\ bits[n].base \o bits[n].sub = d

LEMMA BitsFacts ==
  ASSUME NEW d \in Seq(Names), NEW bits, bits = PathSplits(d)
  PROVE  BitsOf(d, bits)
  <1>1. Len(d) \in Nat
    OBVIOUS
  <1> DEFINE base(n) == SubSeq(d, 1, Len(d) + 1 - n)
             sub(n) == SubSeq(d, Len(d) + 2 - n, Len(d))
  <1>2. ASSUME NEW n \in 1..(Len(d) + 1)
        PROVE  /\ base(n) \in Seq(Names) /\ sub(n) \in Seq(Names) /\ Len(base(n)) = Len(d) + 1 - n
               /\ base(n) \o sub(n) = d
    <2>1. PICK k \in Nat : k = Len(d) + 1 - n
      BY <1>1
    <2>2. k \in 0..Len(d) /\ Len(d) + 2 - n = k + 1
      BY <1>1, <2>1
    <2>3. /\ SubSeq(d, 1, k) \in Seq(Names) /\ SubSeq(d, k + 1, Len(d)) \in Seq(Names)
          /\ Len(SubSeq(d, 1, k)) = k
      BY <1>1, <2>2
    <2>4. SubSeq(d, 1, k) \o SubSeq(d, k + 1, Len(d)) = d
      <3>1. /\ 1 \in 1..(Len(d) + 1) /\ k \in (1 - 1)..Len(d) /\ Len(d) \in k..Len(d)
        BY <1>1, <2>2
      <3>2. SubSeq(d, 1, k) \o SubSeq(d, k + 1, Len(d)) = SubSeq(d, 1, Len(d))
        BY <3>1, ConcatAdjacentSubSeq, Zenon
      <3>3. SubSeq(d, 1, Len(d)) = d
        OBVIOUS
      <3> QED BY <3>2, <3>3
    <2> QED BY <2>1, <2>2, <2>3, <2>4
  <1>3. bits = [n \in 1..(Len(d) + 1) |-> [base |-> base(n), sub |-> sub(n)]]
    BY DEF PathSplits
  <1> HIDE DEF base, sub
  <1>4. \A n \in 1..(Len(d) + 1) :
            [base |-> base(n), sub |-> sub(n)] \in [base : Seq(Names), sub : Seq(Names)]
    BY <1>2
  <1>5. PICK k \in Nat : k = Len(d) + 1
    BY <1>1
  <1>6. bits \in [1..k -> [base : Seq(Names), sub : Seq(Names)]]
    BY <1>3, <1>4, <1>5
  <1>7. bits \in Seq([base : Seq(Names), sub : Seq(Names)]) /\ Len(bits) = k
    <2>1. PICK S : S = [base : Seq(Names), sub : Seq(Names)]
      OBVIOUS
    <2>2. bits \in [1..k -> S]
      BY <1>6, <2>1
    <2>3. bits \in Seq(S) /\ Len(bits) = k
      BY <2>2
    <2> QED BY <2>1, <2>3
  <1>8. \A n \in 1..Len(bits) : bits[n].base = base(n) /\ bits[n].sub = sub(n)
    BY <1>3, <1>5, <1>7
  <1>9. ASSUME NEW n \in 1..Len(bits)
        PROVE  /\ bits[n].base = SubSeq(d, 1, Len(d) + 1 - n) /\ Len(bits[n].base) = Len(d) + 1 - n
               /\ bits[n].base \o bits[n].sub = d
    <2>1. n \in 1..(Len(d) + 1)
      BY <1>5, <1>7
    <2> QED BY <1>2, <1>8, <2>1 DEF base
  <1> QED BY <1>5, <1>7, <1>9 DEF BitsOf

\* What is left of a list.
LeftOf(s, m, t) ==
    /\ t = <<>> <=> m = Len(s) + 1
    /\ m <= Len(s) => Head(t) = s[m] /\ Tail(t) = SubSeq(s, m + 1, Len(s))

LEMMA SuffixFacts ==
  ASSUME NEW S, NEW s \in Seq(S), NEW m \in 1..(Len(s) + 1), NEW t, t = SubSeq(s, m, Len(s))
  PROVE  LeftOf(s, m, t)
  <1>1. Len(s) \in Nat /\ m \in Nat /\ m <= Len(s) + 1
    OBVIOUS
  <1>2. t \in Seq(S) /\ Len(t) = Len(s) + 1 - m /\ \A i \in 1..Len(t) : t[i] = s[m + i - 1]
    BY <1>1
  <1>3. t = <<>> <=> m = Len(s) + 1
    <2>1. t = <<>> <=> Len(t) = 0
      BY <1>2, EmptySeq
    <2>2. Len(t) = 0 <=> m = Len(s) + 1
      BY <1>1, <1>2
    <2> QED BY <2>1, <2>2
  <1>4. ASSUME m <= Len(s) PROVE Head(t) = s[m] /\ Tail(t) = SubSeq(s, m + 1, Len(s))
    <2>1. PICK u : u = SubSeq(s, m + 1, Len(s))
      OBVIOUS
    <2>2. u \in Seq(S) /\ Len(u) = Len(s) - m /\ \A i \in 1..Len(u) : u[i] = s[(m + 1) + i - 1]
      BY <1>1, <1>4, <2>1
    <2>3. Head(t) = s[m] /\ t # <<>>
      <3>1. 1 \in 1..Len(t) /\ m + 1 - 1 = m
        BY <1>1, <1>2, <1>4
      <3>2. t[1] = s[m]
        BY <1>2, <3>1
      <3>3. t # <<>>
        BY <1>1, <1>3, <1>4
      <3> QED BY <1>2, <3>2, <3>3
    <2>4. /\ Tail(t) \in Seq(S) /\ Len(Tail(t)) = Len(t) - 1
          /\ \A i \in 1..Len(Tail(t)) : Tail(t)[i] = t[i + 1]
      BY <1>2, <2>3
    <2>5. Len(Tail(t)) = Len(u)
      BY <1>1, <1>2, <2>2, <2>4
    <2>6. ASSUME NEW i \in 1..Len(u) PROVE Tail(t)[i] = u[i]
      <3>1. i + 1 \in 1..Len(t) /\ m + (i + 1) - 1 = (m + 1) + i - 1
        BY <1>1, <1>2, <2>2, <2>4, <2>5
      <3> QED BY <1>2, <2>2, <2>4, <2>5, <3>1
    <2> QED BY <2>1, <2>2, <2>3, <2>4, <2>5, <2>6
  <1> QED BY <1>3, <1>4 DEF LeftOf

\* Rule b of directory a.
RuleAt(d, name, rules, a, b, bit, f) ==
    /\ f \in DoFiles /\ f.dir = bit.base /\ Len(f.dir) = Len(d) + 1 - a /\ ~f.own
    /\ Len(f.ext) = Len(name) + 1 - rules[b]
    /\ f.dir \o f.sub = d /\ f.base \o f.ext = name

LEMMA RuleFacts ==
  ASSUME NEW d \in Seq(Names), NEW bits, BitsOf(d, bits),
         NEW name \in Strings, NEW rules, RulesOf(name, rules),
         NEW a \in 1..Len(bits), NEW b \in 1..Len(rules), NEW f, f = Default(bits[a], name, rules[b])
  PROVE  RuleAt(d, name, rules, a, b, bits[a], f)
  <1>1. PICK i : i = rules[b]
    OBVIOUS
  <1>2. PICK bit : bit = bits[a]
    OBVIOUS
  <1>3. PICK n \in Nat : n = Len(name)
    BY ElementsType
  <1>4. i \in 1..(n + 1)
    BY <1>1, <1>3 DEF RulesOf
  <1>5. /\ bit.base \in Seq(Names) /\ bit.sub \in Seq(Names) /\ Len(bit.base) = Len(d) + 1 - a
        /\ bit.base \o bit.sub = d
    <2>1. bits \in Seq([base : Seq(Names), sub : Seq(Names)])
      BY DEF BitsOf
    <2>2. bit \in [base : Seq(Names), sub : Seq(Names)]
      <3>1. PICK S : S = [base : Seq(Names), sub : Seq(Names)]
        OBVIOUS
      <3>2. bits \in Seq(S)
        BY <2>1, <3>1
      <3>3. bits[a] \in S
        BY <3>2
      <3> QED BY <1>2, <3>1, <3>3
    <2> QED BY <1>2, <2>2 DEF BitsOf
  <1>6. /\ SubSeq(name, 1, i - 1) \in Seq(Symbols) /\ SubSeq(name, i, n) \in Seq(Symbols)
        /\ Len(SubSeq(name, i, n)) = n + 1 - i
        /\ SubSeq(name, 1, i - 1) \o SubSeq(name, i, n) = name
    <2>1. PICK k \in Nat : k = i - 1
      BY <1>4
    <2>2. k \in 0..n /\ i = k + 1 /\ name \in Seq(Symbols) /\ n = Len(name)
      BY <1>3, <1>4, <2>1 DEF Strings
    <2>3. SubSeq(name, 1, k) \in Seq(Symbols) /\ SubSeq(name, k + 1, n) \in Seq(Symbols)
      BY <2>2
    <2>4. Len(SubSeq(name, k + 1, n)) = n - k
      BY <2>2
    <2>5. name = SubSeq(name, 1, k) \o SubSeq(name, k + 1, n)
      <3>1. k \in 0..Len(name)
        BY <2>2
      <3>2. name = Prefix(name, k) \o SubSeq(name, k + 1, Len(name))
        BY <3>1, PrefixRest
      <3> QED BY <1>3, <3>2 DEF Prefix
    <2>6. n - k = n + 1 - i
      BY <1>4, <2>1
    <2>7. i - 1 = k /\ i = k + 1
      BY <1>4, <2>1
    <2> QED BY <2>3, <2>4, <2>5, <2>6, <2>7
  <1>10. PICK x : x = SubSeq(name, 1, i - 1)
    OBVIOUS
  <1>11. PICK y : y = SubSeq(name, i, n)
    OBVIOUS
  <1>7. f = [dir |-> bit.base, own |-> FALSE, sub |-> bit.sub, base |-> x, ext |-> y]
    BY <1>1, <1>2, <1>3, <1>10, <1>11 DEF Default
  <1>8. f \in DoFiles
    <2>1. /\ bit.base \in Seq(Names) /\ bit.sub \in Seq(Names)
          /\ x \in Strings /\ y \in Strings
      BY <1>5, <1>6, <1>10, <1>11 DEF Strings
    <2> QED BY <1>7, <2>1 DEF DoFiles, Strings
  <1>9. f.dir = bit.base /\ ~f.own /\ f.sub = bit.sub /\ f.base = x /\ f.ext = y
    BY <1>7
  <1> QED BY <1>1, <1>2, <1>3, <1>5, <1>6, <1>8, <1>9, <1>10, <1>11 DEF RuleAt

\* The first rule.
OwnOf(d, name, f) ==
    /\ f \in DoFiles /\ f.dir = d /\ f.own
    /\ f.dir \o f.sub = d /\ f.base \o f.ext = name

LEMMA OwnFacts ==
  ASSUME NEW d \in Seq(Names), NEW name \in Strings, NEW f, f = Own(d, name)
  PROVE  OwnOf(d, name, f)
  <1>1. f = [dir |-> d, own |-> TRUE, sub |-> <<>>, base |-> name, ext |-> <<>>]
    BY DEF Own
  <1>2. f \in DoFiles
    BY <1>1 DEF DoFiles, Strings
  <1>3. f.dir = d /\ f.own /\ f.sub = <<>> /\ f.base = name /\ f.ext = <<>>
    BY <1>1
  <1>4. d \o <<>> = d /\ name \o <<>> = name
    BY DEF Strings
  <1> QED BY <1>2, <1>3, <1>4 DEF OwnOf

----------------------------------------------------------------------------
(* The search, for one value of the variables: ds, es and tr stand for      *)
(* dirs, exts and tried.                                                    *)

Sorted(tr) ==
    \A j \in DOMAIN tr : \A i \in 1..(j - 1) :
        \/ Len(tr[i].dir) > Len(tr[j].dir)
        \/ /\ tr[i].dir = tr[j].dir
           /\ tr[i].own \/ Len(tr[i].ext) > Len(tr[j].ext)
           /\ ~tr[j].own

\* The .do files that have been tried before rule k of directory m.
TriedTo(d, name, bits, rules, tr, m, k) ==
    /\ tr \in Seq(DoFiles) /\ Len(tr) \in Nat /\ Len(tr) > 0 /\ tr[1] = Own(d, name)
    /\ \A j \in 2..Len(tr) : \E a \in 1..Len(bits), b \in 1..Len(rules) :
          Passed(m, k, a, b) /\ tr[j] = Default(bits[a], name, rules[b])
    /\ \A a \in 1..Len(bits) :
          Passed(m, k, a, 1) => \E j \in 1..Len(tr) : tr[j].dir = bits[a].base
    /\ Sorted(tr)

LEMMA TriedFirst ==
  ASSUME NEW d \in Seq(Names), NEW bits, BitsOf(d, bits),
         NEW name \in Strings, NEW rules, RulesOf(name, rules), NEW tr, tr = Append(<<>>, Own(d, name))
  PROVE  Len(tr) = 1 /\ TriedTo(d, name, bits, rules, tr, 1, 1)
  <1>1. PICK f : f = Own(d, name)
    OBVIOUS
  <1>2. f \in DoFiles
    BY <1>1, OwnFacts DEF OwnOf
  <1>3. PICK s : s = <<>>
    OBVIOUS
  <1>4. s \in Seq(DoFiles) /\ Len(s) = 0 /\ tr = Append(s, f)
    BY <1>1, <1>3
  <1>5. tr \in Seq(DoFiles) /\ Len(tr) = 1 /\ tr[1] = f
    BY <1>2, <1>4
  <1>6. \A a \in 1..Len(bits) : \A b : ~Passed(1, 1, a, 1)
    <2>1. Len(bits) \in Nat
      BY DEF BitsOf
    <2> QED BY <2>1 DEF Passed
  <1>7. Sorted(tr)
    <2>1. \A j \in DOMAIN tr : \A i \in 1..(j - 1) : FALSE
      BY <1>5
    <2> QED BY <2>1 DEF Sorted
  <1>8. \A j \in 2..Len(tr) : FALSE
    BY <1>5
  <1> QED BY <1>1, <1>5, <1>6, <1>7, <1>8 DEF TriedTo

TriedNext(d, name, bits, rules, tr, ts, m, k) ==
    Len(ts) = Len(tr) + 1 /\ TriedTo(d, name, bits, rules, ts, m, k + 1)

\* One more rule is tried.
LEMMA TriedMore ==
  ASSUME NEW d \in Seq(Names), NEW bits, BitsOf(d, bits),
         NEW name \in Strings, NEW rules, RulesOf(name, rules),
         NEW m \in 1..Len(bits), NEW k \in 1..Len(rules),
         NEW tr, TriedTo(d, name, bits, rules, tr, m, k),
         NEW f, f = Default(bits[m], name, rules[k]), NEW ts, ts = Append(tr, f)
  PROVE  TriedNext(d, name, bits, rules, tr, ts, m, k)
  <1>1. /\ tr \in Seq(DoFiles) /\ Len(tr) \in Nat /\ Len(tr) > 0 /\ tr[1] = Own(d, name)
        /\ \A j \in 2..Len(tr) : \E a \in 1..Len(bits), b \in 1..Len(rules) :
              Passed(m, k, a, b) /\ tr[j] = Default(bits[a], name, rules[b])
        /\ \A a \in 1..Len(bits) :
              Passed(m, k, a, 1) => \E j \in 1..Len(tr) : tr[j].dir = bits[a].base
        /\ Sorted(tr)
    BY DEF TriedTo
  <1>2. RuleAt(d, name, rules, m, k, bits[m], f)
    BY RuleFacts, Zenon
  <1>3. /\ ts \in Seq(DoFiles) /\ Len(ts) = Len(tr) + 1 /\ ts[Len(tr) + 1] = f
        /\ \A i \in 1..Len(tr) : ts[i] = tr[i]
    <2>1. f \in DoFiles
      BY <1>2 DEF RuleAt
    <2> QED BY <1>1, <2>1, AppendFacts
  <1>4. /\ Len(bits) \in Nat /\ Len(rules) \in Nat /\ Len(bits) = Len(d) + 1 /\ Len(d) \in Nat
        /\ Len(name) \in Nat
        /\ \A i \in 1..Len(rules) : rules[i] \in 1..(Len(name) + 1)
        /\ \A i \in 1..Len(rules), j \in 1..Len(rules) : i < j => rules[i] < rules[j]
    <2>1. Len(bits) = Len(d) + 1 /\ Len(d) \in Nat /\ Len(name) \in Nat
      BY ElementsType DEF BitsOf
    <2>2. /\ Len(rules) \in Nat
          /\ \A i \in 1..Len(rules) : rules[i] \in 1..(Len(name) + 1)
          /\ \A i \in 1..Len(rules), j \in 1..Len(rules) : i < j => rules[i] < rules[j]
      BY DEF RulesOf
    <2> QED BY <2>1, <2>2
  <1>5. \A j \in 1..Len(ts) : j = Len(tr) + 1 \/ j \in 1..Len(tr)
    BY <1>1, <1>3
  <1>6. ASSUME NEW j \in 2..Len(ts)
        PROVE  \E a \in 1..Len(bits), b \in 1..Len(rules) :
                  Passed(m, k + 1, a, b) /\ ts[j] = Default(bits[a], name, rules[b])
    <2>1. CASE j = Len(tr) + 1
      <3>1. Passed(m, k + 1, m, k)
        BY <1>4 DEF Passed
      <3> QED BY <1>3, <2>1, <3>1
    <2>2. CASE j # Len(tr) + 1
      <3>1. j \in 2..Len(tr) /\ j \in 1..Len(tr)
        BY <1>1, <1>3, <2>2
      <3>2. PICK a \in 1..Len(bits), b \in 1..Len(rules) :
               Passed(m, k, a, b) /\ tr[j] = Default(bits[a], name, rules[b])
        BY <1>1, <3>1
      <3>3. Passed(m, k + 1, a, b)
        BY <1>4, <3>2 DEF Passed
      <3>4. ts[j] = Default(bits[a], name, rules[b])
        BY <1>3, <3>1, <3>2
      <3> QED BY <3>3, <3>4
    <2> QED BY <2>1, <2>2
  <1>7. ASSUME NEW a \in 1..Len(bits), Passed(m, k + 1, a, 1)
        PROVE  \E j \in 1..Len(ts) : ts[j].dir = bits[a].base
    <2>1. CASE a = m
      <3>1. Len(tr) + 1 \in 1..Len(ts) /\ ts[Len(tr) + 1].dir = bits[a].base
        BY <1>1, <1>2, <1>3, <2>1 DEF RuleAt
      <3> QED BY <3>1
    <2>2. CASE a # m
      <3>1. Passed(m, k, a, 1)
        BY <1>7, <2>2 DEF Passed
      <3>2. PICK j \in 1..Len(tr) : tr[j].dir = bits[a].base
        BY <1>1, <3>1
      <3>3. j \in 1..Len(ts) /\ ts[j] = tr[j]
        BY <1>1, <1>3
      <3> QED BY <3>2, <3>3
    <2> QED BY <2>1, <2>2
  <1>8. Sorted(ts)
    <2>1. SUFFICES ASSUME NEW j \in 1..Len(ts), NEW i \in 1..(j - 1)
                   PROVE  \/ Len(ts[i].dir) > Len(ts[j].dir)
                          \/ /\ ts[i].dir = ts[j].dir
                             /\ ts[i].own \/ Len(ts[i].ext) > Len(ts[j].ext)
                             /\ ~ts[j].own
      BY <1>3 DEF Sorted
    <2>2. i \in 1..Len(tr) /\ ts[i] = tr[i]
      BY <1>1, <1>3
    <2>3. CASE j # Len(tr) + 1
      <3>1. j \in 1..Len(tr) /\ ts[j] = tr[j] /\ j \in DOMAIN tr
        BY <1>1, <1>3, <1>5, <2>3
      <3> QED BY <1>1, <2>2, <3>1 DEF Sorted
    <2>4. CASE j = Len(tr) + 1
      <3>1. /\ ts[j] = f /\ f.dir = bits[m].base /\ Len(f.dir) = Len(d) + 1 - m /\ ~f.own
            /\ Len(f.ext) = Len(name) + 1 - rules[k]
        BY <1>2, <1>3, <2>4 DEF RuleAt
      <3>2. CASE i = 1
        <4>1. ts[i].dir = d /\ ts[i].own
          <5>1. PICK g : g = Own(d, name)
            OBVIOUS
          <5>2. g.dir = d /\ g.own
            BY <5>1, OwnFacts DEF OwnOf
          <5>3. ts[i] = g
            BY <1>1, <2>2, <3>2, <5>1
          <5> QED BY <5>2, <5>3
        <4>2. CASE m = 1
          <5>1. bits[m].base = SubSeq(d, 1, Len(d) + 1 - 1)
            BY <4>2 DEF BitsOf
          <5>2. Len(d) + 1 - 1 = Len(d) /\ SubSeq(d, 1, Len(d)) = d
            BY <1>4
          <5>3. ts[i].dir = ts[j].dir
            BY <3>1, <4>1, <5>1, <5>2
          <5> QED BY <3>1, <4>1, <5>3
        <4>3. CASE m # 1
          <5>1. Len(d) > Len(d) + 1 - m
            BY <1>4, <4>3
          <5> QED BY <3>1, <4>1, <5>1
        <4> QED BY <4>2, <4>3
      <3>3. CASE i # 1
        <4>1. i \in 2..Len(tr)
          BY <1>1, <2>2, <3>3
        <4>2. PICK a \in 1..Len(bits), b \in 1..Len(rules) :
                 Passed(m, k, a, b) /\ tr[i] = Default(bits[a], name, rules[b])
          BY <1>1, <4>1
        <4>3. PICK g : g = tr[i]
          OBVIOUS
        <4>4. RuleAt(d, name, rules, a, b, bits[a], g)
          BY <4>2, <4>3, RuleFacts, Zenon
        <4>5. /\ ts[i] = g /\ g.dir = bits[a].base /\ Len(g.dir) = Len(d) + 1 - a
              /\ Len(g.ext) = Len(name) + 1 - rules[b]
          BY <2>2, <4>3, <4>4 DEF RuleAt
        <4>6. CASE a < m
          <5>1. Len(d) + 1 - a > Len(d) + 1 - m
            BY <1>4, <4>6
          <5> QED BY <3>1, <4>5, <5>1
        <4>7. CASE a = m /\ b < k
          <5>1. rules[b] < rules[k] /\ rules[b] \in Nat /\ rules[k] \in Nat
            BY <1>4, <4>7
          <5>2. Len(name) + 1 - rules[b] > Len(name) + 1 - rules[k]
            <6>1. Len(name) + 1 \in Int
              BY <1>4
            <6> QED BY <5>1, <6>1, LessFrom
          <5> QED BY <3>1, <4>5, <4>7, <5>2
        <4> QED BY <4>2, <4>6, <4>7 DEF Passed
      <3> QED BY <3>2, <3>3
    <2> QED BY <2>3, <2>4
  <1>9. ts[1] = Own(d, name)
    <2>1. 1 \in 1..Len(tr)
      BY <1>1
    <2> QED BY <1>1, <1>3, <2>1
  <1>10. Len(ts) \in Nat /\ Len(ts) > 0
    BY <1>1, <1>3
  <1> QED BY <1>3, <1>6, <1>7, <1>8, <1>9, <1>10 DEF TriedTo, TriedNext

SearchedTo(d, name, bits, rules, ds, es, tr, m, k) ==
    /\ m \in 1..(Len(bits) + 1) /\ k \in 1..(Len(rules) + 1)
    /\ ds = SubSeq(bits, m, Len(bits)) /\ es = SubSeq(rules, k, Len(rules))
    /\ m <= Len(bits) \/ k > Len(rules)
    /\ Len(tr) = 1 + (m - 1) * Len(rules) + (IF m <= Len(bits) THEN k - 1 ELSE 0)
    /\ TriedTo(d, name, bits, rules, tr, m, k)

\* What is searched for: the file name in a directory d or above it.
Target(d, name, bits, rules) ==
    d \in Seq(Names) /\ BitsOf(d, bits) /\ name \in Strings /\ RulesOf(name, rules)

LEMMA TargetFacts ==
  ASSUME NEW d, NEW name, NEW bits, NEW rules, Target(d, name, bits, rules)
  PROVE  /\ bits \in Seq([base : Seq(Names), sub : Seq(Names)]) /\ rules \in Seq(Nat)
         /\ Len(bits) \in Nat /\ Len(rules) \in Nat /\ Len(rules) > 0 /\ Len(bits) = Len(d) + 1
         /\ Len(bits) > 0
  <1>1. /\ bits \in Seq([base : Seq(Names), sub : Seq(Names)]) /\ rules \in Seq(Nat)
        /\ Len(rules) \in Nat /\ Len(rules) > 0 /\ Len(bits) = Len(d) + 1 /\ d \in Seq(Names)
    BY DEF Target, BitsOf, RulesOf
  <1>2. Len(d) \in Nat
    BY <1>1
  <1> QED BY <1>1, <1>2

LEMMA SearchFirst ==
  ASSUME NEW d, NEW name, NEW bits, NEW rules, Target(d, name, bits, rules),
         NEW tr, tr = Append(<<>>, Own(d, name))
  PROVE  SearchedTo(d, name, bits, rules, bits, rules, tr, 1, 1)
  <1>1. Len(tr) = 1 /\ TriedTo(d, name, bits, rules, tr, 1, 1)
    BY TriedFirst DEF Target
  <1>2. Len(bits) \in Nat /\ Len(rules) \in Nat /\ Len(bits) > 0
    BY TargetFacts
  <1>3. 1 + (1 - 1) * Len(rules) + (1 - 1) = 1
    BY <1>2
  <1>4. bits = SubSeq(bits, 1, Len(bits)) /\ rules = SubSeq(rules, 1, Len(rules))
    BY TargetFacts
  <1>5. 1 \in 1..(Len(bits) + 1) /\ 1 \in 1..(Len(rules) + 1) /\ 1 <= Len(bits)
    BY <1>2
  <1> QED BY <1>1, <1>3, <1>4, <1>5 DEF SearchedTo

\* The next rule of a directory.
LEMMA SearchRule ==
  ASSUME NEW d, NEW name, NEW bits, NEW rules, Target(d, name, bits, rules), NEW ds, NEW es, NEW tr,
         NEW m, NEW k, SearchedTo(d, name, bits, rules, ds, es, tr, m, k), m <= Len(bits), es # <<>>,
         NEW ts, ts = Append(tr, Default(Head(ds), name, Head(es)))
  PROVE  SearchedTo(d, name, bits, rules, ds, Tail(es), ts, m, k + 1)
  <1>1. /\ m \in 1..(Len(bits) + 1) /\ k \in 1..(Len(rules) + 1)
        /\ ds = SubSeq(bits, m, Len(bits)) /\ es = SubSeq(rules, k, Len(rules))
        /\ Len(tr) = 1 + (m - 1) * Len(rules) + (k - 1)
        /\ TriedTo(d, name, bits, rules, tr, m, k)
    BY DEF SearchedTo
  <1>2. /\ bits \in Seq([base : Seq(Names), sub : Seq(Names)]) /\ rules \in Seq(Nat)
        /\ Len(bits) \in Nat /\ Len(rules) \in Nat /\ Len(rules) > 0
    BY TargetFacts
  <1>3. Head(ds) = bits[m]
    <2>1. PICK S : S = [base : Seq(Names), sub : Seq(Names)]
      OBVIOUS
    <2>2. bits \in Seq(S)
      BY <1>2, <2>1
    <2>3. LeftOf(bits, m, ds)
      BY <1>1, <2>2, SuffixFacts, Zenon
    <2> QED BY <2>3 DEF LeftOf
  <1>4. k <= Len(rules) /\ Head(es) = rules[k] /\ Tail(es) = SubSeq(rules, k + 1, Len(rules))
    <2>1. LeftOf(rules, k, es)
      BY <1>1, <1>2, SuffixFacts, Zenon
    <2>2. k # Len(rules) + 1
      BY <2>1 DEF LeftOf
    <2>3. k <= Len(rules)
      BY <1>1, <1>2, <2>2
    <2> QED BY <2>1, <2>3 DEF LeftOf
  <1>6. m \in 1..Len(bits) /\ k \in 1..Len(rules)
    BY <1>1, <1>2, <1>4
  <1>7. Len(ts) = Len(tr) + 1 /\ TriedTo(d, name, bits, rules, ts, m, k + 1)
    <2>1. PICK f : f = Default(bits[m], name, rules[k])
      OBVIOUS
    <2>2. ts = Append(tr, f)
      BY <1>3, <1>4, <2>1
    <2>3. d \in Seq(Names) /\ BitsOf(d, bits) /\ name \in Strings /\ RulesOf(name, rules)
      BY DEF Target
    <2>4. TriedTo(d, name, bits, rules, tr, m, k)
      BY <1>1
    <2>5. TriedNext(d, name, bits, rules, tr, ts, m, k)
      BY <1>6, <2>1, <2>2, <2>3, <2>4, TriedMore, Zenon
    <2> QED BY <2>5 DEF TriedNext
  <1>8. PICK n \in Int : n = (m - 1) * Len(rules)
    BY <1>2, <1>6
  <1>9. Len(ts) = 1 + n + ((k + 1) - 1)
    <2>1. Len(tr) = 1 + n + (k - 1)
      BY <1>1, <1>8
    <2> QED BY <1>6, <1>7, <2>1
  <1>10. Len(ts) = 1 + (m - 1) * Len(rules) + ((k + 1) - 1)
    BY <1>8, <1>9
  <1>11. k + 1 \in 1..(Len(rules) + 1)
    BY <1>2, <1>6
  <1> QED BY <1>1, <1>4, <1>7, <1>10, <1>11 DEF SearchedTo

\* What is left of a sequence.
LEMMA RestType ==
  ASSUME NEW S, NEW x \in Seq(S), NEW i \in 1..(Len(x) + 1)
  PROVE  SubSeq(x, i, Len(x)) \in Seq(S)
  <1>1. Len(x) \in Nat /\ i \in Nat /\ i > 0
    OBVIOUS
  <1> QED BY <1>1

LEMMA NextRow ==
  ASSUME NEW m \in Nat, NEW n \in Nat
  PROVE  1 + (m - 1) * n + ((n + 1) - 1) = 1 + ((m + 1) - 1) * n
  OBVIOUS

SearchedUp(d, name, bits, rules, ds, es, tr, m, k) ==
    /\ Tail(ds) = <<>> <=> m + 1 > Len(bits)
    /\ m + 1 > Len(bits) => SearchedTo(d, name, bits, rules, Tail(ds), es, tr, m + 1, k)
    /\ m + 1 <= Len(bits) => SearchedTo(d, name, bits, rules, Tail(ds), rules, tr, m + 1, 1)

\* From a directory without rules left to its parent.
LEMMA SearchUp ==
  ASSUME NEW d, NEW name, NEW bits, NEW rules, Target(d, name, bits, rules), NEW ds, NEW es, NEW tr,
         NEW m, NEW k, SearchedTo(d, name, bits, rules, ds, es, tr, m, k), m <= Len(bits), es = <<>>
  PROVE  SearchedUp(d, name, bits, rules, ds, es, tr, m, k)
  <1>1. /\ m \in 1..(Len(bits) + 1) /\ k \in 1..(Len(rules) + 1)
        /\ ds = SubSeq(bits, m, Len(bits)) /\ es = SubSeq(rules, k, Len(rules))
        /\ Len(tr) = 1 + (m - 1) * Len(rules) + (k - 1)
        /\ TriedTo(d, name, bits, rules, tr, m, k)
    BY DEF SearchedTo
  <1>2. /\ bits \in Seq([base : Seq(Names), sub : Seq(Names)]) /\ rules \in Seq(Nat)
        /\ Len(bits) \in Nat /\ Len(rules) \in Nat /\ Len(rules) > 0
    BY TargetFacts
  <1>3. m \in Nat /\ m + 1 \in 1..(Len(bits) + 1) /\ m \in 1..Len(bits)
    BY <1>1, <1>2
  <1>4. Tail(ds) = SubSeq(bits, m + 1, Len(bits)) /\ (Tail(ds) = <<>> <=> m + 1 = Len(bits) + 1)
    <2>1. PICK S : S = [base : Seq(Names), sub : Seq(Names)]
      OBVIOUS
    <2>2. bits \in Seq(S)
      BY <1>2, <2>1
    <2>3. LeftOf(bits, m, ds)
      BY <1>1, <2>2, SuffixFacts, Zenon
    <2>4. Tail(ds) = SubSeq(bits, m + 1, Len(bits))
      BY <2>3 DEF LeftOf
    <2>5. LeftOf(bits, m + 1, Tail(ds))
      BY <1>3, <2>2, <2>4, SuffixFacts, Zenon
    <2> QED BY <2>4, <2>5 DEF LeftOf
  <1>5. k = Len(rules) + 1
    <2>1. LeftOf(rules, k, es)
      BY <1>1, <1>2, SuffixFacts, Zenon
    <2> QED BY <2>1 DEF LeftOf
  <1>6. Len(tr) = 1 + ((m + 1) - 1) * Len(rules)
    <2>1. PICK n \in Nat : n = Len(rules)
      BY <1>2
    <2>2. Len(tr) = 1 + (m - 1) * n + ((n + 1) - 1)
      BY <1>1, <1>5, <2>1
    <2> QED BY <1>3, <2>1, <2>2, NextRow
  <1>7. ASSUME NEW c, c = 1 \/ m + 1 > Len(bits)
        PROVE  TriedTo(d, name, bits, rules, tr, m + 1, c)
    <2>1. \A a, b : a \in 1..Len(bits) /\ b \in 1..Len(rules) /\ Passed(m, k, a, b) => Passed(m + 1, c, a, b)
      <3> SUFFICES ASSUME NEW a \in 1..Len(bits), NEW b \in 1..Len(rules), Passed(m, k, a, b)
                   PROVE  Passed(m + 1, c, a, b)
        OBVIOUS
      <3>1. a < m + 1
        BY <1>2, <1>3 DEF Passed
      <3> QED BY <3>1 DEF Passed
    <2>2. \A a \in 1..Len(bits) : Passed(m + 1, c, a, 1) => Passed(m, k, a, 1)
      <3> SUFFICES ASSUME NEW a \in 1..Len(bits), Passed(m + 1, c, a, 1) PROVE Passed(m, k, a, 1)
        OBVIOUS
      <3>1. a < m + 1
        BY <1>2, <1>3, <1>7 DEF Passed
      <3>2. a < m \/ (a = m /\ 1 < k)
        BY <1>2, <1>3, <1>5, <3>1
      <3> QED BY <3>2 DEF Passed
    <2>3. /\ tr \in Seq(DoFiles) /\ Len(tr) \in Nat /\ Len(tr) > 0 /\ tr[1] = Own(d, name)
          /\ \A j \in 2..Len(tr) : \E a \in 1..Len(bits), b \in 1..Len(rules) :
                Passed(m, k, a, b) /\ tr[j] = Default(bits[a], name, rules[b])
          /\ \A a \in 1..Len(bits) :
                Passed(m, k, a, 1) => \E j \in 1..Len(tr) : tr[j].dir = bits[a].base
          /\ Sorted(tr)
      BY <1>1 DEF TriedTo
    <2>4. ASSUME NEW j \in 2..Len(tr)
          PROVE  \E a \in 1..Len(bits), b \in 1..Len(rules) :
                    Passed(m + 1, c, a, b) /\ tr[j] = Default(bits[a], name, rules[b])
      BY <2>1, <2>3
    <2>5. \A a \in 1..Len(bits) :
             Passed(m + 1, c, a, 1) => \E j \in 1..Len(tr) : tr[j].dir = bits[a].base
      BY <2>2, <2>3
    <2> QED BY <2>3, <2>4, <2>5 DEF TriedTo
  <1>8. ASSUME m + 1 > Len(bits)
        PROVE  SearchedTo(d, name, bits, rules, Tail(ds), es, tr, m + 1, k)
    <2>1. TriedTo(d, name, bits, rules, tr, m + 1, k)
      BY <1>7, <1>8
    <2>2. ~(m + 1 <= Len(bits)) /\ k > Len(rules)
      BY <1>2, <1>3, <1>5, <1>8
    <2>3. Len(tr) = 1 + ((m + 1) - 1) * Len(rules) + 0
      <3>1. PICK n \in Int : n = ((m + 1) - 1) * Len(rules)
        BY <1>2, <1>3
      <3> QED BY <1>6, <3>1
    <2> QED BY <1>1, <1>3, <1>4, <2>1, <2>2, <2>3 DEF SearchedTo
  <1>9. ASSUME m + 1 <= Len(bits)
        PROVE  SearchedTo(d, name, bits, rules, Tail(ds), rules, tr, m + 1, 1)
    <2>1. TriedTo(d, name, bits, rules, tr, m + 1, 1)
      BY <1>7
    <2>2. rules = SubSeq(rules, 1, Len(rules)) /\ 1 \in 1..(Len(rules) + 1)
      BY <1>2
    <2>3. Len(tr) = 1 + ((m + 1) - 1) * Len(rules) + (1 - 1)
      <3>1. PICK n \in Int : n = ((m + 1) - 1) * Len(rules)
        BY <1>2, <1>3
      <3> QED BY <1>6, <3>1
    <2> QED BY <1>3, <1>4, <1>9, <2>1, <2>2, <2>3 DEF SearchedTo
  <1>10. Tail(ds) = <<>> <=> m + 1 > Len(bits)
    <2>1. Len(bits) \in Nat /\ m \in Nat /\ Len(bits) >= m
      BY <1>2, <1>3
    <2> QED BY <1>2, <1>4, <2>1
  <1> QED BY <1>8, <1>9, <1>10 DEF SearchedUp

----------------------------------------------------------------------------
(* The invariant of the search. *)

DirOf(s) == Front(ElementsOf(s))

NameOf(s) == Last(ElementsOf(s))

SearchOf(s, ds, es, tr, m, k) ==
    SearchedTo(DirOf(s), NameOf(s), PathSplits(DirOf(s)), DefaultDoFiles(NameOf(s)), ds, es, tr, m, k)

\* The search for s is where it can be when the iterator is in a mode.
Where(s, mode, hit, ds, es, tr) ==
    \E m, k : /\ SearchOf(s, ds, es, tr, m, k)
              /\ mode = "recursive" => m <= Len(DirOf(s)) + 1
              /\ mode = "stopped" /\ ~hit => m > Len(DirOf(s)) + 1

Searching ==
    /\ found \in BOOLEAN
    /\ search = "normpath" => norm = <<>>
    /\ search \in {"normpath", "first", "panic"} => tried = <<>> /\ dirs = <<>> /\ exts = <<>>
    /\ search \in {"first", "recursive", "panic"} => IsRooted(path)
    /\ search \in {"recursive", "stopped"} /\ ~IsRooted(path) =>
          tried = <<>> /\ dirs = <<>> /\ exts = <<>>
    /\ search \in {"recursive", "stopped"} /\ IsRooted(path) =>
          ElementsOf(norm) # <<>> /\ Where(norm, search, found, dirs, exts, tried)

LEMMA LastAndFront ==
  ASSUME NEW S, NEW s \in Seq(S), s # <<>>
  PROVE  Front(s) \in Seq(S) /\ Last(s) \in S /\ s = Append(Front(s), Last(s))
  <1>1. PICK n \in Nat : n = Len(s) - 1
    BY EmptySeq
  <1>2. Len(s) = n + 1 /\ n \in Nat
    BY <1>1
  <1>3. PICK t : t = SubSeq(s, 1, n)
    OBVIOUS
  <1>4. t \in Seq(S) /\ Len(t) = n /\ \A i \in 1..n : t[i] = s[i]
    BY <1>2, <1>3
  <1>5. s[n + 1] \in S
    BY <1>2
  <1>6. PICK u : u = Append(t, s[n + 1])
    OBVIOUS
  <1>7. u \in Seq(S) /\ Len(u) = n + 1 /\ u[n + 1] = s[n + 1] /\ \A i \in 1..n : u[i] = s[i]
    BY <1>4, <1>5, <1>6, AppendFacts
  <1>8. \A i \in 1..(n + 1) : u[i] = s[i]
    <2>1. \A i \in 1..(n + 1) : i = n + 1 \/ i \in 1..n
      OBVIOUS
    <2> QED BY <1>7, <2>1
  <1>9. u = s
    BY <1>2, <1>7, <1>8
  <1>10. Front(s) = t /\ Last(s) = s[n + 1]
    BY <1>1, <1>2, <1>3 DEF Front, Last
  <1> QED BY <1>4, <1>5, <1>6, <1>9, <1>10

LEMMA TargetOf ==
  ASSUME NEW s \in Strings, ElementsOf(s) # <<>>
  PROVE  /\ Target(DirOf(s), NameOf(s), PathSplits(DirOf(s)), DefaultDoFiles(NameOf(s)))
         /\ ElementsOf(s) = Append(DirOf(s), NameOf(s))
  <1>1. ElementsOf(s) \in Seq(Names)
    BY ElementsType
  <1>2. DirOf(s) \in Seq(Names) /\ NameOf(s) \in Names /\ ElementsOf(s) = Append(DirOf(s), NameOf(s))
    BY <1>1, LastAndFront DEF DirOf, NameOf
  <1>3. NameOf(s) \in Strings
    BY <1>2 DEF Names, Strings
  <1>4. BitsOf(DirOf(s), PathSplits(DirOf(s)))
    BY <1>2, BitsFacts
  <1>5. RulesOf(NameOf(s), DefaultDoFiles(NameOf(s)))
    BY <1>3, RulesFacts
  <1> QED BY <1>2, <1>3, <1>4, <1>5 DEF Target

\* One call of next().
LEMMA OneCall ==
  ASSUME NEW s \in Strings, ElementsOf(s) # <<>>, NEW ds, NEW es, NEW tr, NEW hit,
         Where(s, "recursive", hit, ds, es, tr),
         NEW dt, dt = IF es = <<>> THEN Tail(ds) ELSE ds,
         NEW et, et = IF es = <<>> THEN DefaultDoFiles(NameOf(s)) ELSE es
  PROVE  /\ dt = <<>> => \A h \in BOOLEAN : Where(s, "stopped", h, dt, es, tr)
         /\ dt # <<>> =>
               \A mode \in {"recursive", "stopped"}, h \in BOOLEAN : mode = "recursive" \/ h =>
                  Where(s, mode, h, dt, Tail(et), Append(tr, Default(Head(dt), NameOf(s), Head(et))))
  <1> DEFINE d == DirOf(s)
             name == NameOf(s)
             bits == PathSplits(d)
             rules == DefaultDoFiles(name)
             ts == Append(tr, Default(Head(dt), name, Head(et)))
  <1>1. Target(d, name, bits, rules)
    BY TargetOf
  <1>2. PICK m, k : SearchedTo(d, name, bits, rules, ds, es, tr, m, k) /\ m <= Len(d) + 1
    BY DEF Where, SearchOf
  <1> HIDE DEF d, name, bits, rules
  <1>3. /\ Len(bits) = Len(d) + 1 /\ Len(bits) \in Nat /\ Len(rules) \in Nat /\ Len(rules) > 0
        /\ rules \in Seq(Nat)
    BY <1>1, TargetFacts
  <1>4. m \in Nat /\ m <= Len(bits)
    BY <1>2, <1>3 DEF SearchedTo
  <1>5. CASE es # <<>>
    <2>1. dt = ds /\ et = es
      BY <1>5
    <2>2. SearchedTo(d, name, bits, rules, ds, Tail(es), ts, m, k + 1)
      BY <1>1, <1>2, <1>4, <1>5, <2>1, SearchRule
    <2>3. dt # <<>>
      <3>1. PICK S : S = [base : Seq(Names), sub : Seq(Names)]
        OBVIOUS
      <3>2. bits \in Seq(S)
        BY <1>1, <3>1, TargetFacts
      <3>3. ds = SubSeq(bits, m, Len(bits)) /\ m \in 1..(Len(bits) + 1)
        BY <1>2 DEF SearchedTo
      <3>4. LeftOf(bits, m, ds)
        BY <3>2, <3>3, SuffixFacts, Zenon
      <3>5. m # Len(bits) + 1
        BY <1>3, <1>4
      <3> QED BY <2>1, <3>4, <3>5 DEF LeftOf
    <2>4. ASSUME NEW mode \in {"recursive", "stopped"}, NEW h \in BOOLEAN, mode = "recursive" \/ h
          PROVE  Where(s, mode, h, dt, Tail(et), ts)
      BY <1>2, <2>1, <2>2, <2>4 DEF Where, SearchOf, d, name, bits, rules
    <2> HIDE DEF ts
    <2> QED BY <2>3, <2>4 DEF ts, name
  <1>6. CASE es = <<>>
    <2>1. dt = Tail(ds) /\ et = rules
      BY <1>6 DEF rules, name
    <2>2. /\ dt = <<>> <=> m + 1 > Len(bits)
          /\ m + 1 > Len(bits) => SearchedTo(d, name, bits, rules, dt, es, tr, m + 1, k)
          /\ m + 1 <= Len(bits) => SearchedTo(d, name, bits, rules, dt, rules, tr, m + 1, 1)
      <3>1. SearchedUp(d, name, bits, rules, ds, es, tr, m, k)
        BY <1>1, <1>2, <1>4, <1>6, SearchUp, Zenon
      <3> QED BY <2>1, <3>1 DEF SearchedUp
    <2>3. ASSUME dt = <<>>, NEW h \in BOOLEAN PROVE Where(s, "stopped", h, dt, es, tr)
      <3>1. SearchedTo(d, name, bits, rules, dt, es, tr, m + 1, k) /\ m + 1 > Len(d) + 1
        BY <1>3, <2>2, <2>3
      <3> QED BY <3>1 DEF Where, SearchOf, d, name, bits, rules
    <2>4. ASSUME dt # <<>>, NEW mode \in {"recursive", "stopped"}, NEW h \in BOOLEAN, mode = "recursive" \/ h
          PROVE  Where(s, mode, h, dt, Tail(et), ts)
      <3>1. SearchedTo(d, name, bits, rules, dt, rules, tr, m + 1, 1) /\ m + 1 <= Len(bits)
        BY <1>3, <1>4, <2>2, <2>4
      <3>2. rules # <<>>
        BY <1>3
      <3>3. SearchedTo(d, name, bits, rules, dt, Tail(rules), ts, m + 1, 1 + 1)
        BY <1>1, <2>1, <3>1, <3>2, SearchRule
      <3> QED BY <1>3, <2>1, <2>4, <3>1, <3>3 DEF Where, SearchOf, d, name, bits, rules
    <2> HIDE DEF ts
    <2> QED BY <2>3, <2>4 DEF ts, name
  <1> QED BY <1>5, <1>6

LEMMA NormIsString ==
  Normalizing /\ search # "normpath" => norm \in Strings
  <1>1. SUFFICES ASSUME Normalizing, search # "normpath" PROVE norm \in Strings
    OBVIOUS
  <1>2. Normed(path, read, out, dotdot) /\ norm = IF out.w = 0 THEN <<".">> ELSE Text(path, out)
    BY <1>1 DEF Normalizing
  <1>3. Text(path, out) \in Strings
    BY <1>2, NormedType
  <1>4. <<".">> \in Strings
    BY DEF Strings, Symbols
  <1> QED BY <1>2, <1>3, <1>4

LEMMA SearchingInit == Init => Searching
  BY DEF Init, Searching

LEMMA SearchingFirst ==
  ASSUME Normalizing, Searching, First
  PROVE  Searching'
  <1>1. /\ search = "first" /\ ElementsOf(norm) # <<>> /\ norm' = norm /\ path' = path
        /\ found' \in BOOLEAN /\ tried' = Append(tried, Own(DirName, FileName))
        /\ dirs' = PathSplits(DirName) /\ exts' = DefaultDoFiles(FileName)
        /\ search' = IF found' THEN "stopped" ELSE "recursive"
    BY DEF First, NoName, Try
  <1>2. norm \in Strings /\ IsRooted(path) /\ tried = <<>>
    BY <1>1, NormIsString DEF Searching
  <1> DEFINE d == DirOf(norm)
             name == NameOf(norm)
             bits == PathSplits(d)
             rules == DefaultDoFiles(name)
  <1>3. Target(d, name, bits, rules)
    BY <1>1, <1>2, TargetOf
  <1>4. d = DirName /\ name = FileName
    BY DEF DirOf, NameOf, DirName, FileName
  <1>5. tried' = Append(<<>>, Own(d, name)) /\ dirs' = bits /\ exts' = rules
    BY <1>1, <1>2, <1>4
  <1> HIDE DEF d, name, bits, rules
  <1>6. SearchedTo(d, name, bits, rules, dirs', exts', tried', 1, 1)
    BY <1>3, <1>5, SearchFirst
  <1>7. 1 <= Len(d) + 1
    BY <1>3, TargetFacts
  <1>8. Where(norm, search', found', dirs', exts', tried')
    BY <1>1, <1>6, <1>7 DEF Where, SearchOf, d, name, bits, rules
  <1>9. Where(norm', search', found', dirs', exts', tried')
    BY <1>1, <1>8
  <1>10. IsRooted(path') /\ ElementsOf(norm') # <<>>
    BY <1>1, <1>2
  <1> QED BY <1>1, <1>9, <1>10 DEF Searching

LEMMA SearchingRecursive ==
  ASSUME Normalizing, Searching, Recursive
  PROVE  Searching'
  <1>1. PICK dt : dt = IF exts = <<>> THEN Tail(dirs) ELSE dirs
    OBVIOUS
  <1>2. PICK et : et = IF exts = <<>> THEN DefaultDoFiles(NameOf(norm)) ELSE exts
    OBVIOUS
  <1>3. /\ search = "recursive" /\ norm' = norm /\ path' = path /\ dirs' = dt
        /\ dt = <<>> => search' = "stopped" /\ exts' = exts /\ tried' = tried /\ found' = found
        /\ dt # <<>> =>
              /\ found' \in BOOLEAN /\ exts' = Tail(et)
              /\ tried' = Append(tried, Default(Head(dt), NameOf(norm), Head(et)))
              /\ search' = IF found' THEN "stopped" ELSE "recursive"
    BY <1>1, <1>2 DEF Recursive, Try, NameOf, FileName
  <1>4. /\ norm \in Strings /\ IsRooted(path) /\ ElementsOf(norm) # <<>> /\ found \in BOOLEAN
        /\ Where(norm, "recursive", found, dirs, exts, tried)
    BY <1>3, NormIsString DEF Searching
  <1>5. /\ dt = <<>> => \A h \in BOOLEAN : Where(norm, "stopped", h, dt, exts, tried)
        /\ dt # <<>> =>
              \A mode \in {"recursive", "stopped"}, h \in BOOLEAN : mode = "recursive" \/ h =>
                 Where(norm, mode, h, dt, Tail(et),
                       Append(tried, Default(Head(dt), NameOf(norm), Head(et))))
    BY <1>1, <1>2, <1>4, OneCall
  <1>6. /\ Where(norm, search', found', dirs', exts', tried')
        /\ search' \in {"recursive", "stopped"} /\ found' \in BOOLEAN
    <2>1. CASE dt = <<>>
      <3>1. Where(norm, "stopped", found, dt, exts, tried)
        BY <1>4, <1>5, <2>1
      <3> QED BY <1>3, <1>4, <2>1, <3>1
    <2>2. CASE dt # <<>>
      <3>1. /\ search' \in {"recursive", "stopped"} /\ found' \in BOOLEAN
            /\ search' = "recursive" \/ found'
        BY <1>3, <2>2
      <3>2. Where(norm, search', found', dt, Tail(et),
                  Append(tried, Default(Head(dt), NameOf(norm), Head(et))))
        BY <1>5, <2>2, <3>1
      <3> QED BY <1>3, <2>2, <3>1, <3>2
    <2> QED BY <2>1, <2>2
  <1>7. Where(norm', search', found', dirs', exts', tried')
    BY <1>3, <1>6
  <1>8. IsRooted(path') /\ ElementsOf(norm') # <<>>
    BY <1>3, <1>4
  <1> QED BY <1>6, <1>7, <1>8 DEF Searching

LEMMA SearchingNext == Normalizing /\ Searching /\ [Next]_vars => Searching'
  <1>1. SUFFICES ASSUME Normalizing, Searching, [Next]_vars PROVE Searching'
    OBVIOUS
  <1>2. CASE Skip \/ Parent \/ Element
    <2>1. /\ search = "normpath" /\ search' = search /\ norm' = norm /\ tried' = tried /\ dirs' = dirs
          /\ exts' = exts /\ found' = found
      BY <1>2 DEF Skip, Parent, Element, Reading, searching
    <2> QED BY <1>1, <2>1 DEF Searching
  <1>3. CASE Done
    <2>1. /\ search = "normpath" /\ tried' = tried /\ dirs' = dirs /\ exts' = exts /\ found' = found
          /\ path' = path /\ search' = IF IsRooted(path) THEN "first" ELSE "stopped"
      BY <1>3 DEF Done, Rooted, IsRooted
    <2>2. IsRooted(path') <=> IsRooted(path)
      BY <2>1
    <2> QED BY <1>1, <2>1, <2>2 DEF Searching
  <1>4. CASE Panic
    <2>1. /\ search = "first" /\ search' = "panic" /\ tried' = tried /\ dirs' = dirs /\ exts' = exts
          /\ found' = found /\ path' = path
      BY <1>4 DEF Panic, NoName
    <2>2. IsRooted(path') <=> IsRooted(path)
      BY <2>1
    <2> QED BY <1>1, <2>1, <2>2 DEF Searching
  <1>5. CASE UNCHANGED vars
    BY <1>1, <1>5 DEF vars, Searching
  <1> QED BY <1>1, <1>2, <1>3, <1>4, <1>5, SearchingFirst, SearchingRecursive DEF Next

LEMMA SearchingAlways == Spec => [](Normalizing /\ Searching)
  <1>1. Init => Normalizing /\ Searching
    BY NormalizingInit, SearchingInit
  <1>2. (Normalizing /\ Searching) /\ [Next]_vars => (Normalizing /\ Searching)'
    BY NormalizingNext, SearchingNext
  <1> QED BY <1>1, <1>2, PTL DEF Spec

----------------------------------------------------------------------------
(* What the invariant says of a search. *)

\* Where a .do file is, and what it would be asked to build.
SameAs(d, name, f) == f.dir \o f.sub = d /\ f.base \o f.ext = name

LEMMA EachIsARule ==
  ASSUME NEW d, NEW name, NEW bits, NEW rules, Target(d, name, bits, rules),
         NEW m, NEW k, NEW tr, TriedTo(d, name, bits, rules, tr, m, k), NEW j \in 1..Len(tr)
  PROVE  /\ SameAs(d, name, tr[j])
         /\ \E a \in 1..Len(bits) : tr[j].dir = bits[a].base
  <1>1. d \in Seq(Names) /\ BitsOf(d, bits) /\ name \in Strings /\ RulesOf(name, rules)
    BY DEF Target
  <1>2. Len(bits) \in Nat /\ Len(bits) > 0 /\ Len(bits) = Len(d) + 1
    BY TargetFacts
  <1>3. CASE j = 1
    <2>1. tr[j] = Own(d, name)
      BY <1>3 DEF TriedTo
    <2>2. SameAs(d, name, tr[j]) /\ tr[j].dir = d
      <3>1. PICK f : f = Own(d, name)
        OBVIOUS
      <3>2. d \in Seq(Names) /\ name \in Strings
        BY <1>1
      <3>3. OwnOf(d, name, f)
        BY <3>1, <3>2, OwnFacts, Zenon
      <3> QED BY <2>1, <3>1, <3>3 DEF OwnOf, SameAs
    <2>3. bits[1].base = d
      <3>1. 1 \in 1..Len(bits) /\ Len(d) + 1 - 1 = Len(d) /\ Len(d) \in Nat
        BY <1>1, <1>2
      <3>2. bits[1].base = SubSeq(d, 1, Len(d) + 1 - 1)
        BY <1>1, <3>1 DEF BitsOf
      <3>3. SubSeq(d, 1, Len(d)) = d
        BY <1>1
      <3> QED BY <3>1, <3>2, <3>3
    <2> QED BY <1>2, <2>2, <2>3
  <1>4. CASE j # 1
    <2>1. j \in 2..Len(tr)
      BY <1>4 DEF TriedTo
    <2>2. PICK a \in 1..Len(bits), b \in 1..Len(rules) : tr[j] = Default(bits[a], name, rules[b])
      BY <2>1 DEF TriedTo
    <2>3. RuleAt(d, name, rules, a, b, bits[a], tr[j])
      BY <1>1, <2>2, RuleFacts
    <2> QED BY <2>3 DEF RuleAt, SameAs
  <1> QED BY <1>3, <1>4

\* All has been tried.
AllOf(d, name, tr) ==
    /\ {tr[j].dir : j \in DOMAIN tr} = {SubSeq(d, 1, n) : n \in 0..Len(d)}
    /\ Len(tr) = 1 + (Len(d) + 1) * (Cardinality({i \in DOMAIN name : name[i] = "."}) + 1)

LEMMA AllIsTried ==
  ASSUME NEW d, NEW name, NEW bits, NEW rules, Target(d, name, bits, rules),
         NEW m, NEW k, NEW tr, NEW ds, NEW es, SearchedTo(d, name, bits, rules, ds, es, tr, m, k),
         m > Len(d) + 1
  PROVE  AllOf(d, name, tr)
  <1>1. d \in Seq(Names) /\ BitsOf(d, bits) /\ name \in Strings /\ RulesOf(name, rules)
    BY DEF Target
  <1>2. Len(d) \in Nat /\ Len(bits) = Len(d) + 1 /\ Len(rules) \in Nat
    BY <1>1, TargetFacts
  <1>3. m = Len(bits) + 1 /\ TriedTo(d, name, bits, rules, tr, m, k)
        /\ Len(tr) = 1 + (m - 1) * Len(rules) + (IF m <= Len(bits) THEN k - 1 ELSE 0)
    <2>1. m \in 1..(Len(bits) + 1)
      BY DEF SearchedTo
    <2> QED BY <1>2, <2>1 DEF SearchedTo
  <1>4. tr \in Seq(DoFiles) /\ DOMAIN tr = 1..Len(tr)
    BY <1>3 DEF TriedTo
  <1>5. Len(tr) = 1 + (Len(d) + 1) * Len(rules)
    <2>1. m - 1 = Len(d) + 1 /\ ~(m <= Len(bits))
      BY <1>2, <1>3
    <2>2. PICK x : x = (Len(d) + 1) * Len(rules)
      OBVIOUS
    <2>3. x \in Nat /\ Len(tr) = 1 + x + 0
      BY <1>2, <1>3, <2>1, <2>2
    <2> QED BY <2>2, <2>3
  <1>6. ASSUME NEW j \in DOMAIN tr PROVE tr[j].dir \in {SubSeq(d, 1, n) : n \in 0..Len(d)}
    <2>1. PICK a \in 1..Len(bits) : tr[j].dir = bits[a].base
      BY <1>3, <1>4, <1>6, EachIsARule
    <2>2. tr[j].dir = SubSeq(d, 1, Len(d) + 1 - a)
      BY <1>1, <2>1 DEF BitsOf
    <2>3. Len(d) + 1 - a \in 0..Len(d)
      BY <1>2
    <2> QED BY <2>2, <2>3
  <1>7. ASSUME NEW n \in 0..Len(d) PROVE \E j \in DOMAIN tr : tr[j].dir = SubSeq(d, 1, n)
    <2>1. PICK a : a = Len(d) + 1 - n
      OBVIOUS
    <2>2. a \in 1..Len(bits) /\ a < m /\ Len(d) + 1 - a = n
      BY <1>2, <1>3, <2>1
    <2>3. Passed(m, k, a, 1)
      BY <2>2 DEF Passed
    <2>4. \E j \in 1..Len(tr) : tr[j].dir = bits[a].base
      BY <1>3, <2>2, <2>3 DEF TriedTo
    <2>5. bits[a].base = SubSeq(d, 1, n)
      BY <1>1, <2>2 DEF BitsOf
    <2> QED BY <1>4, <2>4, <2>5
  <1>8. {tr[j].dir : j \in DOMAIN tr} = {SubSeq(d, 1, n) : n \in 0..Len(d)}
    BY <1>6, <1>7
  <1> QED BY <1>1, <1>5, <1>8 DEF RulesOf, AllOf

----------------------------------------------------------------------------
(* The theorems about the search. *)

\* The search has begun: what the state says of it.
Begun(m, k) ==
    /\ Target(DirName, FileName, PathSplits(DirName), DefaultDoFiles(FileName))
    /\ SearchedTo(DirName, FileName, PathSplits(DirName), DefaultDoFiles(FileName),
                  dirs, exts, tried, m, k)
    /\ search = "recursive" => m <= Len(DirName) + 1
    /\ search = "stopped" /\ ~found => m > Len(DirName) + 1
    /\ ElementsOf(norm) = Append(DirName, FileName) /\ ElementsOf(norm) # <<>>

LEMMA HasBegun ==
  Normalizing /\ Searching /\ search \in {"recursive", "stopped"} /\ IsRooted(path)
    => \E m, k : Begun(m, k)
  <1>1. SUFFICES ASSUME Normalizing, Searching, search \in {"recursive", "stopped"}, IsRooted(path)
                 PROVE  \E m, k : Begun(m, k)
    OBVIOUS
  <1>2. norm \in Strings /\ ElementsOf(norm) # <<>> /\ Where(norm, search, found, dirs, exts, tried)
    BY <1>1, NormIsString DEF Searching
  <1>3. DirOf(norm) = DirName /\ NameOf(norm) = FileName
    BY DEF DirOf, NameOf, DirName, FileName
  <1>4. /\ Target(DirName, FileName, PathSplits(DirName), DefaultDoFiles(FileName))
        /\ ElementsOf(norm) = Append(DirName, FileName)
    BY <1>2, <1>3, TargetOf
  <1>5. PICK m, k : /\ SearchOf(norm, dirs, exts, tried, m, k)
                    /\ search = "recursive" => m <= Len(DirOf(norm)) + 1
                    /\ search = "stopped" /\ ~found => m > Len(DirOf(norm)) + 1
    BY <1>2 DEF Where
  <1>6. Begun(m, k)
    BY <1>2, <1>3, <1>4, <1>5 DEF Begun, SearchOf
  <1> QED BY <1>6

LEMMA NotBegun ==
  Normalizing /\ Searching /\ ~(search \in {"recursive", "stopped"} /\ IsRooted(path))
    => tried = <<>> /\ dirs = <<>> /\ exts = <<>>
  BY DEF Normalizing, Searching, Modes

LEMMA SearchTypes == Normalizing /\ Searching => TypeOK
  <1>1. SUFFICES ASSUME Normalizing, Searching PROVE TypeOK
    OBVIOUS
  <1>2. NormTypeOK
    BY <1>1, NormalizingMeans
  <1>3. norm \in Seq(Symbols) /\ found \in BOOLEAN
    <2>1. CASE search = "normpath"
      <3>1. norm = <<>>
        BY <1>1, <2>1 DEF Searching
      <3> QED BY <1>1, <3>1 DEF Searching
    <2>2. CASE search # "normpath"
      BY <1>1, <2>2, NormIsString DEF Searching, Strings
    <2> QED BY <2>1, <2>2
  <1>4. PICK S : S = [base : Seq(Names), sub : Seq(Names)]
    OBVIOUS
  <1>5. dirs \in Seq(S) /\ exts \in Seq(Nat) /\ tried \in Seq(DoFiles)
    <2>1. CASE search \in {"recursive", "stopped"} /\ IsRooted(path)
      <3>1. PICK m, k : Begun(m, k)
        BY <1>1, <2>1, HasBegun
      <3>2. PICK bits : bits = PathSplits(DirName)
        OBVIOUS
      <3>3. PICK rules : rules = DefaultDoFiles(FileName)
        OBVIOUS
      <3>4. /\ Target(DirName, FileName, bits, rules)
            /\ SearchedTo(DirName, FileName, bits, rules, dirs, exts, tried, m, k)
        BY <3>1, <3>2, <3>3 DEF Begun
      <3>5. bits \in Seq(S) /\ rules \in Seq(Nat) /\ Len(bits) \in Nat /\ Len(rules) \in Nat
        BY <1>4, <3>4, TargetFacts
      <3>6. /\ m \in 1..(Len(bits) + 1) /\ k \in 1..(Len(rules) + 1)
            /\ dirs = SubSeq(bits, m, Len(bits)) /\ exts = SubSeq(rules, k, Len(rules))
            /\ tried \in Seq(DoFiles)
        BY <3>4 DEF SearchedTo, TriedTo
      <3>7. dirs \in Seq(S)
        BY <3>5, <3>6
      <3>8. exts \in Seq(Nat)
        BY <3>5, <3>6, RestType, Zenon
      <3> QED BY <3>6, <3>7, <3>8
    <2>2. CASE ~(search \in {"recursive", "stopped"} /\ IsRooted(path))
      <3>1. tried = <<>> /\ dirs = <<>> /\ exts = <<>>
        BY <1>1, <2>2, NotBegun
      <3> QED BY <3>1
    <2> QED BY <2>1, <2>2
  <1> QED BY <1>2, <1>3, <1>4, <1>5 DEF TypeOK, NormTypeOK, Modes

\* normpath() never reads past the end of the path, writes no more than it has
\* read, and never cuts off more than it wrote; what the iterator of
\* possible_do_files() hands out are rules, and it holds directories and
\* positions of extensions until the end.
THEOREM TypeCorrect == Spec => []TypeOK
  BY SearchingAlways, SearchTypes, PTL

LEMMA SearchIsSorted == Normalizing /\ Searching => NearestFirst
  <1>1. SUFFICES ASSUME Normalizing, Searching PROVE NearestFirst
    OBVIOUS
  <1>2. CASE search \in {"recursive", "stopped"} /\ IsRooted(path)
    <2>1. PICK m, k : Begun(m, k)
      BY <1>1, <1>2, HasBegun
    <2> QED BY <2>1 DEF Begun, SearchedTo, TriedTo, Sorted, NearestFirst
  <1>3. CASE ~(search \in {"recursive", "stopped"} /\ IsRooted(path))
    <2>1. tried = <<>>
      BY <1>1, <1>3, NotBegun
    <2> QED BY <2>1 DEF NearestFirst
  <1> QED BY <1>2, <1>3

\* possible_do_files(): a rule of a directory comes before those of its parent,
\* and the rule for the longer extension before that for the shorter one.
THEOREM AlwaysNearestFirst == Spec => []NearestFirst
  BY SearchingAlways, SearchIsSorted, PTL

LEMMA SearchKeepsTarget == Normalizing /\ Searching => SameTarget
  <1>1. SUFFICES ASSUME Normalizing, Searching PROVE SameTarget
    OBVIOUS
  <1>2. CASE search \in {"recursive", "stopped"} /\ IsRooted(path)
    <2>1. PICK m, k : Begun(m, k)
      BY <1>1, <1>2, HasBegun
    <2>2. PICK bits : bits = PathSplits(DirName)
      OBVIOUS
    <2>3. PICK rules : rules = DefaultDoFiles(FileName)
      OBVIOUS
    <2>4. /\ Target(DirName, FileName, bits, rules)
          /\ TriedTo(DirName, FileName, bits, rules, tried, m, k)
          /\ ElementsOf(norm) = Append(DirName, FileName)
      BY <2>1, <2>2, <2>3 DEF Begun, SearchedTo
    <2>5. DOMAIN tried = 1..Len(tried)
      BY <2>4 DEF TriedTo
    <2>6. DirName \in Seq(Names) /\ FileName \in Strings
      BY <2>4 DEF Target
    <2>7. Append(DirName, FileName) = DirName \o <<FileName>>
      BY <2>6
    <2>8. ASSUME NEW j \in DOMAIN tried
          PROVE  tried[j].dir \o tried[j].sub \o <<tried[j].base \o tried[j].ext>> = ElementsOf(norm)
      <3>1. SameAs(DirName, FileName, tried[j])
        BY <2>4, <2>5, <2>8, EachIsARule
      <3>2. tried[j].dir \o tried[j].sub = DirName /\ tried[j].base \o tried[j].ext = FileName
        BY <3>1 DEF SameAs
      <3> QED BY <2>4, <2>7, <3>2
    <2> QED BY <2>8 DEF SameTarget
  <1>3. CASE ~(search \in {"recursive", "stopped"} /\ IsRooted(path))
    <2>1. tried = <<>>
      BY <1>1, <1>3, NotBegun
    <2> QED BY <2>1 DEF SameTarget
  <1> QED BY <1>2, <1>3

\* possible_do_files(): every rule builds, in its directory, what was asked for.
THEOREM AlwaysSameTarget == Spec => []SameTarget
  BY SearchingAlways, SearchKeepsTarget, PTL

LEMMA SearchIsComplete == Normalizing /\ Searching => NothingLeftOut
  <1>1. SUFFICES ASSUME Normalizing, Searching, search = "stopped", Rooted, ~found
                 PROVE  /\ {tried[j].dir : j \in DOMAIN tried}
                              = {SubSeq(DirName, 1, n) : n \in 0..Len(DirName)}
                        /\ Len(tried) = 1 + (Len(DirName) + 1)
                              * (Cardinality({i \in DOMAIN FileName : FileName[i] = "."}) + 1)
    BY DEF NothingLeftOut
  <1>2. PICK m, k : Begun(m, k)
    BY <1>1, HasBegun DEF Rooted, IsRooted
  <1>3. PICK bits : bits = PathSplits(DirName)
    OBVIOUS
  <1>4. PICK rules : rules = DefaultDoFiles(FileName)
    OBVIOUS
  <1>5. /\ Target(DirName, FileName, bits, rules)
        /\ SearchedTo(DirName, FileName, bits, rules, dirs, exts, tried, m, k)
        /\ m > Len(DirName) + 1
    BY <1>1, <1>2, <1>3, <1>4 DEF Begun
  <1>6. AllOf(DirName, FileName, tried)
    BY <1>5, AllIsTried, Zenon
  <1> QED BY <1>6 DEF AllOf

\* find_do_file(): there is no rule for a target only if no directory above it
\* has one, for any of its extensions.
THEOREM AlwaysNothingLeftOut == Spec => []NothingLeftOut
  BY SearchingAlways, SearchIsComplete, PTL

LEMMA SearchIsWhere == Normalizing /\ Searching => SearchInv
  <1>1. SUFFICES ASSUME Normalizing, Searching PROVE SearchInv
    OBVIOUS
  <1>2. Rooted <=> IsRooted(path)
    BY DEF Rooted, IsRooted
  <1>3. /\ search \in {"normpath", "first", "panic"} => tried = <<>>
        /\ search \in {"first", "recursive", "panic"} => Rooted
        /\ search \in {"recursive", "stopped"} /\ ~Rooted => tried = <<>>
    BY <1>1, <1>2 DEF Searching
  <1>4. ASSUME search \in {"recursive", "stopped"}, Rooted
        PROVE  /\ ~(ElementsOf(norm) = <<>>)
               /\ \E m \in 1..(Len(DirName) + 2), k \in 1..(Len(DefaultDoFiles(FileName)) + 1) :
                     Reached(m, k)
    <2>1. PICK m, k : Begun(m, k)
      BY <1>1, <1>2, <1>4, HasBegun
    <2> DEFINE bits == PathSplits(DirName)
               rules == DefaultDoFiles(FileName)
    <2>2. /\ Target(DirName, FileName, bits, rules)
          /\ SearchedTo(DirName, FileName, bits, rules, dirs, exts, tried, m, k)
          /\ search = "recursive" => m <= Len(DirName) + 1
          /\ search = "stopped" /\ ~found => m > Len(DirName) + 1
          /\ ElementsOf(norm) # <<>>
      BY <2>1 DEF Begun
    <2> HIDE DEF bits, rules
    <2>3. /\ Len(bits) = Len(DirName) + 1 /\ Len(bits) \in Nat
          /\ bits \in Seq([base : Seq(Names), sub : Seq(Names)]) /\ rules \in Seq(Nat)
      BY <2>2, TargetFacts
    <2>4. DOMAIN bits = 1..Len(bits) /\ DOMAIN rules = 1..Len(rules)
      BY <2>3
    <2>5. Len(DirName) \in Nat
      <3>1. DirName \in Seq(Names)
        BY <2>2 DEF Target
      <3> QED BY <3>1
    <2>6. m \in 1..(Len(DirName) + 2) /\ k \in 1..(Len(rules) + 1)
      <3>1. m \in 1..(Len(bits) + 1) /\ k \in 1..(Len(rules) + 1)
        BY <2>2 DEF SearchedTo
      <3>2. Len(bits) + 1 = Len(DirName) + 2
        BY <2>3, <2>5
      <3> QED BY <3>1, <3>2
    <2>7. /\ dirs = SubSeq(bits, m, Len(bits)) /\ exts = SubSeq(rules, k, Len(rules))
          /\ m <= Len(bits) \/ k > Len(rules)
          /\ Len(tried) = 1 + (m - 1) * Len(rules) + (IF m <= Len(bits) THEN k - 1 ELSE 0)
          /\ tried[1] = Own(DirName, FileName)
          /\ \A j \in 2..Len(tried) : \E a \in 1..Len(bits), b \in 1..Len(rules) :
                Passed(m, k, a, b) /\ tried[j] = Default(bits[a], FileName, rules[b])
          /\ \A a \in 1..Len(bits) :
                Passed(m, k, a, 1) => \E j \in 1..Len(tried) : tried[j].dir = bits[a].base
          /\ DOMAIN tried = 1..Len(tried)
      BY <2>2 DEF SearchedTo, TriedTo
    <2>8. /\ search = "recursive" => m <= Len(bits)
          /\ search = "stopped" /\ ~found => m > Len(bits)
      BY <2>2, <2>3
    <2>9. Reached(m, k)
      <3>1. \A j \in 2..Len(tried) : \E a \in DOMAIN bits, b \in DOMAIN rules :
               Passed(m, k, a, b) /\ tried[j] = Default(bits[a], FileName, rules[b])
        <4> SUFFICES ASSUME NEW j \in 2..Len(tried)
                     PROVE  \E a \in DOMAIN bits, b \in DOMAIN rules :
                               Passed(m, k, a, b) /\ tried[j] = Default(bits[a], FileName, rules[b])
          OBVIOUS
        <4>1. PICK a \in 1..Len(bits), b \in 1..Len(rules) :
                 Passed(m, k, a, b) /\ tried[j] = Default(bits[a], FileName, rules[b])
          BY <2>7
        <4>2. a \in DOMAIN bits /\ b \in DOMAIN rules
          BY <2>4
        <4> QED BY <4>1, <4>2
      <3>2. \A a \in DOMAIN bits :
               Passed(m, k, a, 1) => \E j \in DOMAIN tried : tried[j].dir = bits[a].base
        BY <2>4, <2>7
      <3> QED BY <2>7, <2>8, <3>1, <3>2, Zenon DEF Reached, bits, rules
    <2> QED BY <2>2, <2>6, <2>9 DEF rules
  <1> QED BY <1>3, <1>4 DEF SearchInv

\* The inductive invariant of normpath() and the search together.
THEOREM PathsInvAlways == Spec => []PathsInv
  <1>1. Normalizing /\ Searching => PathsInv
    BY NormalizingMeans, SearchTypes, SearchIsSorted, SearchIsWhere DEF PathsInv
  <1> QED BY <1>1, SearchingAlways, PTL

----------------------------------------------------------------------------
(* What redo-whichdo prints. *)

\* An absolute directory as a place.
Under(dir) == [rooted |-> TRUE, up |-> 0, down |-> dir]

LEMMA Moved ==
  ASSUME NEW x \in Seq(Names), NEW y \in Seq(Names), NEW p, p = Under(x)
  PROVE  p.down = x /\ [p EXCEPT !.down = y] = Under(y)
  <1>1. p \in Places /\ p.rooted = TRUE /\ p.up = 0 /\ p.down = x
    BY DEF Under, Places
  <1>2. PICK q : q = Under(y)
    OBVIOUS
  <1>3. q \in Places /\ q.rooted = TRUE /\ q.up = 0 /\ q.down = y
    BY <1>2 DEF Under, Places
  <1>4. [p EXCEPT !.down = y] = q
    BY <1>1, <1>3 DEF Places
  <1> QED BY <1>1, <1>2, <1>4

LEMMA UpOne ==
  ASSUME NEW dir \in Seq(Names), NEW k \in 1..Len(dir)
  PROVE  Step(Under(SubSeq(dir, 1, k)), <<".", ".">>) = Under(SubSeq(dir, 1, k - 1))
  <1>1. PICK x : x = SubSeq(dir, 1, k)
    OBVIOUS
  <1>2. PICK y : y = SubSeq(dir, 1, k - 1)
    OBVIOUS
  <1>3. Len(dir) \in Nat /\ k \in Nat /\ k <= Len(dir) /\ k >= 1
    OBVIOUS
  <1>4. x \in Seq(Names) /\ Len(x) = k /\ \A i \in 1..k : x[i] = dir[i]
    BY <1>1, <1>3
  <1>5. y \in Seq(Names) /\ Len(y) = k - 1 /\ \A i \in 1..(k - 1) : y[i] = dir[i]
    BY <1>2, <1>3
  <1>6. x # <<>>
    BY <1>3, <1>4, EmptySeq
  <1>7. Front(x) = y
    <2>1. PICK z : z = SubSeq(x, 1, k - 1)
      OBVIOUS
    <2>2. z \in Seq(Names) /\ Len(z) = k - 1 /\ \A i \in 1..(k - 1) : z[i] = x[i]
      BY <1>3, <1>4, <2>1
    <2>3. z = y
      BY <1>3, <1>4, <1>5, <2>2
    <2> QED BY <1>4, <2>1, <2>3 DEF Front
  <1>8. PICK p : p = Under(x)
    OBVIOUS
  <1>9. p.down = x /\ [p EXCEPT !.down = Front(p.down)] = Under(y)
    <2>1. p.down = x
      BY <1>8, <1>4, <1>5, Moved
    <2>2. [p EXCEPT !.down = y] = Under(y)
      BY <1>8, <1>4, <1>5, Moved
    <2> QED BY <1>7, <2>1, <2>2
  <1>10. Step(p, <<".", ".">>) = [p EXCEPT !.down = Front(p.down)]
    <2>1. <<".", ".">> # <<".">>
      OBVIOUS
    <2> QED BY <1>6, <1>9, <2>1 DEF Step
  <1> QED BY <1>1, <1>2, <1>8, <1>9, <1>10

LEMMA DownOne ==
  ASSUME NEW dir \in Seq(Names), NEW k \in 0..(Len(dir) - 1), Plain(dir[k + 1])
  PROVE  Step(Under(SubSeq(dir, 1, k)), dir[k + 1]) = Under(SubSeq(dir, 1, k + 1))
  <1>1. PICK x : x = SubSeq(dir, 1, k)
    OBVIOUS
  <1>2. PICK y : y = SubSeq(dir, 1, k + 1)
    OBVIOUS
  <1>3. Len(dir) \in Nat /\ k \in Nat /\ k + 1 <= Len(dir) /\ dir[k + 1] \in Names
    OBVIOUS
  <1>4. x \in Seq(Names) /\ Len(x) = k /\ \A i \in 1..k : x[i] = dir[i]
    BY <1>1, <1>3
  <1>5. y \in Seq(Names) /\ Len(y) = k + 1 /\ \A i \in 1..(k + 1) : y[i] = dir[i]
    BY <1>2, <1>3
  <1>6. Append(x, dir[k + 1]) = y
    <2>1. PICK z : z = Append(x, dir[k + 1])
      OBVIOUS
    <2>2. z \in Seq(Names) /\ Len(z) = k + 1 /\ z[k + 1] = dir[k + 1] /\ \A i \in 1..k : z[i] = x[i]
      BY <1>3, <1>4, <2>1, AppendFacts
    <2>3. \A i \in 1..(k + 1) : i = k + 1 \/ i \in 1..k
      BY <1>3
    <2>4. \A i \in 1..(k + 1) : z[i] = y[i]
      BY <1>4, <1>5, <2>2, <2>3
    <2> QED BY <1>5, <2>1, <2>2, <2>4
  <1>7. PICK p : p = Under(x)
    OBVIOUS
  <1>8. PICK e : e = dir[k + 1]
    OBVIOUS
  <1>9. p.down = x /\ [p EXCEPT !.down = Append(p.down, e)] = Under(y)
    <2>1. p.down = x
      BY <1>7, <1>4, <1>5, Moved
    <2>2. [p EXCEPT !.down = y] = Under(y)
      BY <1>7, <1>4, <1>5, Moved
    <2> QED BY <1>6, <1>8, <2>1, <2>2
  <1>10. Step(p, e) = [p EXCEPT !.down = Append(p.down, e)]
    BY <1>8 DEF Step, Plain
  <1> QED BY <1>1, <1>2, <1>7, <1>8, <1>9, <1>10

\* Up out of cwd, as far as what it has in common with d, and down into d.
UpAndDown(d, cwd, n, es) ==
    /\ n \in Nat /\ n <= Len(d) /\ n <= Len(cwd) /\ SubSeq(d, 1, n) = SubSeq(cwd, 1, n)
    /\ es \in Seq(Names) /\ Len(es) = (Len(cwd) - n) + (Len(d) - n)
    /\ \A i \in 1..(Len(cwd) - n) : es[i] = <<".", ".">>
    /\ \A i \in 1..(Len(d) - n) : es[(Len(cwd) - n) + i] = d[n + i]

LEMMA RelpathFacts ==
  ASSUME NEW d \in Seq(Names), NEW cwd \in Seq(Names), NEW es, es = Relpath(d, cwd)
  PROVE  \E n : UpAndDown(d, cwd, n, es)
  <1> DEFINE common == {i \in 0..Len(d) : i <= Len(cwd) /\ SubSeq(d, 1, i) = SubSeq(cwd, 1, i)}
             m == CHOOSE i \in common : \A j \in common : j <= i
  <1>1. Len(d) \in Nat /\ Len(cwd) \in Nat
    OBVIOUS
  <1>2. common \subseteq 0..Len(d) /\ common # {}
    <2>1. SubSeq(d, 1, 0) = <<>> /\ SubSeq(cwd, 1, 0) = <<>>
      OBVIOUS
    <2>2. 0 \in common
      BY <1>1, <2>1
    <2> QED BY <2>2
  <1>3. m \in common
    <2> HIDE DEF common
    <2>1. \E i \in common : \A j \in common : j <= i
      BY <1>1, <1>2, Greatest
    <2> QED BY <2>1
  <1>4. PICK n : n = m
    OBVIOUS
  <1>5. n \in Nat /\ n <= Len(d) /\ n <= Len(cwd) /\ SubSeq(d, 1, n) = SubSeq(cwd, 1, n)
    <2>1. n \in common
      BY <1>3, <1>4
    <2> HIDE DEF m
    <2> QED BY <1>1, <2>1
  <1>6. PICK up : up = [i \in 1..(Len(cwd) - n) |-> <<".", ".">>]
    OBVIOUS
  <1>7. PICK down : down = SubSeq(d, n + 1, Len(d))
    OBVIOUS
  <1>8. es = up \o down
    BY <1>4, <1>6, <1>7 DEF Relpath
  <1> HIDE DEF m, common
  <1>9. PICK u \in Nat : u = Len(cwd) - n
    <2>1. Len(cwd) - n \in Nat
      BY <1>1, <1>5, LessBy
    <2> QED BY <2>1
  <1>10. up \in Seq(Names) /\ Len(up) = u /\ \A i \in 1..u : up[i] = <<".", ".">>
    <2>1. PICK e : e = <<".", ".">>
      OBVIOUS
    <2>2. e \in Names
      BY <2>1 DEF Names, Symbols
    <2>3. up = [i \in 1..u |-> e]
      BY <1>6, <1>9, <2>1
    <2> QED BY <2>1, <2>2, <2>3
  <1>11. /\ down \in Seq(Names) /\ Len(down) = Len(d) - n
         /\ \A i \in 1..(Len(d) - n) : down[i] = d[n + i]
    BY <1>1, <1>5, <1>7
  <1>12. /\ es \in Seq(Names) /\ Len(es) = u + (Len(d) - n)
         /\ \A i \in 1..u : es[i] = <<".", ".">>
         /\ \A i \in 1..(Len(d) - n) : es[u + i] = d[n + i]
    <2>1. /\ es \in Seq(Names) /\ Len(es) = Len(up) + Len(down)
          /\ \A i \in 1..Len(up) : es[i] = up[i]
          /\ \A i \in 1..Len(down) : es[Len(up) + i] = down[i]
      <3>1. up \in Seq(Names) /\ down \in Seq(Names)
        BY <1>10, <1>11
      <3> QED BY <1>8, <3>1, ConcatProperties
    <2> QED BY <1>10, <1>11, <2>1
  <1>13. UpAndDown(d, cwd, n, es)
    BY <1>5, <1>9, <1>12 DEF UpAndDown
  <1> QED BY <1>13

LEMMA WalkThere ==
  ASSUME NEW d \in Seq(Names), \A i \in 1..Len(d) : Plain(d[i]),
         NEW cwd \in Seq(Names), NEW n, NEW es, UpAndDown(d, cwd, n, es)
  PROVE  Walk(Under(cwd), es) = Under(d)
  <1>1. Under(cwd) \in Places /\ es \in Seq(Names)
    BY DEF Under, Places, UpAndDown
  <1>2. PICK w : Way(Under(cwd), es, w) /\ Walk(Under(cwd), es) = w[Len(es)]
    BY <1>1, WalkFacts
  <1>3. PICK c \in Nat : c = Len(cwd)
    OBVIOUS
  <1>4. PICK l \in Nat : l = Len(d)
    OBVIOUS
  <1>5. /\ n \in Nat /\ n <= l /\ n <= c /\ SubSeq(d, 1, n) = SubSeq(cwd, 1, n)
        /\ Len(es) = (c - n) + (l - n)
        /\ \A i \in 1..(c - n) : es[i] = <<".", ".">>
        /\ \A i \in 1..(l - n) : es[(c - n) + i] = d[n + i]
    BY <1>3, <1>4 DEF UpAndDown
  <1>6. w[0] = Under(cwd) /\ \A i \in 1..((c - n) + (l - n)) : w[i] = Step(w[i - 1], es[i])
    BY <1>2, <1>5 DEF Way
  <1> DEFINE U == {m \in Nat : m <= c - n => w[m] = Under(SubSeq(cwd, 1, c - m))}
             D == {m \in Nat : m <= l - n => w[(c - n) + m] = Under(SubSeq(d, 1, n + m))}
  <1>7. 0 \in U
    <2>1. SubSeq(cwd, 1, c) = cwd /\ c - 0 = c
      BY <1>3
    <2> QED BY <1>6, <2>1
  <1>8. ASSUME NEW m \in Nat, m \in U PROVE m + 1 \in U
    <2>1. SUFFICES ASSUME m + 1 <= c - n PROVE w[m + 1] = Under(SubSeq(cwd, 1, c - (m + 1)))
      OBVIOUS
    <2>2. /\ m <= c - n /\ m + 1 \in 1..(c - n) /\ m + 1 \in 1..((c - n) + (l - n))
          /\ (m + 1) - 1 = m /\ c - m \in 1..c /\ (c - m) - 1 = c - (m + 1)
      BY <1>5, <2>1
    <2>3. w[m] = Under(SubSeq(cwd, 1, c - m))
      BY <1>8, <2>2
    <2>4. w[m + 1] = Step(w[m], <<".", ".">>)
      BY <1>5, <1>6, <2>2
    <2>5. PICK k \in 1..Len(cwd) : k = c - m
      BY <1>3, <2>2
    <2>6. Step(Under(SubSeq(cwd, 1, k)), <<".", ".">>) = Under(SubSeq(cwd, 1, k - 1))
      BY UpOne
    <2> QED BY <2>2, <2>3, <2>4, <2>5, <2>6
  <1>9. Nat \subseteq U
    <2> HIDE DEF U
    <2> QED BY <1>7, <1>8, SetInduction
  <1>10. 0 \in D
    <2>1. c - n \in Nat /\ c - n <= c - n /\ c - (c - n) = n /\ (c - n) + 0 = c - n /\ n + 0 = n
      BY <1>5
    <2>2. w[c - n] = Under(SubSeq(cwd, 1, c - (c - n)))
      BY <1>9, <2>1
    <2> QED BY <1>5, <2>1, <2>2
  <1>11. ASSUME NEW m \in Nat, m \in D PROVE m + 1 \in D
    <2>1. SUFFICES ASSUME m + 1 <= l - n
                   PROVE  w[(c - n) + (m + 1)] = Under(SubSeq(d, 1, n + (m + 1)))
      OBVIOUS
    <2>2. /\ m <= l - n /\ m + 1 \in 1..(l - n) /\ (c - n) + (m + 1) \in 1..((c - n) + (l - n))
          /\ ((c - n) + (m + 1)) - 1 = (c - n) + m /\ n + m \in 0..(l - 1)
          /\ n + (m + 1) = (n + m) + 1 /\ n + (m + 1) \in 1..l
      <3>1. n \in Nat /\ n <= l /\ n <= c
        BY <1>5
      <3>2. m <= l - n /\ m + 1 \in 1..(l - n) /\ n + m \in 0..(l - 1) /\ n + (m + 1) \in 1..l
        BY <2>1, <3>1
      <3>3. (c - n) + (m + 1) \in 1..((c - n) + (l - n))
        BY <2>1, <3>1
      <3>4. ((c - n) + (m + 1)) - 1 = (c - n) + m /\ n + (m + 1) = (n + m) + 1
        BY <3>1
      <3> QED BY <3>2, <3>3, <3>4
    <2>3. w[(c - n) + m] = Under(SubSeq(d, 1, n + m))
      BY <1>11, <2>2
    <2>4. w[(c - n) + (m + 1)] = Step(w[(c - n) + m], d[n + (m + 1)])
      BY <1>5, <1>6, <2>2
    <2>5. PICK k \in 0..(Len(d) - 1) : k = n + m
      BY <1>4, <2>2
    <2>6. Plain(d[k + 1])
      BY <1>4, <2>2, <2>5
    <2>7. Step(Under(SubSeq(d, 1, k)), d[k + 1]) = Under(SubSeq(d, 1, k + 1))
      BY <2>6, DownOne
    <2> QED BY <2>2, <2>3, <2>4, <2>5, <2>7
  <1>12. Nat \subseteq D
    <2> HIDE DEF D
    <2> QED BY <1>10, <1>11, SetInduction
  <1>13. w[Len(es)] = Under(d)
    <2>1. l - n \in Nat /\ l - n <= l - n /\ n + (l - n) = l
      BY <1>5
    <2>2. w[(c - n) + (l - n)] = Under(SubSeq(d, 1, n + (l - n)))
      BY <1>12, <2>1
    <2>3. SubSeq(d, 1, l) = d
      BY <1>4
    <2> QED BY <1>5, <2>1, <2>2, <2>3
  <1> QED BY <1>2, <1>13

LEMMA RootedIsPlain ==
  ASSUME Normalizing, search # "normpath", IsRooted(path)
  PROVE  \A i \in DOMAIN ElementsOf(norm) : Plain(ElementsOf(norm)[i])
  <1>1. Normed(path, read, out, dotdot) /\ norm = IF out.w = 0 THEN <<".">> ELSE Text(path, out)
    BY DEF Normalizing
  <1>2. out.w # 0
    BY <1>1, NormedType DEF Base
  <1>3. NoDots(IsRooted(path), ElementsOf(norm))
    BY <1>1, <1>2 DEF Normed, Shape
  <1> QED BY <1>3 DEF NoDots, Plain

LEMMA SearchLeadsThere == Normalizing /\ Searching => LeadsThere
  <1>1. SUFFICES ASSUME Normalizing, Searching, tried # <<>>, NEW cwd \in Cwds
                 PROVE  Walk(Under(cwd), Relpath(Last(tried).dir, cwd)).down = Last(tried).dir
    BY DEF LeadsThere, Under
  <1>2. search \in {"recursive", "stopped"} /\ IsRooted(path)
    BY <1>1, NotBegun
  <1>3. PICK m, k : Begun(m, k)
    BY <1>1, <1>2, HasBegun
  <1>4. PICK bits : bits = PathSplits(DirName)
    OBVIOUS
  <1>5. PICK rules : rules = DefaultDoFiles(FileName)
    OBVIOUS
  <1>6. /\ Target(DirName, FileName, bits, rules)
        /\ TriedTo(DirName, FileName, bits, rules, tried, m, k)
        /\ ElementsOf(norm) = Append(DirName, FileName)
    BY <1>3, <1>4, <1>5 DEF Begun, SearchedTo
  <1>7. PICK d : d = Last(tried).dir
    OBVIOUS
  <1>8. PICK a \in 1..Len(bits) : d = bits[a].base
    <2>1. Len(tried) \in 1..Len(tried) /\ Last(tried) = tried[Len(tried)]
      BY <1>6 DEF TriedTo, Last
    <2> QED BY <1>6, <1>7, <2>1, EachIsARule
  <1>9. /\ DirName \in Seq(Names) /\ FileName \in Strings
        /\ Len(bits) = Len(DirName) + 1 /\ Len(DirName) \in Nat
        /\ d = SubSeq(DirName, 1, Len(DirName) + 1 - a)
    <2>1. BitsOf(DirName, bits) /\ DirName \in Seq(Names) /\ FileName \in Strings
      BY <1>6 DEF Target
    <2>2. Len(DirName) \in Nat
      BY <2>1
    <2> QED BY <1>8, <2>1, <2>2 DEF BitsOf
  <1>10. PICK n : n = Len(DirName) + 1 - a
    OBVIOUS
  <1>11. n \in 0..Len(DirName)
    BY <1>9, <1>10
  <1>12. d \in Seq(Names) /\ Len(d) = n /\ \A i \in 1..n : d[i] = DirName[i]
    BY <1>9, <1>10, <1>11
  <1>13. \A i \in 1..Len(d) : Plain(d[i])
    <2>1. SUFFICES ASSUME NEW i \in 1..n PROVE Plain(DirName[i])
      BY <1>12
    <2>2. i \in 1..Len(DirName)
      BY <1>11
    <2>3. i \in DOMAIN ElementsOf(norm) /\ ElementsOf(norm)[i] = DirName[i]
      BY <1>6, <1>9, <2>2
    <2>4. \A j \in DOMAIN ElementsOf(norm) : Plain(ElementsOf(norm)[j])
      BY <1>1, <1>2, RootedIsPlain
    <2> QED BY <2>3, <2>4
  <1>14. cwd \in Seq(Names)
    <2>1. PathStrings \ {<<>>} \subseteq Names
      BY PathIsString DEF Strings, Names
    <2>2. cwd \in Seq(PathStrings \ {<<>>})
      BY <1>1, PathAssumption
    <2> QED BY <2>1, <2>2
  <1>15. PICK es : es = Relpath(d, cwd)
    OBVIOUS
  <1>16. PICK j : UpAndDown(d, cwd, j, es)
    BY <1>12, <1>14, <1>15, RelpathFacts
  <1>17. Walk(Under(cwd), es) = Under(d)
    BY <1>12, <1>13, <1>14, <1>16, WalkThere
  <1> QED BY <1>7, <1>15, <1>17 DEF Under

\* redo-whichdo: what is printed for a .do file, relpath() of it, leads there
\* from the current directory, whatever that is.
THEOREM AlwaysLeadsThere == Spec => []LeadsThere
  BY SearchingAlways, SearchLeadsThere, PTL
=============================================================================
