---------------------------- MODULE RebuildProofs ----------------------------
(***************************************************************************)
(* A run that ends with success is one in which nothing failed and no job  *)
(* was left behind, for every tree, every number of runs and of jobs, and  *)
(* whatever is_dirty() answers.                                            *)
(***************************************************************************)
EXTENDS Rebuild, FiniteSetTheorems, TLAPS

(* Processes whose data are of any kind D. *)
JobOver(D) ==
    [at : Places, by : Procs, left : BOOLEAN, todo : D, bad : BOOLEAN, need : D, sf : D,
     before : D, out : D]

JobsOver(D) == [Procs -> JobOver(D)]

Shape ==
    /\ \E D : job \in JobsOver(D)
    /\ disk = [f \in Names |-> disk[f]]
    /\ reason \in BOOLEAN

(* Whoever started a job waits for it, or has left it behind. *)
Parents == \A c \in Slots : Held(c) => job[job[c].by].at \in Asking

(* The locks: a target has one job that will be recorded. *)
OneHolder == \A c, e \in Slots : Held(c) /\ Held(e) /\ Of[c] = Of[e] => c = e

(* This process will report a failure. *)
Doomed(p) ==
    /\ Alive(p)
    /\ job[p].bad \/ (p \in Slots /\ Held(p) /\ job[p].at = "exit" /\ DirectlyModified(p))

RenamedWell == \A c \in Slots : job[c].at = "renamed" => ~job[c].bad /\ ~job[c].left

(* The command of the user, its jobs, their jobs, and perhaps others: all  *)
(* those whose end the command is going to hear of are in such a set.      *)
Family(F) == F \in SUBSET Procs /\ Root \in F /\ \A p \in F : Children(p) \subseteq F

Trouble(F) == reason \/ \E p \in Procs \ F : Alive(p)

(* What failed in this run, or was left behind, is still known to someone  *)
(* whom the command listens to.                                            *)
Blame == Alive(Root) => \A F : Family(F) /\ Trouble(F) => \E p \in F : Doomed(p)

Reported == result # "none" => ~Alive(Root)

HInv ==
    /\ Shape /\ Parents /\ OneHolder /\ RenamedWell /\ Blame
    /\ Reported /\ NoFalseSuccess /\ NothingLeft

----------------------------------------------------------------------------
(* A step of process t: it goes to a place, may have learnt of a failure,  *)
(* and may leave some jobs behind.                                         *)
Becomes(t, place, bad, gone) ==
    /\ \E D : job' \in JobsOver(D)
    /\ \A p \in Procs : /\ job'[p].by = job[p].by /\ job'[p].before = job[p].before
                        /\ job'[p].left = (job[p].left \/ p \in gone)
    /\ \A p \in Procs \ {t} : job'[p].at = job[p].at /\ job'[p].bad = job[p].bad
    /\ job'[t].at = place /\ job'[t].bad = bad

LEMMA Moves ==
    ASSUME Shape, NEW t \in Procs, NEW place \in Places, NEW x, NEW bad \in BOOLEAN,
           \/ job' = [job EXCEPT ![t].at = place] /\ bad = job[t].bad
           \/ job' = [job EXCEPT ![t].at = place, ![t].todo = x] /\ bad = job[t].bad
           \/ job' = [job EXCEPT ![t].at = place, ![t].out = x] /\ bad = job[t].bad
           \/ job' = [job EXCEPT ![t].at = place, ![t].bad = bad]
    PROVE  Becomes(t, place, bad, {})
<1>1. PICK D : job \in JobsOver(D)
  BY DEF Shape
<1>2. job' \in JobsOver(D \cup {x})
  <2>1. CASE job' = [job EXCEPT ![t].at = place]
    BY <1>1, <2>1 DEF JobsOver, JobOver
  <2>2. CASE job' = [job EXCEPT ![t].at = place, ![t].todo = x]
    BY <1>1, <2>2 DEF JobsOver, JobOver
  <2>3. CASE job' = [job EXCEPT ![t].at = place, ![t].out = x]
    BY <1>1, <2>3 DEF JobsOver, JobOver
  <2>4. CASE job' = [job EXCEPT ![t].at = place, ![t].bad = bad]
    <3>1. PICK K \in JobOver(D \cup {x}) : K = job[t]
      BY <1>1 DEF JobsOver, JobOver
    <3>2. PICK J \in JobOver(D \cup {x}) : J = [K EXCEPT !.at = place, !.bad = bad]
      BY DEF JobOver
    <3>3. job' = [job EXCEPT ![t] = J]
      BY <1>1, <2>4, <3>1, <3>2 DEF JobsOver
    <3>4. job \in [Procs -> JobOver(D \cup {x})]
      BY <1>1 DEF JobsOver, JobOver
    <3> QED BY <3>2, <3>3, <3>4 DEF JobsOver
  <2> QED
    BY <2>1, <2>2, <2>3, <2>4
<1>3. \A p \in Procs \ {t} : job'[p] = job[p]
  BY <1>1 DEF JobsOver, JobOver
<1>4. job'[t].at = place /\ job'[t].bad = bad
  BY <1>1 DEF JobsOver, JobOver
<1>5. /\ job'[t].by = job[t].by /\ job'[t].before = job[t].before
      /\ job'[t].left = job[t].left
  BY <1>1 DEF JobsOver, JobOver
<1>6. \A p \in Procs : job'[p].left \in BOOLEAN /\ job[p].left \in BOOLEAN
  BY <1>1, <1>2 DEF JobsOver, JobOver
<1> QED
  BY <1>2, <1>3, <1>4, <1>5, <1>6 DEF Becomes

LEMMA Wider ==
    ASSUME NEW D, NEW G, D \subseteq G
    PROVE  JobOver(D) \subseteq JobOver(G)
BY DEF JobOver

LEMMA PutShape ==
    ASSUME NEW D, NEW G, D \subseteq G, NEW F \in JobsOver(D), NEW t \in Procs,
           NEW J \in JobOver(G)
    PROVE  [F EXCEPT ![t] = J] \in JobsOver(G)
BY Wider DEF JobsOver

LEMMA DoneShape ==
    ASSUME NEW D, job \in JobsOver(D), NEW p \in Procs, NEW t
    PROVE  Done(p, t) \in JobsOver(D \cup {job[p].todo \ {t}})
<1> DEFINE todo == job[p].todo \ {t}
           E == D \cup {todo}
<1>1. Done(p, t) = [job EXCEPT ![p].todo = todo]
  BY DEF Done
<1>2. todo \in E /\ D \subseteq E
  OBVIOUS
<1> HIDE DEF E, todo
<1>3. Done(p, t) \in JobsOver(E)
  BY <1>1, <1>2 DEF JobsOver, JobOver
<1> QED
  BY <1>3 DEF E, todo

LEMMA BrokeShape ==
    ASSUME NEW D, job \in JobsOver(D), NEW p \in Procs, NEW t
    PROVE  Broke(p, t) \in JobsOver(D \cup {job[p].todo \ {t}})
<1> DEFINE todo == job[p].todo \ {t}
           E == D \cup {todo}
<1>1. Broke(p, t) = [job EXCEPT ![p].todo = todo, ![p].bad = TRUE]
  BY DEF Broke
<1>2. todo \in E /\ D \subseteq E
  OBVIOUS
<1> HIDE DEF E, todo
<1>3. PICK K \in JobOver(E) : K = job[p]
  BY <1>2, Wider DEF JobsOver
<1>4. PICK J \in JobOver(E) : J = [K EXCEPT !.todo = todo, !.bad = TRUE]
  BY <1>2 DEF JobOver
<1>5. Broke(p, t) = [job EXCEPT ![p] = J]
  BY <1>1, <1>3, <1>4 DEF JobsOver
<1>6. [job EXCEPT ![p] = J] \in JobsOver(E)
  <2>1. D \subseteq E
    BY <1>2
  <2> QED
    BY <2>1, PutShape
<1> QED
  BY <1>5, <1>6 DEF E, todo

LEMMA DesertShape ==
    ASSUME NEW D, NEW jobs \in JobsOver(D), NEW p
    PROVE  /\ Desert(p, jobs) \in JobsOver(D)
           /\ \A q \in Procs :
                /\ Desert(p, jobs)[q].at = jobs[q].at /\ Desert(p, jobs)[q].by = jobs[q].by
                /\ Desert(p, jobs)[q].bad = jobs[q].bad
                /\ Desert(p, jobs)[q].before = jobs[q].before
                /\ Desert(p, jobs)[q].left = (jobs[q].left \/ q \in Children(p))
<1> DEFINE K == Children(p)
<1> HIDE DEF K
<1>1. Desert(p, jobs) =
        [q \in Procs |-> IF q \in K THEN [jobs[q] EXCEPT !.left = TRUE] ELSE jobs[q]]
  BY DEF Desert, K
<1>2. ASSUME NEW q \in Procs
      PROVE  /\ Desert(p, jobs)[q] \in JobOver(D)
             /\ Desert(p, jobs)[q].at = jobs[q].at /\ Desert(p, jobs)[q].by = jobs[q].by
             /\ Desert(p, jobs)[q].bad = jobs[q].bad
             /\ Desert(p, jobs)[q].before = jobs[q].before
             /\ Desert(p, jobs)[q].left = (jobs[q].left \/ q \in K)
  <2>1. PICK J \in JobOver(D) : J = jobs[q]
    BY DEF JobsOver
  <2>2. CASE q \in K
    <3>1. Desert(p, jobs)[q] = [J EXCEPT !.left = TRUE]
      BY <1>1, <2>1, <2>2
    <3> QED
      BY <2>1, <2>2, <3>1 DEF JobOver
  <2>3. CASE q \notin K
    <3>1. Desert(p, jobs)[q] = J /\ J.left \in BOOLEAN
      BY <1>1, <2>1, <2>3 DEF JobOver
    <3> QED
      BY <2>1, <2>3, <3>1
  <2> QED
    BY <2>2, <2>3
<1>3. Desert(p, jobs) \in JobsOver(D)
  BY <1>1, <1>2 DEF JobsOver
<1> QED
  BY <1>2, <1>3 DEF K

LEMMA Considers ==
    ASSUME Shape, NEW p \in Procs, NEW t
    PROVE  /\ job' = Done(p, t) => Becomes(p, job[p].at, job[p].bad, {})
           /\ job' = Broke(p, t) => Becomes(p, job[p].at, TRUE, {})
           /\ job' = Desert(p, Broke(p, t)) => Becomes(p, job[p].at, TRUE, Children(p))
<1>1. PICK D : job \in JobsOver(D)
  BY DEF Shape
<1>0. \A q \in Procs : job[q].left \in BOOLEAN
  BY <1>1 DEF JobsOver, JobOver
<1>2. ASSUME job' = Done(p, t) PROVE Becomes(p, job[p].at, job[p].bad, {})
  <2>1. \E E : job' \in JobsOver(E)
    BY <1>1, <1>2, DoneShape
  <2>2. \A q \in Procs \ {p} : job'[q] = job[q]
    BY <1>1, <1>2 DEF Done, JobsOver, JobOver
  <2>3. /\ job'[p].at = job[p].at /\ job'[p].bad = job[p].bad
        /\ job'[p].by = job[p].by /\ job'[p].before = job[p].before
        /\ job'[p].left = job[p].left
    BY <1>1, <1>2 DEF Done, JobsOver, JobOver
  <2> QED
    BY <1>0, <2>1, <2>2, <2>3 DEF Becomes
<1> DEFINE B == Broke(p, t)
<1>3. /\ \A q \in Procs \ {p} : B[q] = job[q]
      /\ B[p].at = job[p].at /\ B[p].bad = TRUE
      /\ B[p].by = job[p].by /\ B[p].before = job[p].before /\ B[p].left = job[p].left
  BY <1>1 DEF Broke, JobsOver, JobOver
<1>4. PICK E : B \in JobsOver(E)
  BY <1>1, BrokeShape
<1> HIDE DEF B
<1>5. ASSUME job' = B PROVE Becomes(p, job[p].at, TRUE, {})
  BY <1>0, <1>3, <1>4, <1>5 DEF Becomes
<1>6. ASSUME job' = Desert(p, B) PROVE Becomes(p, job[p].at, TRUE, Children(p))
  <2>1. job' \in JobsOver(E)
    BY <1>4, <1>6, DesertShape
  <2>2. \A q \in Procs : /\ job'[q].at = B[q].at /\ job'[q].by = B[q].by
                         /\ job'[q].bad = B[q].bad /\ job'[q].before = B[q].before
                         /\ job'[q].left = (B[q].left \/ q \in Children(p))
    BY <1>4, <1>6, DesertShape
  <2> QED
    BY <1>3, <2>1, <2>2 DEF Becomes
<1> QED
  BY <1>2, <1>5, <1>6 DEF B

----------------------------------------------------------------------------
(* A step of one process preserves the invariant. *)
LEMMA StepKept ==
    ASSUME HInv, NEW t \in Procs, NEW place \in Places, NEW bad \in BOOLEAN, NEW gone,
           Alive(t), Becomes(t, place, bad, gone), place # "none",
           gone = {} \/ (gone = Children(t) /\ Doomed(t)'),
           \A q \in gone : job[q].at # "renamed",
           job[t].at \in Asking => place \in Asking \/ Children(t) = {},
           place = "renamed" => t \in Slots /\ ~bad /\ ~job[t].left,
           disk' = [f \in Names |-> disk'[f]],
           \A q \in Slots \ {t} : Held(q) /\ DirectlyModified(q) => DirectlyModified(q)',
           Doomed(t) => Doomed(t)',
           reason' \in BOOLEAN,
           reason' => reason \/ Doomed(t)' \/ (t \in Slots /\ ~Held(t)),
           result' = result
    PROVE  HInv'
<1>1. Slots \subseteq Procs /\ Root \in Procs \ Slots
  BY TreeAssumption DEF Procs
<1>2. Shape'
  BY DEF Shape, Becomes
<1>3. \A q \in Procs : /\ Alive(q)' <=> Alive(q)
                       /\ Held(q)' => Held(q)
                       /\ Held(q) /\ q \notin gone => Held(q)'
                       /\ job'[q].by = job[q].by
  BY DEF Becomes, Alive, Held
<1>4. \A q \in Procs : Children(q)' = Children(q) \ gone
  <2> SUFFICES ASSUME NEW q \in Procs, NEW c \in Slots
               PROVE  c \in Children(q)' <=> c \in Children(q) /\ c \notin gone
    BY DEF Children
  <2>1. c \in gone => ~Held(c)'
    BY <1>1 DEF Held, Becomes
  <2> QED
    BY <1>1, <1>3, <2>1 DEF Children
<1>5. Parents'
  <2> SUFFICES ASSUME NEW c \in Slots, Held(c)' PROVE job'[job'[c].by].at \in Asking
    BY DEF Parents, Asking
  <2>1. Held(c) /\ c \notin gone /\ job'[c].by = job[c].by
    BY <1>1, <1>3 DEF Held, Becomes
  <2>2. job[job[c].by].at \in Asking /\ job[c].by \in Procs
    BY <1>1, <2>1 DEF HInv, Parents, Shape, JobsOver, JobOver
  <2>3. CASE job[c].by = t
    <3>1. c \in Children(t)
      BY <2>1, <2>3 DEF Children
    <3> QED
      BY <2>1, <2>2, <2>3, <3>1 DEF Becomes
  <2>4. CASE job[c].by # t
    BY <2>1, <2>2, <2>4 DEF Becomes
  <2> QED
    BY <2>3, <2>4
<1>6. OneHolder'
  BY <1>1, <1>3 DEF HInv, OneHolder
<1>7. RenamedWell'
  <2> SUFFICES ASSUME NEW c \in Slots, job'[c].at = "renamed"
               PROVE  ~job'[c].bad /\ ~job'[c].left
    BY DEF RenamedWell
  <2>1. CASE c = t
    <3>1. ~job[c].left /\ ~bad
      BY <2>1 DEF Becomes
    <3>2. CASE gone = {}
      BY <1>1, <2>1, <3>1, <3>2 DEF Becomes
    <3>3. CASE Doomed(t)'
      <4>1. Alive(t)' /\ job'[t].at # "exit"
        BY <2>1, <3>3 DEF Doomed
      <4> QED
        BY <2>1, <3>1, <3>3, <4>1 DEF Doomed, Becomes
    <3> QED
      BY <3>2, <3>3
  <2>2. CASE c # t
    <3>1. job[c].at = "renamed"
      BY <1>1, <2>2 DEF Becomes
    <3>2. c \notin gone
      BY <3>1
    <3> QED
      BY <1>1, <2>2, <3>1, <3>2 DEF HInv, RenamedWell, Becomes
  <2> QED
    BY <2>1, <2>2
<1>8. ASSUME NEW q \in Procs \ gone, Doomed(q) PROVE Doomed(q)'
  <2>1. CASE q = t
    BY <1>8, <2>1
  <2>2. CASE q # t
    BY <1>1, <1>3, <1>8, <2>2 DEF Doomed, Becomes
  <2> QED
    BY <2>1, <2>2
<1>9. Blame'
  <2> SUFFICES ASSUME Alive(Root)', NEW F, Family(F)', Trouble(F)'
               PROVE  \E p \in F : Doomed(p)'
    BY DEF Blame
  <2>1. CASE t \in F /\ Doomed(t)'
    BY <2>1
  <2>2. CASE t \in F /\ ~Doomed(t)' /\ ~(t \in Slots /\ ~Held(t))
    <3>1. gone = {} /\ (reason' => reason)
      BY <2>2
    <3>2. Family(F)
      BY <1>4, <3>1 DEF Family
    <3>3. Trouble(F)
      BY <1>3, <3>1 DEF Trouble
    <3>4. PICK p \in F : Doomed(p)
      BY <1>1, <1>3, <3>2, <3>3 DEF HInv, Blame
    <3>5. p \in Procs \ gone
      BY <3>1, <3>2 DEF Family
    <3> QED
      BY <1>8, <3>4, <3>5
  <2>3. CASE t \notin F
    <3> DEFINE G == F \ gone
    <3>1. F \in SUBSET Procs /\ Root \in F /\ Root \notin gone
      BY <1>1 DEF Family, Children
    <3>2. ASSUME NEW q \in G PROVE Children(q) \subseteq G
      <4>1. q \in Procs /\ q # t /\ Children(q) \ gone \subseteq F
        BY <1>4, <2>3, <3>1 DEF Family
      <4>2. Children(q) \cap gone = {}
        BY <4>1 DEF Children
      <4> QED
        BY <4>1, <4>2
    <3>3. Family(G)
      BY <3>1, <3>2 DEF Family
    <3>4. Trouble(G)
      BY <2>3 DEF Trouble
    <3>5. PICK p \in G : Doomed(p)
      BY <1>1, <1>3, <3>3, <3>4 DEF HInv, Blame
    <3> QED
      BY <1>8, <3>1, <3>5
  <2>4. CASE t \in F /\ ~Doomed(t)' /\ t \in Slots /\ ~Held(t)
    <3> DEFINE G == F \ {t}
    <3>1. gone = {} /\ F \in SUBSET Procs /\ Root \in G
      BY <1>1, <2>4 DEF Family
    <3>2. ASSUME NEW q \in G PROVE Children(q) \subseteq G
      <4>1. Children(q) \subseteq F
        BY <1>4, <3>1 DEF Family
      <4>2. t \notin Children(q)
        BY <2>4 DEF Children
      <4> QED
        BY <4>1, <4>2
    <3>3. Family(G) /\ Trouble(G)
      BY <3>1, <3>2 DEF Family, Trouble
    <3>4. PICK p \in G : Doomed(p)
      BY <1>1, <1>3, <3>3 DEF HInv, Blame
    <3> QED
      BY <1>8, <3>1, <3>4
  <2> QED
    BY <2>1, <2>2, <2>3, <2>4
<1>10. Reported' /\ NoFalseSuccess' /\ NothingLeft'
  <2>1. result # "ok"
    BY DEF HInv, NothingLeft, Idle
  <2> QED
    BY <1>1, <1>3, <2>1 DEF HInv, Reported, NoFalseSuccess, NothingLeft
<1> QED
  BY <1>2, <1>5, <1>6, <1>7, <1>9, <1>10 DEF HInv

(* The job of a target begins. *)
LEMMA StartKept ==
    ASSUME HInv, NEW p \in Procs, NEW t, NEW c \in Slots, NEW J, NEW D0, J \in JobOver(D0),
           Of[c] = t, ~Alive(c), Lockable(t), job[p].at \in Asking,
           J.at \notin {"none", "renamed"}, J.by = p, ~J.bad, ~J.left,
           job' = [Done(p, t) EXCEPT ![c] = J],
           disk' = disk, reason' = reason, result' = result
    PROVE  HInv'
<1>1. Slots \subseteq Procs /\ Root \in Procs \ Slots
  BY TreeAssumption DEF Procs
<1>2. PICK D : job \in JobsOver(D)
  BY DEF HInv, Shape
<1>3. p # c /\ Alive(p)
  BY DEF Alive, Asking
<1>4. PICK E : Done(p, t) \in JobsOver(E)
  BY <1>2, DoneShape
<1>5. PICK K : job' \in JobsOver(K)
  <2>1. PICK F : F = Done(p, t)
    OBVIOUS
  <2>2. job' = [F EXCEPT ![c] = J] /\ F \in JobsOver(E)
    BY <1>4, <2>1
  <2>3. J \in JobOver(E \cup D0) /\ E \subseteq E \cup D0
    BY Wider
  <2>4. [F EXCEPT ![c] = J] \in JobsOver(E \cup D0)
    BY <1>1, <2>2, <2>3, PutShape
  <2> QED
    BY <2>2, <2>4
<1>6. job'[c] = J
  BY <1>1, <1>4 DEF JobsOver
<1>7. \A q \in Procs \ {c} : /\ job'[q].at = job[q].at /\ job'[q].by = job[q].by
                            /\ job'[q].bad = job[q].bad /\ job'[q].before = job[q].before
                            /\ job'[q].left = job[q].left
  BY <1>2 DEF Done, JobsOver, JobOver
<1>8. Shape'
  BY <1>5 DEF HInv, Shape
<1>9. /\ \A q \in Procs \ {c} : (Held(q)' <=> Held(q)) /\ (Alive(q)' <=> Alive(q))
      /\ Held(c)' /\ Alive(c)' /\ ~Held(c) /\ job'[c].by = p
  BY <1>1, <1>6, <1>7 DEF Held, Alive
<1>10. \A q \in Procs : Children(q)' = IF q = p THEN Children(q) \cup {c} ELSE Children(q)
  <2> SUFFICES ASSUME NEW q \in Procs, NEW e \in Slots
               PROVE  e \in Children(q)' <=> e \in Children(q) \/ (q = p /\ e = c)
    BY DEF Children
  <2>1. CASE e = c
    BY <2>1, <1>9 DEF Children
  <2>2. CASE e # c
    BY <2>2, <1>1, <1>7, <1>9 DEF Children
  <2> QED
    BY <2>1, <2>2
<1>11. Children(c) = {}
  BY DEF HInv, Parents, Children, Alive, Asking
<1>12. Parents'
  <2> SUFFICES ASSUME NEW u \in Slots, Held(u)' PROVE job'[job'[u].by].at \in Asking
    BY DEF Parents, Asking
  <2>1. CASE u = c
    BY <2>1, <1>3, <1>7, <1>9
  <2>2. CASE u # c
    <3>1. Held(u) /\ job[u].by \in Procs /\ job'[u].by = job[u].by
      BY <2>2, <1>1, <1>2, <1>7, <1>9 DEF JobsOver, JobOver
    <3>2. job[job[u].by].at \in Asking
      BY <3>1 DEF HInv, Parents
    <3>3. job[u].by # c
      BY <3>2 DEF Alive, Asking
    <3> QED
      BY <3>1, <3>2, <3>3, <1>7
  <2> QED
    BY <2>1, <2>2
<1>13. OneHolder'
  <2>1. ASSUME NEW e \in Slots, e # c, Held(e)' PROVE Of[e] # Of[c]
    <3>1. Held(e)
      BY <2>1, <1>1, <1>9
    <3> QED
      BY <3>1 DEF Lockable, JobsOf
  <2> QED
    BY <2>1, <1>1, <1>9 DEF HInv, OneHolder
<1>14. RenamedWell'
  BY <1>1, <1>6, <1>7 DEF HInv, RenamedWell
<1>15. \A q \in Procs : Doomed(q) => q # c /\ Doomed(q)'
  BY <1>1, <1>7, <1>9 DEF Doomed, DirectlyModified, Exists
<1>16. Blame'
  <2> SUFFICES ASSUME Alive(Root)', NEW F, Family(F)', Trouble(F)'
               PROVE  \E q \in F : Doomed(q)'
    BY DEF Blame
  <2> DEFINE G == F \ {c}
  <2>1. F \in SUBSET Procs /\ Root \in F
    BY DEF Family
  <2>2. ASSUME NEW q \in G PROVE Children(q) \subseteq G
    <3>1. q \in Procs /\ Children(q) \subseteq F
      BY <1>10, <2>1 DEF Family
    <3>2. c \notin Children(q)
      BY <1>9 DEF Children
    <3> QED
      BY <3>1, <3>2
  <2>3. Family(G)
    BY <1>1, <2>1, <2>2 DEF Family
  <2>4. Trouble(G)
    <3>1. CASE reason'
      BY <3>1 DEF Trouble
    <3>2. CASE ~reason'
      <4>1. PICK q \in Procs \ F : Alive(q)'
        BY <3>2 DEF Trouble
      <4>2. CASE q = c
        <5>1. p \notin F
          BY <1>10, <4>1, <4>2 DEF Family
        <5> QED
          BY <5>1, <1>3 DEF Trouble
      <4>3. CASE q # c
        BY <4>1, <4>3, <1>9 DEF Trouble
      <4> QED
        BY <4>2, <4>3
    <3> QED
      BY <3>1, <3>2
  <2>5. Alive(Root)
    BY <1>1, <1>9
  <2>6. PICK q \in G : Doomed(q)
    BY <2>3, <2>4, <2>5 DEF HInv, Blame
  <2> QED
    BY <2>1, <2>6, <1>15
<1>17. Reported' /\ NoFalseSuccess' /\ NothingLeft'
  <2>1. result # "ok"
    BY <1>3 DEF HInv, NothingLeft, Idle
  <2> QED
    BY <1>1, <1>9, <2>1 DEF HInv, Reported, NoFalseSuccess, NothingLeft
<1> QED
  BY <1>8, <1>12, <1>13, <1>14, <1>16, <1>17 DEF HInv

(* Job c ends, and its parent learns how. *)
Ends(c, fails) ==
    /\ \E D : job' \in JobsOver(D)
    /\ ~Alive(c)' /\ \A q \in Procs \ {c} :
         /\ job'[q].at = job[q].at /\ job'[q].by = job[q].by /\ job'[q].left = job[q].left
         /\ job'[q].before = job[q].before
         /\ job'[q].bad = (job[q].bad \/ (q = job[c].by /\ fails))

LEMMA NoJobOver ==
    ASSUME NEW D, NEW place \in Places, NEW todo
    PROVE  NewJob(place, Root, todo, {}, Blank, Missing) \in JobOver(D \cup {todo, {}, Blank, Missing})
BY DEF NewJob, JobOver, Procs

LEMMA Ending ==
    ASSUME Shape, NEW c \in Slots, NEW fails \in BOOLEAN,
           EndJob(c, fails) \/ (~fails /\ job' = [job EXCEPT ![c] = NoJob])
    PROVE  Ends(c, fails)
<1>1. Slots \subseteq Procs
  BY DEF Procs
<1>2. PICK D : job \in JobsOver(D)
  BY DEF Shape
<1>3. PICK p \in Procs : p = job[c].by
  BY <1>1, <1>2 DEF JobsOver, JobOver
<1> DEFINE bad == job[p].bad \/ fails
           F == [job EXCEPT ![p].bad = bad]
           E == D \cup {{}, {}, Blank, Missing}
<1>4. bad \in BOOLEAN /\ NoJob \in JobOver(E) /\ NoJob.at = "none"
  <2>1. NoJob.at = "none"
    BY DEF NoJob, NewJob
  <2> QED
    BY <2>1, NoJobOver DEF NoJob, Places
<1>5. D \subseteq E
  OBVIOUS
<1> HIDE DEF bad, E
<1>6. F \in JobsOver(D)
  BY <1>2, <1>4 DEF JobsOver, JobOver
<1>7. \A q \in Procs : /\ F[q].at = job[q].at /\ F[q].by = job[q].by
                       /\ F[q].left = job[q].left /\ F[q].before = job[q].before
                       /\ F[q].bad = IF q = p THEN bad ELSE job[q].bad
  BY <1>2, <1>3 DEF JobsOver, JobOver
<1>8. CASE EndJob(c, fails)
  <2>1. job' = [F EXCEPT ![c] = NoJob]
    BY <1>3, <1>8 DEF EndJob, bad
  <2> HIDE DEF F
  <2>2. job' \in JobsOver(E)
    BY <1>1, <1>4, <1>5, <1>6, <2>1, PutShape
  <2>3. job'[c].at = "none"
    BY <1>1, <1>4, <1>6, <2>1 DEF JobsOver
  <2>4. \A q \in Procs \ {c} : job'[q] = F[q]
    BY <1>6, <2>1 DEF JobsOver
  <2>5. \A q \in Procs : job[q].bad \in BOOLEAN
    BY <1>2 DEF JobsOver, JobOver
  <2> QED
    BY <1>3, <1>7, <2>2, <2>3, <2>4, <2>5 DEF Ends, Alive, bad
<1>9. CASE ~fails /\ job' = [job EXCEPT ![c] = NoJob]
  <2>2. job' \in JobsOver(E)
    BY <1>1, <1>2, <1>4, <1>5, <1>9, PutShape
  <2>3. job'[c].at = "none"
    BY <1>1, <1>2, <1>4, <1>9 DEF JobsOver
  <2>4. \A q \in Procs \ {c} : job'[q] = job[q]
    BY <1>2, <1>9 DEF JobsOver
  <2>5. \A q \in Procs : job[q].bad \in BOOLEAN
    BY <1>2 DEF JobsOver, JobOver
  <2> QED
    BY <1>9, <2>2, <2>3, <2>4, <2>5 DEF Ends, Alive
<1> QED
  BY <1>8, <1>9

LEMMA EndKept ==
    ASSUME HInv, NEW c \in Slots, NEW fails \in BOOLEAN,
           Alive(c), Children(c) = {}, Ends(c, fails),
           Held(c) /\ Doomed(c) => fails, fails => Held(c),
           disk' = disk, reason' = reason, result' = result
    PROVE  HInv'
<1>1. Slots \subseteq Procs /\ Root \in Procs \ Slots
  BY TreeAssumption DEF Procs
<1>2. PICK D : job \in JobsOver(D)
  BY DEF HInv, Shape
<1>3. PICK p \in Procs : p = job[c].by
  BY <1>1, <1>2 DEF JobsOver, JobOver
<1>4. Held(c) => p # c /\ Alive(p) /\ job[p].at \in Asking
  BY <1>3 DEF HInv, Parents, Alive, Asking, Children
<1>5. /\ \A q \in Procs \ {c} : /\ (Held(q)' <=> Held(q)) /\ (Alive(q)' <=> Alive(q))
                                /\ job'[q].by = job[q].by
      /\ ~Held(c)' /\ ~Alive(c)'
  BY DEF Ends, Held, Alive
<1>6. \A q \in Procs : Children(q)' = Children(q) \ {c}
  <2> SUFFICES ASSUME NEW q \in Procs, NEW e \in Slots
               PROVE  e \in Children(q)' <=> e \in Children(q) /\ e # c
    BY DEF Children
  <2> QED
    BY <1>1, <1>5 DEF Children
<1>7. Shape'
  BY DEF HInv, Shape, Ends
<1>8. Parents'
  <2> SUFFICES ASSUME NEW u \in Slots, Held(u)' PROVE job'[job'[u].by].at \in Asking
    BY DEF Parents, Asking
  <2>1. u # c /\ Held(u) /\ job'[u].by = job[u].by /\ job[u].by \in Procs
    BY <1>1, <1>2, <1>5 DEF JobsOver, JobOver
  <2>2. job[u].by # c
    BY <2>1 DEF Children
  <2> QED
    BY <2>1, <2>2 DEF HInv, Parents, Ends
<1>9. OneHolder'
  BY <1>1, <1>5 DEF HInv, OneHolder
<1>10. RenamedWell'
  <2> SUFFICES ASSUME NEW u \in Slots, job'[u].at = "renamed"
               PROVE  ~job'[u].bad /\ ~job'[u].left
    BY DEF RenamedWell
  <2>1. u # c
    BY DEF Ends, Alive
  <2>2. job[u].at = "renamed" /\ job'[u].left = job[u].left
    BY <1>1, <2>1 DEF Ends
  <2>3. ~(u = job[c].by /\ fails)
    BY <2>2, <1>3, <1>4 DEF Asking
  <2> QED
    BY <1>1, <2>1, <2>2, <2>3 DEF HInv, RenamedWell, Ends
<1>11. \A q \in Procs : Doomed(q) /\ q # c => Doomed(q)'
  <2> SUFFICES ASSUME NEW q \in Procs, Doomed(q), q # c PROVE Doomed(q)'
    OBVIOUS
  <2>1. /\ Alive(q)' /\ (Held(q) => Held(q)') /\ job'[q].at = job[q].at
        /\ (job[q].bad => job'[q].bad) /\ job'[q].before = job[q].before
    BY <1>5 DEF Ends, Doomed
  <2> QED
    BY <2>1 DEF Doomed, DirectlyModified, Exists
<1>12. fails => Doomed(p)'
  BY <1>3, <1>4, <1>5 DEF Ends, Doomed
<1>13. Blame'
  <2> SUFFICES ASSUME Alive(Root)', NEW F, Family(F)', Trouble(F)'
               PROVE  \E q \in F : Doomed(q)'
    BY DEF Blame
  <2>1. F \in SUBSET Procs /\ Root \in F /\ Alive(Root)
    BY <1>1, <1>5 DEF Family
  <2>2. \A q \in F : Children(q) \subseteq F \cup {c}
    BY <1>6, <2>1 DEF Family
  <2>3. \A G : Family(G) /\ Trouble(G) => \E q \in G : Doomed(q)
    BY <2>1 DEF HInv, Blame
  <2>4. CASE Held(c) /\ p \in F
    <3> DEFINE G == F \cup {c}
    <3>1. Family(G)
      BY <1>1, <2>1, <2>2 DEF Family
    <3>2. Trouble(G)
      BY <1>5, <2>1 DEF Trouble
    <3>3. PICK q \in G : Doomed(q)
      BY <2>3, <3>1, <3>2
    <3>4. CASE q = c
      BY <2>4, <3>3, <3>4, <1>12
    <3>5. CASE q # c
      BY <2>1, <3>3, <3>5, <1>11
    <3> QED
      BY <3>4, <3>5
  <2>5. CASE ~(Held(c) /\ p \in F)
    <3> DEFINE G == F \ {c}
    <3>1. ASSUME NEW q \in G PROVE Children(q) \subseteq G
      <4>1. c \notin Children(q)
        BY <1>3, <2>5, <3>1 DEF Children
      <4> QED
        BY <2>2, <3>1, <4>1
    <3>2. Family(G)
      BY <1>1, <2>1, <3>1 DEF Family
    <3>3. Trouble(G)
      <4>1. CASE Held(c)
        BY <2>5, <4>1, <1>4 DEF Trouble
      <4>2. CASE ~Held(c)
        BY <1>1 DEF Trouble
      <4> QED
        BY <4>1, <4>2
    <3>4. PICK q \in G : Doomed(q)
      BY <2>3, <3>2, <3>3
    <3> QED
      BY <2>1, <3>4, <1>11
  <2> QED
    BY <2>4, <2>5
<1>14. Reported' /\ NoFalseSuccess' /\ NothingLeft'
  <2>1. result # "ok"
    BY <1>1 DEF HInv, NothingLeft, Idle
  <2> QED
    BY <1>1, <1>5, <2>1 DEF HInv, Reported, NoFalseSuccess, NothingLeft
<1> QED
  BY <1>7, <1>8, <1>9, <1>10, <1>13, <1>14 DEF HInv

----------------------------------------------------------------------------
(* A command looks at a target. *)

LEMMA ConsiderKept ==
    ASSUME HInv, NEW p \in Procs, NEW t, Consider(p, t), NEW bad \in BOOLEAN, NEW gone,
           Becomes(p, job[p].at, bad, gone), job[p].bad => bad,
           gone = {} \/ (gone = Children(p) /\ bad),
           reason' \in BOOLEAN, reason' => reason \/ bad
    PROVE  HInv'
<1>1. job[p].at \in Asking /\ disk' = disk /\ result' = result /\ DbFree
  BY DEF Consider, user, command
<1>2. job[p].at \in Places \ {"none", "renamed", "exit"} /\ Alive(p)
  BY <1>1 DEF Asking, Places, Alive
<1>3. bad => Doomed(p)'
  BY <1>2 DEF Doomed, Becomes, Alive
<1>4. Doomed(p) => Doomed(p)'
  BY <1>2, <1>3 DEF Doomed
<1>5. disk' = [f \in Names |-> disk'[f]]
  BY <1>1 DEF HInv, Shape
<1>6. \A q \in gone : job[q].at # "renamed"
  BY <1>1 DEF DbFree, Children
<1>7. \A q \in Slots \ {p} : DirectlyModified(q) => DirectlyModified(q)'
  BY <1>1 DEF DirectlyModified, Exists, Becomes, Procs
<1> QED
  BY <1>1, <1>2, <1>3, <1>4, <1>5, <1>6, <1>7, StepKept

(* It does not start anything. *)
LEMMA ConsiderDone ==
    ASSUME HInv, NEW p \in Procs, NEW t, Consider(p, t), reason' \in BOOLEAN,
           \/ job' = Done(p, t) /\ reason' = reason
           \/ job' = Broke(p, t)
           \/ job' = Desert(p, Broke(p, t))
    PROVE  HInv'
<1>1. Shape /\ job[p].bad \in BOOLEAN
  BY DEF HInv, Shape, JobsOver, JobOver
<1>2. CASE job' = Done(p, t) /\ reason' = reason
  <2>1. Becomes(p, job[p].at, job[p].bad, {})
    BY <1>1, <1>2, Considers
  <2> QED
    BY <1>1, <1>2, <2>1, ConsiderKept
<1>3. CASE job' = Broke(p, t) \/ job' = Desert(p, Broke(p, t))
  <2>1. PICK gone : /\ Becomes(p, job[p].at, TRUE, gone)
                    /\ gone = {} \/ gone = Children(p)
    BY <1>1, <1>3, Considers
  <2>2. PICK bad \in BOOLEAN : bad
    OBVIOUS
  <2>3. Becomes(p, job[p].at, bad, gone)
    BY <2>1, <2>2
  <2> QED
    BY <2>1, <2>2, <2>3, ConsiderKept
<1> QED
  BY <1>2, <1>3

(* It starts a job, redo-unlocked or a script. *)
LEMMA ConsiderStarts ==
    ASSUME HInv, NEW p \in Procs, NEW t \in Files, Consider(p, t), Lockable(t), Spare(t) # {},
           NEW place \in Places \ {"none", "renamed"}, NEW need, NEW sf, NEW before,
           job' = [Done(p, t) EXCEPT ![Slot(t)] =
                     NewJob(place, p, {}, need, sf, before)],
           reason' = reason
    PROVE  HInv'
<1> DEFINE J == NewJob(place, p, {}, need, sf, before)
<1>1. job[p].at \in Asking /\ disk' = disk /\ result' = result
  BY DEF Consider, user, command
<1>2. PICK c : c = Slot(t)
  OBVIOUS
<1>3. c \in Slots /\ Of[c] = t /\ ~Alive(c)
  BY <1>2 DEF Slot, Spare, JobsOf
<1>4. J \in JobOver({{}, need, sf, before})
  BY DEF JobOver, NewJob
<1>5. J.at \notin {"none", "renamed"} /\ J.by = p /\ ~J.bad /\ ~J.left
  BY DEF NewJob
<1> HIDE DEF J
<1>6. job' = [Done(p, t) EXCEPT ![c] = J]
  BY <1>2 DEF J
<1> QED
  BY <1>1, <1>3, <1>4, <1>5, <1>6, StartKept

LEMMA LookNext ==
    ASSUME HInv, NEW p \in Procs, NEW t \in Files, Look(p, t)
    PROVE  HInv'
<1>0. reason \in BOOLEAN
  BY DEF HInv, Shape
<1>1. CASE FindFailed(p, t)
  BY <1>0, <1>1, ConsiderDone DEF FindFailed, history
<1>2. CASE FindClean(p, t)
  BY <1>0, <1>2, ConsiderDone DEF FindClean
<1>3. CASE GiveToUnlocked(p, t)
  <2>1. PICK need : job' = [Done(p, t) EXCEPT ![Slot(t)] =
                              NewJob("unlocked", p, {}, need, Blank, Missing)]
    BY <1>3 DEF GiveToUnlocked
  <2>2. Consider(p, t) /\ Lockable(t) /\ Spare(t) # {} /\ reason' = reason
    BY <1>3 DEF GiveToUnlocked
  <2>3. "unlocked" \in Places \ {"none", "renamed"}
    BY DEF Places
  <2> QED
    BY <2>1, <2>2, <2>3, ConsiderStarts
<1>4. CASE PanicOn(p, t)
  BY <1>0, <1>4, ConsiderDone DEF PanicOn, MustStart, history
<1>5. CASE KeepStatic(p, t)
  BY <1>0, <1>5, ConsiderDone DEF KeepStatic, MustStart
<1>6. CASE AdoptOrphan(p, t)
  BY <1>0, <1>6, ConsiderDone DEF AdoptOrphan, MustStart
<1>7. CASE NoRule(p, t)
  BY <1>0, <1>7, ConsiderDone DEF NoRule, MustStart
<1>8. CASE StartJob(p, t)
  <2> DEFINE place == IF t \in AlwaysBuilt THEN "always" ELSE "needs"
  <2>1. job' = [Done(p, t) EXCEPT ![Slot(t)] =
                  NewJob(place, p, {}, {}, db[t], disk[t].stamp)]
    BY <1>8 DEF StartJob
  <2>2. Consider(p, t) /\ Lockable(t) /\ Spare(t) # {} /\ reason' = reason
    BY <1>8 DEF StartJob, MustStart
  <2>3. place \in Places \ {"none", "renamed"}
    BY DEF Places
  <2> HIDE DEF place
  <2> QED
    BY <2>1, <2>2, <2>3, ConsiderStarts
<1> QED
  BY <1>1, <1>2, <1>3, <1>4, <1>5, <1>6, <1>7, <1>8 DEF Look

----------------------------------------------------------------------------
(* Scripts and redo-unlocked go on. *)

LEMMA MoveKept ==
    ASSUME HInv, NEW c \in Slots, NEW place \in Places \ {"none", "renamed"}, NEW x,
           \/ job' = [job EXCEPT ![c].at = place]
           \/ job' = [job EXCEPT ![c].at = place, ![c].todo = x]
           \/ job' = [job EXCEPT ![c].at = place, ![c].out = x],
           job[c].at \notin {"none", "exit"},
           job[c].at \in Asking => place \in Asking \/ Children(c) = {},
           disk' = disk, reason' = reason, result' = result
    PROVE  HInv'
<1>1. Shape /\ c \in Procs /\ job[c].bad \in BOOLEAN
  BY DEF HInv, Shape, Procs, JobsOver, JobOver
<1>2. Becomes(c, place, job[c].bad, {})
  BY <1>1, Moves
<1>3. Alive(c) /\ (Doomed(c) => Doomed(c)')
  BY <1>2 DEF Alive, Doomed, Becomes
<1>4. disk' = [f \in Names |-> disk'[f]] /\ reason' \in BOOLEAN
  BY DEF HInv, Shape
<1>5. \A q \in Slots \ {c} : DirectlyModified(q) => DirectlyModified(q)'
  BY <1>2 DEF DirectlyModified, Exists, Becomes, Procs
<1> QED
  BY <1>1, <1>2, <1>3, <1>4, <1>5, StepKept

LEMMA ScriptNext ==
    ASSUME HInv, NEW c \in Slots, Script(c)
    PROVE  HInv'
<1> USE DEF user, data, command, history, Over, Asking, Places
<1>1. CASE RedoAlways(c)
  BY <1>1, MoveKept DEF RedoAlways, Move
<1>2. CASE AskNeeds(c)
  BY <1>2, MoveKept DEF AskNeeds, RedoIfchange
<1>3. CASE RedoIfcreate(c)
  BY <1>3, MoveKept DEF RedoIfcreate, Move
<1>4. CASE AskMore(c)
  BY <1>4, MoveKept DEF AskMore, RedoIfchange
<1>5. CASE WriteOnly(c) \/ WriteAndStamp(c)
  BY <1>5, MoveKept DEF WriteOnly, WriteAndStamp, Write
<1>6. CASE ScriptAborts(c)
  BY <1>6, MoveKept DEF ScriptAborts, Move
<1> QED
  BY <1>1, <1>2, <1>3, <1>4, <1>5, <1>6 DEF Script

LEMMA UnlockedNext ==
    ASSUME HInv, NEW c \in Slots, Unlocked(c)
    PROVE  HInv'
<1> USE DEF user, data, command, history, Over, Asking, Places
<1>1. CASE UnlockedAsks(c)
  BY <1>1, MoveKept DEF UnlockedAsks
<1>2. CASE UnlockedAsksAgain(c)
  BY <1>2, MoveKept DEF UnlockedAsksAgain
<1>3. CASE UnlockedEnds(c)
  <2>1. /\ job[c].at \in {"check", "recheck"} /\ Children(c) = {}
        /\ EndJob(c, job[c].bad /\ ~job[c].left)
        /\ disk' = disk /\ reason' = reason /\ result' = result
    BY <1>3 DEF UnlockedEnds
  <2>2. job[c].bad \in BOOLEAN /\ job[c].left \in BOOLEAN /\ Shape
    BY DEF HInv, Shape, Procs, JobsOver, JobOver
  <2>3. PICK fails \in BOOLEAN : fails = (job[c].bad /\ ~job[c].left)
    BY <2>2
  <2>4. Ends(c, fails)
    BY <2>1, <2>2, <2>3, Ending
  <2>5. Alive(c) /\ (Held(c) /\ Doomed(c) => fails) /\ (fails => Held(c))
    BY <2>1, <2>3 DEF Alive, Held, Doomed
  <2> QED
    BY <2>1, <2>4, <2>5, EndKept
<1> QED
  BY <1>1, <1>2, <1>3 DEF Unlocked

----------------------------------------------------------------------------
(* Failures, and the end of a job. *)

(* A stamp that no one has seen. *)
LEMMA FreshIsNew ==
  ASSUME NEW f
  PROVE  /\ Fresh(f) \in Nat /\ Fresh(f) \notin {Missing, 1}
         /\ Crit(Fresh(f)) # Crit(disk[f].stamp) /\ Crit(Fresh(f)) # Crit(db[f].stamp)
         /\ \A c \in Slots : Of[c] = f => Crit(Fresh(f)) # Crit(job[c].before)
<1> DEFINE seen == {Crit(disk[f].stamp), Crit(db[f].stamp)}
           rows == {Crit(job[c].sf.stamp) : c \in JobsOf(f)}
           files == {Crit(job[c].before) : c \in JobsOf(f)}
           used == seen \cup rows \cup files
<1>1. IsFiniteSet(JobsOf(f))
  BY TreeAssumption, FS_Subset DEF JobsOf
<1>2. IsFiniteSet(rows)
  <2> DEFINE g == [c \in JobsOf(f) |-> Crit(job[c].sf.stamp)]
  <2>1. rows = {g[c] : c \in JobsOf(f)}
    OBVIOUS
  <2>2. g \in Surjection(JobsOf(f), rows)
    BY DEF Surjection
  <2> QED
    BY <1>1, <2>2, FS_Surjection
<1>3. IsFiniteSet(files)
  <2> DEFINE g == [c \in JobsOf(f) |-> Crit(job[c].before)]
  <2>1. g \in Surjection(JobsOf(f), files)
    BY DEF Surjection
  <2> QED
    BY <1>1, <2>1, FS_Surjection
<1>4. IsFiniteSet(seen)
  <2>1. IsFiniteSet({Crit(disk[f].stamp)}) /\ IsFiniteSet({Crit(db[f].stamp)})
    BY FS_Singleton
  <2>2. seen = {Crit(disk[f].stamp)} \cup {Crit(db[f].stamp)}
    OBVIOUS
  <2> QED
    BY <2>1, <2>2, FS_Union
<1>5. /\ Crit(disk[f].stamp) \in used /\ Crit(db[f].stamp) \in used
      /\ \A c \in Slots : Of[c] = f => Crit(job[c].before) \in used
  BY DEF JobsOf
<1>6. IsFiniteSet(used)
  <2> HIDE DEF seen, rows, files
  <2>1. IsFiniteSet(seen \cup rows)
    BY <1>2, <1>4, FS_Union
  <2> QED
    BY <1>3, <2>1, FS_Union
<1>7. Fresh(f) = 2 * CHOOSE n \in 1..(Cardinality(used) + 1) : n \notin used
  BY DEF Fresh
<1> HIDE DEF used
<1> DEFINE k == Cardinality(used)
<1>8. k \in Nat
  BY <1>6, FS_CardinalityType
<1>9. \E n \in 1..(k + 1) : n \notin used
  <2>1. SUFFICES ASSUME 1..(k + 1) \subseteq used PROVE FALSE
    OBVIOUS
  <2>2. Cardinality(1..(k + 1)) <= k
    BY <2>1, <1>6, FS_Subset
  <2>3. Cardinality(1..(k + 1)) = k + 1
    BY <1>8, FS_Interval
  <2> QED
    BY <1>8, <2>2, <2>3
<1> DEFINE n == CHOOSE n \in 1..(k + 1) : n \notin used
<1>10. n \in Nat \ {0} /\ n \notin used
  BY <1>8, <1>9
<1>11. Fresh(f) = 2 * n
  BY <1>7
<1> HIDE DEF n
<1>12. Crit(2 * n) = n /\ 2 * n \in Nat /\ 2 * n \notin {Missing, 1}
  BY <1>10 DEF Crit, Missing
<1> QED
  BY <1>5, <1>10, <1>11, <1>12

LEMMA ScriptFailsNext ==
    ASSUME HInv, NEW c \in Slots, ScriptFails(c)
    PROVE  HInv'
<1>1. /\ job[c].at \in {"needs", "exit"}
      /\ job' = [job EXCEPT ![c].at = "exit", ![c].bad = TRUE]
      /\ reason' = TRUE /\ disk' = disk /\ result' = result
  BY DEF ScriptFails, user, command
<1>2. Shape /\ c \in Procs /\ "exit" \in Places
  BY DEF HInv, Procs, Places
<1>0. PICK bad \in BOOLEAN : bad
  OBVIOUS
<1>3. Becomes(c, "exit", bad, {})
  <2>1. job' = [job EXCEPT ![c].at = "exit", ![c].bad = bad]
    BY <1>0, <1>1
  <2> QED
    BY <1>2, <2>1, Moves
<1>4. Alive(c) /\ Doomed(c)'
  BY <1>0, <1>1, <1>3 DEF Alive, Doomed, Becomes
<1>5. job[c].at \notin Asking
  BY <1>1 DEF Asking
<1>6. disk' = [f \in Names |-> disk'[f]]
  BY <1>1 DEF HInv, Shape
<1>7. \A q \in Slots \ {c} : DirectlyModified(q) => DirectlyModified(q)'
  BY <1>1, <1>3 DEF DirectlyModified, Exists, Becomes, Procs
<1> QED
  BY <1>1, <1>2, <1>3, <1>4, <1>5, <1>6, <1>7, StepKept

LEMMA WriteDirectlyNext ==
    ASSUME HInv, NEW c \in Slots, WriteDirectly(c)
    PROVE  HInv'
<1> DEFINE t == Of[c]
<1>0. t \in Names
  BY TreeAssumption DEF Files
<1>1. /\ job[c].at = "needs"
      /\ disk' = [disk EXCEPT ![t] = [stamp |-> Fresh(t), content |-> {}]]
      /\ job' = [job EXCEPT ![c].at = "exit"]
      /\ reason' = TRUE /\ result' = result
  BY DEF WriteDirectly, Move, command
<1>2. /\ Shape /\ c \in Procs /\ "exit" \in Places
      /\ job[c].bad \in BOOLEAN
  BY DEF HInv, Shape, Procs, Places, JobsOver, JobOver
<1>3. Becomes(c, "exit", job[c].bad, {})
  BY <1>1, <1>2, Moves
<1>4. disk' = [f \in Names |-> disk'[f]] /\ \A f \in Names \ {t} : disk'[f] = disk[f]
  BY <1>0, <1>1, <1>2 DEF Shape
<1>5. disk'[t].stamp = Fresh(t)
  BY <1>0, <1>1, <1>2 DEF Shape
<1>6. \A q \in Slots : Of[q] = t => DirectlyModified(q)'
  <2> SUFFICES ASSUME NEW q \in Slots, Of[q] = t PROVE DirectlyModified(q)'
    OBVIOUS
  <2>1. Crit(Fresh(t)) # Crit(job[q].before) /\ Fresh(t) # Missing
    BY FreshIsNew
  <2>2. job'[q].before = job[q].before
    BY <1>3 DEF Becomes, Procs
  <2> QED
    BY <1>5, <2>1, <2>2 DEF DirectlyModified, Exists
<1>7. \A q \in Slots \ {c} : DirectlyModified(q) => DirectlyModified(q)'
  <2> SUFFICES ASSUME NEW q \in Slots, DirectlyModified(q), Of[q] # t
               PROVE  DirectlyModified(q)'
    BY <1>6
  <2>1. Of[q] \in Names \ {t}
    BY TreeAssumption DEF Files
  <2>2. job'[q].before = job[q].before
    BY <1>3 DEF Becomes, Procs
  <2> QED
    BY <1>4, <2>1, <2>2 DEF DirectlyModified, Exists
<1>8. Alive(c) /\ (Held(c) => Doomed(c)') /\ (Doomed(c) => Doomed(c)')
  BY <1>1, <1>3, <1>6 DEF Alive, Held, Doomed, Becomes
<1>9. job[c].at \notin Asking
  BY <1>1 DEF Asking
<1>10. /\ reason' \in BOOLEAN /\ (reason' => Doomed(c)' \/ (c \in Slots /\ ~Held(c)))
       /\ result' = result
  BY <1>1, <1>8
<1>11. disk' = [f \in Names |-> disk'[f]]
  BY <1>4
<1>12. PICK bad \in BOOLEAN : Becomes(c, "exit", bad, {})
  BY <1>2, <1>3
<1> HIDE DEF t
<1> QED
  BY <1>2, <1>7, <1>8, <1>9, <1>10, <1>11, <1>12, StepKept

LEMMA RenameNext ==
    ASSUME HInv, NEW c \in Slots, Rename(c)
    PROVE  HInv'
<1> DEFINE t == Of[c]
<1>1. /\ job[c].at = "exit" /\ ~job[c].left /\ ~job[c].bad /\ ~DirectlyModified(c)
      /\ job' = [job EXCEPT ![c].at = "renamed"]
      /\ reason' = reason /\ result' = result
      /\ \E x : disk' = [disk EXCEPT ![t] = x]
  BY DEF Rename, Move, command, history
<1>2. /\ Shape /\ c \in Procs /\ "renamed" \in Places /\ job[c].bad \in BOOLEAN
      /\ reason \in BOOLEAN
  BY DEF HInv, Shape, Procs, Places, JobsOver, JobOver
<1>3. PICK bad \in BOOLEAN : ~bad /\ Becomes(c, "renamed", bad, {})
  <2>1. Becomes(c, "renamed", job[c].bad, {})
    BY <1>1, <1>2, Moves
  <2> QED
    BY <1>1, <1>2, <2>1
<1>4. disk' = [f \in Names |-> disk'[f]] /\ \A f \in Names \ {t} : disk'[f] = disk[f]
  BY <1>1, <1>2 DEF Shape
<1>5. Held(c) /\ Alive(c) /\ ~Doomed(c) /\ job[c].at \notin Asking
  BY <1>1 DEF Held, Alive, Doomed, Asking
<1>6. \A q \in Slots \ {c} : Held(q) /\ DirectlyModified(q) => DirectlyModified(q)'
  <2> SUFFICES ASSUME NEW q \in Slots \ {c}, Held(q), DirectlyModified(q)
               PROVE  DirectlyModified(q)'
    OBVIOUS
  <2>1. Of[q] # t
    BY <1>5 DEF HInv, OneHolder
  <2>2. Of[q] \in Names \ {t}
    BY <2>1, TreeAssumption DEF Files
  <2>3. job'[q].before = job[q].before
    BY <1>3 DEF Becomes, Procs
  <2> QED
    BY <1>4, <2>2, <2>3 DEF DirectlyModified, Exists
<1>7. reason' \in BOOLEAN /\ reason' = reason /\ result' = result /\ ~job[c].left
  BY <1>1, <1>2
<1> HIDE DEF t
<1>8. disk' = [f \in Names |-> disk'[f]]
  BY <1>4
<1> QED
  BY <1>2, <1>3, <1>5, <1>6, <1>7, <1>8, StepKept

(* The end of a job: recorded by its parent, or not at all. *)
LEMMA EndNext ==
    ASSUME HInv, NEW c \in Slots, RecordSuccess(c) \/ RecordFailure(c) \/ StrayEnds(c)
    PROVE  HInv'
<1>1. /\ job[c].at \in {"renamed", "exit"}
      /\ disk' = disk /\ reason' = reason /\ result' = result
  BY DEF RecordSuccess, RecordFailure, StrayEnds, user, command
<1>2. Alive(c) /\ Children(c) = {} /\ Shape
  BY <1>1 DEF HInv, Alive, Parents, Children, Asking
<1>3. PICK fails \in BOOLEAN :
        /\ fails <=> RecordFailure(c)
        /\ EndJob(c, fails) \/ (~fails /\ job' = [job EXCEPT ![c] = NoJob])
  <2>1. CASE RecordFailure(c)
    BY <2>1 DEF RecordFailure, EndJob
  <2>2. CASE ~RecordFailure(c) /\ RecordSuccess(c)
    BY <2>2 DEF RecordSuccess, EndJob
  <2>3. CASE ~RecordFailure(c) /\ StrayEnds(c)
    BY <2>3 DEF StrayEnds
  <2> QED
    BY <2>1, <2>2, <2>3
<1>4. Ends(c, fails)
  BY <1>2, <1>3, Ending
<1>5. (Held(c) /\ Doomed(c) => fails) /\ (fails => Held(c))
  <2>1. CASE RecordFailure(c)
    BY <1>2, <1>3, <2>1 DEF RecordFailure, Held
  <2>2. CASE RecordSuccess(c) /\ ~RecordFailure(c)
    <3>1. ~job[c].bad /\ job[c].at = "renamed"
      BY <2>2 DEF HInv, RenamedWell, RecordSuccess
    <3> QED
      BY <1>3, <2>2, <3>1 DEF Doomed
  <2>3. CASE StrayEnds(c) /\ ~RecordFailure(c)
    BY <1>3, <2>3 DEF StrayEnds, Held
  <2> QED
    BY <2>1, <2>2, <2>3
<1> QED
  BY <1>1, <1>2, <1>4, <1>5, EndKept

----------------------------------------------------------------------------
(* The command of the user, and the user. *)

LEMMA NoneOver == NoJob \in JobOver({{}, {}, Blank, Missing}) /\ NoJob.at = "none"
<1>1. "none" \in Places
  BY DEF Places
<1>2. NoJob \in JobOver({{}, {}, Blank, Missing})
  BY <1>1, NoJobOver DEF NoJob
<1> QED
  BY <1>2 DEF NoJob, NewJob

LEMMA CommandNext ==
    ASSUME HInv, NEW wanted, NEW force, Command(wanted, force)
    PROVE  HInv'
<1> DEFINE K == NewJob("goals", Root, wanted, {}, Blank, Missing)
<1>1. PICK D : job \in JobsOver(D)
  BY DEF HInv, Shape
<1>2. /\ Idle /\ result' = "none" /\ reason' = FALSE /\ disk' = disk
      /\ job' = [job EXCEPT ![Root] = K]
  BY DEF Command, user
<1>3. K \in JobOver({wanted, {}, Blank, Missing}) /\ K.at = "goals"
  <2>1. "goals" \in Places
    BY DEF Places
  <2>2. K \in JobOver({wanted, {}, Blank, Missing})
    BY <2>1, NoJobOver
  <2> QED
    BY <2>2 DEF NewJob
<1> HIDE DEF K
<1>4. \E G : job' \in JobsOver(G)
  <2>1. D \subseteq D \cup {wanted, {}, Blank, Missing}
    OBVIOUS
  <2>2. K \in JobOver(D \cup {wanted, {}, Blank, Missing}) /\ Root \in Procs
    BY <1>3, Wider DEF Procs
  <2> QED
    BY <1>1, <1>2, <2>1, <2>2, PutShape
<1>5. \A q \in Procs \ {Root} : ~Alive(q)' /\ job'[q] = job[q]
  BY <1>1, <1>2 DEF Idle, Alive, JobsOver
<1>6. Slots = Procs \ {Root}
  BY TreeAssumption DEF Procs
<1>7. \A q \in Slots : ~Held(q)' /\ job'[q].at # "renamed"
  BY <1>5, <1>6 DEF Held, Alive
<1>8. Shape'
  BY <1>2, <1>4 DEF HInv, Shape
<1>9. Blame'
  <2>1. ASSUME NEW F, Root \in F PROVE ~Trouble(F)'
    BY <1>2, <1>5, <2>1 DEF Trouble
  <2> QED
    BY <2>1 DEF Blame, Family
<1>10. Parents' /\ OneHolder' /\ RenamedWell'
  BY <1>7 DEF Parents, OneHolder, RenamedWell
<1> QED
  BY <1>2, <1>8, <1>9, <1>10 DEF HInv, Reported, NoFalseSuccess, NothingLeft

LEMMA FinishNext ==
    ASSUME HInv, Finish
    PROVE  HInv'
<1>1. /\ Children(Root) = {} /\ disk' = disk /\ reason' = reason /\ job[Root].at = "goals"
      /\ result' = IF job[Root].bad THEN "failed" ELSE "ok"
      /\ job' = [job EXCEPT ![Root] = NoJob]
  BY DEF Finish, Over, user, history
<1>2. Root \in Procs /\ Slots = Procs \ {Root}
  BY TreeAssumption DEF Procs
<1>3. PICK D : job \in JobsOver(D)
  BY DEF HInv, Shape
<1>4. /\ \A q \in Slots : job'[q] = job[q]
      /\ job'[Root].at = "none"
  BY <1>1, <1>2, <1>3 DEF JobsOver, NoJob, NewJob
<1>5. \E G : job' \in JobsOver(G)
  <2>1. NoJob \in JobOver(D \cup {{}, {}, Blank, Missing})
    BY NoJobOver, Wider DEF NoJob, Places
  <2> QED
    BY <1>1, <1>2, <1>3, <2>1, PutShape
<1>6. \A q \in Slots : (Held(q)' <=> Held(q)) /\ (Alive(q)' <=> Alive(q))
  BY <1>4 DEF Held, Alive
<1>7. Parents'
  <2> SUFFICES ASSUME NEW c \in Slots, Held(c)' PROVE job'[job'[c].by].at \in Asking
    BY DEF Parents, Asking
  <2>1. Held(c) /\ job'[c].by = job[c].by /\ job[c].by \in Procs
    BY <1>2, <1>3, <1>4, <1>6 DEF JobsOver, JobOver
  <2>2. job[c].by # Root
    BY <1>1, <2>1 DEF Children
  <2> QED
    BY <1>2, <1>4, <2>1, <2>2 DEF HInv, Parents
<1>8. ASSUME result' = "ok" PROVE ~reason /\ \A q \in Slots : ~Alive(q)
  <2>1. ~job[Root].bad /\ Alive(Root)
    BY <1>1, <1>8 DEF Alive
  <2>2. Family({Root})
    BY <1>1, <1>2 DEF Family
  <2>3. ~Doomed(Root)
    BY <1>2, <2>1 DEF Doomed
  <2>4. ~Trouble({Root})
    BY <2>1, <2>2, <2>3 DEF HInv, Blame
  <2> QED
    BY <1>2, <2>4 DEF Trouble
<1>9. Shape'
  BY <1>1, <1>5 DEF HInv, Shape
<1>10. OneHolder' /\ RenamedWell'
  BY <1>4, <1>6 DEF HInv, OneHolder, RenamedWell
<1>11. ~Alive(Root)'
  BY <1>4 DEF Alive
<1>12. Reported' /\ NoFalseSuccess' /\ NothingLeft' /\ Blame'
  BY <1>1, <1>2, <1>6, <1>8, <1>11 DEF Reported, NoFalseSuccess, NothingLeft, Blame, Idle
<1> QED
  BY <1>7, <1>9, <1>10, <1>12 DEF HInv

LEMMA KillNext ==
    ASSUME HInv, Kill
    PROVE  HInv'
<1>1. /\ job' = [p \in Procs |-> NoJob] /\ result' = "killed" /\ disk' = disk
      /\ reason' = reason
  BY DEF Kill
<1>2. NoJob \in JobOver({{}, {}, Blank, Missing}) /\ NoJob.at = "none"
  BY NoneOver
<1>3. job' \in JobsOver({{}, {}, Blank, Missing})
  BY <1>1, <1>2 DEF JobsOver
<1>4. \A p \in Procs : ~Alive(p)' /\ ~Held(p)' /\ job'[p].at # "renamed"
  BY <1>1, <1>2 DEF Alive, Held
<1>5. Slots \subseteq Procs /\ Root \in Procs
  BY DEF Procs
<1>6. Shape'
  BY <1>1, <1>3 DEF HInv, Shape
<1> QED
  BY <1>1, <1>4, <1>5, <1>6
     DEF HInv, Parents, OneHolder, RenamedWell, Blame, Reported, NoFalseSuccess, NothingLeft

LEMMA UsersNext ==
    ASSUME HInv, Users
    PROVE  HInv'
<1>1. PICK f, new : Touch(f, new)
  BY DEF Users, Edit, Delete, ChangeMode
<1>2. /\ Idle /\ job' = job /\ result' = "none" /\ reason' = reason
      /\ disk' = [disk EXCEPT ![f] = new]
  BY <1>1 DEF Touch
<1>3. \A p \in Procs : ~Alive(p)' /\ ~Held(p)' /\ job'[p].at # "renamed"
  BY <1>2 DEF Idle, Alive, Held
<1>4. Slots \subseteq Procs /\ Root \in Procs
  BY DEF Procs
<1>5. Shape'
  BY <1>2 DEF HInv, Shape
<1> QED
  BY <1>2, <1>3, <1>4, <1>5
     DEF HInv, Parents, OneHolder, RenamedWell, Blame, Reported, NoFalseSuccess, NothingLeft

----------------------------------------------------------------------------
LEMMA HInvInit == Init => HInv
<1> SUFFICES ASSUME Init PROVE HInv
  OBVIOUS
<1>1. job = [p \in Procs |-> NoJob] /\ reason = FALSE /\ result = "none"
  BY DEF Init
<1>2. NoJob \in JobOver({{}, {}, Blank, Missing}) /\ NoJob.at = "none"
  BY NoneOver
<1>3. job \in JobsOver({{}, {}, Blank, Missing})
  BY <1>1, <1>2 DEF JobsOver
<1>4. \A p \in Procs : ~Alive(p) /\ ~Held(p) /\ job[p].at # "renamed"
  BY <1>1, <1>2 DEF Alive, Held
<1>5. Slots \subseteq Procs /\ Root \in Procs
  BY DEF Procs
<1>6. Shape
  <2>1. disk = [f \in Names |-> disk[f]]
    BY DEF Init
  <2> QED
    BY <1>1, <1>3, <2>1 DEF Shape
<1> QED
  BY <1>1, <1>4, <1>5, <1>6
     DEF HInv, Parents, OneHolder, RenamedWell, Blame, Reported, NoFalseSuccess, NothingLeft

LEMMA HInvStutters ==
    ASSUME HInv, UNCHANGED vars
    PROVE  HInv'
BY DEF vars, HInv, Shape, Parents, OneHolder, RenamedWell, Blame, Family, Trouble, Doomed,
       Held, Alive, Children, DirectlyModified, Exists, Reported, NoFalseSuccess, NothingLeft,
       Idle, JobsOver, JobOver, Asking

LEMMA HInvNext == HInv /\ [Next]_vars => HInv'
<1> SUFFICES ASSUME HInv, [Next]_vars PROVE HInv'
  OBVIOUS
<1>1. CASE \E c \in Slots : Script(c)
  BY <1>1, ScriptNext
<1>2. CASE \E c \in Slots : Record(c)
  BY <1>2, RenameNext, EndNext DEF Record
<1>3. CASE \E c \in Slots : Unlocked(c)
  BY <1>3, UnlockedNext
<1>4. CASE \E p \in Procs : \E t \in Files : Look(p, t)
  BY <1>4, LookNext
<1>5. CASE Finish
  BY <1>5, FinishNext
<1>6. CASE Mishap
  BY <1>6, ScriptFailsNext, WriteDirectlyNext, KillNext DEF Mishap
<1>7. CASE Users
  BY <1>7, UsersNext
<1>8. CASE Start
  BY <1>8, CommandNext DEF Start
<1>9. CASE UNCHANGED vars
  BY <1>9, HInvStutters
<1> QED
  BY <1>1, <1>2, <1>3, <1>4, <1>5, <1>6, <1>7, <1>8, <1>9 DEF Next, Run

(* The structure of a run.  A job is either waited for by the command that *)
(* started it, which then owns the lock of its target, or that command has *)
(* given up and left it behind; a target has at most one job of the first  *)
(* kind.  What failed, or was left behind, is known to a process whose end *)
(* the command of the user is going to hear of (start() and run() of       *)
(* src/src/builder.rs).                                                    *)
THEOREM HInvAlways == Spec => []HInv
<1> QED
  BY HInvInit, HInvNext, PTL DEF Spec

(* A run that reports success is one in which nothing failed, although     *)
(* commands give up early and leave jobs behind that nobody hears of again *)
(* (run() of src/src/builder.rs).                                          *)
THEOREM SuccessIsHonest == Spec => []NoFalseSuccess
<1>1. HInv => NoFalseSuccess
  BY DEF HInv
<1> QED
  BY <1>1, HInvAlways, PTL

(* Jobs are only left behind by runs that fail: when a run has ended with  *)
(* success, none of its jobs is still there (the error that leaves run()   *)
(* of src/src/builder.rs reaches the command of the user).                 *)
THEOREM SuccessIsWhole == Spec => []NothingLeft
<1>1. HInv => NothingLeft
  BY DEF HInv
<1> QED
  BY <1>1, HInvAlways, PTL
=============================================================================
