----------------------------- MODULE RebuildFiles -----------------------------
(***************************************************************************)
(* What runs of redo do to the files and to the database, for every tree:  *)
(* the state keeps its type, redo never touches a file of the user's, and  *)
(* a run only fails if something in it had to.                             *)
(***************************************************************************)
EXTENDS RebuildProofs, DirtinessProofs

----------------------------------------------------------------------------
(* The tree, and rows of the database. *)

LEMMA TreeFacts ==
  /\ Targets \subseteq Files /\ Sources \subseteq Files /\ Files \subseteq Names
  /\ Slots \subseteq Procs /\ Root \in Procs /\ Root \notin Slots
  /\ \A c \in Slots : Of[c] \in Targets /\ Of[c] \in Names
  /\ ALWAYS \in Names /\ ALWAYS \notin Targets
  /\ Sources \cap Targets = {} /\ Names \subseteq STRING
  <1>1. Names \subseteq STRING
    BY OrderAssumption DEF Names
  <1> QED BY <1>1, TreeAssumption DEF Files, Procs

LEMMA RuleFacts ==
  ASSUME NEW t \in Targets
  PROVE  /\ DoFile(t) \subseteq Sources /\ Skipped(t) \subseteq Sources
         /\ Needs[t] \subseteq Files /\ MoreNeeds(t) \subseteq Files /\ Optional[t] \subseteq Files
         /\ MayNeed(t) \subseteq Files
         /\ Inputs(t) \cup DoFile(t) \subseteq MayNeed(t)
  <1> DEFINE rules == Rules[t]
  <1>1. rules \in Seq(Sources)
    BY TreeAssumption
  <1> HIDE DEF rules
  <1>2. \A i \in DOMAIN rules : rules[i] \in Sources
    BY <1>1
  <1>3. DoFile(t) \subseteq {rules[i] : i \in DOMAIN rules}
    BY DEF DoFile, Found, rules
  <1>4. Skipped(t) \subseteq {rules[i] : i \in DOMAIN rules}
    BY DEF Skipped, RulesOf, rules
  <1>5. /\ Needs[t] \subseteq Files /\ Optional[t] \subseteq Files
        /\ \A q \in Extra[t] : q[2] \in Files
    BY TreeAssumption DEF Files
  <1>6. MoreNeeds(t) \subseteq {q[2] : q \in Extra[t]} \cup Optional[t]
    BY DEF MoreNeeds
  <1>7. MayNeed(t) = Needs[t] \cup {q[2] : q \in Extra[t]} \cup Optional[t]
                       \cup {rules[i] : i \in DOMAIN rules}
    BY DEF MayNeed, rules
  <1>8. Inputs(t) = Needs[t] \cup MoreNeeds(t)
    BY DEF Inputs
  <1> QED BY <1>2, <1>3, <1>4, <1>5, <1>6, <1>7, <1>8, TreeFacts

LEMMA UpdateStampRow ==
  ASSUME NEW f \in Row, NEW now \in Nat, NEW r \in Nat
  PROVE  LET g == UpdateStamp(f, now, r)
         IN /\ g \in Row /\ g.generated = f.generated /\ g.csum = f.csum /\ g.stamp = now
            /\ g.failed \in {f.failed, None}
  BY RunIdFacts DEF Row, UpdateStamp, SetChanged

LEMMA SetStaticRow ==
  ASSUME NEW f \in Row, NEW now \in Nat, NEW r \in Nat
  PROVE  LET g == SetStatic(f, now, r)
         IN g \in Row /\ ~g.generated /\ g.csum = f.csum /\ g.failed = None
  BY RunIdFacts DEF Row, UpdateStamp, SetChanged, SetStatic

LEMMA SetOverrideRow ==
  ASSUME NEW f \in Row, NEW now \in Nat, NEW r \in Nat
  PROVE  LET g == SetOverride(f, now, r)
         IN /\ g \in Row /\ g.generated = f.generated /\ g.override /\ g.csum = f.csum
            /\ g.failed = None
  BY RunIdFacts DEF Row, UpdateStamp, SetChanged, SetOverride

LEMMA SetFailedRow ==
  ASSUME NEW f \in Row, NEW now \in Nat, NEW r \in Nat
  PROVE  LET g == SetFailed(f, now, r)
         IN /\ g \in Row /\ (g.generated <=> now # Missing) /\ g.csum = f.csum
            /\ g.stamp = now /\ g.failed = r
  BY RunIdFacts DEF Row, UpdateStamp, SetChanged, SetFailed

LEMMA RecordedRow ==
  ASSUME NEW f \in Row, NEW now \in Nat, NEW r \in Nat
  PROVE  LET g == Recorded(f, now, r)
         IN g \in Row /\ g.stamp = now /\ g.failed \in {f.failed, None}
  <1> DEFINE h == [f EXCEPT !.generated = TRUE, !.override = FALSE]
             k == UpdateStamp([h EXCEPT !.csum = {}], now, r)
             g == Recorded(f, now, r)
  <1>1. h \in Row /\ h.failed = f.failed /\ [h EXCEPT !.csum = {}] \in Row
    BY DEF Row, Content
  <1> HIDE DEF h
  <1>2. k \in Row /\ k.stamp = now /\ k.failed \in {h.failed, None}
    <2>1. [h EXCEPT !.csum = {}].failed = h.failed
      BY <1>1 DEF Row
    <2> QED BY <1>1, <2>1, UpdateStampRow
  <1> HIDE DEF k
  <1>3. g \in {[h EXCEPT !.stamp = now], SetChanged(k, r)}
    BY DEF Recorded, h, k
  <1> HIDE DEF g
  <1>4. g \in Row /\ g.stamp = now /\ g.failed \in {h.failed, k.failed, None}
    BY <1>1, <1>2, <1>3, RunIdFacts DEF Row, SetChanged
  <1> QED BY <1>1, <1>2, <1>4 DEF g

LEMMA RedoStampRow ==
  ASSUME NEW f \in Row, NEW sum \in Content, NEW r \in Nat
  PROVE  LET g == RedoStamp(f, sum, r)
         IN /\ g \in Row /\ g.failed = None
            /\ g.generated /\ ~g.override /\ g.stamp = f.stamp
  BY RunIdFacts DEF Row, RedoStamp, SetGenerated, SetChanged, SetChecked

----------------------------------------------------------------------------
(* What looking at a file does to the rows. *)

(* A row after someone has looked at its file: it may have failed, and     *)
(* redo may have given up its claim to the file, but never makes a new one.*)
Observed(old, new, now, r, why) ==
    /\ new.csum = old.csum
    /\ new.generated => old.generated
    /\ new.failed \in {old.failed, 0, None} \/ (why /\ new.failed = r)
    /\ new.generated /\ ~new.override => ~old.override /\ new.stamp = old.stamp
    /\ Torn(old) /\ now # Missing => Torn(new)

Watched ==
    /\ db' \in [Names -> Row]
    /\ \A n \in Names : Observed(db[n], db'[n], disk[n].stamp, runid, reason')

LEMMA Facts ==
  ASSUME TypeInv
  PROVE  /\ disk \in [Names -> [stamp : Nat, content : Content]]
         /\ db \in [Names -> Row] /\ runid \in Nat /\ job \in [Procs -> Job]
         /\ reason \in BOOLEAN
         /\ \A n \in Names : disk[n].stamp \in Nat /\ disk[n].content \in Content
  BY BoundsAssumption DEF TypeInv, TypedDisk, TypedDb, TypedJob, TypedRest

LEMMA OpinionFacts ==
  ASSUME TypeInv, NEW p \in Procs, NEW t \in Files
  PROVE  LET a == Opinion(p, t)
         IN /\ a.is \in Verdicts /\ a.need \subseteq Targets /\ a.db \in [Names -> Row]
            /\ \A n \in Names : Kept(db[n], a.db[n], disk[n].stamp)
            /\ a.is = "need" => t \in Targets
  <1> DEFINE a == ShouldBuild(t, db, deps, disk, runid)
             d == Answer("dirty", {}, [db |-> db, cache |-> {}])
  <1>1. t \in Names /\ db \in [Names -> Row] /\ runid \in Nat
    BY Facts, TreeFacts
  <1>2. /\ a \in Answers
        /\ \A n \in Names : Kept(db[n], a.db[n], disk[n].stamp)
        /\ \A n \in a.need : db[n].csum # {}
        /\ a.is = "need" => db[t].generated \/ db[t].csum # {}
    BY <1>1, ShouldBuildFacts
  <1> HIDE DEF a
  <1>3. a.is \in Verdicts /\ a.need \subseteq Names /\ a.db \in [Names -> Row]
    BY <1>2, AnswerFields
  <1>4. a.need \subseteq Targets /\ (a.is = "need" => t \in Targets)
    BY <1>1, <1>2, <1>3 DEF TypeInv, TypedDb, Plain
  <1>5. /\ d.is = "dirty" /\ d.need = {} /\ d.db = db /\ d.is \in Verdicts
        /\ \A n \in Names : Kept(db[n], d.db[n], disk[n].stamp)
    BY DEF Answer, Kept, Verdicts
  <1>6. Opinion(p, t) \in {a, d}
    BY DEF Opinion, a
  <1> HIDE DEF d
  <1> QED BY <1>1, <1>2, <1>3, <1>4, <1>5, <1>6

LEMMA KeptObserved ==
  ASSUME NEW old \in Row, NEW new \in Row, NEW now, NEW r, NEW why, Kept(old, new, now)
  PROVE  Observed(old, new, now, r, why)
  BY DEF Kept, Observed, Torn, Row

(* Looked at, then put in its place: *)
LEMMA KeptThenStatic ==
  ASSUME NEW old \in Row, NEW new \in Row, NEW now, NEW r, NEW why,
         ~new.generated, new.csum = old.csum, new.failed = None, ~old.generated \/ ~Torn(old) \/ now = Missing
  PROVE  Observed(old, new, now, r, why)
  BY DEF Observed, Torn, Row

LEMMA LookWatched ==
  ASSUME TypeInv, NEW p \in Procs, NEW t \in Files, Look(p, t)
  PROVE  Watched
  <1> DEFINE after == Opinion(p, t).db
             now == disk[t].stamp
  <1>0. /\ t \in Names /\ now \in Nat /\ runid \in Nat /\ db \in [Names -> Row]
        /\ reason \in BOOLEAN
    BY Facts, TreeFacts
  <1>1. after \in [Names -> Row] /\ \A n \in Names : Kept(db[n], after[n], disk[n].stamp)
    BY OpinionFacts
  <1>2. \A n \in Names : Observed(db[n], after[n], disk[n].stamp, runid, reason')
    BY <1>0, <1>1, KeptObserved
  <1>3. \A n \in Names : Observed(db[n], db[n], disk[n].stamp, runid, reason')
    BY <1>0 DEF Observed, Torn
  <1> HIDE DEF after, now
  <1>4. ASSUME NEW row \in Row, Observed(db[t], row, now, runid, reason'),
               db' = [after EXCEPT ![t] = row]
        PROVE  Watched
    BY <1>0, <1>1, <1>2, <1>4 DEF Watched, now
  <1>5. CASE FindFailed(p, t) \/ PanicOn(p, t)
    <2>1. db' = db
      BY <1>5 DEF FindFailed, PanicOn, data
    <2> QED BY <1>0, <1>3, <2>1 DEF Watched
  <1>6. CASE FindClean(p, t) \/ GiveToUnlocked(p, t)
    <2>1. db' = after
      BY <1>6 DEF FindClean, GiveToUnlocked, after
    <2> QED BY <1>1, <1>2, <2>1 DEF Watched
  <1>7. CASE KeepStatic(p, t)
    <2> DEFINE row == IF Looked(t).override THEN Looked(t) ELSE SetStatic(Looked(t), now, runid)
    <2>1. db' = [after EXCEPT ![t] = row]
      BY <1>7 DEF KeepStatic, after, now
    <2>2. /\ Looked(t) \in Row /\ Looked(t).csum = db[t].csum
          /\ Looked(t).generated = db[t].generated
          /\ Looked(t) = db[t] \/ (Looked(t).override /\ Looked(t).failed = None)
      <3> DEFINE g == SetOverride(db[t], now, runid)
      <3>1. db[t] \in Row
        BY <1>0
      <3>2. /\ g \in Row /\ g.generated = db[t].generated /\ g.override /\ g.csum = db[t].csum
            /\ g.failed = None
        BY <1>0, <3>1, SetOverrideRow
      <3>3. Looked(t) \in {db[t], g}
        BY DEF Looked, now
      <3> HIDE DEF g
      <3> QED BY <3>1, <3>2, <3>3
    <2>3. ~Unstamped(t) /\ Static(t)
      BY <1>7 DEF KeepStatic, Static
    <2>4. ~Torn(db[t]) \/ now = Missing
      BY <2>3 DEF Unstamped, Torn, Exists, now
    <2>5. CASE Looked(t).override
      <3>1. row = Looked(t)
        BY <2>5
      <3>2. Observed(db[t], row, now, runid, reason')
        BY <2>2, <2>4, <2>5, <3>1 DEF Observed
      <3> QED BY <1>4, <2>1, <2>2, <3>1, <3>2
    <2>6. CASE ~Looked(t).override
      <3>1. row = SetStatic(Looked(t), now, runid)
        BY <2>6
      <3> HIDE DEF row
      <3>2. Looked(t) \in Row /\ Looked(t).csum = db[t].csum
        BY <2>2
      <3>3. row \in Row /\ ~row.generated /\ row.csum = Looked(t).csum /\ row.failed = None
        BY <1>0, <3>1, <3>2, SetStaticRow
      <3>4. Observed(db[t], row, now, runid, reason')
        BY <1>0, <2>4, <3>2, <3>3, KeptThenStatic
      <3> QED BY <1>4, <2>1, <3>3, <3>4
    <2> QED BY <2>5, <2>6
  <1>8. CASE AdoptOrphan(p, t)
    <2> DEFINE row == SetStatic(db[t], now, runid)
    <2>1. db' = [after EXCEPT ![t] = row] /\ ~Unstamped(t)
      BY <1>8 DEF AdoptOrphan, after, now
    <2>2. row \in Row /\ ~row.generated /\ row.csum = db[t].csum /\ row.failed = None
      BY <1>0, SetStaticRow
    <2>3. ~Torn(db[t]) \/ now = Missing
      BY <2>1 DEF Unstamped, Torn, Exists, now
    <2> HIDE DEF row
    <2>4. Observed(db[t], row, now, runid, reason')
      BY <1>0, <2>2, <2>3, KeptThenStatic
    <2> QED BY <1>4, <2>1, <2>2, <2>4
  <1>9. CASE NoRule(p, t)
    <2> DEFINE row == SetFailed(db[t], Missing, runid)
    <2>1. db' = [after EXCEPT ![t] = row] /\ now = Missing /\ reason' = TRUE
      BY <1>9 DEF NoRule, after, now, Exists
    <2>2. row \in Row /\ ~row.generated /\ row.csum = db[t].csum /\ row.failed = runid
      BY <1>0, SetFailedRow DEF Missing
    <2> HIDE DEF row
    <2>3. Observed(db[t], row, now, runid, reason')
      BY <2>1, <2>2 DEF Observed
    <2> QED BY <1>4, <2>1, <2>2, <2>3
  <1>10. CASE StartJob(p, t)
    <2>1. db' = [f \in Names |-> IF f \in DoFile(t) THEN SetStatic(after[f], disk[f].stamp, runid)
                                                    ELSE after[f]]
      BY <1>10 DEF StartJob, after
    <2>2. t \in Targets
      BY <1>10 DEF StartJob, Ruleless, Skipped, Candidates, RulesOf
    <2>3. DoFile(t) \subseteq Sources
      BY <2>2, RuleFacts
    <2>4. ASSUME NEW f \in Names
          PROVE  db'[f] \in Row /\ Observed(db[f], db'[f], disk[f].stamp, runid, reason')
      <3>1. CASE f \notin DoFile(t)
        BY <1>1, <1>2, <2>1, <3>1
      <3>2. CASE f \in DoFile(t)
        <4> DEFINE row == SetStatic(after[f], disk[f].stamp, runid)
        <4>1. db'[f] = row
          BY <2>1, <3>2
        <4>2. after[f] \in Row /\ disk[f].stamp \in Nat /\ db[f] \in Row
          BY <1>0, <1>1, Facts
        <4>3. row \in Row /\ ~row.generated /\ row.csum = after[f].csum /\ row.failed = None
          BY <1>0, <4>2, SetStaticRow
        <4>4. ~db[f].generated /\ after[f].csum = db[f].csum
          BY <1>1, <2>3, <3>2, TreeFacts DEF TypeInv, TypedDb, Plain, Kept
        <4> HIDE DEF row
        <4>5. Observed(db[f], row, disk[f].stamp, runid, reason')
          BY <4>2, <4>3, <4>4, KeptThenStatic
        <4> QED BY <4>1, <4>3, <4>5
      <3> QED BY <3>1, <3>2
    <2>5. db' = [f \in Names |-> db'[f]]
      BY <2>1
    <2> QED BY <2>4, <2>5 DEF Watched
  <1> QED BY <1>5, <1>6, <1>7, <1>8, <1>9, <1>10 DEF Look

----------------------------------------------------------------------------
(* Table Deps. *)

Keyed(rows) == \A d, e \in rows : d.target = e.target /\ d.source = e.source => d = e

LEMMA AddDepsKeyed ==
  ASSUME NEW D \in SUBSET DepRows, Keyed(D), NEW t \in Targets,
         NEW mode \in {Created, Modified}, NEW sources \in SUBSET Names
  PROVE  AddDeps(D, t, mode, sources) \subseteq DepRows /\ Keyed(AddDeps(D, t, mode, sources))
  <1> DEFINE old == {d \in D : d.target # t \/ d.source \notin sources}
             row(s) == [target |-> t, source |-> s, mode |-> mode, deleteMe |-> FALSE]
             new == {row(s) : s \in sources}
  <1>1. AddDeps(D, t, mode, sources) = old \cup new
    BY DEF AddDeps
  <1>2. \A s \in sources : row(s) \in DepRows /\ row(s).target = t /\ row(s).source = s
    BY DEF DepRows
  <1> HIDE DEF row
  <1>3. old \subseteq DepRows /\ new \subseteq DepRows
    BY <1>2
  <1>4. Keyed(old) /\ \A d \in old : d.target # t \/ d.source \notin sources
    BY DEF Keyed
  <1>5. Keyed(new) /\ \A d \in new : d.target = t /\ d.source \in sources
    BY <1>2 DEF Keyed
  <1> HIDE DEF old, new
  <1>6. Keyed(old \cup new)
    BY <1>4, <1>5 DEF Keyed
  <1> QED BY <1>1, <1>3, <1>6

LEMMA ZapDepsKeyed ==
  ASSUME NEW D \in SUBSET DepRows, Keyed(D), NEW t
  PROVE  /\ ZapDeps1(D, t) \subseteq DepRows /\ Keyed(ZapDeps1(D, t))
         /\ ZapDeps2(D, t) \subseteq DepRows /\ Keyed(ZapDeps2(D, t))
  <1> DEFINE zap(d) == IF d.target = t THEN [d EXCEPT !.deleteMe = TRUE] ELSE d
  <1>1. \A d \in D : /\ zap(d) \in DepRows
                     /\ zap(d).target = d.target /\ zap(d).source = d.source
    BY DEF DepRows
  <1>2. ZapDeps1(D, t) = {zap(d) : d \in D}
    BY DEF ZapDeps1
  <1> HIDE DEF zap
  <1>3. Keyed({zap(d) : d \in D})
    BY <1>1 DEF Keyed
  <1>4. ZapDeps2(D, t) \subseteq D
    BY DEF ZapDeps2
  <1>5. Keyed(ZapDeps2(D, t))
    BY <1>4 DEF Keyed
  <1> QED BY <1>1, <1>2, <1>3, <1>4, <1>5

LEMMA SearchedKeyed ==
  ASSUME TypedDeps, NEW t \in Files, t \in Targets \/ Ruleless(t)
  PROVE  Searched(t) \subseteq DepRows /\ Keyed(Searched(t))
  <1> DEFINE one == ZapDeps1(deps, t)
             two == AddDeps(one, t, Created, Skipped(t))
             found == IF t \in Targets THEN DoFile(t) ELSE {}
  <1>1. one \in SUBSET DepRows /\ Keyed(one)
    BY ZapDepsKeyed DEF TypedDeps, KeyedDeps, Keyed
  <1>2. Searched(t) = AddDeps(two, t, Modified, found)
    BY DEF Searched
  <1>3. CASE t \in Targets
    <2>1. Skipped(t) \in SUBSET Names /\ found \in SUBSET Names
      BY <1>3, RuleFacts, TreeFacts
    <2> HIDE DEF one, found
    <2>2. two \in SUBSET DepRows /\ Keyed(two)
      BY <1>1, <1>3, <2>1, AddDepsKeyed
    <2> HIDE DEF two
    <2> QED BY <1>2, <1>3, <2>1, <2>2, AddDepsKeyed
  <1>4. CASE t \notin Targets
    <2>1. Skipped(t) = {} /\ found = {}
      BY <1>4 DEF Skipped, RulesOf
    <2>2. \A D, mode : AddDeps(D, t, mode, {}) = D
      BY DEF AddDeps
    <2>3. Searched(t) = one
      BY <1>2, <2>1, <2>2
    <2> QED BY <1>1, <2>3
  <1> QED BY <1>3, <1>4

----------------------------------------------------------------------------
(* Processes. *)

LEMMA JobFields ==
  ASSUME NEW J \in Job
  PROVE  /\ J.at \in Places /\ J.by \in Procs /\ J.todo \subseteq Files /\ J.bad \in BOOLEAN
         /\ J.need \subseteq Files /\ J.sf \in Row /\ J.before \in Nat /\ J.out \in Content
         /\ J.left \in BOOLEAN
  BY DEF Job

LEMMA NewJobTyped ==
  ASSUME NEW place \in Places, NEW p \in Procs, NEW todo \in SUBSET Files,
         NEW need \in SUBSET Files, NEW sf \in Row, NEW before \in Nat
  PROVE  LET J == NewJob(place, p, todo, need, sf, before)
         IN /\ J \in Job /\ J.at = place /\ J.by = p /\ ~J.bad /\ J.before = before /\ J.out = {}
            /\ J.todo = todo /\ J.sf = sf /\ ~J.left
  BY DEF NewJob, Job, Content

LEMMA NoJobTyped == NoJob \in Job /\ NoJob.at = "none" /\ ~NoJob.bad /\ NoJob.out = {}
  <1>1. Blank \in Row /\ Missing \in Nat /\ "none" \in Places
    BY RunIdFacts DEF Blank, Row, Missing, Places, Content
  <1> QED BY <1>1, TreeFacts, NewJobTyped DEF NoJob

LEMMA PutTyped ==
  ASSUME NEW F \in [Procs -> Job], NEW t, NEW J \in Job
  PROVE  LET G == [F EXCEPT ![t] = J]
         IN /\ G \in [Procs -> Job] /\ (t \in Procs => G[t] = J)
            /\ \A q \in Procs \ {t} : G[q] = F[q]
  OBVIOUS

(* A process that has looked at t. *)
LEMMA DoneTyped ==
  ASSUME job \in [Procs -> Job], NEW p \in Procs, NEW t
  PROVE  /\ Done(p, t) \in [Procs -> Job] /\ Broke(p, t) \in [Procs -> Job]
         /\ \A q \in Procs \ {p} : Done(p, t)[q] = job[q] /\ Broke(p, t)[q] = job[q]
         /\ \A J \in {Done(p, t)[p], Broke(p, t)[p]} :
               /\ J.at = job[p].at /\ J.by = job[p].by /\ J.before = job[p].before
               /\ J.out = job[p].out /\ J.sf = job[p].sf /\ J.left = job[p].left
         /\ Done(p, t)[p].bad = job[p].bad /\ Broke(p, t)[p].bad
  <1> DEFINE todo == job[p].todo \ {t}
             done == [job EXCEPT ![p].todo = todo]
             broke == [job EXCEPT ![p].todo = todo, ![p].bad = TRUE]
  <1>1. job[p] \in Job /\ todo \in SUBSET Files
    BY JobFields
  <1>2. Done(p, t) = done /\ Broke(p, t) = broke
    BY DEF Done, Broke
  <1> HIDE DEF todo
  <1>3. /\ done \in [Procs -> Job] /\ \A q \in Procs \ {p} : done[q] = job[q]
        /\ done[p].at = job[p].at /\ done[p].by = job[p].by /\ done[p].before = job[p].before
        /\ done[p].out = job[p].out /\ done[p].sf = job[p].sf /\ done[p].bad = job[p].bad
        /\ done[p].left = job[p].left
    BY <1>1 DEF Job
  <1>4. /\ broke \in [Procs -> Job] /\ \A q \in Procs \ {p} : broke[q] = job[q]
        /\ broke[p].at = job[p].at /\ broke[p].by = job[p].by /\ broke[p].before = job[p].before
        /\ broke[p].out = job[p].out /\ broke[p].sf = job[p].sf /\ broke[p].bad
        /\ broke[p].left = job[p].left
    BY <1>1 DEF Job
  <1> HIDE DEF done, broke
  <1> QED BY <1>2, <1>3, <1>4

(* A process that gives up. *)
LEMMA DesertTyped ==
  ASSUME NEW jobs \in [Procs -> Job], NEW p
  PROVE  /\ Desert(p, jobs) \in [Procs -> Job]
         /\ \A q \in Procs :
               LET J == Desert(p, jobs)[q]
               IN /\ J.at = jobs[q].at /\ J.before = jobs[q].before /\ J.out = jobs[q].out
                  /\ J.sf = jobs[q].sf /\ J.bad = jobs[q].bad /\ (jobs[q].left => J.left)
  <1> DEFINE K == Children(p)
  <1> HIDE DEF K
  <1>1. Desert(p, jobs) =
          [q \in Procs |-> IF q \in K THEN [jobs[q] EXCEPT !.left = TRUE] ELSE jobs[q]]
    BY DEF Desert, K
  <1>2. ASSUME NEW q \in Procs
        PROVE  LET J == Desert(p, jobs)[q]
               IN /\ J \in Job
                  /\ J.at = jobs[q].at /\ J.before = jobs[q].before /\ J.out = jobs[q].out
                  /\ J.sf = jobs[q].sf /\ J.bad = jobs[q].bad /\ (jobs[q].left => J.left)
    <2>1. PICK J \in Job : J = jobs[q]
      OBVIOUS
    <2>2. CASE q \in K
      <3>1. Desert(p, jobs)[q] = [J EXCEPT !.left = TRUE]
        BY <1>1, <2>1, <2>2
      <3> QED BY <2>1, <2>2, <3>1 DEF Job
    <2>3. CASE q \notin K
      BY <1>1, <2>1, <2>3
    <2> QED BY <2>2, <2>3
  <1> QED BY <1>1, <1>2

(* A process goes to another place. *)
Goes(t, place) ==
    /\ job' \in [Procs -> Job]
    /\ \A q \in Procs \ {t} : job'[q] = job[q]
    /\ job'[t].at = place /\ job'[t].before = job[t].before /\ job'[t].sf = job[t].sf
    /\ job'[t].left = job[t].left

LEMMA MoveGoes ==
  ASSUME job \in [Procs -> Job], NEW t \in Procs, NEW place \in Places,
         \/ job' = [job EXCEPT ![t].at = place]
         \/ \E todo \in SUBSET Files : job' = [job EXCEPT ![t].at = place, ![t].todo = todo]
  PROVE  Goes(t, place) /\ job'[t].out = job[t].out /\ job'[t].bad = job[t].bad
  <1>1. job[t] \in Job
    OBVIOUS
  <1>2. CASE job' = [job EXCEPT ![t].at = place]
    BY <1>1, <1>2 DEF Job, Goes
  <1>3. CASE \E todo \in SUBSET Files : job' = [job EXCEPT ![t].at = place, ![t].todo = todo]
    <2>1. PICK todo \in SUBSET Files : job' = [job EXCEPT ![t].at = place, ![t].todo = todo]
      BY <1>3
    <2> QED BY <1>1, <2>1 DEF Job, Goes
  <1> QED BY <1>2, <1>3

LEMMA WriteGoes ==
  ASSUME job \in [Procs -> Job], NEW t \in Procs, NEW out \in Content,
         job' = [job EXCEPT ![t].at = "exit", ![t].out = out]
  PROVE  Goes(t, "exit") /\ job'[t].out = out /\ job'[t].bad = job[t].bad
  <1>0. PICK K \in Job : K = job[t]
    OBVIOUS
  <1>1. PICK J : J = [K EXCEPT !.at = "exit", !.out = out]
    OBVIOUS
  <1>2. "exit" \in Places
    BY DEF Places
  <1>3. /\ J \in Job /\ J.at = "exit" /\ J.before = K.before /\ J.sf = K.sf
        /\ J.out = out /\ J.bad = K.bad /\ J.left = K.left
    BY <1>1, <1>2 DEF Job
  <1>4. job' = [job EXCEPT ![t] = J]
    BY <1>0, <1>1
  <1>5. job' \in [Procs -> Job] /\ job'[t] = J /\ \A q \in Procs \ {t} : job'[q] = job[q]
    BY <1>3, <1>4
  <1> QED BY <1>0, <1>3, <1>5 DEF Goes

LEMMA FailGoes ==
  ASSUME job \in [Procs -> Job], NEW t \in Procs, NEW bad \in BOOLEAN,
         job' = [job EXCEPT ![t].at = "exit", ![t].bad = bad]
  PROVE  Goes(t, "exit") /\ job'[t].out = job[t].out /\ job'[t].bad = bad
  <1>1. job[t] \in Job
    OBVIOUS
  <1>2. [job[t] EXCEPT !.at = "exit", !.bad = bad] \in Job
    BY <1>1 DEF Job, Places
  <1>3. job' = [job EXCEPT ![t] = [job[t] EXCEPT !.at = "exit", !.bad = bad]]
    BY <1>1
  <1> QED BY <1>1, <1>2, <1>3 DEF Job, Goes

(* A job ends. *)
LEMMA EndTyped ==
  ASSUME job \in [Procs -> Job], NEW c \in Slots, NEW fails \in BOOLEAN,
         EndJob(c, fails) \/ (~fails /\ job' = [job EXCEPT ![c] = NoJob])
  PROVE  /\ job' \in [Procs -> Job] /\ job'[c] = NoJob
         /\ \A q \in Procs \ {c} :
               /\ job'[q].at = job[q].at /\ job'[q].by = job[q].by /\ job'[q].sf = job[q].sf
               /\ job'[q].before = job[q].before /\ job'[q].out = job[q].out
               /\ job'[q].left = job[q].left
               /\ job'[q].bad => job[q].bad \/ fails
  <1> PICK p \in Procs : p = job[c].by
    BY TreeFacts, JobFields
  <1> DEFINE bad == job[p].bad \/ fails
             F == [job EXCEPT ![p].bad = bad]
  <1>1. bad \in BOOLEAN /\ job[p] \in Job
    OBVIOUS
  <1> HIDE DEF bad
  <1>2. /\ F \in [Procs -> Job]
        /\ \A q \in Procs :
              /\ F[q].at = job[q].at /\ F[q].by = job[q].by /\ F[q].sf = job[q].sf
              /\ F[q].before = job[q].before /\ F[q].out = job[q].out
              /\ F[q].left = job[q].left
              /\ F[q].bad = IF q = p THEN bad ELSE job[q].bad
    BY <1>1 DEF Job
  <1>3. CASE EndJob(c, fails)
    <2>1. job' = [F EXCEPT ![c] = NoJob]
      BY <1>3 DEF EndJob, bad
    <2> HIDE DEF F
    <2>2. /\ job' \in [Procs -> Job] /\ job'[c] = NoJob
          /\ \A q \in Procs \ {c} : job'[q] = F[q]
      BY <1>2, <2>1, NoJobTyped, TreeFacts
    <2> QED BY <1>2, <2>2 DEF bad
  <1>4. CASE job' = [job EXCEPT ![c] = NoJob]
    BY <1>4, NoJobTyped, TreeFacts
  <1> QED BY <1>3, <1>4

----------------------------------------------------------------------------
(* Stamps. *)

LEMMA ChmodFacts ==
  ASSUME NEW n \in Nat, n \notin {Missing, 1}
  PROVE  Chmod(n) \in Nat /\ Chmod(n) \notin {Missing, 1} /\ Crit(Chmod(n)) = Crit(n)
  <1>1. PICK k \in Nat : n = 2 * k \/ n = 2 * k + 1
    <2>1. n \div 2 \in Nat /\ n % 2 \in 0..1 /\ n = 2 * (n \div 2) + (n % 2)
      OBVIOUS
    <2>2. n % 2 = 0 \/ n % 2 = 1
      BY <2>1
    <2> QED BY <2>1, <2>2
  <1>2. k > 0
    BY <1>1 DEF Missing
  <1>3. (2 * k) \div 2 = k /\ (2 * k + 1) \div 2 = k /\ (2 * k) % 2 = 0 /\ (2 * k + 1) % 2 = 1
    BY <1>1
  <1> QED BY <1>1, <1>2, <1>3 DEF Chmod, Crit, Missing

----------------------------------------------------------------------------
(* A command looks at a file: the rest of its step. *)

(* A job that a step leaves where it is, or a new one. *)
Stays(q) ==
    /\ job'[q].at = job[q].at /\ job'[q].before = job[q].before
    /\ job'[q].out = job[q].out /\ job'[q].sf = job[q].sf
    /\ job[q].left => job'[q].left

Begins(q) ==
    /\ q \in Slots /\ job[q].at = "none" /\ ~job'[q].bad /\ ~job'[q].left /\ job'[q].out = {}
    /\ job'[q].sf \in {Blank, db[Of[q]]}
    /\ \/ job'[q].at = "unlocked"
       \/ /\ job'[q].at \in {"always", "needs"} /\ ~Static(Of[q]) /\ ~Unstamped(Of[q])
          /\ job'[q].before = disk[Of[q]].stamp


(* Why a command gives up. *)
Gives(p, t) == FindFailed(p, t) \/ PanicOn(p, t) \/ NoRule(p, t)

LEMMA LookFrame ==
  ASSUME NEW p, NEW t, Look(p, t)
  PROVE  /\ Consider(p, t) /\ job[p].at \in Asking
         /\ disk' = disk /\ edits' = edits /\ kills' = kills
         /\ goals' = goals /\ forced' = forced /\ runid' = runid /\ result' = result
         /\ reason' \in {reason, TRUE}
  <1>1. Consider(p, t)
    BY DEF Look, FindFailed, FindClean, GiveToUnlocked, PanicOn, KeepStatic, AdoptOrphan,
           NoRule, StartJob, MustStart
  <1>2. reason' \in {reason, TRUE}
    BY DEF Look, FindFailed, FindClean, GiveToUnlocked, PanicOn, KeepStatic, AdoptOrphan,
           NoRule, StartJob, history
  <1> QED BY <1>1, <1>2 DEF Consider, user, command

LEMMA LookJob ==
  ASSUME TypeInv, NEW p \in Procs, NEW t \in Files, Look(p, t)
  PROVE  /\ job' \in [Procs -> Job]
         /\ \A q \in Procs : Stays(q) \/ Begins(q)
         /\ \A q \in Procs : job'[q].bad => job[q].bad \/ Gives(p, t)
         /\ \A q \in Procs : job'[q].left => job[q].left \/ Gives(p, t)
  <1>0. job \in [Procs -> Job] /\ job[p].at \in Asking
    BY Facts, LookFrame
  <1>1. ASSUME job' = Done(p, t) \/ (job' = Broke(p, t) /\ Gives(p, t))
        PROVE  /\ job' \in [Procs -> Job]
               /\ \A q \in Procs : /\ Stays(q) /\ (job'[q].bad => job[q].bad \/ Gives(p, t))
                                   /\ job'[q].left = job[q].left
    <2>1. /\ job' \in [Procs -> Job]
          /\ \A q \in Procs \ {p} : job'[q] = job[q]
      BY <1>0, <1>1, DoneTyped
    <2>2. Stays(p) /\ (job'[p].bad => job[p].bad \/ Gives(p, t)) /\ job'[p].left = job[p].left
      <3>1. CASE job' = Done(p, t)
        BY <1>0, <3>1, DoneTyped DEF Stays
      <3>2. CASE job' = Broke(p, t) /\ Gives(p, t)
        BY <1>0, <3>2, DoneTyped DEF Stays
      <3> QED BY <1>1, <3>1, <3>2
    <2> QED BY <2>1, <2>2 DEF Stays
  <1>2. ASSUME NEW place \in {"unlocked", "always", "needs"}, NEW need \in SUBSET Files,
               NEW sf \in Row, NEW before \in Nat, sf \in {Blank, db[t]},
               job' = [Done(p, t) EXCEPT ![Slot(t)] = NewJob(place, p, {}, need, sf, before)],
               Spare(t) # {},
               place # "unlocked" => ~Static(t) /\ ~Unstamped(t) /\ before = disk[t].stamp
        PROVE  /\ job' \in [Procs -> Job]
               /\ \A q \in Procs : /\ (Stays(q) \/ Begins(q)) /\ (job'[q].bad => job[q].bad)
                                   /\ job'[q].left => job[q].left
    <2> DEFINE J == NewJob(place, p, {}, need, sf, before)
               F == Done(p, t)
    <2>0. PICK c : c = Slot(t)
      OBVIOUS
    <2>1. c \in Slots /\ c \in Procs /\ Of[c] = t /\ job[c].at = "none" /\ c # p
      BY <1>0, <1>2, <2>0, TreeFacts DEF Slot, Spare, JobsOf, Alive, Asking
    <2>2. place \in Places /\ {} \in SUBSET Files
      BY DEF Places
    <2>3. /\ J \in Job /\ J.at = place /\ ~J.bad /\ J.before = before /\ J.out = {} /\ J.sf = sf
          /\ ~J.left
      BY <2>2 DEF NewJob, Job, Content
    <2>4. /\ F \in [Procs -> Job] /\ \A q \in Procs \ {p} : F[q] = job[q]
          /\ F[p].at = job[p].at /\ F[p].before = job[p].before
          /\ F[p].out = job[p].out /\ F[p].sf = job[p].sf /\ F[p].bad = job[p].bad
          /\ F[p].left = job[p].left
      BY <1>0, DoneTyped
    <2> HIDE DEF J, F
    <2>5. job' = [F EXCEPT ![c] = J]
      BY <1>2, <2>0 DEF F, J
    <2>6. /\ job' \in [Procs -> Job] /\ job'[c] = J
          /\ \A q \in Procs \ {c} : job'[q] = F[q]
      BY <2>1, <2>3, <2>4, <2>5
    <2>7. Begins(c) /\ ~job'[c].bad /\ ~job'[c].left
      BY <1>2, <2>1, <2>3, <2>6 DEF Begins
    <2>8. ASSUME NEW q \in Procs \ {c}
          PROVE  Stays(q) /\ (job'[q].bad => job[q].bad) /\ (job'[q].left => job[q].left)
      BY <2>4, <2>6 DEF Stays
    <2> QED BY <2>6, <2>7, <2>8
  <1>3. CASE FindFailed(p, t) \/ PanicOn(p, t) \/ NoRule(p, t)
    <2>1. job' \in {Broke(p, t), Desert(p, Broke(p, t))} /\ Gives(p, t)
      BY <1>3 DEF FindFailed, PanicOn, NoRule, Gives
    <2>2. CASE job' = Broke(p, t)
      BY <1>1, <2>1, <2>2
    <2>3. CASE job' = Desert(p, Broke(p, t))
      <3> DEFINE F == Broke(p, t)
      <3>1. /\ F \in [Procs -> Job] /\ \A q \in Procs \ {p} : F[q] = job[q]
            /\ F[p].at = job[p].at /\ F[p].before = job[p].before
            /\ F[p].out = job[p].out /\ F[p].sf = job[p].sf /\ F[p].left = job[p].left
        BY <1>0, DoneTyped
      <3> HIDE DEF F
      <3>2. /\ job' \in [Procs -> Job]
            /\ \A q \in Procs :
                  /\ job'[q].at = F[q].at /\ job'[q].before = F[q].before
                  /\ job'[q].out = F[q].out /\ job'[q].sf = F[q].sf
                  /\ F[q].left => job'[q].left
        BY <2>3, <3>1, DesertTyped DEF F
      <3>3. \A q \in Procs : Stays(q)
        BY <3>1, <3>2 DEF Stays
      <3> QED BY <2>1, <3>2, <3>3
    <2> QED BY <2>1, <2>2, <2>3
  <1>4. CASE FindClean(p, t) \/ KeepStatic(p, t) \/ AdoptOrphan(p, t)
    <2>1. job' = Done(p, t)
      BY <1>4 DEF FindClean, KeepStatic, AdoptOrphan
    <2> QED BY <1>1, <2>1
  <1>5. CASE GiveToUnlocked(p, t)
    <2> DEFINE a == Opinion(p, t)
    <2>1. /\ a.need \in SUBSET Files /\ Spare(t) # {}
          /\ job' = [Done(p, t) EXCEPT ![Slot(t)] = NewJob("unlocked", p, {}, a.need, Blank, Missing)]
      BY <1>5, OpinionFacts, TreeFacts DEF GiveToUnlocked
    <2> HIDE DEF a
    <2>2. Blank \in Row /\ Missing \in Nat
      BY RunIdFacts DEF Blank, Row, Missing, Content
    <2> QED BY <1>2, <2>1, <2>2
  <1>6. CASE StartJob(p, t)
    <2> DEFINE place == IF t \in AlwaysBuilt THEN "always" ELSE "needs"
    <2>2. db[t] \in Row /\ disk[t].stamp \in Nat
      BY Facts, TreeFacts
    <2>3. /\ job' = [Done(p, t) EXCEPT ![Slot(t)] = NewJob(place, p, {}, {}, db[t], disk[t].stamp)]
          /\ Spare(t) # {} /\ ~Static(t) /\ ~Unstamped(t)
      BY <1>6 DEF StartJob, MustStart
    <2>4. place \in {"unlocked", "always", "needs"}
      OBVIOUS
    <2> HIDE DEF place
    <2> QED BY <1>2, <2>2, <2>3, <2>4
  <1> QED BY <1>3, <1>4, <1>5, <1>6 DEF Look

LEMMA FlawTyped ==
  ASSUME TypeInv, ~Idle, NEW kind \in Kinds, NEW ts \in SUBSET Targets
  PROVE  Flaw(kind, ts) \subseteq [kind : Kinds, target : Targets, run : 1..MaxRun]
  <1>1. runid \in 1..MaxRun
    BY BoundsAssumption DEF TypeInv, TypedJob, TypedRest
  <1> QED BY <1>1 DEF Flaw

LEMMA Live ==
  ASSUME NEW p \in Procs, Alive(p)
  PROVE  ~Idle
  BY DEF Idle

(* What is lost with some jobs. *)
LEMMA LossTyped ==
  ASSUME TypeInv, ~Idle, NEW jobs \in SUBSET Slots
  PROVE  Loss(jobs) \subseteq [kind : Kinds, target : Targets, run : 1..MaxRun]
  <1> DEFINE torn == {Of[c] : c \in {c \in jobs : Tearable(c)}}
             relisted == {Of[c] : c \in {c \in jobs : Relisted(c)}}
             misplaced == {Of[c] : c \in {c \in jobs : Misplaced(c)}}
  <1>1. torn \in SUBSET Targets /\ relisted \in SUBSET Targets /\ misplaced \in SUBSET Targets
    BY TreeFacts
  <1>2. Loss(jobs) = Flaw("torn", torn) \cup Flaw("relisted", relisted) \cup Flaw("misplaced", misplaced)
    BY DEF Loss
  <1>3. "torn" \in Kinds /\ "relisted" \in Kinds /\ "misplaced" \in Kinds
    BY DEF Kinds
  <1> HIDE DEF torn, relisted, misplaced
  <1>4. /\ Flaw("torn", torn) \subseteq [kind : Kinds, target : Targets, run : 1..MaxRun]
        /\ Flaw("relisted", relisted) \subseteq [kind : Kinds, target : Targets, run : 1..MaxRun]
        /\ Flaw("misplaced", misplaced) \subseteq [kind : Kinds, target : Targets, run : 1..MaxRun]
    BY <1>1, <1>3, FlawTyped
  <1> QED BY <1>2, <1>4

LEMMA LookHistory ==
  ASSUME TypeInv, HInv, NEW p \in Procs, NEW t \in Files, Look(p, t)
  PROVE  TypedFlaws' /\ flaws \subseteq flaws' /\ adopted' \subseteq Targets
  <1>1. ~Idle
    BY Live, LookFrame DEF Alive, Asking
  <1>2. ASSUME NEW after, NEW row
        PROVE  /\ Flaw("peeked", Peeked(after)) \subseteq [kind : Kinds, target : Targets, run : 1..MaxRun]
               /\ Flaw("reverted", Reverted(t, row)) \subseteq [kind : Kinds, target : Targets, run : 1..MaxRun]
    <2>1. Peeked(after) \subseteq Targets /\ Reverted(t, row) \subseteq Targets
      BY DEF Peeked, Reverted
    <2> QED BY <1>1, <2>1, FlawTyped DEF Kinds
  <1>3. t \in Targets => Flaw("unlocked", {t}) \subseteq [kind : Kinds, target : Targets, run : 1..MaxRun]
    BY <1>1, FlawTyped DEF Kinds
  <1>4. TypedFlaws /\ adopted \subseteq Targets
    BY DEF TypeInv, TypedRest
  <1> HIDE DEF TypeInv
  <1>5. CASE FindFailed(p, t) \/ PanicOn(p, t)
    BY <1>4, <1>5 DEF FindFailed, PanicOn, history, TypedFlaws
  <1>6. CASE FindClean(p, t)
    BY <1>2, <1>4, <1>6 DEF FindClean, TypedFlaws
  <1>7. CASE GiveToUnlocked(p, t)
    <2>1. t \in Targets
      BY <1>7, OpinionFacts DEF GiveToUnlocked
    <2> QED BY <2>1, <1>2, <1>3, <1>4, <1>7 DEF GiveToUnlocked, TypedFlaws
  <1>8. CASE KeepStatic(p, t)
    BY <1>2, <1>4, <1>8 DEF KeepStatic, TypedFlaws
  <1>9. CASE AdoptOrphan(p, t)
    <2>1. t \in Targets
      <3>1. ~Static(t) /\ ~Unstamped(t) /\ Exists(t)
        BY <1>9 DEF AdoptOrphan
      <3>2. t \notin Targets => ~db[t].generated
        BY TreeFacts DEF TypeInv, TypedDb, Plain
      <3> QED BY <3>1, <3>2 DEF Static, Looked, Overridden
    <2> QED BY <2>1, <1>2, <1>4, <1>9 DEF AdoptOrphan, TypedFlaws
  <1>10. CASE NoRule(p, t)
    BY <1>2, <1>4, <1>10 DEF NoRule, TypedFlaws
  <1>11. CASE StartJob(p, t)
    BY <1>2, <1>4, <1>11 DEF StartJob, TypedFlaws
  <1> QED BY <1>5, <1>6, <1>7, <1>8, <1>9, <1>10, <1>11 DEF Look

----------------------------------------------------------------------------
(* The state keeps its type. *)

LEMMA LookTyped ==
  ASSUME TypeInv, HInv, NEW p \in Procs, NEW t \in Files, Look(p, t)
  PROVE  TypeInv'
  <1>1. TypedDisk'
    BY LookFrame DEF TypeInv, TypedDisk
  <1>2. TypedDb'
    BY LookWatched DEF Watched, Observed, TypeInv, TypedDb, Plain
  <1>3. TypedDeps'
    <2>1. deps' = deps \/ (deps' = Searched(t) /\ (t \in Targets \/ Ruleless(t)))
      BY DEF Look, FindFailed, FindClean, GiveToUnlocked, PanicOn, KeepStatic, AdoptOrphan,
             NoRule, StartJob, data, Ruleless, Skipped, Candidates, RulesOf
    <2> QED BY <2>1, SearchedKeyed DEF TypeInv, TypedDeps, KeyedDeps, Keyed
  <1>4. TypedJob'
    <2>1. ~Idle
      BY Live, LookFrame DEF Alive, Asking
    <2> QED BY <2>1, LookJob, LookFrame DEF TypeInv, TypedJob
  <1>5. TypedRest'
    BY LookFrame, LookHistory DEF TypeInv, TypedRest
  <1>6. TypedFlaws'
    BY LookHistory
  <1> QED BY <1>1, <1>2, <1>3, <1>4, <1>5, <1>6 DEF TypeInv

(* What a script writes. *)
LEMMA OutputTyped ==
  ASSUME TypeInv, NEW t \in Targets
  PROVE  Output(t) \in Content
  <1> DEFINE leaves == UNION {disk[f].content : f \in Inputs(t) \cup DoFile(t)}
  <1>1. \A f \in Inputs(t) \cup DoFile(t) : disk[f].content \in Content
    BY RuleFacts, TreeFacts, Facts
  <1>2. leaves \in Content
    BY <1>1 DEF Content
  <1> HIDE DEF leaves
  <1>3. {<<p[1], 2 * (p[2] \div 2)>> : p \in leaves} \in Content
    <2>1. \A p \in leaves : p[1] \in STRING /\ 2 * (p[2] \div 2) \in Nat
      BY <1>2 DEF Content
    <2> QED BY <2>1 DEF Content
  <1>4. {} \in Content
    BY DEF Content
  <1> QED BY <1>2, <1>3, <1>4 DEF Output, leaves

LEMMA ScriptGoes ==
  ASSUME TypeInv, NEW c \in Slots, Script(c)
  PROVE  /\ job'[c].bad = job[c].bad
         /\ \/ job[c].at = "always" /\ Goes(c, "needs") /\ job'[c].out = job[c].out
            \/ job[c].at = "needs" /\ Goes(c, "asking") /\ job'[c].out = job[c].out
            \/ job[c].at = "asking" /\ Goes(c, "more") /\ job'[c].out = job[c].out
            \/ job[c].at = "more" /\ Goes(c, "moreasking") /\ job'[c].out = job[c].out
            \/ job[c].at = "moreasking" /\ Goes(c, "exit") /\ job'[c].out = Output(Of[c])
            \/ job[c].at \in {"asking", "moreasking"} /\ Goes(c, "exit") /\ job'[c].out = job[c].out
  <1>0. /\ job \in [Procs -> Job] /\ c \in Procs /\ Output(Of[c]) \in Content
        /\ Needs[Of[c]] \in SUBSET Files /\ MoreNeeds(Of[c]) \in SUBSET Files
        /\ {"needs", "asking", "more", "moreasking", "exit"} \subseteq Places
    BY Facts, TreeFacts, RuleFacts, OutputTyped DEF Places
  <1>1. CASE RedoAlways(c)
    <2>1. job[c].at = "always" /\ job' = [job EXCEPT ![c].at = "needs"]
      BY <1>1 DEF RedoAlways, Move
    <2> QED BY <1>0, <2>1, MoveGoes
  <1>2. CASE AskNeeds(c)
    <2>1. job[c].at = "needs" /\ job' = [job EXCEPT ![c].at = "asking", ![c].todo = Needs[Of[c]]]
      BY <1>2 DEF AskNeeds, RedoIfchange
    <2> QED BY <1>0, <2>1, MoveGoes
  <1>3. CASE RedoIfcreate(c)
    <2>1. job[c].at = "asking" /\ job' = [job EXCEPT ![c].at = "more"]
      BY <1>3 DEF RedoIfcreate, Move
    <2> QED BY <1>0, <2>1, MoveGoes
  <1>4. CASE AskMore(c)
    <2>1. job[c].at = "more" /\ job' = [job EXCEPT ![c].at = "moreasking", ![c].todo = MoreNeeds(Of[c])]
      BY <1>4 DEF AskMore, RedoIfchange
    <2> QED BY <1>0, <2>1, MoveGoes
  <1>5. CASE WriteOnly(c) \/ WriteAndStamp(c)
    <2>1. job[c].at = "moreasking" /\ job' = [job EXCEPT ![c].at = "exit", ![c].out = Output(Of[c])]
      BY <1>5 DEF WriteOnly, WriteAndStamp, Write
    <2> QED BY <1>0, <2>1, WriteGoes
  <1>6. CASE ScriptAborts(c)
    <2>1. job[c].at \in {"asking", "moreasking"} /\ job' = [job EXCEPT ![c].at = "exit"]
      BY <1>6 DEF ScriptAborts, Move
    <2> QED BY <1>0, <2>1, MoveGoes
  <1> QED BY <1>1, <1>2, <1>3, <1>4, <1>5, <1>6 DEF Script

LEMMA ScriptFrame ==
  ASSUME NEW c, Script(c)
  PROVE  /\ disk' = disk /\ edits' = edits /\ kills' = kills
         /\ goals' = goals /\ forced' = forced /\ runid' = runid /\ result' = result
         /\ reason' = reason /\ adopted' = adopted /\ flaws' = flaws
  BY DEF Script, RedoAlways, AskNeeds, RedoIfcreate, AskMore, RedoIfchange, WriteOnly,
         WriteAndStamp, Write, ScriptAborts, user, command, history

LEMMA AlwaysRow ==
  ASSUME NEW f \in Row, Plain(f), NEW now, NEW r \in Nat, NEW why
  PROVE  LET g == SetChanged([f EXCEPT !.stamp = Missing], r)
         IN g \in Row /\ Observed(f, g, now, r, why)
  BY RunIdFacts DEF Row, SetChanged, Observed, Torn, Plain, Missing

LEMMA ScriptRows ==
  ASSUME TypeInv, NEW c \in Slots, Script(c)
  PROVE  \/ Watched
         \/ /\ Of[c] \in Stamped /\ db' = [db EXCEPT ![Of[c]] = RedoStamp(@, Output(Of[c]), runid)]
            /\ job[c].at = "moreasking" /\ job'[c].at = "exit"
  <1>0. db \in [Names -> Row] /\ runid \in Nat
    BY Facts
  <1>1. db' = db => Watched
    BY <1>0 DEF Watched, Observed, Torn
  <1>2. CASE RedoAlways(c)
    <2> DEFINE row == SetChanged([db[ALWAYS] EXCEPT !.stamp = Missing], runid)
    <2>1. db' = [db EXCEPT ![ALWAYS] = row]
      BY <1>2 DEF RedoAlways
    <2>2. db[ALWAYS] \in Row /\ Plain(db[ALWAYS])
      BY <1>0, TreeFacts DEF TypeInv, TypedDb
    <2>3. row \in Row /\ Observed(db[ALWAYS], row, disk[ALWAYS].stamp, runid, reason')
      BY <1>0, <2>2, AlwaysRow
    <2> HIDE DEF row
    <2>4. \A n \in Names : Observed(db[n], db[n], disk[n].stamp, runid, reason')
      BY DEF Observed, Torn
    <2> QED BY <1>0, <2>1, <2>3, <2>4 DEF Watched
  <1>3. CASE AskNeeds(c) \/ RedoIfcreate(c) \/ AskMore(c) \/ WriteOnly(c) \/ ScriptAborts(c)
    <2>1. db' = db
      BY <1>3 DEF AskNeeds, RedoIfcreate, AskMore, RedoIfchange, WriteOnly, ScriptAborts, data
    <2> QED BY <1>1, <2>1
  <1>4. CASE WriteAndStamp(c)
    <2>1. /\ Of[c] \in Stamped /\ db' = [db EXCEPT ![Of[c]] = RedoStamp(@, Output(Of[c]), runid)]
          /\ job[c].at = "moreasking" /\ job' = [job EXCEPT ![c].at = "exit", ![c].out = Output(Of[c])]
      BY <1>4 DEF WriteAndStamp, Write
    <2>2. job[c] \in Job /\ job \in [Procs -> Job] /\ c \in Procs
      BY Facts, TreeFacts
    <2>3. job'[c].at = "exit"
      BY <2>1, <2>2 DEF Job
    <2> QED BY <2>1, <2>3
  <1> QED BY <1>2, <1>3, <1>4 DEF Script

LEMMA ScriptTyped ==
  ASSUME TypeInv, HInv, NEW c \in Slots, Script(c)
  PROVE  TypeInv'
  <1>0. /\ c \in Procs /\ Of[c] \in Targets /\ Of[c] \in Names
        /\ db \in [Names -> Row] /\ runid \in Nat
    BY TreeFacts, Facts
  <1>1. job' \in [Procs -> Job] /\ job[c].at # "none"
    BY ScriptGoes DEF Goes
  <1>2. TypedJob'
    <2>1. ~Idle
      BY <1>0, <1>1, Live DEF Alive
    <2> QED BY <1>1, <2>1, ScriptFrame DEF TypeInv, TypedJob
  <1>3. TypedDb'
    <2>1. CASE Watched
      BY <2>1 DEF Watched, Observed, TypeInv, TypedDb, Plain
    <2>2. CASE db' = [db EXCEPT ![Of[c]] = RedoStamp(@, Output(Of[c]), runid)]
      <3> DEFINE row == RedoStamp(db[Of[c]], Output(Of[c]), runid)
      <3>1. db[Of[c]] \in Row /\ Output(Of[c]) \in Content
        BY <1>0, OutputTyped
      <3>2. row \in Row
        BY <1>0, <3>1, RedoStampRow
      <3>3. db' = [db EXCEPT ![Of[c]] = row]
        BY <2>2
      <3> HIDE DEF row
      <3> QED BY <1>0, <3>2, <3>3 DEF TypeInv, TypedDb
    <2> QED BY <2>1, <2>2, ScriptRows
  <1>4. TypedDeps'
    <2> DEFINE missing == {f \in Optional[Of[c]] : ~Exists(f)}
    <2>1. /\ Needs[Of[c]] \in SUBSET Names /\ MoreNeeds(Of[c]) \in SUBSET Names
          /\ {ALWAYS} \in SUBSET Names /\ missing \in SUBSET Names
      BY RuleFacts, TreeFacts
    <2>2. deps \in SUBSET DepRows /\ Keyed(deps)
      BY DEF TypeInv, TypedDeps, KeyedDeps, Keyed
    <2>3. deps' = deps \/ \E sources \in SUBSET Names : \E mode \in {Created, Modified} :
              deps' = AddDeps(deps, Of[c], mode, sources)
      <3>1. CASE RedoAlways(c)
        BY <2>1, <3>1 DEF RedoAlways
      <3>2. CASE AskNeeds(c) \/ AskMore(c)
        BY <2>1, <3>2 DEF AskNeeds, AskMore, RedoIfchange
      <3>3. CASE RedoIfcreate(c)
        BY <2>1, <3>3 DEF RedoIfcreate
      <3>4. CASE WriteOnly(c) \/ WriteAndStamp(c) \/ ScriptAborts(c)
        BY <3>4 DEF WriteOnly, WriteAndStamp, Write, ScriptAborts, data
      <3> QED BY <3>1, <3>2, <3>3, <3>4 DEF Script
    <2>4. deps' \in SUBSET DepRows /\ Keyed(deps')
      BY <1>0, <2>2, <2>3, AddDepsKeyed
    <2> QED BY <2>4 DEF TypedDeps, KeyedDeps, Keyed
  <1>5. TypedDisk' /\ TypedRest' /\ TypedFlaws'
    BY ScriptFrame DEF TypeInv, TypedDisk, TypedRest, TypedFlaws
  <1> QED BY <1>2, <1>3, <1>4, <1>5 DEF TypeInv

LEMMA UnlockedGoes ==
  ASSUME TypeInv, NEW c \in Slots, Unlocked(c)
  PROVE  \/ /\ job[c].at \in {"unlocked", "check"} /\ job'[c].out = job[c].out
            /\ job'[c].bad = job[c].bad
            /\ Goes(c, "check") \/ Goes(c, "recheck")
         \/ job[c].at \in {"check", "recheck"} /\ EndJob(c, job[c].bad /\ ~job[c].left)
  <1>0. /\ job \in [Procs -> Job] /\ c \in Procs /\ job[c].need \in SUBSET Files
        /\ {"check", "recheck"} \subseteq Places
    BY Facts, TreeFacts, JobFields DEF Places
  <1>1. CASE UnlockedAsks(c)
    <2>1. job[c].at = "unlocked" /\ job' = [job EXCEPT ![c].at = "check", ![c].todo = job[c].need]
      BY <1>1 DEF UnlockedAsks
    <2> QED BY <1>0, <2>1, MoveGoes
  <1>2. CASE UnlockedAsksAgain(c)
    <2>1. job[c].at = "check" /\ job' = [job EXCEPT ![c].at = "recheck", ![c].todo = job[c].need]
      BY <1>2 DEF UnlockedAsksAgain
    <2> QED BY <1>0, <2>1, MoveGoes
  <1>3. CASE UnlockedEnds(c)
    BY <1>3 DEF UnlockedEnds
  <1> QED BY <1>1, <1>2, <1>3 DEF Unlocked

LEMMA UnlockedFrame ==
  ASSUME NEW c, Unlocked(c)
  PROVE  /\ disk' = disk /\ edits' = edits /\ kills' = kills /\ db' = db
         /\ goals' = goals /\ forced' = forced /\ runid' = runid /\ result' = result
         /\ reason' = reason /\ adopted' = adopted /\ flaws' = flaws
  BY DEF Unlocked, UnlockedAsks, UnlockedAsksAgain, UnlockedEnds, user, data, command, history

LEMMA UnlockedTyped ==
  ASSUME TypeInv, HInv, NEW c \in Slots, Unlocked(c)
  PROVE  TypeInv'
  <1>0. c \in Procs /\ job \in [Procs -> Job] /\ job[c] \in Job
    BY TreeFacts, Facts
  <1>1. job' \in [Procs -> Job] /\ job[c].at # "none"
    <2>1. PICK fails \in BOOLEAN : fails = (job[c].bad /\ ~job[c].left)
      BY <1>0, JobFields
    <2> QED BY <1>0, <2>1, UnlockedGoes, EndTyped DEF Goes
  <1>2. TypedJob'
    <2>1. ~Idle
      BY <1>0, <1>1, Live DEF Alive
    <2> QED BY <1>1, <2>1, UnlockedFrame DEF TypeInv, TypedJob
  <1>3. TypedDeps'
    <2>1. deps' \in {deps, AddDeps(deps, Of[job[c].by], Modified, job[c].need)} /\
          (deps' = deps \/ job[c].by # Root)
      BY DEF Unlocked, UnlockedAsks, UnlockedAsksAgain, UnlockedEnds, data
    <2>2. job[c].by \in Slots \cup {Root} /\ job[c].need \in SUBSET Names
      BY <1>0, JobFields, TreeFacts DEF Procs
    <2>3. deps \in SUBSET DepRows /\ Keyed(deps)
      BY DEF TypeInv, TypedDeps, KeyedDeps, Keyed
    <2>4. deps' \in SUBSET DepRows /\ Keyed(deps')
      BY <2>1, <2>2, <2>3, TreeFacts, AddDepsKeyed
    <2> QED BY <2>4 DEF TypedDeps, KeyedDeps, Keyed
  <1>4. TypedDb' /\ TypedDisk' /\ TypedRest' /\ TypedFlaws'
    BY UnlockedFrame DEF TypeInv, TypedDb, Plain, TypedDisk, TypedRest, TypedFlaws
  <1> QED BY <1>2, <1>3, <1>4 DEF TypeInv

(* What a step of a job does to the file of its target. *)
LEMMA PutFile ==
  ASSUME TypedDisk, NEW f \in Names, NEW new,
         new = Gone \/ \E content \in Content : new = [stamp |-> Fresh(f), content |-> content],
         disk' = [disk EXCEPT ![f] = new]
  PROVE  TypedDisk' /\ disk'[f] = new /\ \A n \in Names \ {f} : disk'[n] = disk[n]
  <1>1. new \in [stamp : Nat, content : Content] /\ new.stamp # 1
    <2>1. Fresh(f) \in Nat /\ Fresh(f) # 1
      BY FreshIsNew
    <2>2. Gone \in [stamp : Nat, content : Content] /\ Gone.stamp # 1
      BY DEF Gone, Missing, Content
    <2>3. \A content \in Content : LET new1 == [stamp |-> Fresh(f), content |-> content]
                                   IN new1 \in [stamp : Nat, content : Content] /\ new1.stamp # 1
      BY <2>1
    <2> QED BY <2>2, <2>3
  <1> QED BY <1>1 DEF TypedDisk

(* The end of a job. *)
LEMMA EndsTyped ==
  ASSUME TypeInv, HInv, NEW c \in Slots, RecordSuccess(c) \/ RecordFailure(c)
  PROVE  TypeInv'
  <1>0. /\ c \in Procs /\ Of[c] \in Targets /\ Of[c] \in Names
        /\ job \in [Procs -> Job] /\ job[c] \in Job
        /\ db[Of[c]] \in Row /\ disk[Of[c]].stamp \in Nat /\ runid \in Nat
        /\ job[c].sf \in Row
    BY TreeFacts, Facts, JobFields
  <1>1. /\ job[c].at \in {"renamed", "exit"}
        /\ \E fails \in BOOLEAN : EndJob(c, fails)
        /\ disk' = disk /\ edits' = edits /\ kills' = kills
        /\ goals' = goals /\ forced' = forced /\ runid' = runid /\ result' = result
        /\ reason' = reason /\ adopted' = adopted
        /\ deps' = ZapDeps2(deps, Of[c])
        /\ flaws' \subseteq flaws
    BY DEF RecordSuccess, RecordFailure, user, command, Mended
  <1>2. TypedJob'
    <2>1. ~Idle
      BY <1>0, <1>1, Live DEF Alive
    <2> QED BY <1>0, <1>1, <2>1, EndTyped DEF TypeInv, TypedJob
  <1>3. TypedDb'
    <2>1. PICK row \in Row : db' = [db EXCEPT ![Of[c]] = row]
      <3>1. CASE RecordSuccess(c)
        BY <1>0, <3>1, RecordedRow DEF RecordSuccess
      <3>2. CASE RecordFailure(c)
        BY <1>0, <3>2, SetFailedRow DEF RecordFailure
      <3> QED BY <3>1, <3>2
    <2> QED BY <1>0, <2>1 DEF TypeInv, TypedDb
  <1>4. TypedDeps'
    <2>1. deps \in SUBSET DepRows /\ Keyed(deps)
      BY DEF TypeInv, TypedDeps, KeyedDeps, Keyed
    <2> QED BY <1>1, <2>1, ZapDepsKeyed DEF TypedDeps, KeyedDeps, Keyed
  <1>5. TypedDisk' /\ TypedRest' /\ TypedFlaws'
    BY <1>1 DEF TypeInv, TypedDisk, TypedRest, TypedFlaws
  <1> QED BY <1>2, <1>3, <1>4, <1>5 DEF TypeInv

LEMMA StrayTyped ==
  ASSUME TypeInv, HInv, NEW c \in Slots, StrayEnds(c)
  PROVE  TypeInv'
  <1>0. c \in Procs /\ job \in [Procs -> Job] /\ FALSE \in BOOLEAN /\ {c} \in SUBSET Slots
    BY TreeFacts, Facts
  <1>1. /\ job[c].at = "exit" /\ job' = [job EXCEPT ![c] = NoJob]
        /\ disk' = disk /\ edits' = edits /\ kills' = kills /\ data' = data
        /\ goals' = goals /\ forced' = forced /\ runid' = runid /\ result' = result
        /\ reason' = reason /\ adopted' = adopted
        /\ flaws' = flaws \cup Loss({c})
    BY DEF StrayEnds, user, command
  <1>2. ~Idle
    BY <1>0, <1>1, Live DEF Alive
  <1>3. TypedJob'
    BY <1>0, <1>1, <1>2, NoJobTyped DEF TypeInv, TypedJob
  <1>4. TypedFlaws'
    BY <1>0, <1>1, <1>2, LossTyped DEF TypeInv, TypedFlaws
  <1>5. TypedDb' /\ TypedDeps' /\ TypedDisk' /\ TypedRest'
    BY <1>1 DEF data, TypeInv, TypedDb, Plain, TypedDeps, KeyedDeps, TypedDisk, TypedRest
  <1> QED BY <1>3, <1>4, <1>5 DEF TypeInv

(* A step of a job that goes to its end, and may write its target. *)
LEMMA RenameTyped ==
  ASSUME TypeInv, HInv, NEW c \in Slots, Rename(c) \/ WriteDirectly(c) \/ ScriptFails(c)
  PROVE  TypeInv' /\ job[c].at \in {"needs", "exit"}
  <1>0. /\ c \in Procs /\ Of[c] \in Names /\ job \in [Procs -> Job]
        /\ job[c].out \in Content /\ job[c].bad \in BOOLEAN
        /\ {"renamed", "exit"} \subseteq Places
    BY TreeFacts, Facts, JobFields DEF Places
  <1>1. /\ job[c].at \in {"needs", "exit"}
        /\ edits' = edits /\ kills' = kills /\ data' = data
        /\ goals' = goals /\ forced' = forced /\ runid' = runid /\ result' = result
        /\ reason' \in {reason, TRUE} /\ adopted' = adopted /\ flaws' = flaws
    BY DEF Rename, WriteDirectly, ScriptFails, user, command, history
  <1>2. job' \in [Procs -> Job]
    <2>1. CASE Rename(c)
      BY <1>0, <2>1, MoveGoes DEF Rename, Move, Goes
    <2>2. CASE WriteDirectly(c)
      BY <1>0, <2>2, MoveGoes DEF WriteDirectly, Move, Goes
    <2>3. CASE ScriptFails(c)
      BY <1>0, <2>3, FailGoes DEF ScriptFails, Goes
    <2> QED BY <2>1, <2>2, <2>3
  <1>3. TypedJob'
    <2>1. ~Idle
      BY <1>0, <1>1, Live DEF Alive
    <2> QED BY <1>1, <1>2, <2>1 DEF TypeInv, TypedJob
  <1>4. TypedDisk'
    <2>1. CASE Rename(c)
      <3>1. PICK new : /\ disk' = [disk EXCEPT ![Of[c]] = new]
                       /\ new = Gone \/ new = [stamp |-> Fresh(Of[c]), content |-> job[c].out]
        BY <2>1 DEF Rename
      <3> QED BY <1>0, <3>1, PutFile DEF TypeInv
    <2>2. CASE WriteDirectly(c)
      <3>1. /\ disk' = [disk EXCEPT ![Of[c]] = [stamp |-> Fresh(Of[c]), content |-> {}]]
            /\ {} \in Content
        BY <2>2 DEF WriteDirectly, Content
      <3> QED BY <1>0, <3>1, PutFile DEF TypeInv
    <2>3. CASE ScriptFails(c)
      BY <2>3 DEF ScriptFails, user, TypeInv, TypedDisk
    <2> QED BY <2>1, <2>2, <2>3
  <1>5. TypedDb' /\ TypedDeps' /\ TypedRest' /\ TypedFlaws'
    BY <1>1 DEF data, TypeInv, TypedDb, Plain, TypedDeps, KeyedDeps, TypedRest, TypedFlaws
  <1> QED BY <1>1, <1>3, <1>4, <1>5 DEF TypeInv

LEMMA CommandTyped ==
  ASSUME TypeInv, NEW wanted \in SUBSET Files, NEW force \in BOOLEAN, Command(wanted, force)
  PROVE  TypeInv'
  <1> DEFINE J == NewJob("goals", Root, wanted, {}, Blank, Missing)
  <1>1. /\ runid < MaxRun /\ runid' = runid + 1 /\ goals' = wanted /\ forced' = force
        /\ job' = [job EXCEPT ![Root] = J]
        /\ result' = "none" /\ reason' = FALSE /\ flaws' \subseteq flaws
        /\ disk' = disk /\ edits' = edits /\ kills' = kills /\ data' = data /\ adopted' = adopted
    BY DEF Command, user
  <1>2. J \in Job
    <2>1. Blank \in Row /\ Missing \in Nat /\ "goals" \in Places /\ {} \in SUBSET Files
      BY RunIdFacts DEF Blank, Row, Missing, Places, Content
    <2> QED BY <2>1, TreeFacts DEF NewJob, Job, Content
  <1> HIDE DEF J
  <1>3. runid' \in 0..MaxRun /\ runid' > 0
    BY <1>1, BoundsAssumption DEF TypeInv, TypedRest
  <1>4. TypedJob'
    BY <1>1, <1>2, <1>3 DEF TypeInv, TypedJob
  <1>5. TypedRest'
    BY <1>1, <1>3 DEF TypeInv, TypedRest
  <1>6. TypedDb' /\ TypedDeps' /\ TypedDisk' /\ TypedFlaws'
    BY <1>1 DEF data, TypeInv, TypedDb, Plain, TypedDeps, KeyedDeps, TypedDisk, TypedFlaws
  <1> QED BY <1>4, <1>5, <1>6 DEF TypeInv

LEMMA FinishTyped ==
  ASSUME TypeInv, Finish
  PROVE  TypeInv'
  <1>1. /\ job[Root].at = "goals" /\ job' = [job EXCEPT ![Root] = NoJob]
        /\ result' \in {"failed", "ok"}
        /\ disk' = disk /\ edits' = edits /\ kills' = kills /\ data' = data
        /\ goals' = goals /\ forced' = forced /\ runid' = runid
        /\ reason' = reason /\ adopted' = adopted /\ flaws' = flaws
    BY DEF Finish, user, history
  <1>2. ~Idle
    BY <1>1, TreeFacts DEF Idle, Alive
  <1>3. TypedJob'
    BY <1>1, <1>2, NoJobTyped DEF TypeInv, TypedJob
  <1>4. TypedDb' /\ TypedDeps' /\ TypedDisk' /\ TypedRest' /\ TypedFlaws'
    BY <1>1 DEF data, TypeInv, TypedDb, Plain, TypedDeps, KeyedDeps, TypedDisk, TypedRest, TypedFlaws
  <1> QED BY <1>3, <1>4 DEF TypeInv

LEMMA KillTyped ==
  ASSUME TypeInv, Kill
  PROVE  TypeInv'
  <1>1. /\ ~Idle /\ kills < MaxKill /\ kills' = kills + 1
        /\ job' = [p \in Procs |-> NoJob] /\ result' = "killed"
        /\ flaws' = flaws \cup Loss(Slots)
        /\ disk' = disk /\ edits' = edits /\ data' = data
        /\ goals' = goals /\ forced' = forced /\ runid' = runid
        /\ reason' = reason /\ adopted' = adopted
    BY DEF Kill
  <1>2. TypedFlaws'
    BY <1>1, LossTyped DEF TypeInv, TypedFlaws
  <1>3. TypedJob'
    BY <1>1, NoJobTyped DEF TypeInv, TypedJob
  <1>4. TypedRest'
    BY <1>1, BoundsAssumption DEF TypeInv, TypedRest
  <1>5. TypedDb' /\ TypedDeps' /\ TypedDisk'
    BY <1>1 DEF data, TypeInv, TypedDb, Plain, TypedDeps, KeyedDeps, TypedDisk
  <1> QED BY <1>2, <1>3, <1>4, <1>5 DEF TypeInv

LEMMA PairTyped ==
  ASSUME NEW S, NEW T, NEW a \in S, NEW b \in T
  PROVE  {<<a, b>>} \in SUBSET (S \X T)
  OBVIOUS

LEMMA WrittenTyped ==
  ASSUME NEW f \in STRING, NEW version \in Nat
  PROVE  Written(f, version) \in Content
  BY PairTyped DEF Written, Content

(* What the user does to a file. *)
UserPuts(f, new) ==
    \/ \E version \in Nat : new = [stamp |-> Fresh(f), content |-> Written(f, version)]
    \/ new = Gone
    \/ Exists(f) /\ new = [disk[f] EXCEPT !.stamp = Chmod(@)]

LEMMA UserActs ==
  ASSUME Users
  PROVE  \E f, new :
            /\ f \in Files
            /\ Touch(f, new) /\ UserPuts(f, new) /\ adopted' \subseteq adopted
  <1>1. \A e \in Editable : e[1] \in Files /\ e[2] \in Nat
    BY TreeAssumption
  <1>2. CASE \E e \in Editable : Edit(e[1], e[2])
    <2>1. PICK e \in Editable : Edit(e[1], e[2])
      BY <1>2
    <2> DEFINE f == e[1]
               new == [stamp |-> Fresh(f), content |-> Written(f, e[2])]
    <2>2. f \in Files /\ e[2] \in Nat
      BY <1>1
    <2>3. Touch(f, new) /\ adopted' \subseteq adopted
      BY <2>1 DEF Edit
    <2>4. UserPuts(f, new)
      BY <2>2 DEF UserPuts
    <2> QED BY <2>2, <2>3, <2>4
  <1>3. CASE \E f \in {e[1] : e \in Editable} : Delete(f) \/ ChangeMode(f)
    <2>1. PICK f \in Files : Delete(f) \/ ChangeMode(f)
      BY <1>1, <1>3
    <2> DEFINE new == [disk[f] EXCEPT !.stamp = Chmod(@)]
    <2>2. CASE Delete(f)
      BY <2>2 DEF Delete, UserPuts
    <2>3. CASE ChangeMode(f)
      <3>1. Touch(f, new) /\ UserPuts(f, new) /\ adopted' \subseteq adopted
        BY <2>3 DEF ChangeMode, UserPuts
      <3> QED BY <3>1
    <2> QED BY <2>1, <2>2, <2>3
  <1> QED BY <1>2, <1>3 DEF Users

LEMMA UsersTyped ==
  ASSUME TypeInv, Users
  PROVE  TypeInv'
  <1>1. PICK f, new : f \in Files /\ Touch(f, new) /\ UserPuts(f, new) /\ adopted' \subseteq adopted
    BY UserActs
  <1>2. /\ edits < MaxEdit /\ edits' = edits + 1 /\ result' = "none"
        /\ disk' = [disk EXCEPT ![f] = new]
        /\ data' = data /\ goals' = goals /\ forced' = forced /\ runid' = runid
        /\ job' = job /\ reason' = reason /\ flaws' = flaws /\ kills' = kills
    BY <1>1 DEF Touch
  <1>3. f \in Names /\ f \in STRING
    BY <1>1, TreeFacts
  <1>4. TypedDisk'
    <2>1. CASE \E version \in Nat : new = [stamp |-> Fresh(f), content |-> Written(f, version)]
      <3>1. \A version \in Nat : Written(f, version) \in Content
        BY <1>3, WrittenTyped
      <3> QED BY <1>2, <1>3, <2>1, <3>1, PutFile DEF TypeInv
    <2>2. CASE new = Gone
      BY <1>2, <1>3, <2>2, PutFile DEF TypeInv
    <2>3. CASE Exists(f) /\ new = [disk[f] EXCEPT !.stamp = Chmod(@)]
      <3>1. disk[f] \in [stamp : Nat, content : Content] /\ disk[f].stamp \notin {Missing, 1}
        BY <1>3, <2>3 DEF TypeInv, TypedDisk, Exists
      <3>2. new \in [stamp : Nat, content : Content] /\ new.stamp # 1
        BY <2>3, <3>1, ChmodFacts
      <3> QED BY <1>2, <1>3, <3>2 DEF TypeInv, TypedDisk
    <2> QED BY <1>1, <2>1, <2>2, <2>3 DEF UserPuts
  <1>5. TypedRest'
    BY <1>1, <1>2, BoundsAssumption DEF TypeInv, TypedRest
  <1>6. TypedDb' /\ TypedDeps' /\ TypedJob' /\ TypedFlaws'
    BY <1>2 DEF data, TypeInv, TypedDb, Plain, TypedDeps, KeyedDeps, TypedJob, Idle, Alive,
                TypedFlaws
  <1> QED BY <1>4, <1>5, <1>6 DEF TypeInv

LEMMA TypeInvInit == Init => TypeInv
  <1> SUFFICES ASSUME Init PROVE TypeInv
    OBVIOUS
  <1>1. TypedDisk
    <2>1. \A f \in Names : Written(f, 0) \in Content
      BY TreeFacts, WrittenTyped
    <2>2. Gone \in [stamp : Nat, content : Content] /\ Gone.stamp # 1
      BY DEF Gone, Missing, Content
    <2> QED BY <2>1, <2>2 DEF Init, TypedDisk
  <1>2. TypedDb
    <2>1. Blank \in Row /\ Plain(Blank)
      BY RunIdFacts DEF Blank, Row, Content, Plain
    <2> QED BY <2>1 DEF Init, TypedDb
  <1>3. TypedJob
    BY NoJobTyped, TreeFacts DEF Init, TypedJob, Idle, Alive
  <1>4. TypedDeps /\ TypedFlaws
    BY DEF Init, TypedDeps, KeyedDeps, TypedFlaws
  <1>5. TypedRest
    <2>1. 0 \in 0..MaxRun /\ 0 \in 0..MaxEdit /\ 0 \in 0..MaxKill
      BY BoundsAssumption
    <2> QED BY <2>1 DEF Init, TypedRest
  <1> QED BY <1>1, <1>2, <1>3, <1>4, <1>5 DEF TypeInv

LEMMA CommandsTyped ==
  ASSUME Start
  PROVE  \E wanted \in SUBSET Files : \E force \in BOOLEAN : Command(wanted, force)
  <1>1. GoalSets \cup Redos \subseteq SUBSET Files
    BY TreeAssumption
  <1> QED BY <1>1 DEF Start

LEMMA TypeInvNext == TypeInv /\ HInv /\ [Next]_vars => TypeInv'
  <1> SUFFICES ASSUME TypeInv, HInv, [Next]_vars PROVE TypeInv'
    OBVIOUS
  <1>1. CASE Run
    BY <1>1, LookTyped, ScriptTyped, RenameTyped, EndsTyped, StrayTyped, UnlockedTyped, FinishTyped DEF Run, Record
  <1>2. CASE Mishap
    BY <1>2, RenameTyped, KillTyped DEF Mishap
  <1>3. CASE Users
    BY <1>3, UsersTyped
  <1>4. CASE Start
    BY <1>4, CommandsTyped, CommandTyped
  <1>5. CASE UNCHANGED vars
    BY <1>5 DEF vars, TypeInv, TypedDb, Plain, TypedDeps, KeyedDeps, TypedDisk, TypedJob, Idle, Alive,
                TypedRest, TypedFlaws
  <1> QED BY <1>1, <1>2, <1>3, <1>4, <1>5 DEF Next

----------------------------------------------------------------------------
(* What goes into a target. *)

LEMMA AboveIs ==
  ASSUME NEW t \in Targets, NEW f
  PROVE  Above(t, f) <=> \A S \in SUBSET Names : Closed(t, S) => f \in S
  <1>1. \A g \in Targets : MayNeed(g) \subseteq Names
    BY RuleFacts, TreeFacts
  <1>2. Closed(t, Names)
    BY <1>1 DEF Closed
  <1>3. Names \in SUBSET Names
    OBVIOUS
  <1>4. (\A S \in SUBSET Names : Closed(t, S) => f \in S) => f \in Names
    BY <1>2, <1>3
  <1>5. Origins[t] = {g \in Names : \A S \in SUBSET Names : Closed(t, S) => g \in S}
    BY DEF Origins
  <1> QED BY <1>4, <1>5 DEF Above

LEMMA AboveSelf ==
  ASSUME NEW t \in Targets
  PROVE  ~Above(t, t)
  <1> SUFFICES ASSUME Above(t, t) PROVE FALSE
    OBVIOUS
  <1> DEFINE U == {g \in Targets : g = t \/ Above(g, t)}
             S == Names \ U
  <1>1. PICK u \in U : MayNeed(u) \cap U = {}
    BY NoCircles
  <1>2. \A g \in Targets : MayNeed(g) \subseteq Names
    BY RuleFacts, TreeFacts
  <1>3. Above(u, t)
    OBVIOUS
  <1>4. ASSUME NEW g \in S \cap Targets PROVE MayNeed(g) \subseteq S
    <2>1. ~Above(g, t) /\ g # t
      OBVIOUS
    <2>2. PICK S2 \in SUBSET Names :
            /\ MayNeed(g) \subseteq S2 /\ t \notin S2
            /\ \A h \in S2 \cap Targets : MayNeed(h) \subseteq S2
      BY <2>1, AboveIs DEF Closed
    <2>3. ASSUME NEW h \in MayNeed(g) PROVE h \notin U
      <3>1. h \in S2 /\ h # t
        BY <2>2
      <3>2. h \in Targets => ~Above(h, t)
        BY <2>2, <3>1, AboveIs DEF Closed
      <3> QED BY <3>1, <3>2
    <2> QED BY <1>2, <2>3
  <1>5. MayNeed(u) \subseteq S
    BY <1>1, <1>2
  <1>6. Closed(u, S) /\ S \in SUBSET Names
    BY <1>4, <1>5 DEF Closed
  <1>7. u \in Targets
    OBVIOUS
  <1> HIDE DEF S, U
  <1>8. t \in S
    BY <1>3, <1>6, <1>7, AboveIs
  <1> QED BY <1>8 DEF S, U

LEMMA AboveNeeds ==
  ASSUME NEW t \in Targets, NEW f \in MayNeed(t), NEW n, n = f \/ (f \in Targets /\ Above(f, n))
  PROVE  Above(t, n)
  <1>1. SUFFICES ASSUME NEW S \in SUBSET Names, MayNeed(t) \subseteq S,
                        \A u \in S \cap Targets : MayNeed(u) \subseteq S
                 PROVE  n \in S
    BY AboveIs DEF Closed
  <1>2. f \in S
    BY <1>1
  <1>3. f \in Targets => MayNeed(f) \subseteq S
    BY <1>1, <1>2
  <1> QED BY <1>1, <1>2, <1>3, AboveIs DEF Closed

LEMMA OutputAbove ==
  ASSUME OwnerInv, NEW t \in Targets
  PROVE  \A p \in Output(t) : Above(t, p[1])
  <1> DEFINE leaves == UNION {disk[f].content : f \in Inputs(t) \cup DoFile(t)}
  <1>1. ASSUME NEW p \in leaves PROVE Above(t, p[1])
    <2>1. PICK f \in Inputs(t) \cup DoFile(t) : p \in disk[f].content
      OBVIOUS
    <2>2. f \in MayNeed(t) /\ f \in Names
      BY RuleFacts, TreeFacts
    <2>3. Descends(f, disk[f].content)
      BY <2>2 DEF OwnerInv
    <2>4. p[1] = f \/ (f \in Targets /\ Above(f, p[1]))
      BY <2>1, <2>3 DEF Descends
    <2> QED BY <2>2, <2>4, AboveNeeds
  <1>2. ASSUME NEW p \in Output(t) PROVE \E q \in leaves : p[1] = q[1]
    BY DEF Output
  <1> HIDE DEF leaves
  <1> QED BY <1>1, <1>2

----------------------------------------------------------------------------
(* Whose file it is. *)

LEMMA OwnerKept ==
  ASSUME OwnerInv, disk' = disk,
         \A t \in Targets : Trusted(t)' => Trusted(t) \/ ~OwnFile(t),
         \A c \in Slots : Scripting(c)' => Scripting(c) \/ ~OwnFile(Of[c]),
         \A c \in Slots : \A p \in job'[c].out : Above(Of[c], p[1])
  PROVE  OwnerInv'
  <1>1. \A t : OwnFile(t)' <=> OwnFile(t)
    BY DEF OwnFile
  <1> QED BY <1>1 DEF OwnerInv, Descends

LEMMA WatchedTrusted ==
  ASSUME Watched, disk' = disk, NEW t \in Names, Trusted(t)'
  PROVE  Trusted(t)
  BY DEF Watched, Observed, Trusted, Exists

(* redo builds a target only if there is no file, or one it trusts. *)
LEMMA StartsOwn ==
  ASSUME TypeInv, OwnerInv, NEW t \in Targets, ~Static(t), ~Unstamped(t)
  PROVE  ~OwnFile(t)
  <1>1. SUFFICES ASSUME OwnFile(t) PROVE FALSE
    OBVIOUS
  <1>2. t \in Names
    BY TreeFacts
  <1>3. Exists(t)
    BY <1>1, <1>2 DEF OwnFile, OwnerInv, Exists
  <1>4. Looked(t) = db[t]
    <2>1. ~Looked(t).override
      BY <1>3 DEF Static
    <2>2. db[t] \in Row /\ disk[t].stamp \in Nat /\ runid \in Nat
      BY <1>2, Facts
    <2>3. SetOverride(db[t], disk[t].stamp, runid).override
      BY <2>2, SetOverrideRow
    <2> QED BY <2>1, <2>3 DEF Looked
  <1>5. db[t].generated /\ ~db[t].override
    BY <1>3, <1>4 DEF Static
  <1>6. ~Overridden(t)
    <2>1. SUFFICES ASSUME Overridden(t) PROVE FALSE
      OBVIOUS
    <2>2. Looked(t) = SetOverride(db[t], disk[t].stamp, runid)
      BY <1>5, <2>1 DEF Looked
    <2>3. db[t] \in Row /\ disk[t].stamp \in Nat /\ runid \in Nat
      BY <1>2, Facts
    <2>4. SetOverride(db[t], disk[t].stamp, runid).override
      BY <2>3, SetOverrideRow
    <2> QED BY <1>4, <1>5, <2>2, <2>4
  <1>7. Crit(db[t].stamp) = Crit(disk[t].stamp)
    BY <1>3, <1>5, <1>6 DEF Overridden, DetectOverride
  <1>8. db[t].stamp # None
    BY <1>3, <1>5 DEF Unstamped
  <1>9. Trusted(t)
    BY <1>3, <1>5, <1>7, <1>8 DEF Trusted
  <1> QED BY <1>1, <1>9 DEF OwnerInv

LEMMA LookOwner ==
  ASSUME TypeInv, OwnerInv, NEW p \in Procs, NEW t \in Files, Look(p, t)
  PROVE  OwnerInv'
  <1>1. disk' = disk
    BY LookFrame
  <1>2. \A u \in Targets : Trusted(u)' => Trusted(u)
    BY <1>1, LookWatched, WatchedTrusted, TreeFacts
  <1>3. \A q \in Procs : Stays(q) \/ Begins(q)
    BY LookJob
  <1>4. ASSUME NEW c \in Slots
        PROVE  /\ Scripting(c)' => Scripting(c) \/ ~OwnFile(Of[c])
               /\ \A leaf \in job'[c].out : Above(Of[c], leaf[1])
    <2>1. CASE Stays(c)
      BY <2>1 DEF Stays, Scripting, OwnerInv
    <2>2. CASE Begins(c)
      <3>1. job'[c].at = "unlocked" \/ ~OwnFile(Of[c])
        BY <2>2, StartsOwn, TreeFacts DEF Begins
      <3> QED BY <2>2, <3>1 DEF Begins, Scripting
    <2> QED BY <1>3, <2>1, <2>2, TreeFacts
  <1> QED BY <1>1, <1>2, <1>4, OwnerKept

(* A job takes a step that leaves the files alone. *)
LEMMA JobOwner ==
  ASSUME TypeInv, OwnerInv, NEW c \in Slots,
         Script(c) \/ Unlocked(c) \/ ScriptFails(c) \/ StrayEnds(c)
  PROVE  OwnerInv'
  <1>0. /\ c \in Procs /\ Of[c] \in Targets /\ Of[c] \in Names /\ job \in [Procs -> Job]
        /\ Slots \subseteq Procs /\ FALSE \in BOOLEAN
    BY TreeFacts, Facts
  <1>1. disk' = disk
    BY ScriptFrame, UnlockedFrame DEF ScriptFails, StrayEnds, user
  <1>2. ASSUME NEW u \in Targets, Trusted(u)' PROVE Trusted(u) \/ ~OwnFile(u)
    <2>1. CASE Watched
      BY <1>1, <1>2, <2>1, WatchedTrusted, TreeFacts
    <2>2. CASE ~Watched
      <3>1. db' # db
        BY <2>2, Facts DEF Watched, Observed, Torn
      <3>2. Script(c)
        BY <3>1, UnlockedFrame DEF ScriptFails, StrayEnds, data
      <3>3. /\ db' = [db EXCEPT ![Of[c]] = RedoStamp(@, Output(Of[c]), runid)]
            /\ job[c].at = "moreasking"
        BY <2>2, <3>2, ScriptRows
      <3>4. CASE u = Of[c]
        BY <3>3, <3>4 DEF Scripting, OwnerInv
      <3>5. CASE u # Of[c]
        BY <1>1, <1>2, <3>3, <3>5 DEF Trusted, Exists
      <3> QED BY <3>4, <3>5
    <2> QED BY <2>1, <2>2
  <1>3. \/ /\ \A q \in Procs \ {c} : job'[q] = job[q]
           /\ Scripting(c)' => Scripting(c)
           /\ job'[c].out \in {job[c].out, Output(Of[c])}
        \/ /\ \A q \in Procs \ {c} : job'[q].at = job[q].at /\ job'[q].out = job[q].out
           /\ job'[c] = NoJob
    <2>1. CASE Script(c)
      BY <2>1, ScriptGoes DEF Goes, Scripting
    <2>2. CASE Unlocked(c)
      <3>1. PICK fails \in BOOLEAN : fails = (job[c].bad /\ ~job[c].left)
        BY <1>0, JobFields
      <3>2. CASE EndJob(c, fails)
        BY <1>0, <3>1, <3>2, EndTyped
      <3>3. CASE /\ job[c].at \in {"unlocked", "check"} /\ job'[c].out = job[c].out
                 /\ Goes(c, "check") \/ Goes(c, "recheck")
        BY <3>3 DEF Goes, Scripting
      <3> QED BY <2>2, <3>1, <3>2, <3>3, UnlockedGoes
    <2>3. CASE ScriptFails(c)
      BY <1>0, <2>3, FailGoes DEF ScriptFails, Goes, Scripting
    <2>4. CASE StrayEnds(c)
      BY <1>0, <2>4, NoJobTyped DEF StrayEnds
    <2> QED BY <2>1, <2>2, <2>3, <2>4
  <1>4. ASSUME NEW e \in Slots
        PROVE  /\ Scripting(e)' => Scripting(e)
               /\ \A leaf \in job'[e].out : Above(Of[e], leaf[1])
    <2>1. CASE e # c
      BY <1>0, <1>3, <2>1 DEF Scripting, OwnerInv
    <2>2. CASE e = c /\ job'[c].out \in {job[c].out, Output(Of[c])} /\ (Scripting(c)' => Scripting(c))
      BY <1>0, <2>2, OutputAbove DEF OwnerInv
    <2>3. CASE e = c /\ job'[c] = NoJob
      BY <2>3, NoJobTyped DEF Scripting
    <2> QED BY <1>3, <2>1, <2>2, <2>3
  <1> QED BY <1>1, <1>2, <1>4, OwnerKept

LEMMA EndsOwner ==
  ASSUME TypeInv, OwnerInv, NEW c \in Slots, RecordSuccess(c) \/ RecordFailure(c)
  PROVE  OwnerInv'
  <1>0. /\ c \in Procs /\ Of[c] \in Targets /\ job \in [Procs -> Job] /\ Slots \subseteq Procs
    BY TreeFacts, Facts
  <1>1. /\ Scripting(c) /\ disk' = disk
        /\ \E fails \in BOOLEAN : EndJob(c, fails)
        /\ \E row : db' = [db EXCEPT ![Of[c]] = row]
    BY DEF RecordSuccess, RecordFailure, user, Scripting
  <1>2. ASSUME NEW u \in Targets, Trusted(u)' PROVE Trusted(u) \/ ~OwnFile(u)
    <2>1. CASE u = Of[c]
      BY <1>1, <2>1 DEF OwnerInv
    <2>2. CASE u # Of[c]
      BY <1>1, <1>2, <2>2 DEF Trusted, Exists
    <2> QED BY <2>1, <2>2
  <1>3. /\ job'[c] = NoJob
        /\ \A q \in Procs \ {c} : job'[q].at = job[q].at /\ job'[q].out = job[q].out
    BY <1>0, <1>1, EndTyped
  <1>4. ASSUME NEW e \in Slots
        PROVE  /\ Scripting(e)' => Scripting(e)
               /\ \A leaf \in job'[e].out : Above(Of[e], leaf[1])
    <2>1. CASE e = c
      BY <1>3, <2>1, NoJobTyped DEF Scripting
    <2>2. CASE e # c
      BY <1>0, <1>3, <2>2 DEF Scripting, OwnerInv
    <2> QED BY <2>1, <2>2
  <1> QED BY <1>1, <1>2, <1>4, OwnerKept

(* A job puts a file in the place of its target. *)
LEMMA RenameOwner ==
  ASSUME TypeInv, OwnerInv, NEW c \in Slots, Rename(c) \/ WriteDirectly(c)
  PROVE  OwnerInv'
  <1> DEFINE t == Of[c]
  <1>0. /\ c \in Procs /\ t \in Names /\ t \in Targets /\ job \in [Procs -> Job]
        /\ Slots \subseteq Procs /\ Targets \subseteq Names
        /\ disk \in [Names -> [stamp : Nat, content : Content]]
        /\ "exit" \in Places /\ "renamed" \in Places /\ job[c].out \in Content
    BY TreeFacts, Facts, JobFields DEF Places
  <1>1. PICK place \in {"exit", "renamed"} :
          /\ job[c].at \in {"needs", "exit"} /\ job' = [job EXCEPT ![c].at = place] /\ db' = db
    BY DEF Rename, WriteDirectly, Move, data
  <1>2. PICK new : /\ disk' = [disk EXCEPT ![t] = new]
                   /\ \/ new = Gone
                      \/ \E content \in {{}, job[c].out} : new = [stamp |-> Fresh(t), content |-> content]
    BY DEF Rename, WriteDirectly
  <1> HIDE DEF t
  <1>3. /\ new.content \in {{}, job[c].out}
        /\ new.stamp = Missing => new.content = {}
    <2>1. Fresh(t) # Missing
      BY <1>0, FreshIsNew
    <2> QED BY <1>2, <2>1 DEF Gone
  <1>4. \A leaf \in new.content : Above(t, leaf[1])
    BY <1>3 DEF OwnerInv, t
  <1>5. disk'[t] = new /\ \A n \in Names \ {t} : disk'[n] = disk[n]
    BY <1>0, <1>2
  <1>6. /\ \A q \in Procs \ {c} : job'[q] = job[q]
        /\ job'[c].out = job[c].out
    <2>1. Goes(c, place) /\ job'[c].out = job[c].out
      BY <1>0, <1>1, MoveGoes
    <2> QED BY <2>1 DEF Goes
  <1>7. \A f \in Names : disk'[f].stamp = Missing => disk'[f].content = {}
    BY <1>3, <1>5 DEF OwnerInv
  <1>8. ~OwnFile(t)'
    <2>1. \A leaf \in disk'[t].content : leaf[1] # t
      BY <1>0, <1>4, <1>5, AboveSelf
    <2> QED BY <2>1 DEF OwnFile
  <1>9. ASSUME NEW u \in Targets, Trusted(u)' PROVE ~OwnFile(u)'
    <2>1. CASE u = t
      BY <1>8, <2>1
    <2>2. CASE u # t
      <3>1. disk'[u] = disk[u]
        BY <1>0, <1>5, <2>2
      <3> QED BY <1>1, <1>9, <3>1 DEF Trusted, Exists, OwnFile, OwnerInv
    <2> QED BY <2>1, <2>2
  <1>10. ASSUME NEW e \in Slots, Scripting(e)' PROVE ~OwnFile(Of[e])'
    <2>1. CASE Of[e] = t
      BY <1>8, <2>1 DEF OwnFile
    <2>2. CASE Of[e] # t
      <3>1. Of[e] \in Targets /\ e # c
        BY <2>2, TreeFacts DEF t
      <3>2. disk'[Of[e]] = disk[Of[e]] /\ job'[e] = job[e]
        BY <1>0, <1>5, <1>6, <2>2, <3>1
      <3> QED BY <1>10, <3>2 DEF Scripting, OwnFile, OwnerInv
    <2> QED BY <2>1, <2>2
  <1>11. \A f \in Names : Descends(f, disk'[f].content)
    BY <1>0, <1>4, <1>5 DEF Descends, OwnerInv
  <1>12. \A e \in Slots : \A leaf \in job'[e].out : Above(Of[e], leaf[1])
    BY <1>0, <1>6 DEF OwnerInv
  <1> QED BY <1>7, <1>9, <1>10, <1>11, <1>12 DEF OwnerInv

LEMMA UsersOwner ==
  ASSUME TypeInv, OwnerInv, Users
  PROVE  OwnerInv'
  <1>1. PICK f, new : f \in Files /\ Touch(f, new) /\ UserPuts(f, new)
    BY UserActs
  <1>2. Idle /\ disk' = [disk EXCEPT ![f] = new] /\ db' = db /\ job' = job
    BY <1>1 DEF Touch, data
  <1>3. \A c \in Slots : ~Scripting(c)
    BY <1>2, TreeFacts DEF Idle, Alive, Scripting
  <1>4. f \in Names /\ disk \in [Names -> [stamp : Nat, content : Content]] /\ Targets \subseteq Names
    BY <1>1, Facts, TreeFacts
  <1>5. disk'[f] = new /\ \A n \in Names \ {f} : disk'[n] = disk[n]
    BY <1>2, <1>4
  <1>6. /\ new.stamp = Missing => new.content = {}
        /\ Descends(f, new.content)
        /\ \/ new.stamp = Missing
           \/ Crit(new.stamp) # Crit(db[f].stamp)
           \/ Exists(f) /\ Crit(new.stamp) = Crit(disk[f].stamp) /\ new.content = disk[f].content
    <2>1. CASE \E version \in Nat : new = [stamp |-> Fresh(f), content |-> Written(f, version)]
      <3>1. PICK version \in Nat : new = [stamp |-> Fresh(f), content |-> Written(f, version)]
        BY <2>1
      <3>2. new.stamp = Fresh(f) /\ \A p \in new.content : p[1] = f
        BY <3>1 DEF Written
      <3> QED BY <3>2, FreshIsNew DEF Descends
    <2>2. CASE new = Gone
      BY <2>2 DEF Gone, Descends
    <2>3. CASE Exists(f) /\ new = [disk[f] EXCEPT !.stamp = Chmod(@)]
      <3>1. disk[f] \in [stamp : Nat, content : Content] /\ disk[f].stamp \notin {Missing, 1}
        BY <1>4, <2>3 DEF TypeInv, TypedDisk, Exists
      <3>2. new.content = disk[f].content /\ new.stamp = Chmod(disk[f].stamp)
        BY <2>3, <3>1
      <3>3. Chmod(disk[f].stamp) # Missing /\ Crit(Chmod(disk[f].stamp)) = Crit(disk[f].stamp)
        BY <3>1, ChmodFacts
      <3> QED BY <1>4, <2>3, <3>2, <3>3 DEF OwnerInv
    <2> QED BY <1>1, <2>1, <2>2, <2>3 DEF UserPuts
  <1>7. ASSUME NEW u \in Targets, Trusted(u)' PROVE ~OwnFile(u)'
    <2>1. CASE u # f
      <3>1. disk'[u] = disk[u]
        BY <1>4, <1>5, <2>1
      <3> QED BY <1>2, <1>7, <3>1 DEF Trusted, Exists, OwnFile, OwnerInv
    <2>2. CASE u = f
      <3>1. new.stamp # Missing /\ Crit(db[f].stamp) = Crit(new.stamp)
        BY <1>2, <1>5, <1>7, <2>2 DEF Trusted, Exists
      <3>2. /\ Exists(f) /\ Crit(new.stamp) = Crit(disk[f].stamp)
            /\ new.content = disk[f].content
        BY <1>6, <3>1
      <3>3. Trusted(f)
        BY <1>2, <1>7, <2>2, <3>1, <3>2 DEF Trusted
      <3>4. ~OwnFile(f)
        BY <2>2, <3>3 DEF OwnerInv
      <3> QED BY <1>5, <2>2, <3>2, <3>4 DEF OwnFile
    <2> QED BY <2>1, <2>2
  <1>8. \A n \in Names : /\ disk'[n].stamp = Missing => disk'[n].content = {}
                         /\ Descends(n, disk'[n].content)
    BY <1>5, <1>6 DEF OwnerInv
  <1>9. \A c \in Slots : ~Scripting(c)' /\ \A leaf \in job'[c].out : Above(Of[c], leaf[1])
    BY <1>2, <1>3 DEF Scripting, OwnerInv
  <1> QED BY <1>7, <1>8, <1>9 DEF OwnerInv

(* A run begins, ends, or is killed. *)
LEMMA RunsOwner ==
  ASSUME TypeInv, OwnerInv, Start \/ Finish \/ Kill
  PROVE  OwnerInv'
  <1>1. disk' = disk /\ db' = db
    BY DEF Start, Command, Finish, Kill, user, data
  <1>2. \A c \in Slots : job'[c] \in {job[c], NoJob}
    <2>1. CASE Start \/ Finish
      <3>1. PICK J : job' = [job EXCEPT ![Root] = J]
        BY <2>1 DEF Start, Command, Finish
      <3>2. job \in [Procs -> Job] /\ Root \notin Slots /\ Slots \subseteq Procs
        BY Facts, TreeFacts
      <3> QED BY <3>1, <3>2
    <2>2. CASE Kill
      BY <2>2, TreeFacts DEF Kill
    <2> QED BY <2>1, <2>2
  <1>3. \A u \in Targets : Trusted(u)' => Trusted(u)
    BY <1>1 DEF Trusted, Exists
  <1>4. \A c \in Slots : /\ Scripting(c)' => Scripting(c)
                         /\ \A leaf \in job'[c].out : Above(Of[c], leaf[1])
    BY <1>2, NoJobTyped DEF Scripting, OwnerInv
  <1> QED BY <1>1, <1>3, <1>4, OwnerKept

LEMMA OwnerInvInit == Init => OwnerInv
  <1> SUFFICES ASSUME Init PROVE OwnerInv
    OBVIOUS
  <1>1. \A f \in Names :
          \/ disk[f].content = {}
          \/ disk[f].stamp = 2 /\ \A p \in disk[f].content : p[1] = f
    BY DEF Init, Gone, Written
  <1>2. /\ \A t \in Targets : disk[t].content = {} /\ ~db[t].generated
        /\ \A c \in Slots : Of[c] \in Targets /\ job[c] = NoJob
    BY TreeFacts DEF Init, Gone, Blank
  <1>3. \A f \in Names : disk[f].stamp = Missing => disk[f].content = {}
    BY <1>1 DEF Missing
  <1>4. \A f \in Names : Descends(f, disk[f].content)
    BY <1>1 DEF Descends
  <1>5. /\ \A t \in Targets : ~OwnFile(t) /\ ~Trusted(t)
        /\ \A c \in Slots : ~OwnFile(Of[c]) /\ job[c].out = {}
    BY <1>2, NoJobTyped DEF OwnFile, Trusted
  <1> QED BY <1>3, <1>4, <1>5 DEF OwnerInv

LEMMA OwnerInvNext == TypeInv /\ HInv /\ OwnerInv /\ [Next]_vars => OwnerInv'
  <1> SUFFICES ASSUME TypeInv, HInv, OwnerInv, [Next]_vars PROVE OwnerInv'
    OBVIOUS
  <1>1. CASE Run
    BY <1>1, LookOwner, JobOwner, RenameOwner, EndsOwner, RunsOwner DEF Run, Record
  <1>2. CASE Mishap
    BY <1>2, JobOwner, RenameOwner, RunsOwner DEF Mishap
  <1>3. CASE Users
    BY <1>3, UsersOwner
  <1>4. CASE Start
    BY <1>4, RunsOwner
  <1>5. CASE UNCHANGED vars
    BY <1>5 DEF vars, OwnerInv, Trusted, Exists, OwnFile, Scripting, Descends
  <1> QED BY <1>1, <1>2, <1>3, <1>4, <1>5 DEF Next

----------------------------------------------------------------------------
(* What had to fail. *)

Torns == Flawed({"torn"})

(* A job in a step that is not an end of a job of its target which is      *)
(* recorded: it goes on, it is lost, or it begins where there is nothing   *)
(* that a lost job has left.                                               *)
GoesOn(c) ==
    /\ Tearable(c) => Tearable(c)' \/ Of[c] \in Torns'
    /\ Scripting(c)' /\ ~job'[c].left =>
          \/ /\ Scripting(c) /\ ~job[c].left /\ job'[c].before = job[c].before
             /\ job[c].at = "renamed" => job'[c].at = "renamed"
          \/ ~Unstamped(Of[c]) /\ job'[c].before = disk[Of[c]].stamp

(* A step that changes the rows and the files of the targets D only, but   *)
(* for what redo writes when it looks at a file.                           *)
Around(D) ==
    /\ ~Idle /\ runid' = runid /\ result' = result
    /\ reason => reason'
    /\ \A n \in Names \ D : /\ Observed(db[n], db'[n], disk[n].stamp, runid, reason')
                            /\ disk'[n] = disk[n]
    /\ \A u \in Targets \ D : u \in Torns => u \in Torns'
    /\ \A c \in Slots : Of[c] \notin D => GoesOn(c)

LEMMA CauseKept ==
  ASSUME NEW D, \A u \in D : Lost(u) => Lost(u)', Around(D), Cause
  PROVE  Cause'
  <1>1. reason \/ \E u \in Targets : Lost(u)
    BY DEF Cause
  <1>2. CASE reason
    BY <1>2 DEF Around, Cause
  <1>3. CASE \E u \in Targets : Lost(u)
    <2>1. PICK u \in Targets : Lost(u)
      BY <1>3
    <2>2. CASE u \in D
      BY <2>1, <2>2 DEF Cause
    <2>3. CASE u \notin D
      <3>1. u \in Names /\ u \in Targets \ D
        BY <2>3, TreeFacts
      <3>2. Observed(db[u], db'[u], disk[u].stamp, runid, reason') /\ disk'[u] = disk[u]
        BY <3>1 DEF Around
      <3>3. Unstamped(u) /\ ~Building(u)
        BY <2>1 DEF Lost, Torn, Unstamped
      <3>4. ~Building(u)'
        <4>1. SUFFICES ASSUME NEW c \in JobsOf(u), Scripting(c)', ~job'[c].left PROVE FALSE
          BY DEF Building, JobsOf
        <4>2. c \in Slots /\ Of[c] = u /\ GoesOn(c)
          BY <3>1 DEF JobsOf, Around
        <4> QED BY <3>3, <4>1, <4>2 DEF GoesOn, Building
      <3>5. u \in Torns'
        BY <2>1, <3>1 DEF Around, Lost, Torns
      <3>6. Exists(u)' /\ Torn(db'[u])
        BY <2>1, <3>2 DEF Lost, Exists, Observed
      <3>7. Lost(u)'
        BY <3>4, <3>5, <3>6 DEF Lost, Torns
      <3> QED BY <3>7 DEF Cause
    <2> QED BY <2>2, <2>3
  <1> QED BY <1>1, <1>2, <1>3

(* The parts of the invariant for one row, one process, one target. *)
RowCaused(n) ==
    /\ db[n].failed <= runid
    /\ ~Idle /\ IsFailed(db[n], runid) => Cause

JobCaused(p) ==
    /\ Alive(p) /\ job[p].bad => Cause
    /\ p \in Slots /\ Alive(p) /\ job[p].left => Cause

StampKept(c) ==
    Scripting(c) /\ ~job[c].left /\ job[c].at # "renamed" =>
        disk[Of[c]].stamp = job[c].before \/ reason

TornKnown(t) == Torn(db[t]) => t \in Torns \/ \E c \in JobsOf(t) : Tearable(c)

LEMMA CauseParts ==
  /\ FailedRows <=> \A n \in Names : RowCaused(n)
  /\ FailedJobs /\ LeftJobs <=> \A p \in Procs : JobCaused(p)
  /\ Undisturbed <=> \A c \in Slots : StampKept(c)
  /\ TornRows <=> \A t \in Targets : TornKnown(t)
  <1>1. Slots \subseteq Procs
    BY TreeFacts
  <1>2. FailedJobs /\ LeftJobs <=> \A p \in Procs : JobCaused(p)
    BY <1>1 DEF FailedJobs, LeftJobs, JobCaused
  <1> QED BY <1>2 DEF FailedRows, RowCaused, Undisturbed, StampKept, TornRows, TornKnown, Torns

LEMMA CauseNow ==
  ASSUME \A n \in Names : RowCaused(n)', \A p \in Procs : JobCaused(p)',
         \A c \in Slots : StampKept(c)', \A t \in Targets : TornKnown(t)', FailedRuns'
  PROVE  CauseInv'
  <1>1. FailedRows'
    BY DEF FailedRows, RowCaused
  <1>2. FailedJobs' /\ LeftJobs'
    BY TreeFacts DEF FailedJobs, LeftJobs, JobCaused
  <1>3. Undisturbed'
    BY DEF Undisturbed, StampKept
  <1>4. TornRows'
    BY DEF TornRows, TornKnown, Torns
  <1> QED BY <1>1, <1>2, <1>3, <1>4 DEF CauseInv

LEMMA CauseStep ==
  ASSUME TypeInv, TypeInv', CauseInv, NEW D \in SUBSET Targets,
         \A u \in D : Lost(u) => Lost(u)', Around(D),
         \A u \in D : RowCaused(u)' /\ TornKnown(u)',
         \A c \in Slots : Of[c] \in D => StampKept(c)',
         \A p \in Procs : JobCaused(p)'
  PROVE  CauseInv'
  <1>1. Cause => Cause'
    BY CauseKept
  <1>2. \A n \in Names : RowCaused(n)
    BY CauseParts DEF CauseInv
  <1>3. ASSUME NEW n \in Names \ D PROVE RowCaused(n)'
    <2>1. /\ db[n] \in Row /\ db'[n] \in Row /\ runid \in Nat /\ runid' = runid /\ ~Idle
          /\ reason' \in BOOLEAN
      BY Facts DEF Around, TypeInv, TypedDb, TypedRest
    <2>2. Observed(db[n], db'[n], disk[n].stamp, runid, reason')
      BY DEF Around
    <2>3. db'[n].failed \in {db[n].failed, 0, None} \/ (reason' /\ db'[n].failed = runid)
      BY <2>2 DEF Observed
    <2>4. reason' => Cause'
      BY DEF Cause
    <2> QED BY <1>1, <1>2, <2>1, <2>3, <2>4 DEF RowCaused, IsFailed, InRun, None
  <1>4. ASSUME NEW u \in Targets \ D PROVE TornKnown(u)'
    <2>1. u \in Names \ D /\ TornKnown(u)
      BY TreeFacts, CauseParts DEF CauseInv
    <2>2. Observed(db[u], db'[u], disk[u].stamp, runid, reason') /\ (u \in Torns => u \in Torns')
      BY <2>1 DEF Around
    <2>3. \A c \in JobsOf(u) : Tearable(c) => Tearable(c)' \/ u \in Torns'
      BY DEF Around, GoesOn, JobsOf
    <2>4. Torn(db'[u]) => Torn(db[u])
      BY <2>2 DEF Observed, Torn
    <2> QED BY <2>1, <2>2, <2>3, <2>4 DEF TornKnown, JobsOf
  <1>5. ASSUME NEW c \in Slots, Of[c] \notin D PROVE StampKept(c)'
    <2>1. StampKept(c) /\ Of[c] \in Names \ D
      BY <1>5, TreeFacts, CauseParts DEF CauseInv
    <2>2. GoesOn(c) /\ disk'[Of[c]] = disk[Of[c]] /\ (reason => reason')
      BY <1>5, <2>1 DEF Around
    <2> QED BY <2>1, <2>2 DEF GoesOn, StampKept
  <1>6. FailedRuns'
    <2>1. result' = result
      BY DEF Around
    <2> QED BY <1>1, <2>1 DEF CauseInv, FailedRuns
  <1> QED BY <1>3, <1>4, <1>5, <1>6, TreeFacts, CauseNow

(* Where a job was lost, and its target was left as no run can build it,   *)
(* or where it is still going on although it was left behind.              *)
LEMMA Untorn ==
  ASSUME CauseInv, NEW t \in Targets, Unstamped(t), Lockable(t)
  PROVE  Cause
  <1>1. Torn(db[t]) /\ Exists(t)
    BY DEF Unstamped, Torn
  <1>2. ~Building(t)
    BY DEF Building, Lockable, Held, Scripting, Alive
  <1>3. TornKnown(t)
    BY CauseParts DEF CauseInv
  <1>4. CASE t \in Torns
    BY <1>1, <1>2, <1>4 DEF Lost, Cause, Torns
  <1>5. CASE \E c \in JobsOf(t) : Tearable(c)
    <2>1. PICK c \in JobsOf(t) : Tearable(c)
      BY <1>5
    <2>2. c \in Slots /\ Alive(c) /\ job[c].left
      BY <2>1 DEF JobsOf, Lockable, Held, Tearable, Alive
    <2> QED BY <2>2 DEF CauseInv, LeftJobs
  <1> QED BY <1>1, <1>3, <1>4, <1>5 DEF TornKnown

LEMMA TornsGrow ==
  ASSUME flaws \subseteq flaws'
  PROVE  \A u : u \in Torns => u \in Torns'
  BY DEF Torns, Flawed

(* A lost job is known to be. *)
LEMMA LossTorn ==
  ASSUME NEW jobs, NEW c \in jobs, Tearable(c), flaws' = flaws \cup Loss(jobs)
  PROVE  Of[c] \in Torns'
  <1> DEFINE q == [kind |-> "torn", target |-> Of[c], run |-> runid]
  <1>1. q \in Flaw("torn", {Of[e] : e \in {e \in jobs : Tearable(e)}})
    BY DEF Flaw
  <1>2. q \in flaws' /\ q.kind = "torn" /\ q.target = Of[c]
    BY <1>1 DEF Loss
  <1> HIDE DEF q
  <1> QED BY <1>2 DEF Torns, Flawed

LEMMA LookCause ==
  ASSUME TypeInv, HInv, CauseInv, NEW p \in Procs, NEW t \in Files, Look(p, t)
  PROVE  CauseInv'
  <1>0. /\ job \in [Procs -> Job] /\ Slots \subseteq Procs
        /\ job[p].at \in Asking /\ disk' = disk /\ runid' = runid /\ result' = result
        /\ reason' \in {reason, TRUE}
    BY Facts, TreeFacts, LookFrame
  <1>1. ~Idle
    BY <1>0, Live DEF Alive, Asking
  <1>2. /\ \A q \in Procs : Stays(q) \/ Begins(q)
        /\ \A q \in Procs : job'[q].bad => job[q].bad \/ Gives(p, t)
        /\ \A q \in Procs : job'[q].left => job[q].left \/ Gives(p, t)
    BY LookJob
  <1>4. \A u : u \in Torns => u \in Torns'
    BY LookHistory, TornsGrow
  <1>5. ASSUME NEW c \in Slots PROVE GoesOn(c)
    <2>1. Tearable(c) => Tearable(c)'
      BY <1>0, <1>2 DEF Tearable, Stays, Begins
    <2>2. CASE Stays(c)
      BY <2>1, <2>2 DEF GoesOn, Stays, Scripting
    <2>3. CASE Begins(c)
      BY <2>1, <2>3 DEF GoesOn, Begins, Scripting
    <2> QED BY <1>0, <1>2, <2>2, <2>3
  <1>6. Around({})
    <2>1. reason => reason'
      BY <1>0
    <2>2. \A n \in Names : Observed(db[n], db'[n], disk[n].stamp, runid, reason')
      BY LookWatched DEF Watched
    <2> QED BY <1>0, <1>1, <1>4, <1>5, <2>1, <2>2 DEF Around
  <1>7. Cause => Cause'
    BY <1>6, CauseKept
  <1>8. Gives(p, t) => Cause'
    <2>1. CASE FindFailed(p, t)
      <3>1. IsFailed(db[t], runid) /\ t \in Names
        BY <2>1, TreeFacts DEF FindFailed
      <3> QED BY <1>1, <1>7, <3>1, CauseParts DEF CauseInv, RowCaused
    <2>2. CASE PanicOn(p, t)
      <3>1. Unstamped(t) /\ Lockable(t)
        BY <2>2 DEF PanicOn, MustStart
      <3>2. t \in Targets
        BY <3>1, TreeFacts DEF Unstamped, TypeInv, TypedDb, Plain
      <3> QED BY <1>7, <3>1, <3>2, Untorn
    <2>3. CASE NoRule(p, t)
      BY <2>3 DEF NoRule, Cause
    <2> QED BY <2>1, <2>2, <2>3 DEF Gives
  <1>9. ASSUME NEW q \in Procs PROVE JobCaused(q)'
    <2>1. JobCaused(q)
      BY CauseParts DEF CauseInv
    <2>2. CASE Stays(q)
      BY <1>2, <1>7, <1>8, <2>1, <2>2 DEF JobCaused, Alive, Stays
    <2>3. CASE Begins(q)
      BY <2>3 DEF JobCaused, Begins
    <2> QED BY <1>2, <2>2, <2>3
  <1> QED BY <1>6, <1>9, CauseStep, LookTyped

(* The other jobs, when one takes a step of its own. *)
LEMMA OthersGoOn ==
  ASSUME NEW e \in Slots, job'[e].at = job[e].at, job'[e].before = job[e].before,
         job'[e].left = job[e].left
  PROVE  GoesOn(e)
  BY DEF GoesOn, Tearable, Scripting

LEMMA ScriptCause ==
  ASSUME TypeInv, HInv, CauseInv, NEW c \in Slots, Script(c)
  PROVE  CauseInv'
  <1> DEFINE t == Of[c]
  <1>0. /\ job \in [Procs -> Job] /\ Slots \subseteq Procs /\ c \in Procs
        /\ t \in Names /\ t \in Targets
        /\ disk' = disk /\ runid' = runid /\ result' = result /\ reason' = reason
        /\ flaws' = flaws
    BY Facts, TreeFacts, ScriptFrame
  <1>1. /\ \A q \in Procs \ {c} : job'[q] = job[q]
        /\ job'[c].bad = job[c].bad /\ job'[c].before = job[c].before
        /\ job'[c].left = job[c].left
        /\ Scripting(c) /\ Scripting(c)'
        /\ job[c].at \notin {"exit", "renamed"} /\ job'[c].at # "renamed"
    BY ScriptGoes DEF Goes, Scripting
  <1>2. ~Idle
    BY <1>0, <1>1, Live DEF Alive, Scripting
  <1>3. ASSUME NEW e \in Slots PROVE GoesOn(e)
    <2>1. CASE e # c
      BY <1>0, <1>1, <2>1, OthersGoOn
    <2>2. CASE e = c
      BY <1>1, <2>2 DEF GoesOn, Tearable
    <2> QED BY <2>1, <2>2
  <1>4. \A u \in Targets : u \in Torns => u \in Torns'
    BY <1>0 DEF Torns, Flawed
  <1>5. ASSUME Cause => Cause', NEW q \in Procs PROVE JobCaused(q)'
    <2>1. JobCaused(q)
      BY CauseParts DEF CauseInv
    <2>2. Alive(c)
      BY <1>1 DEF Alive, Scripting
    <2> QED BY <1>1, <1>5, <2>1, <2>2 DEF JobCaused, Alive
  <1>6. CASE Watched
    <2>1. Around({})
      BY <1>0, <1>2, <1>3, <1>4, <1>6 DEF Around, Watched
    <2>2. Cause => Cause'
      BY <2>1, CauseKept
    <2> QED BY <1>5, <2>1, <2>2, CauseStep, ScriptTyped
  <1>7. CASE /\ t \in Stamped /\ db' = [db EXCEPT ![t] = RedoStamp(@, Output(t), runid)]
             /\ job[c].at = "moreasking" /\ job'[c].at = "exit"
    <2> DEFINE row == RedoStamp(db[t], Output(t), runid)
    <2>1. row.failed = None /\ (Torn(db[t]) => Torn(row))
      <3>1. db[t] \in Row /\ Output(t) \in Content /\ runid \in Nat
        BY <1>0, Facts, OutputTyped
      <3> QED BY <3>1, RedoStampRow DEF Torn
    <2>2. db' = [db EXCEPT ![t] = row] /\ db \in [Names -> Row]
      BY <1>7, Facts
    <2> HIDE DEF row
    <2>3. db'[t] = row /\ \A n \in Names \ {t} : db'[n] = db[n]
      BY <1>0, <2>2
    <2>4. Around({t})
      <3>1. \A n \in Names \ {t} : Observed(db[n], db'[n], disk[n].stamp, runid, reason')
        BY <2>3 DEF Observed
      <3> HIDE DEF t
      <3> QED BY <1>0, <1>2, <1>3, <1>4, <3>1 DEF Around
    <2>5. Lost(t) => Lost(t)'
      <3>1. SUFFICES ASSUME Lost(t) PROVE Lost(t)'
        OBVIOUS
      <3>2. ASSUME NEW e \in JobsOf(t), Scripting(e)', ~job'[e].left PROVE FALSE
        <4>1. e \in Slots
          BY DEF JobsOf
        <4>2. Scripting(e) /\ ~job[e].left
          BY <1>0, <1>1, <3>2, <4>1 DEF Scripting
        <4> QED BY <3>1, <4>2 DEF Lost, Building
      <3>3. ~Building(t)'
        BY <3>2 DEF Building, JobsOf
      <3>4. Exists(t)' /\ t \in Torns'
        BY <1>0, <1>4, <3>1 DEF Lost, Exists, Torns
      <3>5. Torn(db'[t])
        BY <2>1, <2>3, <3>1 DEF Lost
      <3> QED BY <3>3, <3>4, <3>5 DEF Lost, Torns
    <2>6. RowCaused(t)'
      BY <1>0, <2>1, <2>3, Facts DEF RowCaused, IsFailed, InRun, None
    <2>7. ASSUME NEW e \in Slots, Of[e] = t PROVE StampKept(e)'
      <3>1. StampKept(e)
        BY CauseParts DEF CauseInv
      <3>2. CASE e = c
        BY <1>0, <1>1, <3>1, <3>2 DEF StampKept
      <3>3. CASE e # c
        BY <1>0, <1>1, <3>1, <3>3 DEF StampKept, Scripting
      <3> QED BY <3>2, <3>3
    <2>8. TornKnown(t)'
      <3>1. c \in JobsOf(t)' /\ Tearable(c)'
        BY <1>7 DEF JobsOf, Tearable
      <3> QED BY <3>1 DEF TornKnown
    <2>9. Cause => Cause'
      BY <2>4, <2>5, CauseKept
    <2>10. {t} \in SUBSET Targets
      BY <1>0
    <2>11. TypeInv'
      BY ScriptTyped
    <2> HIDE DEF t
    <2> QED BY <1>5, <2>4, <2>5, <2>6, <2>7, <2>8, <2>9, <2>10, <2>11, CauseStep
  <1> QED BY <1>6, <1>7, ScriptRows

LEMMA ScriptFailsCause ==
  ASSUME TypeInv, HInv, CauseInv, NEW c \in Slots, ScriptFails(c)
  PROVE  CauseInv'
  <1>0. /\ job \in [Procs -> Job] /\ Slots \subseteq Procs /\ c \in Procs /\ TRUE \in BOOLEAN
    BY Facts, TreeFacts
  <1>1. /\ disk' = disk /\ db' = db /\ runid' = runid /\ result' = result /\ reason' = TRUE
        /\ flaws' = flaws /\ job[c].at \in {"needs", "exit"}
        /\ job' = [job EXCEPT ![c].at = "exit", ![c].bad = TRUE]
    BY DEF ScriptFails, user, data, command
  <1>2. /\ \A q \in Procs \ {c} : job'[q] = job[q]
        /\ job'[c].at = "exit" /\ job'[c].before = job[c].before
        /\ job'[c].left = job[c].left
    BY <1>0, <1>1, FailGoes DEF Goes
  <1>3. ~Idle
    BY <1>0, <1>1, Live DEF Alive
  <1>4. ASSUME NEW e \in Slots PROVE GoesOn(e)
    <2>1. CASE e # c
      BY <1>0, <1>2, <2>1, OthersGoOn
    <2>2. CASE e = c
      BY <1>1, <1>2, <2>2 DEF GoesOn, Tearable, Scripting
    <2> QED BY <2>1, <2>2
  <1>5. Around({})
    <2>1. \A n : Observed(db[n], db'[n], disk[n].stamp, runid, reason')
      BY <1>1 DEF Observed, Torn
    <2>2. \A u \in Targets : u \in Torns => u \in Torns'
      BY <1>1 DEF Torns, Flawed
    <2> QED BY <1>1, <1>3, <1>4, <2>1, <2>2 DEF Around
  <1>6. \A q \in Procs : JobCaused(q)'
    BY <1>1 DEF JobCaused, Cause
  <1> QED BY <1>5, <1>6, CauseStep, RenameTyped

(* A job puts a file in the place of its target: the row of the target is  *)
(* as it was.  Only the job that will be recorded moves its output there;  *)
(* one that was left behind may still write to it.                         *)
LEMMA RenameCause ==
  ASSUME TypeInv, HInv, CauseInv, NEW c \in Slots, Rename(c) \/ WriteDirectly(c)
  PROVE  CauseInv'
  <1> DEFINE t == Of[c]
  <1>0. /\ job \in [Procs -> Job] /\ Slots \subseteq Procs /\ c \in Procs
        /\ t \in Names /\ t \in Targets /\ "exit" \in Places /\ "renamed" \in Places
        /\ disk \in [Names -> [stamp : Nat, content : Content]] /\ reason \in BOOLEAN
    BY Facts, TreeFacts DEF Places
  <1>1. /\ db' = db /\ runid' = runid /\ result' = result
        /\ flaws' = flaws /\ job[c].at \in {"needs", "exit"}
        /\ \E new : disk' = [disk EXCEPT ![t] = new]
        /\ reason' \in {reason, TRUE}
        /\ \/ /\ job' = [job EXCEPT ![c].at = "exit"] /\ reason' = TRUE /\ job[c].at = "needs"
              /\ disk' = [disk EXCEPT ![t] = [stamp |-> Fresh(t), content |-> {}]]
           \/ job' = [job EXCEPT ![c].at = "renamed"] /\ ~job[c].left /\ job[c].at = "exit"
    BY DEF Rename, WriteDirectly, Move, data, command, history
  <1>2. /\ \A q \in Procs \ {c} : job'[q] = job[q]
        /\ job'[c].before = job[c].before /\ job'[c].bad = job[c].bad
        /\ job'[c].left = job[c].left
        /\ \/ job'[c].at = "exit" /\ reason' = TRUE /\ job[c].at = "needs"
           \/ job'[c].at = "renamed" /\ ~job[c].left
    BY <1>0, <1>1, MoveGoes DEF Goes
  <1>3. ~Idle
    BY <1>0, <1>1, Live DEF Alive
  <1>4. /\ \A n : Observed(db[n], db'[n], disk[n].stamp, runid, reason')
        /\ \A n \in Names \ {t} : disk'[n] = disk[n]
        /\ reason => reason'
        /\ \A u \in Targets : u \in Torns => u \in Torns'
    <2>1. \A n : Observed(db[n], db'[n], disk[n].stamp, runid, reason')
      BY <1>1 DEF Observed, Torn
    <2>2. \A n \in Names \ {t} : disk'[n] = disk[n]
      <3>1. PICK new : disk' = [disk EXCEPT ![t] = new]
        BY <1>1
      <3> HIDE DEF t
      <3> QED BY <1>0, <3>1
    <2>3. \A u \in Targets : u \in Torns => u \in Torns'
      BY <1>1 DEF Torns, Flawed
    <2>4. reason => reason'
      BY <1>1
    <2> QED BY <2>1, <2>2, <2>3, <2>4
  <1>5. Lost(t) => Lost(t)'
    <2>1. SUFFICES ASSUME Lost(t) PROVE Lost(t)'
      OBVIOUS
    <2>2. job[c].left /\ job'[c].at = "exit" /\ disk'[t].stamp = Fresh(t)
      <3>1. Scripting(c) /\ c \in JobsOf(t)
        BY <1>1 DEF Scripting, JobsOf
      <3>2. job[c].left
        BY <2>1, <3>1 DEF Lost, Building
      <3> QED BY <1>0, <1>1, <1>2, <3>2
    <2>3. ASSUME NEW e \in JobsOf(t), Scripting(e)', ~job'[e].left PROVE FALSE
      <3>1. e \in Slots /\ e # c
        BY <1>2, <2>2, <2>3 DEF JobsOf
      <3>2. Scripting(e) /\ ~job[e].left
        BY <1>0, <1>2, <2>3, <3>1 DEF Scripting
      <3> QED BY <2>1, <3>2 DEF Lost, Building
    <2>4. ~Building(t)'
      BY <2>3 DEF Building, JobsOf
    <2>5. Exists(t)'
      <3>1. Fresh(t) # Missing
        BY <1>0, FreshIsNew
      <3> QED BY <2>2, <3>1 DEF Exists
    <2>6. Torn(db'[t]) /\ t \in Torns'
      BY <1>0, <1>1, <1>4, <2>1 DEF Lost, Torns
    <2> QED BY <2>4, <2>5, <2>6 DEF Lost, Torns
  <1>6. Around({t})
    <2>1. ASSUME NEW e \in Slots, Of[e] # t PROVE GoesOn(e)
      BY <1>0, <1>2, <2>1, OthersGoOn
    <2> HIDE DEF t
    <2> QED BY <1>1, <1>3, <1>4, <2>1 DEF Around
  <1>7. Cause => Cause'
    BY <1>5, <1>6, CauseKept
  <1>8. /\ RowCaused(t) /\ TornKnown(t) /\ \A q \in Procs : JobCaused(q)
    BY <1>0, CauseParts DEF CauseInv
  <1>9. RowCaused(t)'
    BY <1>1, <1>3, <1>7, <1>8 DEF RowCaused
  <1>10. ASSUME NEW e \in Slots, Of[e] = t PROVE StampKept(e)'
    <2>1. CASE e = c
      BY <1>2, <2>1 DEF StampKept
    <2>2. CASE e # c /\ reason'
      BY <2>2 DEF StampKept
    <2>3. CASE e # c /\ ~reason'
      <3>1. c \in Slots /\ Held(c)
        BY <1>1, <1>2, <2>3 DEF Held, Alive
      <3>2. ~Held(e)
        BY <1>10, <2>3, <3>1 DEF HInv, OneHolder
      <3>3. job'[e] = job[e]
        BY <1>0, <1>2, <2>3
      <3> QED BY <3>2, <3>3 DEF StampKept, Held, Scripting, Alive
    <2> QED BY <2>1, <2>2, <2>3
  <1>11. TornKnown(t)'
    <2>1. SUFFICES ASSUME Torn(db[t]), t \notin Torns
                   PROVE  \E e \in JobsOf(t)' : Tearable(e)'
      BY <1>1, <1>4, <1>0 DEF TornKnown
    <2>2. PICK e \in JobsOf(t) : Tearable(e)
      BY <1>8, <2>1 DEF TornKnown
    <2>3. e \in JobsOf(t)' /\ e \in Slots
      BY <2>2 DEF JobsOf
    <2>4. CASE e = c
      BY <1>1, <1>2, <2>2, <2>3, <2>4 DEF Tearable
    <2>5. CASE e # c
      BY <1>0, <1>2, <2>2, <2>3, <2>5 DEF Tearable
    <2> QED BY <2>3, <2>4, <2>5
  <1>12. \A q \in Procs : JobCaused(q)'
    BY <1>1, <1>2, <1>7, <1>8 DEF JobCaused, Alive
  <1>13. TypeInv' /\ {t} \in SUBSET Targets
    BY <1>0, RenameTyped
  <1> HIDE DEF t
  <1> QED BY <1>5, <1>6, <1>9, <1>10, <1>11, <1>12, <1>13, CauseStep

LEMMA EndsCause ==
  ASSUME TypeInv, HInv, CauseInv, NEW c \in Slots, RecordSuccess(c) \/ RecordFailure(c)
  PROVE  CauseInv'
  <1> DEFINE t == Of[c]
  <1>0. /\ job \in [Procs -> Job] /\ Slots \subseteq Procs /\ c \in Procs
        /\ t \in Names /\ t \in Targets /\ db \in [Names -> Row] /\ runid \in Nat
        /\ db[t] \in Row /\ disk[t].stamp \in Nat /\ job[c].sf \in Row
    BY Facts, TreeFacts, JobFields
  <1>1. /\ job[c].at \in {"renamed", "exit"} /\ disk' = disk /\ runid' = runid
        /\ result' = result /\ reason' = reason
        /\ \E kept : flaws' = Mended(t, kept)
        /\ \/ EndJob(c, FALSE)
           \/ EndJob(c, TRUE) /\ job[c].at = "exit" /\ (job[c].bad \/ DirectlyModified(c))
    BY DEF RecordSuccess, RecordFailure, user, command
  <1>2. ~job[c].left
    BY DEF RecordSuccess, RecordFailure, HInv, RenamedWell
  <1>3. c \in Slots /\ Held(c) /\ Scripting(c)
    BY <1>1, <1>2 DEF Held, Alive, Scripting
  <1>4. /\ job'[c] = NoJob
        /\ \A q \in Procs \ {c} : /\ job'[q].at = job[q].at /\ job'[q].before = job[q].before
                                  /\ job'[q].left = job[q].left
    <2>1. PICK fails \in BOOLEAN : EndJob(c, fails)
      BY <1>1
    <2> QED BY <1>0, <2>1, EndTyped
  <1>5. PICK row : /\ db' = [db EXCEPT ![t] = row] /\ row.stamp = disk[t].stamp
                   /\ \/ row.failed \in {db[t].failed, None}
                      \/ row.failed = runid /\ RecordFailure(c)
    <2>1. CASE RecordSuccess(c)
      <3> DEFINE row == Recorded(db[t], disk[t].stamp, runid)
      <3>1. db' = [db EXCEPT ![t] = row]
        BY <2>1 DEF RecordSuccess
      <3>2. row.stamp = disk[t].stamp /\ row.failed \in {db[t].failed, None}
        BY <1>0, RecordedRow
      <3> HIDE DEF row
      <3> QED BY <3>1, <3>2
    <2>2. CASE RecordFailure(c)
      <3> DEFINE f == job[c].sf
                 row == SetFailed(f, disk[t].stamp, runid)
      <3>1. db' = [db EXCEPT ![t] = row]
        BY <2>2 DEF RecordFailure
      <3>2. f \in Row /\ disk[t].stamp \in Nat /\ runid \in Nat
        BY <1>0
      <3> HIDE DEF f
      <3>3. row.stamp = disk[t].stamp /\ row.failed = runid
        BY <3>2 DEF Row, UpdateStamp, SetChanged, SetFailed
      <3> HIDE DEF row
      <3> QED BY <2>2, <3>1, <3>3
    <2> QED BY <2>1, <2>2
  <1>6. db'[t] = row /\ \A n \in Names \ {t} : db'[n] = db[n]
    BY <1>0, <1>5
  <1>7. ~Idle
    BY <1>0, <1>1, Live DEF Alive
  <1>8. Around({t})
    <2>1. ASSUME NEW e \in Slots, Of[e] # t PROVE GoesOn(e)
      BY <1>0, <1>4, <2>1, OthersGoOn
    <2>2. ASSUME NEW u \in Targets \ {t}, u \in Torns PROVE u \in Torns'
      <3>1. PICK q \in flaws : q.kind = "torn" /\ q.target = u
        BY <2>2 DEF Torns, Flawed
      <3>2. q \in flaws'
        BY <1>1, <2>2, <3>1 DEF Mended
      <3> QED BY <3>1, <3>2 DEF Torns, Flawed
    <2>3. \A n \in Names \ {t} : Observed(db[n], db'[n], disk[n].stamp, runid, reason')
      BY <1>6 DEF Observed, Torn
    <2> HIDE DEF t
    <2> QED BY <1>1, <1>7, <2>1, <2>2, <2>3 DEF Around
  <1>9. ~Lost(t)
    BY <1>2, <1>3 DEF Lost, Building, JobsOf
  <1>10. Cause => Cause'
    BY <1>8, <1>9, CauseKept
  <1>11. RowCaused(t) /\ StampKept(c) /\ \A q \in Procs : JobCaused(q)
    BY <1>0, CauseParts DEF CauseInv
  <1>12. job[c].at = "exit" /\ (job[c].bad \/ DirectlyModified(c)) => Cause'
    <2>1. SUFFICES ASSUME job[c].at = "exit", job[c].bad \/ DirectlyModified(c) PROVE Cause
      BY <1>10
    <2>2. CASE job[c].bad
      BY <1>0, <1>11, <2>1, <2>2 DEF JobCaused, Alive
    <2>3. CASE DirectlyModified(c)
      <3>1. disk[t].stamp # job[c].before
        BY <2>3 DEF DirectlyModified
      <3> QED BY <1>2, <1>11, <2>1, <3>1 DEF StampKept, Scripting, Cause
    <2> QED BY <2>1, <2>2, <2>3
  <1>13. RowCaused(t)'
    <2>1. CASE row.failed \in {db[t].failed, None}
      BY <1>0, <1>1, <1>6, <1>7, <1>10, <1>11, <2>1 DEF RowCaused, IsFailed, InRun, None
    <2>2. CASE row.failed = runid /\ RecordFailure(c)
      <3>1. Cause'
        BY <1>12, <2>2 DEF RecordFailure
      <3> QED BY <1>0, <1>1, <1>6, <2>2, <3>1 DEF RowCaused
    <2> QED BY <1>5, <2>1, <2>2
  <1>14. ASSUME NEW e \in Slots, Of[e] = t PROVE StampKept(e)'
    <2>1. CASE e = c
      BY <1>4, <2>1, NoJobTyped DEF StampKept, Scripting
    <2>2. CASE e # c
      <3>1. ~Held(e)
        BY <1>3, <1>14, <2>2 DEF HInv, OneHolder
      <3>2. job'[e].at = job[e].at /\ job'[e].left = job[e].left
        BY <1>0, <1>4, <2>2
      <3> QED BY <3>1, <3>2 DEF StampKept, Held, Scripting, Alive
    <2> QED BY <2>1, <2>2
  <1>15. TornKnown(t)'
    BY <1>0, <1>5, <1>6 DEF TornKnown, Torn, None
  <1>16. ASSUME NEW q \in Procs PROVE JobCaused(q)'
    <2>1. CASE q = c
      BY <1>4, <2>1, NoJobTyped DEF JobCaused, Alive
    <2>2. CASE q # c
      <3>1. job'[q].bad => job[q].bad \/ Cause'
        <4>1. PICK fails \in BOOLEAN : EndJob(c, fails) /\ (fails => Cause')
          BY <1>1, <1>12
        <4>2. \A p \in Procs \ {c} : job'[p].bad => job[p].bad \/ fails
          BY <1>0, <4>1, EndTyped
        <4> QED BY <2>2, <4>1, <4>2
      <3>2. job'[q].at = job[q].at /\ job'[q].left = job[q].left
        BY <1>4, <2>2
      <3> QED BY <1>10, <1>11, <3>1, <3>2 DEF JobCaused, Alive
    <2> QED BY <2>1, <2>2
  <1>17. TypeInv' /\ {t} \in SUBSET Targets
    BY <1>0, EndsTyped
  <1> HIDE DEF t
  <1> QED BY <1>8, <1>9, <1>13, <1>14, <1>15, <1>16, <1>17, CauseStep

(* The script of a job that was left behind ends. *)
LEMMA StrayCause ==
  ASSUME TypeInv, HInv, CauseInv, NEW c \in Slots, StrayEnds(c)
  PROVE  CauseInv'
  <1>0. job \in [Procs -> Job] /\ Slots \subseteq Procs /\ c \in Procs /\ FALSE \in BOOLEAN
    BY Facts, TreeFacts
  <1>1. /\ disk' = disk /\ db' = db /\ runid' = runid /\ result' = result /\ reason' = reason
        /\ flaws' = flaws \cup Loss({c})
        /\ job[c].at = "exit" /\ job' = [job EXCEPT ![c] = NoJob]
    BY DEF StrayEnds, user, data, command
  <1>2. job'[c] = NoJob /\ \A q \in Procs \ {c} : job'[q] = job[q]
    BY <1>0, <1>1
  <1>3. ~Idle
    BY <1>0, <1>1, Live DEF Alive
  <1>4. \A u : u \in Torns => u \in Torns'
    BY <1>1, TornsGrow
  <1>5. ASSUME NEW e \in Slots PROVE GoesOn(e)
    <2>1. CASE e # c
      BY <1>0, <1>2, <2>1, OthersGoOn
    <2>2. CASE e = c
      <3>1. Tearable(c) => Of[c] \in Torns'
        BY <1>1, LossTorn
      <3> QED BY <1>2, <2>2, <3>1, NoJobTyped DEF GoesOn, Scripting
    <2> QED BY <2>1, <2>2
  <1>6. Around({})
    <2>1. \A n : Observed(db[n], db'[n], disk[n].stamp, runid, reason')
      BY <1>1 DEF Observed, Torn
    <2> QED BY <1>1, <1>3, <1>4, <1>5, <2>1 DEF Around
  <1>7. Cause => Cause'
    BY <1>6, CauseKept
  <1>8. ASSUME NEW q \in Procs PROVE JobCaused(q)'
    <2>1. JobCaused(q)
      BY CauseParts DEF CauseInv
    <2> QED BY <1>2, <1>7, <2>1, NoJobTyped DEF JobCaused, Alive
  <1> QED BY <1>6, <1>8, CauseStep, StrayTyped

LEMMA UnlockedCause ==
  ASSUME TypeInv, HInv, CauseInv, NEW c \in Slots, Unlocked(c)
  PROVE  CauseInv'
  <1>0. /\ job \in [Procs -> Job] /\ Slots \subseteq Procs /\ c \in Procs
        /\ job[c].bad \in BOOLEAN
    BY Facts, TreeFacts, JobFields
  <1>1. /\ disk' = disk /\ db' = db /\ runid' = runid /\ result' = result /\ reason' = reason
        /\ flaws' = flaws
    BY UnlockedFrame
  <1>2. /\ job[c].at \in {"unlocked", "check", "recheck"} /\ ~Scripting(c)'
        /\ job'[c].bad => job[c].bad
        /\ Alive(c)' => job'[c].left = job[c].left
        /\ \A q \in Procs \ {c} : /\ job'[q].at = job[q].at /\ job'[q].before = job[q].before
                                  /\ job'[q].left = job[q].left
                                  /\ job'[q].bad => job[q].bad \/ job[c].bad
    <2>1. CASE job[c].at \in {"check", "recheck"} /\ EndJob(c, job[c].bad /\ ~job[c].left)
      <3>1. PICK fails \in BOOLEAN : fails = (job[c].bad /\ ~job[c].left)
        BY <1>0, JobFields
      <3> QED BY <1>0, <2>1, <3>1, EndTyped, NoJobTyped DEF Scripting, Alive
    <2>2. CASE /\ job[c].at \in {"unlocked", "check"} /\ job'[c].bad = job[c].bad
               /\ Goes(c, "check") \/ Goes(c, "recheck")
      BY <2>2 DEF Goes, Scripting
    <2> QED BY <2>1, <2>2, UnlockedGoes
  <1>3. ~Idle
    BY <1>0, <1>2, Live DEF Alive
  <1>4. ASSUME NEW e \in Slots PROVE GoesOn(e)
    <2>1. CASE e # c
      BY <1>0, <1>2, <2>1, OthersGoOn
    <2>2. CASE e = c
      BY <1>2, <2>2 DEF GoesOn, Tearable
    <2> QED BY <2>1, <2>2
  <1>5. Around({})
    <2>1. \A n : Observed(db[n], db'[n], disk[n].stamp, runid, reason')
      BY <1>1 DEF Observed, Torn
    <2>2. \A u \in Targets : u \in Torns => u \in Torns'
      BY <1>1 DEF Torns, Flawed
    <2> QED BY <1>1, <1>3, <1>4, <2>1, <2>2 DEF Around
  <1>6. Cause => Cause'
    BY <1>5, CauseKept
  <1>7. ASSUME NEW q \in Procs PROVE JobCaused(q)'
    <2>1. JobCaused(q) /\ JobCaused(c) /\ Alive(c)
      BY <1>0, <1>2, CauseParts DEF CauseInv, Alive
    <2>2. CASE q = c
      BY <1>2, <1>6, <2>1, <2>2 DEF JobCaused
    <2>3. CASE q # c
      BY <1>2, <1>6, <2>1, <2>3 DEF JobCaused, Alive
    <2> QED BY <2>2, <2>3
  <1> QED BY <1>5, <1>7, CauseStep, UnlockedTyped

(* Between runs there is nothing to explain. *)
LEMMA RestCause ==
  ASSUME TypeInv',
         \A p \in Procs : ~Alive(p)' \/ (~job'[p].bad /\ p \notin Slots),
         \A n \in Names : db'[n].failed <= runid' /\ (~Idle' => db'[n].failed < runid'),
         \A t \in Targets : Torn(db'[t]) => t \in Torns',
         result' # "failed"
  PROVE  CauseInv'
  <1>1. ASSUME NEW n \in Names, ~Idle' PROVE ~IsFailed(db'[n], runid')
    <2>1. db'[n].failed \in RunIds /\ runid' \in Nat
      BY BoundsAssumption DEF TypeInv, TypedDb, TypedRest, Row
    <2>2. db'[n].failed < runid'
      BY <1>1
    <2> QED BY <2>1, <2>2 DEF IsFailed, InRun, RunIds, None
  <1>2. \A n \in Names : RowCaused(n)'
    BY <1>1 DEF RowCaused
  <1>3. \A p \in Procs : JobCaused(p)'
    BY DEF JobCaused
  <1>4. \A c \in Slots : StampKept(c)'
    BY TreeFacts DEF StampKept, Scripting, Alive
  <1>5. \A t \in Targets : TornKnown(t)'
    BY DEF TornKnown
  <1>6. FailedRuns'
    BY DEF FailedRuns
  <1> QED BY <1>2, <1>3, <1>4, <1>5, <1>6, CauseNow

LEMMA AtRest ==
  ASSUME CauseInv, Idle
  PROVE  /\ \A p \in Procs : ~Alive(p)
         /\ \A t \in Targets : Torn(db[t]) => t \in Torns
         /\ \A n \in Names : db[n].failed <= runid
  <1>1. \A p \in Procs : ~Alive(p)
    BY DEF Idle
  <1>2. \A t \in Targets : \A c \in JobsOf(t) : ~Tearable(c)
    BY <1>1, TreeFacts DEF Alive, Tearable, JobsOf
  <1> QED BY <1>1, <1>2, CauseParts DEF CauseInv, TornKnown, RowCaused

LEMMA CommandCause ==
  ASSUME TypeInv, HInv, CauseInv, NEW wanted \in SUBSET Files, NEW force \in BOOLEAN,
         Command(wanted, force)
  PROVE  CauseInv'
  <1> DEFINE J == NewJob("goals", Root, wanted, {}, Blank, Missing)
  <1>1. /\ Idle /\ runid' = runid + 1 /\ db' = db /\ result' = "none"
        /\ job' = [job EXCEPT ![Root] = J]
        /\ flaws' = {q \in flaws : q.kind # "unlocked"}
    BY DEF Command, data
  <1>2. ~J.bad
    BY DEF NewJob
  <1> HIDE DEF J
  <1>3. job \in [Procs -> Job] /\ db \in [Names -> Row] /\ runid \in Nat /\ Root \notin Slots
    BY Facts, TreeFacts
  <1>4. \A p \in Procs : ~Alive(p)' \/ (~job'[p].bad /\ p \notin Slots)
    BY <1>1, <1>2, <1>3, AtRest DEF Alive
  <1>5. \A n \in Names : db'[n].failed <= runid' /\ db'[n].failed < runid'
    <2>1. ASSUME NEW n \in Names PROVE db[n].failed <= runid /\ db[n].failed \in RunIds
      BY <1>1, <1>3, AtRest DEF Row
    <2> QED BY <1>1, <1>3, <2>1 DEF RunIds, None
  <1>6. \A t : t \in Torns => t \in Torns'
    BY <1>1 DEF Torns, Flawed
  <1>7. \A t \in Targets : Torn(db'[t]) => t \in Torns'
    BY <1>1, <1>6, AtRest
  <1>8. TypeInv'
    BY CommandTyped
  <1> QED BY <1>1, <1>4, <1>5, <1>7, <1>8, RestCause

LEMMA KillCause ==
  ASSUME TypeInv, HInv, CauseInv, Kill
  PROVE  CauseInv'
  <1>1. /\ job' = [p \in Procs |-> NoJob] /\ result' = "killed"
        /\ flaws' = flaws \cup Loss(Slots)
        /\ db' = db /\ runid' = runid
    BY DEF Kill, data
  <1>2. \A p \in Procs : ~Alive(p)'
    BY <1>1, NoJobTyped DEF Alive
  <1>3. Idle'
    BY <1>2 DEF Idle
  <1>4. ASSUME NEW t \in Targets, t \in Torns \/ \E c \in JobsOf(t) : Tearable(c)
        PROVE  t \in Torns'
    <2>1. CASE t \in Torns
      BY <1>1, <2>1, TornsGrow
    <2>2. CASE \E c \in JobsOf(t) : Tearable(c)
      BY <1>1, <2>2, LossTorn DEF JobsOf
    <2> QED BY <1>4, <2>1, <2>2
  <1>5. \A n \in Names : db'[n].failed <= runid'
    BY <1>1 DEF CauseInv, FailedRows
  <1>6. \A t \in Targets : Torn(db'[t]) => t \in Torns'
    BY <1>1, <1>4, CauseParts DEF CauseInv, TornKnown
  <1>7. TypeInv'
    BY KillTyped
  <1> QED BY <1>1, <1>2, <1>3, <1>5, <1>6, <1>7, RestCause

LEMMA UsersCause ==
  ASSUME TypeInv, HInv, CauseInv, Users
  PROVE  CauseInv'
  <1>1. PICK f, new : f \in Files /\ Touch(f, new) /\ UserPuts(f, new)
    BY UserActs
  <1>2. Idle /\ db' = db /\ job' = job /\ runid' = runid /\ flaws' = flaws /\ result' = "none"
    BY <1>1 DEF Touch, data
  <1>3. Idle' /\ \A p \in Procs : ~Alive(p)'
    BY <1>2, AtRest DEF Idle, Alive
  <1>4. \A n \in Names : db'[n].failed <= runid'
    BY <1>2, AtRest
  <1>5. \A t \in Targets : Torn(db'[t]) => t \in Torns'
    BY <1>2, AtRest DEF Torns, Flawed
  <1>6. TypeInv'
    BY UsersTyped
  <1> QED BY <1>2, <1>3, <1>4, <1>5, <1>6, RestCause

(* The run ends: if its command has failed, there was a cause. *)
LEMMA FinishCause ==
  ASSUME TypeInv, HInv, CauseInv, Finish
  PROVE  CauseInv'
  <1>1. /\ job[Root].at = "goals" /\ job' = [job EXCEPT ![Root] = NoJob]
        /\ result' = IF job[Root].bad THEN "failed" ELSE "ok"
        /\ disk' = disk /\ db' = db /\ runid' = runid /\ reason' = reason /\ flaws' = flaws
    BY DEF Finish, user, data, history
  <1>2. /\ job \in [Procs -> Job] /\ Root \in Procs /\ Root \notin Slots /\ Slots \subseteq Procs
        /\ Alive(Root)
    BY <1>1, Facts, TreeFacts DEF Alive
  <1>3. job'[Root] = NoJob /\ \A q \in Procs : q # Root => job'[q] = job[q]
    BY <1>1, <1>2
  <1>4. \A c \in Slots : /\ Scripting(c)' <=> Scripting(c)
                         /\ Tearable(c)' <=> Tearable(c)
                         /\ job'[c] = job[c]
    BY <1>2, <1>3 DEF Scripting, Tearable
  <1>5. /\ \A t : t \in Torns <=> t \in Torns'
        /\ \A t : Exists(t) <=> Exists(t)'
    BY <1>1 DEF Torns, Flawed, Exists
  <1>6. Cause => Cause'
    <2>1. ASSUME NEW t \in Targets, Lost(t) PROVE Lost(t)'
      <3>1. ~Building(t)'
        BY <1>4, <2>1 DEF Lost, Building, JobsOf
      <3> QED BY <1>1, <1>5, <2>1, <3>1 DEF Lost, Torns
    <2> QED BY <1>1, <2>1 DEF Cause
  <1>7. /\ \A n \in Names : RowCaused(n)
        /\ \A p \in Procs : JobCaused(p)
        /\ \A c \in Slots : StampKept(c)
        /\ \A t \in Targets : TornKnown(t)
    BY CauseParts DEF CauseInv
  <1>8. \A n \in Names : RowCaused(n)'
    <2>1. ~Idle
      BY <1>2, Live
    <2> QED BY <1>1, <1>6, <1>7, <2>1 DEF RowCaused
  <1>9. ASSUME NEW p \in Procs PROVE JobCaused(p)'
    <2>1. CASE p = Root
      BY <1>3, <2>1, NoJobTyped DEF JobCaused, Alive
    <2>2. CASE p # Root
      BY <1>3, <1>6, <1>7, <2>2 DEF JobCaused, Alive
    <2> QED BY <2>1, <2>2
  <1>10. \A c \in Slots : StampKept(c)'
    BY <1>1, <1>4, <1>7 DEF StampKept
  <1>11. \A t \in Targets : TornKnown(t)'
    BY <1>1, <1>4, <1>5, <1>7 DEF TornKnown, JobsOf
  <1>12. FailedRuns'
    <2>1. job[Root].bad => Cause
      BY <1>2, <1>7 DEF JobCaused
    <2> QED BY <1>1, <1>6, <2>1 DEF FailedRuns
  <1> QED BY <1>8, <1>9, <1>10, <1>11, <1>12, CauseNow

LEMMA CauseInvInit == Init => CauseInv
  <1> SUFFICES ASSUME Init PROVE CauseInv
    OBVIOUS
  <1>1. runid = 0 /\ result = "none" /\ \A n \in Names : db[n] = Blank
    BY DEF Init
  <1>2. \A p \in Procs : ~Alive(p)
    BY NoJobTyped DEF Init, Alive
  <1>3. Idle /\ \A c \in Slots : ~Alive(c) /\ ~Scripting(c)
    BY <1>2, TreeFacts DEF Idle, Alive, Scripting
  <1>4. \A n \in Names : db[n].failed <= runid /\ ~Torn(db[n])
    BY <1>1 DEF Blank, None, Torn
  <1> QED
    BY <1>1, <1>2, <1>3, <1>4, TreeFacts
    DEF CauseInv, FailedRows, FailedJobs, LeftJobs, FailedRuns, Undisturbed, TornRows

LEMMA CauseInvNext == TypeInv /\ HInv /\ CauseInv /\ [Next]_vars => CauseInv'
  <1> SUFFICES ASSUME TypeInv, HInv, CauseInv, [Next]_vars PROVE CauseInv'
    OBVIOUS
  <1>1. CASE Run
    BY <1>1, LookCause, ScriptCause, RenameCause, EndsCause, StrayCause, UnlockedCause, FinishCause
    DEF Run, Record
  <1>2. CASE Mishap
    BY <1>2, ScriptFailsCause, RenameCause, KillCause DEF Mishap
  <1>3. CASE Users
    BY <1>3, UsersCause
  <1>4. CASE Start
    BY <1>4, CommandsTyped, CommandCause
  <1>5. CASE UNCHANGED vars
    BY <1>5 DEF vars, CauseInv, FailedRows, FailedJobs, LeftJobs, FailedRuns, Undisturbed, TornRows,
                Idle, Cause, Lost, Building, JobsOf, Scripting, Tearable, Flawed, Exists, Alive
  <1> QED BY <1>1, <1>2, <1>3, <1>4, <1>5 DEF Next

----------------------------------------------------------------------------
(* No row was checked in a run to come. *)

(* What a step leaves was checked in this run at the latest. *)
CheckedByNow ==
    /\ \A n \in Names : db'[n].checked <= runid
    /\ \A p \in Procs : job'[p].sf.checked <= runid

(* The rows that only a walk, and redo-stamp, mark as checked. *)
LEMMA CheckedAlike ==
  ASSUME NEW f \in Row, NEW now \in Nat, NEW r \in Nat
  PROVE  /\ UpdateStamp(f, now, r).checked = f.checked /\ SetChanged(f, r).checked = f.checked
         /\ SetStatic(f, now, r).checked = f.checked /\ SetOverride(f, now, r).checked = f.checked
         /\ SetFailed(f, now, r).checked = f.checked /\ Recorded(f, now, r).checked = f.checked
  <1>1. UpdateStamp(f, now, r).checked = f.checked /\ SetChanged(f, r).checked = f.checked
    BY DEF UpdateStamp, SetChanged, Row
  <1>2. UpdateStamp(f, now, r) \in Row
    BY UpdateStampRow
  <1>3. SetStatic(f, now, r).checked = f.checked
    BY <1>1, <1>2 DEF SetStatic, Row
  <1>4. SetOverride(f, now, r).checked = f.checked
    BY <1>1, <1>2 DEF SetOverride, Row
  <1>5. SetFailed(f, now, r).checked = f.checked
    BY <1>1, <1>2 DEF SetFailed, Row
  <1>6. Recorded(f, now, r).checked = f.checked
    <2> DEFINE g == [f EXCEPT !.generated = TRUE, !.override = FALSE]
               h == [g EXCEPT !.csum = {}]
               k == UpdateStamp(h, now, r)
    <2>1. g \in Row /\ g.checked = f.checked
      BY DEF Row
    <2> HIDE DEF g
    <2>2. h \in Row /\ h.checked = g.checked
      BY <2>1 DEF Row, Content
    <2>3. [g EXCEPT !.stamp = now].checked = g.checked
      BY <2>1 DEF Row
    <2> HIDE DEF h
    <2>4. k \in Row /\ k.checked = h.checked
      <3>1. k \in Row
        BY <2>2, UpdateStampRow
      <3>2. k.checked = h.checked
        BY <2>2 DEF UpdateStamp, SetChanged, Row
      <3> QED BY <3>1, <3>2
    <2> HIDE DEF k
    <2>5. SetChanged(k, r).checked = k.checked
      BY <2>4 DEF SetChanged, Row
    <2>6. Recorded(f, now, r) \in {[g EXCEPT !.stamp = now], SetChanged(k, r)}
      BY DEF Recorded, g, h, k
    <2> QED BY <2>1, <2>2, <2>3, <2>4, <2>5, <2>6
  <1> QED BY <1>1, <1>3, <1>4, <1>5, <1>6

LEMMA CheckedFacts ==
  ASSUME TypeInv, CheckedInv
  PROVE  /\ runid \in Nat
         /\ \A n \in Names : db[n] \in Row /\ db[n].checked <= runid
         /\ \A p \in Procs : job[p].sf \in Row /\ job[p].sf.checked <= runid
         /\ Blank \in Row /\ Blank.checked <= runid
  BY Facts, JobFields, RunIdFacts DEF CheckedInv, Blank, None, Row, Content

(* A job that a step leaves alone, begins, or ends. *)
LEMMA CheckedJobs ==
  ASSUME TypeInv, CheckedInv,
         \A q \in Procs : job'[q].sf \in {job[q].sf, Blank} \/ (q \in Slots /\ job'[q].sf = db[Of[q]])
  PROVE  \A p \in Procs : job'[p].sf.checked <= runid
  BY CheckedFacts, TreeFacts

LEMMA LookChecked ==
  ASSUME TypeInv, HInv, CheckedInv, NEW p \in Procs, NEW t \in Files, Look(p, t)
  PROVE  CheckedByNow
  <1> DEFINE after == Opinion(p, t).db
  <1>0. /\ t \in Names /\ disk[t].stamp \in Nat /\ runid \in Nat /\ runid > 0 /\ db \in [Names -> Row]
        /\ \A n \in Names : disk[n].stamp \in Nat
    BY Live, LookFrame, Facts, TreeFacts DEF Alive, Asking, TypeInv, TypedJob
  <1>1. after \in [Names -> Row] /\ \A n \in Names : after[n].checked <= runid
    <2> DEFINE a == ShouldBuild(t, db, deps, disk, runid)
    <2>1. \A n \in Names : a.db[n].checked \in {db[n].checked, runid}
      BY <1>0, CheckedRows
    <2> HIDE DEF a
    <2>2. after \in {a.db, db}
      BY AnswerIs DEF Opinion, a
    <2> QED BY <1>0, <2>1, <2>2, CheckedFacts, OpinionFacts
  <1>2. \A q \in Procs : job'[q].sf \in {job[q].sf, Blank} \/ (q \in Slots /\ job'[q].sf = db[Of[q]])
    BY LookJob, TreeFacts DEF Stays, Begins
  <1>3. \A q \in Procs : job'[q].sf.checked <= runid
    BY <1>2, CheckedJobs
  <1>4. \A n \in Names : db[n].checked <= runid
    BY CheckedFacts
  <1> HIDE DEF after
  <1>5. ASSUME NEW row, row.checked = db[t].checked, db' = [after EXCEPT ![t] = row]
        PROVE  \A n \in Names : db'[n].checked <= runid
    BY <1>0, <1>1, <1>4, <1>5
  <1>6. CASE FindFailed(p, t) \/ PanicOn(p, t)
    BY <1>3, <1>4, <1>6 DEF FindFailed, PanicOn, data, CheckedByNow
  <1>7. CASE FindClean(p, t) \/ GiveToUnlocked(p, t)
    <2>1. db' = after
      BY <1>7 DEF FindClean, GiveToUnlocked, after
    <2> QED BY <1>1, <1>3, <2>1 DEF CheckedByNow
  <1>8. CASE KeepStatic(p, t)
    <2> DEFINE row == IF Looked(t).override THEN Looked(t)
                                            ELSE SetStatic(Looked(t), disk[t].stamp, runid)
    <2>1. db' = [after EXCEPT ![t] = row]
      BY <1>8 DEF KeepStatic, after
    <2>2. Looked(t) \in Row /\ Looked(t).checked = db[t].checked
      <3>1. db[t] \in Row
        BY <1>0
      <3>2. Looked(t) \in {db[t], SetOverride(db[t], disk[t].stamp, runid)}
        BY DEF Looked
      <3>3. SetOverride(db[t], disk[t].stamp, runid) \in Row
        BY <1>0, <3>1, SetOverrideRow
      <3>4. SetOverride(db[t], disk[t].stamp, runid).checked = db[t].checked
        BY <1>0, <3>1, CheckedAlike
      <3> QED BY <3>1, <3>2, <3>3, <3>4
    <2>3. row.checked = db[t].checked
      BY <1>0, <2>2, CheckedAlike
    <2> HIDE DEF row
    <2> QED BY <1>3, <1>5, <2>1, <2>3 DEF CheckedByNow
  <1>9. CASE AdoptOrphan(p, t)
    <2>1. db' = [after EXCEPT ![t] = SetStatic(db[t], disk[t].stamp, runid)]
      BY <1>9 DEF AdoptOrphan, after
    <2>2. SetStatic(db[t], disk[t].stamp, runid).checked = db[t].checked
      BY <1>0, CheckedAlike
    <2> QED BY <1>3, <1>5, <2>1, <2>2 DEF CheckedByNow
  <1>10. CASE NoRule(p, t)
    <2>1. db' = [after EXCEPT ![t] = SetFailed(db[t], Missing, runid)]
      BY <1>10 DEF NoRule, after
    <2>2. SetFailed(db[t], Missing, runid).checked = db[t].checked
      <3>1. db[t] \in Row /\ Missing \in Nat /\ runid \in Nat
        BY <1>0 DEF Missing
      <3> QED BY <3>1, CheckedAlike
    <2> QED BY <1>3, <1>5, <2>1, <2>2 DEF CheckedByNow
  <1>11. CASE StartJob(p, t)
    <2>1. db' = [f \in Names |-> IF f \in DoFile(t) THEN SetStatic(after[f], disk[f].stamp, runid)
                                                   ELSE after[f]]
      BY <1>11 DEF StartJob, after
    <2>2. ASSUME NEW f \in Names
          PROVE  SetStatic(after[f], disk[f].stamp, runid).checked = after[f].checked
      <3>1. after[f] \in Row /\ disk[f].stamp \in Nat /\ runid \in Nat
        BY <1>0, <1>1
      <3> QED BY <3>1, CheckedAlike
    <2>3. \A f \in Names : db'[f].checked = after[f].checked
      BY <2>1, <2>2
    <2> QED BY <1>1, <1>3, <2>3 DEF CheckedByNow
  <1> QED BY <1>6, <1>7, <1>8, <1>9, <1>10, <1>11 DEF Look

LEMMA ScriptChecked ==
  ASSUME TypeInv, CheckedInv, NEW c \in Slots, Script(c)
  PROVE  CheckedByNow
  <1>0. c \in Procs /\ Of[c] \in Names /\ runid \in Nat /\ db \in [Names -> Row]
    BY TreeFacts, Facts
  <1>1. \A q \in Procs : job'[q].sf.checked <= runid
    <2>1. \A q \in Procs : job'[q].sf = job[q].sf
      BY ScriptGoes DEF Goes
    <2> QED BY <2>1, CheckedFacts
  <1>2. \A n \in Names : db[n].checked <= runid
    BY CheckedFacts
  <1>3. CASE RedoAlways(c)
    <2> DEFINE f == [db[ALWAYS] EXCEPT !.stamp = Missing]
    <2>1. f \in Row /\ f.checked = db[ALWAYS].checked
      BY <1>0, TreeFacts, RunIdFacts DEF Row, Missing
    <2>2. db' = [db EXCEPT ![ALWAYS] = SetChanged(f, runid)]
      BY <1>3 DEF RedoAlways
    <2> HIDE DEF f
    <2>3. SetChanged(f, runid).checked = f.checked
      BY <2>1 DEF SetChanged, Row
    <2>4. \A n \in Names : db'[n].checked = db[n].checked
      BY <1>0, <2>1, <2>2, <2>3
    <2> QED BY <1>1, <1>2, <2>4 DEF CheckedByNow
  <1>4. CASE AskNeeds(c) \/ RedoIfcreate(c) \/ AskMore(c) \/ WriteOnly(c) \/ ScriptAborts(c)
    <2>1. db' = db
      BY <1>4 DEF AskNeeds, RedoIfcreate, AskMore, RedoIfchange, WriteOnly, ScriptAborts, data
    <2> QED BY <1>1, <1>2, <2>1 DEF CheckedByNow
  <1>5. CASE WriteAndStamp(c)
    <2> DEFINE row == RedoStamp(db[Of[c]], Output(Of[c]), runid)
    <2>1. db' = [db EXCEPT ![Of[c]] = row]
      BY <1>5 DEF WriteAndStamp
    <2>2. row.checked \in {db[Of[c]].checked, runid}
      <3>1. db[Of[c]] \in Row
        BY <1>0
      <3> QED BY <3>1 DEF RedoStamp, SetGenerated, SetChecked, SetChanged, Row
    <2> HIDE DEF row
    <2>3. row.checked <= runid
      BY <1>0, <1>2, <2>2
    <2>4. \A n \in Names : db'[n].checked <= runid
      BY <1>0, <1>2, <2>1, <2>3
    <2> QED BY <1>1, <2>4 DEF CheckedByNow
  <1> QED BY <1>3, <1>4, <1>5 DEF Script

LEMMA EndsChecked ==
  ASSUME TypeInv, CheckedInv, NEW c \in Slots, RecordSuccess(c) \/ RecordFailure(c)
  PROVE  CheckedByNow
  <1>0. /\ c \in Procs /\ Of[c] \in Names /\ runid \in Nat /\ job \in [Procs -> Job]
        /\ db \in [Names -> Row] /\ disk[Of[c]].stamp \in Nat /\ job[c].sf \in Row
    BY TreeFacts, Facts, JobFields
  <1>1. \E fails \in BOOLEAN : EndJob(c, fails)
    BY DEF RecordSuccess, RecordFailure
  <1>2. \A q \in Procs : job'[q].sf \in {job[q].sf, Blank}
    <2>1. NoJob.sf = Blank
      BY DEF NoJob, NewJob
    <2> QED BY <1>0, <1>1, <2>1, EndTyped
  <1>3. \A q \in Procs : job'[q].sf.checked <= runid
    BY <1>2, CheckedJobs
  <1>4. (\A n \in Names : db[n].checked <= runid) /\ job[c].sf.checked <= runid
    BY <1>0, CheckedFacts
  <1>5. PICK row : db' = [db EXCEPT ![Of[c]] = row] /\ row.checked \in {db[Of[c]].checked, job[c].sf.checked}
    <2>1. CASE RecordSuccess(c)
      <3>1. db' = [db EXCEPT ![Of[c]] = Recorded(db[Of[c]], disk[Of[c]].stamp, runid)]
        BY <2>1 DEF RecordSuccess
      <3>2. db[Of[c]] \in Row
        BY <1>0
      <3>3. Recorded(db[Of[c]], disk[Of[c]].stamp, runid).checked = db[Of[c]].checked
        BY <1>0, <3>2, CheckedAlike
      <3> QED BY <3>1, <3>3
    <2>2. CASE RecordFailure(c)
      <3>1. db' = [db EXCEPT ![Of[c]] = SetFailed(job[c].sf, disk[Of[c]].stamp, runid)]
        BY <2>2 DEF RecordFailure
      <3>2. SetFailed(job[c].sf, disk[Of[c]].stamp, runid).checked = job[c].sf.checked
        BY <1>0, CheckedAlike
      <3> QED BY <3>1, <3>2
    <2> QED BY <2>1, <2>2
  <1>6. \A n \in Names : db'[n].checked <= runid
    BY <1>0, <1>4, <1>5
  <1> QED BY <1>3, <1>6 DEF CheckedByNow

LEMMA UnlockedChecked ==
  ASSUME TypeInv, CheckedInv, NEW c \in Slots, Unlocked(c)
  PROVE  CheckedByNow
  <1>0. c \in Procs /\ job \in [Procs -> Job]
    BY TreeFacts, Facts, JobFields
  <1>1. \A q \in Procs : job'[q].sf \in {job[q].sf, Blank}
    <2>1. CASE Goes(c, "check") \/ Goes(c, "recheck")
      BY <2>1 DEF Goes
    <2>2. CASE EndJob(c, job[c].bad /\ ~job[c].left)
      <3>1. NoJob.sf = Blank
        BY DEF NoJob, NewJob
      <3>2. PICK fails \in BOOLEAN : fails = (job[c].bad /\ ~job[c].left)
        BY <1>0, JobFields
      <3> QED BY <1>0, <2>2, <3>1, <3>2, EndTyped
    <2> QED BY <2>1, <2>2, UnlockedGoes
  <1>2. \A q \in Procs : job'[q].sf.checked <= runid
    BY <1>1, CheckedJobs
  <1> QED BY <1>2, CheckedFacts, UnlockedFrame DEF CheckedByNow

(* Steps that do not write to the database. *)
LEMMA RestChecked ==
  ASSUME TypeInv, CheckedInv, UNCHANGED db,
         \A q \in Procs : job'[q].sf \in {job[q].sf, Blank}
  PROVE  CheckedByNow
  <1>1. \A q \in Procs : job'[q].sf.checked <= runid
    BY CheckedJobs
  <1> QED BY <1>1, CheckedFacts DEF CheckedByNow

LEMMA RenameChecked ==
  ASSUME TypeInv, CheckedInv, NEW c \in Slots, Rename(c) \/ WriteDirectly(c) \/ ScriptFails(c)
  PROVE  CheckedByNow
  <1>0. /\ c \in Procs /\ job \in [Procs -> Job] /\ UNCHANGED db
        /\ {"renamed", "exit"} \subseteq Places
    BY TreeFacts, Facts DEF Places, Rename, WriteDirectly, ScriptFails, data
  <1>1. CASE Rename(c)
    <2>1. Goes(c, "renamed")
      BY <1>0, <1>1, MoveGoes DEF Rename, Move
    <2> QED BY <1>0, <2>1, RestChecked DEF Goes
  <1>2. CASE WriteDirectly(c)
    <2>1. Goes(c, "exit")
      BY <1>0, <1>2, MoveGoes DEF WriteDirectly, Move
    <2> QED BY <1>0, <2>1, RestChecked DEF Goes
  <1>3. CASE ScriptFails(c)
    <2>1. Goes(c, "exit")
      BY <1>0, <1>3, FailGoes DEF ScriptFails
    <2> QED BY <1>0, <2>1, RestChecked DEF Goes
  <1> QED BY <1>1, <1>2, <1>3

LEMMA StrayChecked ==
  ASSUME TypeInv, CheckedInv, NEW c \in Slots, StrayEnds(c)
  PROVE  CheckedByNow
  <1>1. job' = [job EXCEPT ![c] = NoJob] /\ UNCHANGED db /\ NoJob.sf = Blank
    BY DEF StrayEnds, data, NoJob, NewJob
  <1>2. job \in [Procs -> Job] /\ c \in Procs
    BY Facts, TreeFacts
  <1> QED BY <1>1, <1>2, RestChecked

LEMMA CommandsChecked ==
  ASSUME TypeInv, CheckedInv, Start \/ Finish \/ Kill \/ Users
  PROVE  CheckedByNow
  <1>0. job \in [Procs -> Job] /\ Root \in Procs /\ NoJob.sf = Blank
    BY Facts, TreeFacts DEF NoJob, NewJob
  <1>1. CASE Start
    <2>1. PICK wanted, force : Command(wanted, force)
      BY <1>1 DEF Start
    <2> DEFINE J == NewJob("goals", Root, wanted, {}, Blank, Missing)
    <2>2. job' = [job EXCEPT ![Root] = J] /\ UNCHANGED db
      BY <2>1 DEF Command, data
    <2>3. J.sf = Blank
      BY DEF NewJob
    <2> HIDE DEF J
    <2> QED BY <1>0, <2>2, <2>3, RestChecked
  <1>2. CASE Finish
    <2>1. job' = [job EXCEPT ![Root] = NoJob] /\ UNCHANGED db
      BY <1>2 DEF Finish, data
    <2> QED BY <1>0, <2>1, RestChecked
  <1>3. CASE Kill
    <2>1. job' = [q \in Procs |-> NoJob] /\ UNCHANGED db
      BY <1>3 DEF Kill, data
    <2> QED BY <1>0, <2>1, RestChecked
  <1>4. CASE Users
    <2>1. PICK f, new : Touch(f, new)
      BY <1>4, UserActs
    <2>2. job' = job /\ UNCHANGED db
      BY <2>1 DEF Touch, data
    <2> QED BY <2>2, RestChecked
  <1> QED BY <1>1, <1>2, <1>3, <1>4

LEMMA CheckedInvInit == Init => CheckedInv
  <1> SUFFICES ASSUME Init PROVE CheckedInv
    OBVIOUS
  <1>1. runid = 0 /\ (\A n \in Names : db[n] = Blank) /\ \A p \in Procs : job[p].sf = Blank
    BY DEF Init, NoJob, NewJob
  <1> QED BY <1>1 DEF CheckedInv, Blank, None

LEMMA CheckedInvNext == TypeInv /\ HInv /\ CheckedInv /\ [Next]_vars => CheckedInv'
  <1> SUFFICES ASSUME TypeInv, HInv, CheckedInv, [Next]_vars PROVE CheckedInv'
    OBVIOUS
  <1>1. CheckedByNow
    <2>1. CASE Run
      BY <2>1, LookChecked, ScriptChecked, RenameChecked, EndsChecked, StrayChecked,
         UnlockedChecked, CommandsChecked
      DEF Run, Record
    <2>2. CASE Mishap
      BY <2>2, RenameChecked, CommandsChecked DEF Mishap
    <2>3. CASE Users \/ Start
      BY <2>3, CommandsChecked
    <2>4. CASE UNCHANGED vars
      <3>1. UNCHANGED <<db, job>>
        BY <2>4 DEF vars
      <3> QED BY <3>1 DEF CheckedInv, CheckedByNow
    <2> QED BY <2>1, <2>2, <2>3, <2>4 DEF Next
  <1>2. TypeInv'
    BY TypeInvNext
  <1>3. \A n \in Names : db'[n].checked \in Int
    <2>1. db' \in [Names -> Row]
      BY <1>2 DEF TypeInv, TypedDb
    <2> QED BY <2>1, RowFields, RunIdFacts
  <1>4. \A p \in Procs : job'[p].sf.checked \in Int
    <2>1. job' \in [Procs -> Job]
      BY <1>2 DEF TypeInv, TypedJob
    <2> QED BY <2>1, JobFields, RowFields, RunIdFacts
  <1>5. runid \in Int
    BY Facts
  <1>6. runid' \in {runid, runid + 1}
    <2>1. CASE Run
      BY <2>1, LookFrame, ScriptFrame, UnlockedFrame
      DEF Run, Record, Rename, RecordSuccess, RecordFailure, StrayEnds, Finish, command
    <2>2. CASE Mishap
      BY <2>2 DEF Mishap, ScriptFails, WriteDirectly, Kill, command
    <2>3. CASE Users
      BY <2>3, UserActs DEF Touch
    <2>4. CASE Start
      BY <2>4 DEF Start, Command
    <2>5. CASE UNCHANGED vars
      BY <2>5 DEF vars
    <2> QED BY <2>1, <2>2, <2>3, <2>4, <2>5 DEF Next
  <1> QED BY <1>1, <1>3, <1>4, <1>5, <1>6 DEF CheckedByNow, CheckedInv

----------------------------------------------------------------------------
(* What holds of every run. *)

(* The inductive invariant, with that of RebuildProofs: types, the causes   *)
(* of failures, the user's files, and the runs in which rows were checked,  *)
(* in every reachable state of every tree (start_self() and                 *)
(* record_new_state() of src/src/builder.rs).                               *)
THEOREM FilesInvAlways == Spec => [](FilesInv /\ HInv)
  <1>1. Init => FilesInv /\ HInv
    BY TypeInvInit, CauseInvInit, OwnerInvInit, CheckedInvInit, HInvInit DEF FilesInv
  <1>2. FilesInv /\ HInv /\ [Next]_vars => (FilesInv /\ HInv)'
    BY TypeInvNext, CauseInvNext, OwnerInvNext, CheckedInvNext, HInvNext DEF FilesInv
  <1> QED BY <1>1, <1>2, PTL DEF Spec

(* The state keeps its type: what no rule builds never gets the row of a    *)
(* target (state.rs sets is_generated and csum for targets only), table     *)
(* Deps one row for each target and source, and what is_dirty() writes and  *)
(* asks for fits.                                                           *)
THEOREM TypesKept == Spec => []TypeOK
  <1>1. FilesInv => TypeOK
    BY DEF FilesInv, TypeInv, TypedDisk, TypedDb, TypedDeps, DepRows, TypedJob, TypedRest,
           TypedFlaws, TypeOK
  <1> QED BY <1>1, FilesInvAlways, PTL

(* A run only fails if something in it had to: a job, a missing rule, a     *)
(* script that wrote its target, or a target left half recorded by a job    *)
(* that was killed, or that was left behind by a command that gave up (the  *)
(* unwrap() of builder.rs:126).  In particular no failure of an earlier run *)
(* makes this one fail (is_failed() of state.rs).                           *)
THEOREM FailuresHaveCauses == Spec => []FailsForCause
  <1>1. FilesInv => FailsForCause
    BY DEF FilesInv, CauseInv, FailedRuns, Cause, Lost, FailsForCause
  <1> QED BY <1>1, FilesInvAlways, PTL

Untouched == \A t \in Targets : OwnFile(t) /\ disk'[t] # disk[t] => edits' # edits

(* No step but the user's own changes a file that holds what the user       *)
(* wrote there: start_self() of src/src/builder.rs lets a target with such  *)
(* a file be, and a job that has started never meets one.                   *)
THEOREM FilesAreSafe == Spec => NeverTrample
  <1>1. ASSUME TypeInv, OwnerInv, [Next]_vars PROVE Untouched
    <2> SUFFICES ASSUME NEW t \in Targets, OwnFile(t), disk'[t] # disk[t] PROVE edits' # edits
      BY DEF Untouched
    <2>1. \A c \in Slots : Of[c] = t => ~Scripting(c)
      BY <1>1 DEF OwnerInv
    <2>2. ~\E c \in Slots : Rename(c) \/ WriteDirectly(c)
      <3> SUFFICES ASSUME NEW c \in Slots, Rename(c) \/ WriteDirectly(c) PROVE FALSE
        OBVIOUS
      <3>1. Scripting(c) /\ \E new : disk' = [disk EXCEPT ![Of[c]] = new]
        BY DEF Rename, WriteDirectly, Scripting
      <3> QED BY <2>1, <3>1
    <2>3. CASE Run
      BY <2>2, <2>3, LookFrame, ScriptFrame, UnlockedFrame
      DEF Run, Record, RecordSuccess, RecordFailure, StrayEnds, Finish, user
    <2>4. CASE Mishap
      BY <2>2, <2>4 DEF Mishap, ScriptFails, Kill, user
    <2>5. CASE Users
      <3>1. edits' = edits + 1 /\ edits \in Int
        BY <1>1, <2>5, UserActs, BoundsAssumption DEF Touch, TypeInv, TypedRest
      <3> QED BY <3>1
    <2>6. CASE Start \/ UNCHANGED vars
      BY <2>6 DEF Start, Command, user, vars
    <2> QED BY <1>1, <2>3, <2>4, <2>5, <2>6 DEF Next
  <1>2. FilesInv /\ [Next]_vars => [Untouched]_vars
    BY <1>1 DEF FilesInv
  <1> QED BY <1>2, FilesInvAlways, PTL DEF Spec, NeverTrample, Untouched

(* Between runs, redo-ood lists those targets that a redo-ifchange of each  *)
(* would not find clean, for every tree, every edit, and every circle of    *)
(* dependencies: one cache for all targets (src/src/bin/redo/ood.rs) does   *)
(* what the rows of the database do for redo-ifchange, since no row was     *)
(* checked in a run to come (private_is_dirty() of src/src/deps.rs).        *)
THEOREM OodAgreesAlways == Spec => []OodAgrees
  <1>1. ASSUME TypeInv, CheckedInv PROVE OodAgrees
    <2> DEFINE r == runid + 1
    <2>1. db \in [Names -> Row] /\ runid \in Nat
      BY <1>1, Facts
    <2>2. \A n \in Names : db[n].checked <= runid /\ db[n].checked \in Int
      BY <1>1, <2>1, RowFields, RunIdFacts DEF CheckedInv
    <2>3. r \in Nat /\ r > 0 /\ \A n \in Names : db[n].checked < r
      BY <2>1, <2>2
    <2> HIDE DEF r
    <2>4. RedoOod(db, deps, disk, r)
            = {t \in RedoTargets(db, disk, r) : ShouldBuild(t, db, deps, disk, r).is # "clean"}
      BY <2>1, <2>3, OodAsksTheSame
    <2> QED BY <2>4 DEF OodAgrees, r
  <1>2. FilesInv => OodAgrees
    BY <1>1 DEF FilesInv
  <1> QED BY <1>2, FilesInvAlways, PTL
=============================================================================
