------------------------------ MODULE Dirtiness ------------------------------
(***************************************************************************)
(* Does a file have to be rebuilt?  private_is_dirty() of src/src/deps.rs  *)
(* walks the recorded dependencies; it is used by redo-ifchange, which     *)
(* remembers in the database what it found clean, and by redo-ood, which   *)
(* remembers it in memory.                                                 *)
(***************************************************************************)
EXTENDS FileState, Sequences, FiniteSets

CONSTANT Order      \* every name redo may record, in the order of the row ids

ASSUME OrderAssumption == Order \in Seq(STRING) /\ Len(Order) > 0

Names == {Order[i] : i \in DOMAIN Order}

Content == SUBSET (STRING \X Nat)       \* see module Rebuild

RunIds == {None} \cup Nat

Row == [generated : BOOLEAN, override : BOOLEAN, checked : RunIds, changed : RunIds,
        failed : RunIds, stamp : RunIds, csum : Content]

Later(a, b) == IF a > b THEN a ELSE b

(***************************************************************************)
(* The walk.  An answer says whether the file is "clean", "dirty", or      *)
(* needs others to be built before one can tell ("need"), or that the walk *)
(* met itself ("cycle"); with the database and the cache as it left them.  *)
(* A visit carries the row its caller has read, which a sibling's walk may *)
(* have changed in the database since.                                     *)
(***************************************************************************)
Verdicts == {"clean", "dirty", "need", "cycle"}

Answer(is, need, at) == [is |-> is, need |-> need, db |-> at.db, cache |-> at.cache]

(* A file whose stamp has changed: gone missing, a generated one turns into *)
(* a source that failed (in no run: the id is 0).                          *)
Forget(v, now) ==
    IF now = Missing /\ v.f.generated
    THEN [v EXCEPT !.db[v.t] = [v.f EXCEPT !.generated = FALSE, !.failed = 0]]
    ELSE v

(* A dirty file with a checksum may turn out to be unchanged once built.   *)
DirtySelf(v, at) ==
    IF v.f.csum = {} THEN Answer("dirty", {}, at) ELSE Answer("need", {v.t}, at)

Recall(v, r, ood) == IF ood THEN v.t \in v.cache ELSE IsChecked(v.f, r)

(* Mutant: what led here is remembered as well. *)
RememberAll(v, at, r, ood) ==
    IF ood THEN [at EXCEPT !.cache = @ \cup v.seen \cup {v.t}]
           ELSE [at EXCEPT !.db[v.t] = SetChecked(v.f, r)]

(* set_checked at the end of a walk that found nothing dirty. *)
Remember(v, at, r, ood) ==
    IF ood THEN [at EXCEPT !.cache = @ \cup {v.t}]
           ELSE [at EXCEPT !.db[v.t] = SetChecked(v.f, r)]

(* Mutant: built after its parent, or not. *)
OverdueAlone(v) == v.f.failed # None \/ v.f.changed = None

(* A file that failed, was never built, or was built after its parent.     *)
Overdue(v) == v.f.failed # None \/ v.f.changed = None \/ v.f.changed > v.max

Answers == [is : Verdicts, need : SUBSET Names, db : [Names -> Row], cache : SUBSET Names]

Visits == [t : Names, f : Row, max : Int, seen : SUBSET Names, db : [Names -> Row],
           cache : SUBSET Names]

(* What a dependency says.  The rows of all of them were read before the    *)
(* first was visited; told is what each visit answers.                     *)
Ask(v, s, so, deps, disk, r, told) ==
    IF \E d \in DepsOf(deps, v.t, v.f) : d.source = s /\ d.mode = Created
    THEN Answer(IF disk[s].stamp # Missing THEN "dirty" ELSE "clean", {}, so)
    ELSE told[[t |-> s, f |-> FromCols(s, v.db[s], r), max |-> Later(v.f.changed, v.f.checked),
               seen |-> v.seen \cup {v.t}, db |-> so.db, cache |-> so.cache]]

Combine(v, so, sub) ==
    CASE sub.is = "dirty" -> DirtySelf(v, sub)
      [] sub.is = "need"  -> Answer("clean", so.need \cup sub.need, sub)
      [] OTHER            -> Answer(sub.is, so.need, sub)

(* A loop over the rows of table Files, in their order. *)
Loop(start, step) ==
    LET upto[i \in 0..Len(Order)] == IF i = 0 THEN start ELSE step[Order[i]][upto[i - 1]]
    IN upto[Len(Order)]

(* One turn of the loop over the dependencies, which ends when one of them *)
(* makes the file dirty.                                                   *)
DepStep(v, deps, disk, r, told) ==
    LET mine == {d.source : d \in DepsOf(deps, v.t, v.f)}
    IN [s \in Names |-> [so \in Answers |->
          IF so.is = "clean" /\ s \in mine
          THEN [sub \in Answers |-> Combine(v, so, sub)][Ask(v, s, so, deps, disk, r, told)]
          ELSE so]]

WalkDeps(v, deps, disk, r, told) ==
    Loop(Answer("clean", {}, v), DepStep(v, deps, disk, r, told))

(* The end of the loop. *)
Conclude(v, so, r, ood) ==
    IF so.is # "clean" THEN so
    ELSE IF so.need # {} THEN Answer("need", so.need, so)
    ELSE Answer("clean", {}, Remember(v, so, r, ood))

VisitOne(v, deps, disk, r, ood, told) ==
    CASE v.t \in v.seen -> Answer("cycle", {}, v)
      [] v.t \notin v.seen /\ Overdue(v) -> Answer("dirty", {}, v)
      [] OTHER ->
           IF Recall(v, r, ood) THEN Answer("clean", {}, v)
           ELSE IF v.f.stamp = None THEN Answer("dirty", {}, v)
           ELSE IF v.f.stamp # disk[v.t].stamp THEN DirtySelf(v, Forget(v, disk[v.t].stamp))
           ELSE Conclude(v, WalkDeps(v, deps, disk, r, told), r, ood)

PrivateIsDirty(first, deps, disk, r, ood) ==
    LET visit[v \in Visits] == VisitOne(v, deps, disk, r, ood, visit)
    IN visit[first]

IsDirty(t, f, at, deps, disk, r, ood) ==
    PrivateIsDirty([t |-> t, f |-> f, max |-> r, seen |-> {}, db |-> at.db, cache |-> at.cache],
                   deps, disk, r, ood)

(* should_build() of redo-ifchange for a file that did not fail in this    *)
(* run: if only the file itself is in doubt, it is simply dirty.           *)
ShouldBuild(t, db, deps, disk, r) ==
    LET a == IsDirty(t, FromCols(t, db[t], r), [db |-> db, cache |-> {}], deps, disk, r, FALSE)
    IN IF a.is = "need" /\ a.need = {t} THEN [a EXCEPT !.is = "dirty", !.need = {}] ELSE a

----------------------------------------------------------------------------
(* Commands that only print, as the sets of names they list.               *)

RedoSources(db, disk, r) == {t \in Names : IsSource(t, FromCols(t, db[t], r), disk[t].stamp, r)}

RedoTargets(db, disk, r) == {t \in Names : IsTarget(t, FromCols(t, db[t], r), disk[t].stamp, r)}

(* redo-ood reads the rows of all targets, then asks about each in turn,   *)
(* with one cache; what it writes to the database is rolled back.          *)
RedoOod(db, deps, disk, r) ==
    LET targets == RedoTargets(db, disk, r)
    IN Loop(Answer("clean", {}, [db |-> db, cache |-> {}]),
            [t \in Names |-> [so \in Answers |->
               IF t \in targets
               THEN [a \in Answers |->
                       [a EXCEPT !.need = so.need \cup (IF a.is = "clean" THEN {} ELSE {t})]]
                      [IsDirty(t, FromCols(t, db[t], r), so, deps, disk, r, TRUE)]
               ELSE so]]).need
=============================================================================
