------------------------------ MODULE FileState ------------------------------
(***************************************************************************)
(* What the build database knows of one file, and the operations on it     *)
(* (src/src/state.rs).  A row of table Files is a record, table Deps a set *)
(* of records.  `r' is the id of the current run, `now' the stamp that     *)
(* read_stamp() finds on disk.                                             *)
(***************************************************************************)
EXTENDS Integers

ALWAYS == "//ALWAYS"        \* the name that redo-always depends on

None == -1                  \* NULL in a column of the database
Missing == 0                \* the stamp of a file that does not exist

(***************************************************************************)
(* A stamp is mtime, size, inode, mode and owner of a file.  Here it is a  *)
(* number: its half stands for mtime and size, its parity for all the      *)
(* rest, so that 2 and 3 are one content under two modes.                  *)
(***************************************************************************)
Crit(stamp) == stamp \div 2

Chmod(stamp) == IF stamp % 2 = 0 THEN stamp + 1 ELSE stamp - 1

(* Mutant: any change of the stamp counts. *)
DetectAnyChange(old, new) == old # new

DetectOverride(old, new) == Crit(old) # Crit(new)

(* A file that redo has never recorded: the row from_name() inserts.  An   *)
(* empty checksum is {}.                                                   *)
Blank == [generated |-> FALSE, override |-> FALSE, checked |-> None, changed |-> None,
          failed |-> None, stamp |-> None, csum |-> {}]

(* A row as from_cols() reads it: //ALWAYS has changed in this very run.   *)
FromCols(name, row, r) ==
    IF name = ALWAYS /\ row.changed < r THEN [row EXCEPT !.changed = r] ELSE row

----------------------------------------------------------------------------
(* Updates of a row *)

SetGenerated(f) == [f EXCEPT !.generated = TRUE, !.override = FALSE, !.failed = None]

SetChecked(f, r) == [f EXCEPT !.checked = r]

SetChanged(f, r) == [f EXCEPT !.changed = r, !.failed = None, !.override = FALSE]

UpdateStamp(f, now, r) ==
    IF f.stamp = now THEN f ELSE SetChanged([f EXCEPT !.stamp = now], r)

(* A failed target that left no file behind may become a source.           *)
SetFailed(f, now, r) ==
    [UpdateStamp(f, now, r) EXCEPT !.failed = r, !.generated = (now # Missing)]

(* Mutant: the stamp of a source is not brought up to date. *)
SetStaticStale(f, now, r) ==
    [f EXCEPT !.failed = None, !.override = FALSE, !.generated = FALSE, !.changed = r]

SetStatic(f, now, r) ==
    [UpdateStamp(f, now, r) EXCEPT !.failed = None, !.override = FALSE, !.generated = FALSE]

SetOverride(f, now, r) ==
    [UpdateStamp(f, now, r) EXCEPT !.failed = None, !.override = TRUE]

----------------------------------------------------------------------------
(* Questions about a row.  A run id of 0 counts as no run id.              *)

InRun(id, r) == id > 0 /\ id >= r

IsChecked(f, r) == InRun(f.checked, r)
IsChanged(f, r) == InRun(f.changed, r)

(* Mutant: whatever failed once has failed. *)
FailedEver(f, r) == f.failed > 0

IsFailed(f, r)  == InRun(f.failed, r)

(* The target is as its last build left it. *)
AsLeft(f, now, r) ==
    /\ f.generated /\ ~f.override /\ f.stamp = now
    /\ ~IsFailed(f, r) \/ now # Missing

(* The file went missing since redo last looked, or was never generated.   *)
GoneMissing(f, now) == now = Missing /\ (~f.generated \/ f.stamp # now)

IsSource(name, f, now, r) ==
    name # ALWAYS /\ ~AsLeft(f, now, r) /\ ~GoneMissing(f, now)

IsTarget(name, f, now, r) == f.generated /\ ~IsSource(name, f, now, r)

----------------------------------------------------------------------------
(* Table Deps: one row per target and source.                              *)

Created  == "c"     \* dirty once the source exists
Modified == "m"     \* dirty once the source has changed

(* What a target depends on; a source or an overridden target on nothing.  *)
(* Rows marked delete_me still count.                                      *)
DepsOf(deps, t, f) ==
    IF f.override \/ ~f.generated THEN {} ELSE {d \in deps : d.target = t}

(* Mutant: dependencies of earlier builds are kept. *)
ZapDeps1Nothing(deps, t) == deps

ZapDeps1(deps, t) == {IF d.target = t THEN [d EXCEPT !.deleteMe = TRUE] ELSE d : d \in deps}

ZapDeps2(deps, t) == {d \in deps : d.target # t \/ ~d.deleteMe}

(* Mutant: an insert where the table is keyed by target and source. *)
AddDepsAgain(deps, t, mode, sources) ==
    deps \cup {[target |-> t, source |-> s, mode |-> mode, deleteMe |-> FALSE] : s \in sources}

AddDeps(deps, t, mode, sources) ==
    {d \in deps : d.target # t \/ d.source \notin sources}
      \cup {[target |-> t, source |-> s, mode |-> mode, deleteMe |-> FALSE] : s \in sources}
=============================================================================
