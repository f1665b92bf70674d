-------------------------------- MODULE Paths --------------------------------
(***************************************************************************)
(* How redo finds the .do file of a target: the path is made normal by     *)
(* normpath() of src/src/helpers.rs, and possible_do_files() of            *)
(* src/src/paths.rs enumerates the rules that could build it, until one    *)
(* exists.  A string is a sequence of symbols, of which only "/" and "."   *)
(* matter; every other character is "n".                                   *)
(***************************************************************************)
EXTENDS Integers, Sequences, FiniteSets, SequencesExt

CONSTANTS
    MaxLen,     \* bound on the length of a path
    Cwds        \* current directories of redo-whichdo, as sequences of names

Symbols == {"/", ".", "n"}

PathStrings == UNION {[1..n -> Symbols] : n \in 0..MaxLen}

ASSUME PathAssumption ==
    /\ MaxLen \in Nat
    /\ Cwds \subseteq Seq(PathStrings \ {<<>>})

VARIABLES
    path,       \* the argument of normpath()
    read,       \* how many of its symbols have been read
    out,        \* the LazyBuf: the output, of length w, is the beginning of the
                \* path itself until it differs from it, and then that of buf
    dotdot,     \* where ".." must stop
    norm,       \* the result of normpath()
    search,     \* the iterator: "normpath", "first", "recursive", "stopped" or "panic"
    dirs,       \* directories left to search, nearest first, with the way back to the target
    exts,       \* where in the file name the extensions left to try begin
    tried,      \* the .do files looked for
    found       \* whether the last of them exists

vars == <<path, read, out, dotdot, norm, search, dirs, exts, tried, found>>

----------------------------------------------------------------------------
(* LazyBuf *)

NoBuf == <<"no buffer">>

View(o) == SubSeq(IF o.buf = NoBuf THEN path ELSE o.buf, 1, o.w)

(* Mutant: what Parent gave up is not cut off. *)
AppendAllUncut(o, s) ==
    IF o.buf = NoBuf /\ o.w + Len(s) <= Len(path) /\ SubSeq(path, o.w + 1, o.w + Len(s)) = s
    THEN [o EXCEPT !.w = @ + Len(s)]
    ELSE [buf |-> (IF o.buf = NoBuf THEN View(o) ELSE o.buf) \o s, w |-> o.w + Len(s)]

(* Some calls of append(). *)
AppendAll(o, s) ==
    IF o.buf = NoBuf /\ o.w + Len(s) <= Len(path) /\ SubSeq(path, o.w + 1, o.w + Len(s)) = s
    THEN [o EXCEPT !.w = @ + Len(s)]
    ELSE [buf |-> View(o) \o s, w |-> o.w + Len(s)]

----------------------------------------------------------------------------
(* normpath() *)

Rooted == path # <<>> /\ path[1] = "/"

Init ==
    /\ path \in PathStrings
    /\ read = (IF Rooted THEN 1 ELSE 0)
    /\ dotdot = read
    /\ out = [buf |-> NoBuf, w |-> read]
    /\ norm = <<>> /\ search = "normpath"
    /\ dirs = <<>> /\ exts = <<>> /\ tried = <<>> /\ found = FALSE

searching == <<norm, search, dirs, exts, tried, found>>

Is(i, c) == i <= Len(path) /\ path[i] = c

Ends(i) == i <= Len(path) => path[i] = "/"

AtDot == Is(read + 1, ".") /\ Ends(read + 2)

AtDotDot == Is(read + 1, ".") /\ Is(read + 2, ".") /\ Ends(read + 3)

Reading == search = "normpath" /\ read < Len(path) /\ UNCHANGED <<path, searching>>

(* A slash, or an element "." *)
Skip ==
    /\ Reading /\ (Is(read + 1, "/") \/ AtDot)
    /\ read' = read + 1
    /\ UNCHANGED <<out, dotdot>>

(* Mutant: past dotdot, up to the beginning. *)
BacktrackAll(o) ==
    CHOOSE k \in 0..(o.w - 1) :
        /\ k = 0 \/ View(o)[k + 1] = "/"
        /\ \A m \in (k + 1)..(o.w - 1) : View(o)[m + 1] # "/"

(* Back to the last slash, but not past dotdot. *)
Backtrack(o) ==
    CHOOSE k \in dotdot..(o.w - 1) :
        /\ k = dotdot \/ View(o)[k + 1] = "/"
        /\ \A m \in (k + 1)..(o.w - 1) : View(o)[m + 1] # "/"

(* Mutant: a ".." that is kept can be taken back. *)
ParentUnmarked ==
    /\ Reading /\ AtDotDot
    /\ read' = read + 2
    /\ IF out.w > dotdot
       THEN out' = [out EXCEPT !.w = Backtrack(out)]
       ELSE IF Rooted THEN UNCHANGED out
       ELSE out' = AppendAll(out, IF out.w > 0 THEN <<"/", ".", ".">> ELSE <<".", ".">>)
    /\ UNCHANGED dotdot

Parent ==
    /\ Reading /\ AtDotDot
    /\ read' = read + 2
    /\ IF out.w > dotdot
       THEN out' = [out EXCEPT !.w = Backtrack(out)] /\ UNCHANGED dotdot
       ELSE IF Rooted THEN UNCHANGED <<out, dotdot>>
       ELSE /\ out' = AppendAll(out, IF out.w > 0 THEN <<"/", ".", ".">> ELSE <<".", ".">>)
            /\ dotdot' = out'.w

Element ==
    /\ Reading /\ ~Is(read + 1, "/") /\ ~AtDot /\ ~AtDotDot
    /\ LET end == CHOOSE i \in (read + 1)..Len(path) :
                      Ends(i + 1) /\ \A k \in (read + 1)..i : path[k] # "/"
           slash == IF out.w # (IF Rooted THEN 1 ELSE 0) THEN <<"/">> ELSE <<>>
       IN /\ out' = AppendAll(out, slash \o SubSeq(path, read + 1, end))
          /\ read' = end
    /\ UNCHANGED dotdot

(* Only absolute paths are searched for. *)
Done ==
    /\ search = "normpath" /\ read = Len(path)
    /\ norm' = IF out.w = 0 THEN <<".">> ELSE View(out)
    /\ search' = IF Rooted THEN "first" ELSE "stopped"
    /\ UNCHANGED <<path, read, out, dotdot, dirs, exts, tried, found>>

----------------------------------------------------------------------------
(* possible_do_files() *)

Close(x) == IF x.part = <<>> THEN x.done ELSE Append(x.done, x.part)

(* What the first symbols of a string consist of: elements, and the beginning of one. *)
Split(s) ==
    LET upto[i \in 0..Len(s)] ==
          IF i = 0 THEN [done |-> <<>>, part |-> <<>>]
          ELSE IF s[i] = "/" THEN [done |-> Close(upto[i - 1]), part |-> <<>>]
          ELSE [upto[i - 1] EXCEPT !.part = Append(@, s[i])]
    IN upto

(* The elements of a path that are not empty. *)
ElementsOf(s) == Close(Split(s)[Len(s)])

FileName == Last(ElementsOf(norm))

DirName == Front(ElementsOf(norm))

(* Mutant: the root directory is left out. *)
PathSplitsShort(d) ==
    [n \in 1..Len(d) |-> [base |-> SubSeq(d, 1, Len(d) + 1 - n),
                          sub |-> SubSeq(d, Len(d) + 2 - n, Len(d))]]

(* Every directory above the target, with the way from there to the target. *)
PathSplits(d) ==
    [n \in 1..(Len(d) + 1) |-> [base |-> SubSeq(d, 1, Len(d) + 1 - n),
                                sub |-> SubSeq(d, Len(d) + 2 - n, Len(d))]]

(* Where the dots are. *)
Dots(name) ==
    LET upto[i \in 0..Len(name)] ==
          IF i = 0 THEN <<>>
          ELSE IF name[i] = "." THEN Append(upto[i - 1], i) ELSE upto[i - 1]
    IN upto[Len(name)]

(* Mutant: default.do comes first. *)
DefaultDoFilesBackwards(name) == Reverse(Append(Dots(name), Len(name) + 1))

(* default.x.y.do for a file named *.x.y, then default.y.do, then default.do *)
DefaultDoFiles(name) == Append(Dots(name), Len(name) + 1)

(* Mutant: the way back to the target is forgotten. *)
DefaultHere(bit, name, i) ==
    [dir |-> bit.base, own |-> FALSE, sub |-> <<>>,
     base |-> SubSeq(name, 1, i - 1), ext |-> SubSeq(name, i, Len(name))]

(* <name>.do *)
Own(dir, name) == [dir |-> dir, own |-> TRUE, sub |-> <<>>, base |-> name, ext |-> <<>>]

Default(bit, name, i) ==
    [dir |-> bit.base, own |-> FALSE, sub |-> bit.sub,
     base |-> SubSeq(name, 1, i - 1), ext |-> SubSeq(name, i, Len(name))]

(* find_do_file() asks whether the file exists, and stops if it does. *)
Try(dofile) ==
    /\ tried' = Append(tried, dofile)
    /\ found' \in BOOLEAN

NoName == search = "first" /\ ElementsOf(norm) = <<>>

(* The path / has no file name to unwrap(). *)
Panic ==
    /\ NoName
    /\ search' = "panic"
    /\ UNCHANGED <<path, read, out, dotdot, norm, dirs, exts, tried, found>>

First ==
    /\ search = "first" /\ ~NoName
    /\ Try(Own(DirName, FileName))
    /\ dirs' = PathSplits(DirName)
    /\ exts' = DefaultDoFiles(FileName)
    /\ search' = IF found' THEN "stopped" ELSE "recursive"
    /\ UNCHANGED <<path, read, out, dotdot, norm>>

(* One call of next(): a directory without rules left is popped. *)
Recursive ==
    /\ search = "recursive"
    /\ LET ds == IF exts = <<>> THEN Tail(dirs) ELSE dirs
           es == IF exts = <<>> THEN DefaultDoFiles(FileName) ELSE exts
       IN /\ dirs' = ds
          /\ IF ds = <<>>
             THEN search' = "stopped" /\ UNCHANGED <<exts, tried, found>>
             ELSE /\ Try(Default(Head(ds), FileName, Head(es)))
                  /\ exts' = Tail(es)
                  /\ search' = IF found' THEN "stopped" ELSE "recursive"
    /\ UNCHANGED <<path, read, out, dotdot, norm>>

(* Mutant: the two paths are confused. *)
RelpathSwapped(t, base) ==
    LET common == {n \in 0..Len(t) : n <= Len(base) /\ SubSeq(t, 1, n) = SubSeq(base, 1, n)}
        n == CHOOSE n \in common : \A m \in common : m <= n
    IN [i \in 1..(Len(t) - n) |-> <<".", ".">>] \o SubSeq(base, n + 1, Len(base))

(* What relpath() prints for a file under the current directory.           *)
Relpath(t, base) ==
    LET common == {n \in 0..Len(t) : n <= Len(base) /\ SubSeq(t, 1, n) = SubSeq(base, 1, n)}
        n == CHOOSE n \in common : \A m \in common : m <= n
    IN [i \in 1..(Len(base) - n) |-> <<".", ".">>] \o SubSeq(t, n + 1, Len(t))

Next == Skip \/ Parent \/ Element \/ Done \/ Panic \/ First \/ Recursive

Spec == Init /\ [][Next]_vars

----------------------------------------------------------------------------
(* Properties *)

Names == Seq(Symbols) \ {<<>>}

DoFiles == [dir : Seq(Names), own : BOOLEAN, sub : Seq(Names), base : Seq(Symbols), ext : Seq(Symbols)]

TypeOK ==
    /\ path \in PathStrings /\ read \in 0..Len(path)
    /\ out \in [buf : Seq(Symbols) \cup {NoBuf}, w : 0..read] /\ dotdot \in 0..out.w
    /\ out.buf # NoBuf => out.w <= Len(out.buf)
    /\ norm \in Seq(Symbols)
    /\ search \in {"normpath", "first", "recursive", "stopped", "panic"}
    /\ dirs \in Seq([base : Seq(Names), sub : Seq(Names)]) /\ exts \in Seq(Nat)
    /\ tried \in Seq(DoFiles) /\ found \in BOOLEAN

(* Where a path leads, in a file system without symbolic links: how far up *)
(* from where one stands, and then down.                                   *)
Step(place, e) ==
    IF e = <<".">> THEN place
    ELSE IF e # <<".", ".">> THEN [place EXCEPT !.down = Append(@, e)]
    ELSE IF place.down # <<>> THEN [place EXCEPT !.down = Front(@)]
    ELSE IF place.rooted THEN place ELSE [place EXCEPT !.up = @ + 1]

Walk(place, elements) ==
    LET upto[i \in 0..Len(elements)] ==
          IF i = 0 THEN place ELSE Step(upto[i - 1], elements[i])
    IN upto[Len(elements)]

From(rooted) == [rooted |-> rooted, up |-> 0, down |-> <<>>]

Place(s) == Walk(From(s # <<>> /\ s[1] = "/"), ElementsOf(s))

Normal(s) ==
    LET es == ElementsOf(s)
    IN /\ s = <<".">> \/ \A i \in DOMAIN es : es[i] # <<".">>
       /\ \A i \in DOMAIN es : es[i] = <<".", ".">> =>
             s[1] # "/" /\ \A k \in 1..i : es[k] = <<".", ".">>
       /\ \A i \in 2..Len(s) : s[i] = "/" => s[i - 1] # "/" /\ i < Len(s)

(* normpath() finds a normal path, and it leads where the path led. *)
NormPathOK == search # "normpath" => Normal(norm) /\ Place(norm) = Place(path)

(* All .do files of a directory come before those of its parent, and the   *)
(* one with the longer extension before the others.                        *)
NearestFirst ==
    \A j \in DOMAIN tried : \A i \in 1..(j - 1) :
        \/ Len(tried[i].dir) > Len(tried[j].dir)
        \/ /\ tried[i].dir = tried[j].dir
           /\ tried[i].own \/ Len(tried[i].ext) > Len(tried[j].ext)
           /\ ~tried[j].own

(* Every rule is asked to build the target that was asked for. *)
SameTarget ==
    \A i \in DOMAIN tried :
        tried[i].dir \o tried[i].sub \o <<tried[i].base \o tried[i].ext>> = ElementsOf(norm)

(* A search only stops without a rule when it has tried its own .do file,  *)
(* and every extension in every directory.                                 *)
NothingLeftOut ==
    search = "stopped" /\ Rooted /\ ~found =>
        LET n == Len(DirName)
            dots == Cardinality({i \in DOMAIN FileName : FileName[i] = "."})
        IN /\ {tried[i].dir : i \in DOMAIN tried} = {SubSeq(DirName, 1, k) : k \in 0..n}
           /\ Len(tried) = 1 + (n + 1) * (dots + 1)

(* What redo-whichdo prints leads from the current directory to the .do file. *)
LeadsThere ==
    tried # <<>> =>
        \A cwd \in Cwds :
            Walk([rooted |-> TRUE, up |-> 0, down |-> cwd], Relpath(Last(tried).dir, cwd)).down
              = Last(tried).dir

----------------------------------------------------------------------------
(* The inductive invariant of module PathsProofs: normpath(), ... *)

Base(rooted) == IF rooted THEN 1 ELSE 0

Prefix(s, n) == SubSeq(s, 1, n)

Plain(e) == e \notin {<<".">>, <<".", ".">>}

(* The output v is normal, but for the "." that stands for nothing at all. *)
Slashes(rooted, v, d) ==
    /\ rooted => d = 1 /\ v[1] = "/"
    /\ \A i \in (Base(rooted) + 1)..Len(v) : v[i] = "/" => i < Len(v) /\ i > 1 /\ v[i - 1] # "/"
    /\ d \in (Base(rooted) + 1)..(Len(v) - 1) => v[d + 1] = "/"

NoDots(rooted, elements) ==
    \A i \in DOMAIN elements :
        /\ elements[i] # <<".">>
        /\ elements[i] = <<".", ".">> => ~rooted /\ \A k \in 1..i : elements[k] = <<".", ".">>

(* Up to dotdot (here d) it only leads up, ... *)
Rises(rooted, v, d) ==
    LET ups == ElementsOf(Prefix(v, d))
    IN Walk(From(rooted), ups).down = <<>> /\ \A i \in DOMAIN ups : ups[i] = <<".", ".">>

(* ... and from there it only leads down. *)
Falls(v, d) ==
    \A i \in (d + 1)..Len(v) :
        v[i] # "/" /\ (i = Len(v) \/ v[i + 1] = "/") => Plain(Split(v)[i].part)

Shape(rooted, v, d) ==
    /\ d \in Base(rooted)..Len(v)
    /\ Slashes(rooted, v, d) /\ NoDots(rooted, ElementsOf(v)) /\ Rises(rooted, v, d) /\ Falls(v, d)

(* The output is never ahead of the input, and one symbol behind it when a  *)
(* new element begins: the slash before it has been read already.          *)
Behind ==
    /\ ~Ends(read + 1) => out.w < read \/ out.w = Base(Rooted)
    /\ read = 0 \/ path[read] = "/" \/ Ends(read + 1)

(* The output leads to where the input has led so far. *)
SamePlace ==
    Walk(From(Rooted), ElementsOf(View(out))) = Walk(From(Rooted), ElementsOf(Prefix(path, read)))

NormInv ==
    /\ Shape(Rooted, View(out), dotdot) /\ Behind /\ SamePlace
    /\ search # "normpath" =>
          read = Len(path) /\ norm = IF out.w = 0 THEN <<".">> ELSE View(out)

(* ... and the search: it has come to rule k of directory m. *)
Passed(m, k, a, b) == a < m \/ (a = m /\ b < k)

Reached(m, k) ==
    LET bits == PathSplits(DirName)
        rules == DefaultDoFiles(FileName)
    IN /\ dirs = SubSeq(bits, m, Len(bits)) /\ exts = SubSeq(rules, k, Len(rules))
       /\ m <= Len(bits) \/ k > Len(rules)
       /\ search = "recursive" => m <= Len(bits)
       /\ search = "stopped" /\ ~found => m > Len(bits)
       /\ Len(tried) = 1 + (m - 1) * Len(rules) + (IF m <= Len(bits) THEN k - 1 ELSE 0)
       /\ tried[1] = Own(DirName, FileName)
       /\ \A j \in 2..Len(tried) : \E a \in DOMAIN bits, b \in DOMAIN rules :
             Passed(m, k, a, b) /\ tried[j] = Default(bits[a], FileName, rules[b])
       /\ \A a \in DOMAIN bits :
             Passed(m, k, a, 1) => \E j \in DOMAIN tried : tried[j].dir = bits[a].base

SearchInv ==
    /\ search \in {"normpath", "first", "panic"} => tried = <<>>
    /\ search \in {"first", "recursive", "panic"} => Rooted
    /\ search \in {"recursive", "stopped"} =>
          IF Rooted
          THEN ~(ElementsOf(norm) = <<>>)
               /\ \E m \in 1..(Len(DirName) + 2), k \in 1..(Len(DefaultDoFiles(FileName)) + 1) :
                     Reached(m, k)
          ELSE tried = <<>>

(* What it takes to show that paths of every length are made normal and     *)
(* searched for as they should be.                                          *)
PathsInv == TypeOK /\ NormInv /\ NearestFirst /\ SearchInv
=============================================================================
