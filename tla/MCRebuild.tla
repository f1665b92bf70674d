------------------------------ MODULE MCRebuild ------------------------------
(* Source trees for TLC.                                                    *)
EXTENDS Rebuild, TLC

(***************************************************************************)
(* all (without an output) needs x and y, y needs x; x looks for a file o. *)
(* x is made by default.do where x.do is missing, y only by y.do.          *)
(***************************************************************************)
TreeTargets == {"all", "x", "y"}
TreeOrder == <<ALWAYS, "all", "default.do", "x.do", "x", "s", "o", "y.do", "y">>
TreeSources == {"s", "o", "x.do", "y.do", "default.do"}
TreeRules == "all" :> <<"default.do">> @@ "x" :> <<"x.do", "default.do">> @@ "y" :> <<"y.do">>
TreeNeeds == "all" :> {"x", "y"} @@ "x" :> {"s"} @@ "y" :> {"x"}
TreeOptional == "all" :> {} @@ "x" :> {"o"} @@ "y" :> {}
NoExtra == [t \in Targets |-> {}]
TreeEditable == {"x", "x.do", "y.do", "o"} \X {1}
TreeGoals == {{"all", "y"}}
TreeRedos == {}

(* One job of a target at a time, and room for another one of y after its  *)
(* first job has been left behind.                                         *)
Single == [t \in Targets |-> t]
TreeSlots == TreeTargets \cup {"y2"}
TreeOf == [c \in TreeSlots |-> IF c = "y2" THEN "y" ELSE c]

(***************************************************************************)
(* p needs v, whose checksum only changes when s changes by two; while s   *)
(* is odd, v needs w, which has to be built in every run.                  *)
(***************************************************************************)
StampTargets == {"p", "v", "w"}
StampOrder == <<ALWAYS, "p", "default.do", "v", "s", "w">>
StampSources == {"s", "default.do"}
StampRules == [t \in StampTargets |-> <<"default.do">>]
StampNeeds == "p" :> {"v"} @@ "v" :> {"s"} @@ "w" :> {}
StampExtra == "p" :> {} @@ "v" :> {<<"s", "w">>} @@ "w" :> {}
StampEditable == {<<"s", 1>>, <<"s", 2>>, <<"v", 0>>}
StampGoals == {{"p"}}
StampRedos == {{"v"}}

(***************************************************************************)
(* The same, where v has a rule of its own, which comes and goes.           *)
(***************************************************************************)
CrashOrder == <<ALWAYS, "p", "default.do", "v.do", "v", "s", "w">>
CrashSources == StampSources \cup {"v.do"}
CrashRules == [StampRules EXCEPT !["v"] = <<"v.do", "default.do">>]
CrashEditable == StampEditable \cup {<<"v.do", 0>>}
=============================================================================
