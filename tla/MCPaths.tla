------------------------------- MODULE MCPaths -------------------------------
(* Paths of up to MaxLen symbols.                                           *)
EXTENDS Paths, TLC

n1 == <<"n">>
n2 == <<"n", "n">>
SomeCwds == {<<>>, <<n1>>, <<n2>>, <<n1, n1>>, <<n1, n2>>}
=============================================================================
