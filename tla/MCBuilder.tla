------------------------------ MODULE MCBuilder ------------------------------
(* TLC instances of Builder: small dependency graphs.                      *)
EXTENDS Builder, TLC

CONSTANTS a, b, c, d, e

Graph(A, B, C, D) ==
    [t \in Target |-> CASE t = a -> A [] t = b -> B [] t = c -> C [] t = d -> D
                     [] OTHER -> <<>>]

AB == <<a, b>>
BAD == <<b, a, d>>
DABE == <<d, a, b, e>>

\* a and b are independent.
FlatDeps == Graph(<<>>, <<>>, <<>>, <<>>)
\* a needs d and c, b needs c, and c needs d.
CrossDeps == Graph(<<d, c>>, <<c>>, <<d>>, <<>>)
\* a needs c and then d, b needs d and then c.
CrossedDeps == Graph(<<c, d>>, <<d, c>>, <<>>, <<>>)
\* a needs c and then b, c needs d.
LeavingDeps == Graph(<<c, b>>, <<>>, <<d>>, <<>>)
=============================================================================
