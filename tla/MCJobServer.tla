----------------------------- MODULE MCJobServer -----------------------------
(* TLC instance of JobServer: interchangeable jobs.                        *)
EXTENDS JobServer, TLC
JobSymmetry == Permutations(Job)
=============================================================================
