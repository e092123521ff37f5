-------------------------------- MODULE Sums --------------------------------
(***************************************************************************)
(* Sums over finite sets.                                                  *)
(***************************************************************************)
EXTENDS Integers, FiniteSetsExt

\* The sum of g[x] for the x of S
SumOf(g, S) == MapThenSumSet(LAMBDA x : g[x], S)
=============================================================================
