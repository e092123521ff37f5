--------------------------- MODULE MCPegExchange ---------------------------
(***************************************************************************)
(* Instances of PegExchange with four fractions.  Two users trade, through *)
(* two cycles and over levels that move up, down, stay, or take a fraction *)
(* in part; the second to be updated gets what the first left in the pool. *)
(***************************************************************************)
EXTENDS PegExchange, TLC

Vec(a, b, c, d) == (0 :> a) @@ (1 :> b) @@ (2 :> c) @@ (3 :> d)

TradeHoldings == {Vec(1, 1, 1, 1), Vec(0, 3, 2, 1), Vec(0, 2, 1, 0), Vec(0, 0, 3, 2), Vec(2, 0, 1, 0), Vec(0, 0, 0, 0)}
TradeShifts == {Vec(0, 0, 0, 0), Vec(1, 0, 0, -1), Vec(2, 0, -1, -1), Vec(3, -2, -1, 0), Vec(0, 2, -2, 0)}

AnyUser == Permutations(Users)
=============================================================================
