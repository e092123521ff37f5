---------------------------- MODULE MCPegSupply ----------------------------
(***************************************************************************)
(* A small instance of PegSupply for TLC: intervals of two blocks, a peg   *)
(* that starts in the middle of an interval, and coins that weigh one and  *)
(* four votes.                                                             *)
(***************************************************************************)
EXTENDS PegSupply

MCStakes == {[reserve |-> 1, liquid |-> 1], [reserve |-> 0, liquid |-> 4]}
=============================================================================
