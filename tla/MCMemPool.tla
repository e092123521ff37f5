----------------------------- MODULE MCMemPool -----------------------------
(***************************************************************************)
(* Seven transactions: the coinbase of the first block, two that spend its *)
(* first output, one that spends the first of these, one on its own, one   *)
(* that needs the last two, and one that spends the double spend.  Three   *)
(* branches part below the last checkpoint: one mines a transaction and    *)
(* its dependent over the end of an interval, one the double spend and its *)
(* dependent in one block, one the lone transaction at the checkpoint.     *)
(***************************************************************************)
EXTENDS MemPool

MCTxs == 1..7
MCVin == << {}, {<<1, 1>>}, {<<1, 1>>}, {<<2, 1>>}, {<<1, 2>>}, {<<4, 1>>, <<5, 1>>}, {<<3, 1>>} >>
MCVout == << 2, 2, 1, 2, 1, 1, 1 >>
MCBlockOnly == {1}
\* At index 2 the lone transaction is refused, and the last one if it takes
\* coins that its parent's fractions give at index 1
MCRefused == { {<<5, 2>>}, {<<4, 1>>, <<6, 2>>} }

MCBlocks == 0..14
Parent == << 0, 1, 2, 3, 4, 0, 6, 7, 8, 9, 10, 0, 12, 13 >>
MCGenesis == 0
Path[b \in MCBlocks] == IF b = 0 THEN {0} ELSE {b} \union Path[Parent[b]]
Paths == <<>> \o [b \in 1..14 |-> Path[b]]
MCChain == [b \in MCBlocks |-> IF b = 0 THEN {0} ELSE Paths[b]]
MCTrust == [b \in MCBlocks |-> CASE b = 0 -> 1 [] b = 14 -> 8 [] OTHER -> Cardinality(Paths[b])]
MCVtx == [b \in MCBlocks |->
            CASE b = 0 -> <<1>> [] b = 3 -> <<2>> [] b = 4 -> <<4>> [] b = 8 -> <<3, 7>>
              [] b = 13 -> <<5>> [] OTHER -> <<>>]
\* Intervals of two blocks; the first branch's votes raise the index
MCNextIndex == [b \in MCBlocks |-> IF b \in {3, 4, 5} THEN 2 ELSE 1]
MCPegIndex == [b \in MCBlocks |-> IF b \in {4, 5} THEN 2 ELSE 1]
=============================================================================
