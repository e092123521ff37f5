---------------------------- MODULE MCBlockChain ----------------------------
(***************************************************************************)
(* Block trees for BlockChain.  Blocks are numbers, Genesis is 0, and each *)
(* tree is given by tables over the other blocks.                          *)
(***************************************************************************)
EXTENDS BlockChain

CONSTANTS Tree     \* a record: prev, work, stake, time as sequences over the blocks

MCBlocks == 0..Len(Tree.prev)
MCPrev == [b \in MCBlocks |-> IF b = 0 THEN Null ELSE Tree.prev[b]]
MCChain[b \in MCBlocks] == IF b = 0 THEN {0} ELSE MCChain[Tree.prev[b]] \union {b}
MCHeight[b \in MCBlocks] == IF b = 0 THEN 0 ELSE MCHeight[Tree.prev[b]] + 1
MCTrust[b \in MCBlocks] == IF b = 0 THEN 1 ELSE MCTrust[Tree.prev[b]] + Tree.work[b]
MCPrevout == [b \in MCBlocks |-> IF b = 0 \/ Tree.stake[b] = <<>> THEN NoStake ELSE Tree.stake[b]]
MCStakeTime == [b \in MCBlocks |-> IF b = 0 THEN 0 ELSE Tree.time[b]]

\* Two branches from block 1, 2-3-7-8 and 4-5-6, that overtake each other.  Blocks
\* 2 and 4 carry the same proof of stake.
Fork == [prev  |-> <<0, 1, 2, 1, 4, 5, 3, 7>>,
         work  |-> <<1, 1, 1, 1, 1, 1, 3, 1>>,
         stake |-> << <<>>, <<1, 1>>, <<0, 1>>, <<1, 1>>, <<0, 2>>, <<0, 1>>, <<1, 2>>, <<2, 1>> >>,
         time  |-> <<1, 2, 3, 2, 4, 5, 4, 5>>]

\* Two branches from the first block, 1-2-3-8 and 4-5-6-7, whose blocks differ in
\* trust, so that of two tips of equal height either may be the better one.
Uneven == [prev  |-> <<0, 1, 2, 0, 4, 5, 6, 3>>,
           work  |-> <<2, 2, 2, 3, 2, 1, 1, 1>>,
           stake |-> << <<>>, <<0, 1>>, <<0, 2>>, <<0, 3>>, <<0, 2>>, <<>>, <<0, 1>>, <<0, 3>> >>,
           time  |-> <<1, 2, 3, 3, 4, 5, 6, 7>>]

\* Twins 2 and 4 with the same proof of stake, each the first block of a branch
\* that stakes outputs older than the fork; the branch of 4 has the most trust.
Twins == [prev  |-> <<0, 1, 2, 1, 4, 5>>,
          work  |-> <<1, 1, 2, 1, 1, 2>>,
          stake |-> << <<>>, <<1, 1>>, <<0, 1>>, <<1, 1>>, <<0, 2>>, <<0, 1>> >>,
          time  |-> <<1, 2, 3, 2, 4, 5>>]
=============================================================================
