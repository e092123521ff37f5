------------------------- MODULE MCConsensusStates -------------------------
(***************************************************************************)
(* Peg cycles of two blocks, bridge cycles of four, the peg from height 8. *)
(* A trunk of 19 blocks registers a bridge (cycle 14) and sends coins over *)
(* it; what follows is decided on branches.                                *)
(***************************************************************************)
EXTENDS MCBlockChain, ConsensusStates

\* The tables of MCBlockChain as sequences, which TLC evaluates once
Chains == <<>> \o [b \in 1..Len(Tree.prev) |-> MCChain[b]]
Heights == <<>> \o [b \in 1..Len(Tree.prev) |-> MCHeight[b]]
Trusts == <<>> \o [b \in 1..Len(Tree.prev) |-> MCTrust[b]]
FlatChain == [b \in MCBlocks |-> IF b = 0 THEN {0} ELSE Chains[b]]
FlatHeight == [b \in MCBlocks |-> IF b = 0 THEN 0 ELSE Heights[b]]
FlatTrust == [b \in MCBlocks |-> IF b = 0 THEN 1 ELSE Trusts[b]]

Trunk(n) == [i \in 1..n |-> i - 1]
Ones(n) == [i \in 1..n |-> 1]

\* Who stakes and votes: a is a trusted staker, b one of the second list, c neither.
Proposal(scope, action, item, bridge, t1, t2, o) ==
  [scope |-> scope, action |-> action, item |-> item, bridge |-> bridge,
   votes |-> [tstakers1 |-> t1, tstakers2 |-> t2, ostakers |-> o]]

MCProposals == 1..8
MCDetail == << Proposal("bridge", "add", "br", "", 0, 0, 0),
               Proposal("consensus", "set", "timelockpass", "", 1, 0, 1),
               Proposal("timelockpass", "add", "k2", "", 0, 0, 0),
               Proposal("merkle", "add", "m", "br", 0, 0, 0),
               Proposal("merkle", "add", "n", "br", 0, 0, 0),
               Proposal("tstakers2", "remove", "b", "", 0, 0, 0),
               Proposal("merkle", "add", "pause", "br", 0, 0, 0),
               Proposal("timelockpass", "remove", "k1", "", 0, 0, 0) >>

MCConsensusInit == [t \in {"tstakers", "consensus", "bridge", "merkle", "timelockpass"} |->
                      [tstakers1 |-> 1, tstakers2 |-> IF t = "timelockpass" THEN 1 ELSE 0, ostakers |-> 1]]

Vote(p, voter) == [out |-> 1, pro |-> p, voter |-> voter, onbehalf |-> FALSE]
VoteFor(p, voter) == [out |-> 2, pro |-> p, voter |-> voter, onbehalf |-> TRUE]

\* Height 8, 9: the bridge.  14, 15: merkle m, for cycle 20.  16, 17: merkle n
\* (twice by a, and on behalf of b only), the thresholds for passes and, with
\* votes that the new ones allow, pass k2, for cycle 22.
TrunkVotes == [h \in 1..19 |->
  CASE h = 8  -> {Vote(1, "a")}
    [] h = 9  -> {Vote(1, "c"), VoteFor(6, "a")}
    [] h = 14 -> {Vote(4, "a"), VoteFor(4, "c")}
    [] h = 15 -> {VoteFor(4, "c")}
    [] h = 16 -> {Vote(2, "a"), Vote(3, "a"), Vote(5, "a")}
    [] h = 17 -> {Vote(2, "c"), Vote(3, "c"), VoteFor(2, "a"), VoteFor(5, "b")}
    [] h = 18 -> {Vote(8, "a"), Vote(7, "a")}
    [] h = 19 -> {Vote(8, "c"), VoteFor(8, "b"), Vote(7, "c"), VoteFor(7, "c")}
    [] OTHER -> {}]

\* From block 20: branches 21-22-23-28 and 24-25-26-27; block 29 is a second,
\* invalid block 20.
Shallow == [prev  |-> Trunk(20) \o <<20, 21, 22, 20, 24, 25, 26, 23, 19>>,
            work  |-> Ones(20) \o <<1, 1, 1, 1, 3, 1, 2, 3, 1>>,
            stake |-> [i \in 1..29 |-> IF i \in 8..19 THEN <<i - 8, 1>> ELSE <<>>],
            time  |-> [i \in 1..29 |-> i]]

\* From block 19: branches 20-21-22 and 23-24-25-26, each with a cycle block 20.
Boundary == [prev  |-> Trunk(19) \o <<19, 20, 21, 19, 23, 24, 25>>,
             work  |-> Ones(19) \o <<1, 1, 1, 1, 3, 1, 1>>,
             stake |-> [i \in 1..26 |-> IF i \in 8..19 THEN <<i - 8, 1>> ELSE <<>>],
             time  |-> [i \in 1..26 |-> i]]

MCVotes == [b \in MCBlocks |-> IF b \in 1..19 THEN TrunkVotes[b] ELSE {}]
MCBurns == [b \in MCBlocks |-> [br \in {"br"} |-> CASE b = 13 -> 1 [] b = 15 -> 3 [] b = 17 -> 2 [] OTHER -> 0]]
ShallowMints == [b \in MCBlocks |->
  CASE b \in {21, 26} -> {[merkle |-> "m", ntime |-> 21, amount |-> 1]}
    [] b = 23 -> {[merkle |-> "m", ntime |-> 21, amount |-> 2]}
    [] OTHER -> {}]
NoMints == [b \in MCBlocks |-> {}]
=============================================================================
