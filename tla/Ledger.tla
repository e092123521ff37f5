------------------------------- MODULE Ledger -------------------------------
(***************************************************************************)
(* What the transaction database promises whoever reads it: at any moment, *)
(* also after a crash, it holds the transactions of one chain of blocks,   *)
(* whole, and the chain is only ever exchanged for one with more trust.    *)
(***************************************************************************)
EXTENDS Integers

CONSTANTS Blocks, Genesis, Chain, nChainTrust

VARIABLES
  best,     \* the block the database names as the end of the best chain
  ledger    \* the blocks whose transactions it holds

Init == best = Genesis /\ ledger = {Genesis}

Switch(b) ==
  /\ nChainTrust[b] > nChainTrust[best]
  /\ best' = b
  /\ ledger' = Chain[b]

Next == \E b \in Blocks : Switch(b)

Spec == Init /\ [][Next]_<<best, ledger>>
=============================================================================
