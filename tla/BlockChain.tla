----------------------------- MODULE BlockChain -----------------------------
(***************************************************************************)
(* How a node accepts blocks and switches its best chain (src/main.cpp),   *)
(* on top of two databases: the transaction index (src/txdb-leveldb.cpp),  *)
(* written in transactions, and the peg database                           *)
(* (src/peg/pegdb-leveldb.cpp), written directly.                          *)
(*                                                                         *)
(* ProcessBlock runs under cs_main: while `pc' is not "idle" no other      *)
(* block is taken.  Its steps are separate actions because the process may *)
(* die between any two of them; Restart is what LoadBlockIndex then finds. *)
(*                                                                         *)
(* A block is a model value of the tree the constants describe.  Its       *)
(* transactions are reduced to the output its coinstake spends and the     *)
(* outputs it creates.                                                     *)
(***************************************************************************)
EXTENDS Integers, Sequences, FiniteSets

CONSTANTS
  Blocks, Genesis,    \* the blocks peers may send, and the first one
  Null,               \* a null CBlockIndex pointer
  Prev,               \* hashPrevBlock
  Chain,              \* the blocks from Genesis to a block
  nHeight,            \* height of a block
  nChainTrust,        \* total trust of the chain that ends in a block
  Outs,               \* output numbers of a block's transactions
  Prevout,            \* the output staked, NoStake for proof of work
  NoStake,
  StakeTime,          \* time of the coinstake; (Prevout, StakeTime) is its proof
  Invalid,            \* blocks ConnectBlock refuses for what they contain
  TrustedStaked,      \* blocks whose coinstake has several inputs, the first a trusted staker's
  MaxReorg,           \* Params().MaxReorganizationDepth()
  TrustDepth,         \* the 20 blocks of AddToBlockIndex
  MinConfirmations,   \* Params().MinStakeConfirmations()
  MaxOrphans,         \* -maxorphanblocks
  PegStartHeight,     \* first height with fractions
  PruneInterval,      \* PEG_PRUNE_INTERVAL
  MaxCrashes          \* bound: restarts explored

Outputs == Blocks \X Outs

ASSUME TreeAssumption ==
  /\ Genesis \in Blocks /\ Null \notin Blocks
  /\ Prev \in [Blocks -> Blocks \union {Null}]
  /\ Chain \in [Blocks -> SUBSET Blocks]
  /\ nHeight \in [Blocks -> Nat]
  /\ nChainTrust \in [Blocks -> Nat]
  /\ Prev[Genesis] = Null /\ Chain[Genesis] = {Genesis} /\ nHeight[Genesis] = 0
  /\ \A b \in Blocks \ {Genesis} :
       /\ Prev[b] \in Blocks
       /\ Chain[b] = Chain[Prev[b]] \union {b}
       /\ nHeight[b] = nHeight[Prev[b]] + 1
       /\ nChainTrust[b] > nChainTrust[Prev[b]]

\* A chain is a path: its blocks are ordered alike by height, by trust and by
\* being ancestors of each other.
ASSUME PathAssumption ==
  \A b \in Blocks : \A a, c \in Chain[b] :
    /\ Chain[a] \subseteq Chain[b]
    /\ nHeight[a] <= nHeight[c] <=> a \in Chain[c]
    /\ nHeight[a] <= nHeight[c] => nChainTrust[a] <= nChainTrust[c]
    /\ nHeight[a] = nHeight[c] => a = c

ASSUME StakeAssumption ==
  /\ NoStake \notin Outputs
  /\ Prevout \in [Blocks -> Outputs \union {NoStake}]
  /\ Prevout[Genesis] = NoStake
  /\ StakeTime \in [Blocks -> Nat]
  /\ Invalid \subseteq Blocks
  /\ TrustedStaked \subseteq Blocks

ASSUME LimitsAssumption ==
  /\ MaxReorg \in Nat /\ TrustDepth \in Nat /\ MinConfirmations \in Nat
  /\ MaxOrphans \in Nat /\ PegStartHeight \in Nat \ {0}
  /\ PruneInterval \in Nat /\ MaxCrashes \in Nat

VARIABLES
  \* memory
  mapBlockIndex,       \* blocks with an index entry
  setStakeSeen,        \* proofs of stake of indexed blocks
  pindexBest,          \* the best block (hashBestChain, nBestHeight, ...)
  pNext,               \* CBlockIndex::pNext
  fMainChainNoReorg,   \* blocks marked as beyond reorganisation
  mapOrphanBlocks,     \* blocks held until their predecessor arrives
  setStakeSeenOrphan,  \* proofs of stake of orphans
  pc,                  \* "idle", "txn": SetBestChain, "orphans": the work queue loop
  vWorkQueue,          \* accepted blocks whose orphan children are still to do
  txn,                 \* the switch of best chain under way
  \* disk
  txdb,                \* block index, best block, next pointers, transactions, spent outputs
  fractions,           \* pegdb: outputs that have fractions
  crashes

memory == <<mapBlockIndex, setStakeSeen, pindexBest, pNext, fMainChainNoReorg,
            mapOrphanBlocks, setStakeSeenOrphan, pc, vWorkQueue, txn>>
vars == <<memory, txdb, fractions, crashes>>

---------------------------------------------------------------------------
(* The block tree *)

IsProofOfStake(b) == Prevout[b] # NoStake
GetProofOfStake(b) == <<Prevout[b], StakeTime[b]>>
ProofsOfStake(S) == {GetProofOfStake(b) : b \in {s \in S : IsProofOfStake(s)}}

OutputsOf(b) == {b} \X Outs
SpentIn(S) == {Prevout[b] : b \in {s \in S : IsProofOfStake(s)}}

HasOrphanChild(b) == \E o \in mapOrphanBlocks : Prev[o] = b

\* CBlockIndex::IsInMainChain
IsInMainChain(b) ==
  b \in fMainChainNoReorg \/ pNext[b] # Null \/ b = pindexBest

\* Mutant: blocks that left the chain keep their next pointers.
LinkedOnly(next, D, C) ==
  [p \in Blocks |-> IF \E c \in C : Prev[c] = p THEN CHOOSE c \in C : Prev[c] = p ELSE next[p]]

\* The next pointers once the blocks of D left the chain and those of C joined it
Relinked(next, D, C) ==
  [p \in Blocks |-> IF \E c \in C : Prev[c] = p THEN CHOOSE c \in C : Prev[c] = p
                    ELSE IF \E d \in D : Prev[d] = p THEN Null
                    ELSE next[p]]

Idle == [pindexNew |-> Null, target |-> Null, postponed |-> {}, first |-> TRUE,
         vDisconnect |-> {}, vConnect |-> {}, todo |-> {},
         tx |-> {}, spent |-> {}, next |-> [b \in Blocks |-> Null]]

---------------------------------------------------------------------------
(* ConnectBlock and DisconnectBlock: the open transaction t of the txdb sees *)
(* its own writes; the pegdb is written at once.                             *)

\* Outputs made since the peg started must have their fractions.
FractionsFound(o) == nHeight[o[1]] >= PegStartHeight => o \in fractions

\* The transaction of the staked output is in the index, with its fractions;
\* the output is not spent yet.
FetchInputs(t, o) == o[1] \in t.tx /\ FractionsFound(o)
ConnectInputs(t, o) == o \notin t.spent

CanConnect(t, b) ==
  /\ b \notin Invalid
  /\ b \in t.tx => OutputsOf(b) \subseteq t.spent        \* no overwriting of transactions
  /\ IsProofOfStake(b) => FetchInputs(t, Prevout[b]) /\ ConnectInputs(t, Prevout[b])

\* Mutant: a block without a stake is taken to spend something, too.
NullSpendConnectBlock(t, b) ==
  [t EXCEPT !.tx = @ \union {b},
            !.spent = (@ \ OutputsOf(b)) \union {Prevout[b]},
            !.next = [@ EXCEPT ![b] = pNext[b], ![Prev[b]] = b],
            !.todo = @ \ {b}]

ConnectBlock(t, b) ==
  [t EXCEPT !.tx = @ \union {b},
            !.spent = (@ \ OutputsOf(b)) \union SpentIn({b}),
            !.next = [@ EXCEPT ![b] = pNext[b], ![Prev[b]] = b],
            !.todo = @ \ {b}]

\* Mutant: pruning starts one block early.
EarlyPruned(b) ==
  SpentIn({p \in Chain[b] : /\ nHeight[p] = nHeight[b] - PruneInterval + 1
                            /\ nHeight[p] > 0 /\ nHeight[p] >= PegStartHeight})

\* PrunePegForBlock of the block PruneInterval below b
Pruned(b) ==
  SpentIn({p \in Chain[b] : /\ nHeight[p] = nHeight[b] - PruneInterval
                            /\ nHeight[p] > 0 /\ nHeight[p] >= PegStartHeight})

ConnectFractions(b) ==
  (fractions \union IF nHeight[b] >= PegStartHeight THEN OutputsOf(b) ELSE {}) \ Pruned(b)

CanDisconnect(t, b) == IsProofOfStake(b) => Prevout[b][1] \in t.tx

\* Mutants: the transactions stay in the index; the staked output stays spent.
IndexedDisconnectBlock(t, b) ==
  [t EXCEPT !.spent = @ \ (SpentIn({b}) \union OutputsOf(b)),
            !.next = [@ EXCEPT ![Prev[b]] = Null],
            !.todo = @ \ {b}]

StuckDisconnectBlock(t, b) ==
  [t EXCEPT !.tx = @ \ {b},
            !.spent = @ \ OutputsOf(b),
            !.next = [@ EXCEPT ![Prev[b]] = Null],
            !.todo = @ \ {b}]

DisconnectBlock(t, b) ==
  [t EXCEPT !.tx = @ \ {b},
            !.spent = @ \ (SpentIn({b}) \union OutputsOf(b)),
            !.next = [@ EXCEPT ![Prev[b]] = Null],
            !.todo = @ \ {b}]

---------------------------------------------------------------------------
(* Which blocks are taken *)

\* The checks of AcceptBlock; CheckProofOfStake reads the staked output from
\* the transaction index of the current best chain.
CheckProofOfStake(b) ==
  IsProofOfStake(b) =>
    LET from == Prevout[b][1]
    IN  /\ from \in txdb.tx
        /\ ~(/\ from \in Chain[Prev[b]]
             /\ nHeight[Prev[b]] - nHeight[from] < MinConfirmations - 1)

\* Mutant: a block is accepted before its predecessor.
UnrootedAcceptBlockChecks(b) ==
  /\ b \notin mapBlockIndex
  /\ nHeight[pindexBest] - nHeight[b] < MaxReorg
  /\ CheckProofOfStake(b)

AcceptBlockChecks(b) ==
  /\ b \notin mapBlockIndex
  /\ Prev[b] \in mapBlockIndex
  /\ nHeight[pindexBest] - nHeight[b] < MaxReorg
  /\ CheckProofOfStake(b)

\* Mutant: a stake already seen is refused whoever waits for the block.
StrictNewToProcess(b) ==
  /\ b \notin mapBlockIndex
  /\ b \notin mapOrphanBlocks
  /\ ~(IsProofOfStake(b) /\ GetProofOfStake(b) \in setStakeSeen)

\* ProcessBlock: neither known nor a second block with a stake already seen,
\* unless an orphan waits for it.
NewToProcess(b) ==
  /\ b \notin mapBlockIndex
  /\ b \notin mapOrphanBlocks
  /\ IsProofOfStake(b) /\ GetProofOfStake(b) \in setStakeSeen => HasOrphanChild(b)

---------------------------------------------------------------------------
(* Becoming the best chain *)

\* Mutants: ties win; the longer chain wins.
TieBetterChainTrust(b) == nChainTrust[b] >= nChainTrust[pindexBest]
LongerChain(b) == nHeight[b] > nHeight[pindexBest]

BetterChainTrust(b) == nChainTrust[b] > nChainTrust[pindexBest]

\* Mutant: the fork may be one block shorter.
ShortBetterStakerTrust(b) ==
  LET forked == Chain[b] \ Chain[pindexBest]
  IN  /\ Cardinality(forked) >= TrustDepth
      /\ \E s \in forked \intersect TrustedStaked :
           IsProofOfStake(s) /\ Prevout[s][1] \in txdb.tx

\* A longer fork wins over more trust if one of its stakes, found in the
\* transaction index, belongs to a trusted staker.
BetterStakerTrust(b) ==
  LET forked == Chain[b] \ Chain[pindexBest]
  IN  /\ Cardinality(forked) > TrustDepth
      /\ \E s \in forked \intersect TrustedStaked :
           IsProofOfStake(s) /\ Prevout[s][1] \in txdb.tx

\* txdb.TxnBegin: the transaction starts from what is on disk.
Begin(db, new, target, postponed, D, C, first) ==
  [pindexNew |-> new, target |-> target, postponed |-> postponed, first |-> first,
   vDisconnect |-> D, vConnect |-> C, todo |-> D \union C,
   tx |-> db.tx, spent |-> db.spent, next |-> db.next]

Lowest(S) == CHOOSE s \in S : \A o \in S : nHeight[s] <= nHeight[o]

\* SetBestChain: extend the best chain, or reorganise up to the first block
\* that has more trust than it and postpone the connection of the others.
SetBestChain(db, b) ==
  IF Prev[b] = pindexBest THEN Begin(db, b, b, {}, {}, {b}, TRUE)
  ELSE LET postponed == {s \in Chain[b] \ {Genesis} : nChainTrust[Prev[s]] > nChainTrust[pindexBest]}
           pindexIntermediate == IF postponed = {} THEN b ELSE Prev[Lowest(postponed)]
       IN  Begin(db, b, pindexIntermediate, postponed,
                 Chain[pindexBest] \ Chain[pindexIntermediate],
                 Chain[pindexIntermediate] \ Chain[pindexBest], TRUE)

\* Mutant: the mark is set above the reorganisation depth.
ShallowAccepted(b) ==
  /\ fMainChainNoReorg' = fMainChainNoReorg \union
       {a \in Chain[b] : nHeight[a] = nHeight[b] - MaxReorg + 1}
  /\ vWorkQueue' = Append(vWorkQueue, b)
  /\ pc' = "orphans"
  /\ txn' = Idle

\* What AcceptBlock does last and how ProcessBlock goes on: an accepted block
\* marks its ancestor below the reorganisation depth and enters the work queue.
Accepted(b) ==
  /\ fMainChainNoReorg' = fMainChainNoReorg \union
       {a \in Chain[b] : nHeight[a] = nHeight[b] - MaxReorg - 1}
  /\ vWorkQueue' = Append(vWorkQueue, b)
  /\ pc' = "orphans"
  /\ txn' = Idle

Refused ==
  /\ pc' = IF vWorkQueue = <<>> THEN "idle" ELSE "orphans"
  /\ txn' = Idle
  /\ UNCHANGED <<fMainChainNoReorg, vWorkQueue>>

\* AddToBlockIndex: the index entry is committed before the chain is switched.
AddToBlockIndex(b) ==
  LET db == [txdb EXCEPT !.index = @ \union {b}, !.next[b] = Null]
  IN  /\ mapBlockIndex' = mapBlockIndex \union {b}
      /\ setStakeSeen' = setStakeSeen \union ProofsOfStake({b})
      /\ pNext' = [pNext EXCEPT ![b] = Null]
      /\ txdb' = db
      /\ IF BetterChainTrust(b) \/ BetterStakerTrust(b)
         THEN /\ txn' = SetBestChain(db, b)
              /\ pc' = "txn"
              /\ UNCHANGED <<fMainChainNoReorg, vWorkQueue>>
         ELSE Accepted(b)
      /\ UNCHANGED <<pindexBest, fractions, crashes>>

---------------------------------------------------------------------------
(* Actions *)

Init ==
  /\ mapBlockIndex = {Genesis}
  /\ setStakeSeen = {}
  /\ pindexBest = Genesis
  /\ pNext = [b \in Blocks |-> Null]
  /\ fMainChainNoReorg = {}
  /\ mapOrphanBlocks = {}
  /\ setStakeSeenOrphan = {}
  /\ pc = "idle"
  /\ vWorkQueue = <<>>
  /\ txn = Idle
  /\ txdb = [index |-> {Genesis}, best |-> Genesis, next |-> [b \in Blocks |-> Null],
             tx |-> {Genesis}, spent |-> {}]
  /\ fractions = {}
  /\ crashes = 0

\* ProcessBlock of a block whose predecessor is known
ProcessBlock(b) ==
  /\ pc = "idle"
  /\ NewToProcess(b)
  /\ AcceptBlockChecks(b)
  /\ AddToBlockIndex(b)
  /\ UNCHANGED <<mapOrphanBlocks, setStakeSeenOrphan>>

\* PruneOrphanBlocks: over the limit, an orphan nobody depends on goes; its
\* proof of stake is forgotten even if another orphan carries the same one.
PruneOrphanBlocks ==
  IF Cardinality(mapOrphanBlocks) <= MaxOrphans THEN {{}}
  ELSE {{o} : o \in {p \in mapOrphanBlocks : ~HasOrphanChild(p)}}

\* ProcessBlock of a block from a peer whose predecessor is missing
StoreOrphan(b) ==
  /\ pc = "idle"
  /\ NewToProcess(b)
  /\ Prev[b] \notin mapBlockIndex
  /\ IsProofOfStake(b) /\ GetProofOfStake(b) \in setStakeSeenOrphan => HasOrphanChild(b)
  /\ \E pruned \in PruneOrphanBlocks :
       /\ mapOrphanBlocks' = (mapOrphanBlocks \ pruned) \union {b}
       /\ setStakeSeenOrphan' = (setStakeSeenOrphan \ ProofsOfStake(pruned)) \union ProofsOfStake({b})
  /\ UNCHANGED <<mapBlockIndex, setStakeSeen, pindexBest, pNext, fMainChainNoReorg,
                 pc, vWorkQueue, txn, txdb, fractions, crashes>>

\* ProcessBlock's work queue: an orphan whose predecessor was just accepted is
\* accepted or dropped.
ProcessOrphan(o) ==
  /\ pc = "orphans"
  /\ o \in mapOrphanBlocks
  /\ Prev[o] = Head(vWorkQueue)
  /\ mapOrphanBlocks' = mapOrphanBlocks \ {o}
  /\ setStakeSeenOrphan' = setStakeSeenOrphan \ ProofsOfStake({o})
  /\ IF AcceptBlockChecks(o) THEN AddToBlockIndex(o)
     ELSE UNCHANGED <<mapBlockIndex, setStakeSeen, pindexBest, pNext, fMainChainNoReorg,
                      pc, vWorkQueue, txn, txdb, fractions, crashes>>

\* Mutant: only the orphans of the block itself are looked at, not theirs.
ShortNextInQueue ==
  /\ pc = "orphans"
  /\ ~HasOrphanChild(Head(vWorkQueue))
  /\ vWorkQueue' = <<>>
  /\ pc' = "idle"
  /\ UNCHANGED <<mapBlockIndex, setStakeSeen, pindexBest, pNext, fMainChainNoReorg,
                 mapOrphanBlocks, setStakeSeenOrphan, txn, txdb, fractions, crashes>>

NextInQueue ==
  /\ pc = "orphans"
  /\ ~HasOrphanChild(Head(vWorkQueue))
  /\ vWorkQueue' = Tail(vWorkQueue)
  /\ pc' = IF vWorkQueue' = <<>> THEN "idle" ELSE "orphans"
  /\ UNCHANGED <<mapBlockIndex, setStakeSeen, pindexBest, pNext, fMainChainNoReorg,
                 mapOrphanBlocks, setStakeSeenOrphan, txn, txdb, fractions, crashes>>

\* The block the transaction handles next: the highest still to disconnect,
\* then the lowest still to connect.
Disconnecting(b) ==
  /\ b \in txn.todo \intersect txn.vDisconnect
  /\ \A o \in txn.todo \intersect txn.vDisconnect : nHeight[o] <= nHeight[b]

Connecting(b) ==
  /\ txn.todo \intersect txn.vDisconnect = {}
  /\ b \in txn.todo \intersect txn.vConnect
  /\ \A o \in txn.todo \intersect txn.vConnect : nHeight[b] <= nHeight[o]

DisconnectStep(b) ==
  /\ pc = "txn"
  /\ Disconnecting(b)
  /\ CanDisconnect(txn, b)
  /\ txn' = DisconnectBlock(txn, b)
  /\ fractions' = fractions \ OutputsOf(b)
  /\ UNCHANGED <<mapBlockIndex, setStakeSeen, pindexBest, pNext, fMainChainNoReorg,
                 mapOrphanBlocks, setStakeSeenOrphan, pc, vWorkQueue, txdb, crashes>>

ConnectStep(b) ==
  /\ pc = "txn"
  /\ Connecting(b)
  /\ CanConnect(txn, b)
  /\ txn' = ConnectBlock(txn, b)
  /\ fractions' = ConnectFractions(b)
  /\ UNCHANGED <<mapBlockIndex, setStakeSeen, pindexBest, pNext, fMainChainNoReorg,
                 mapOrphanBlocks, setStakeSeenOrphan, pc, vWorkQueue, txdb, crashes>>

\* TxnCommit with the new best block, then the memory: next pointers, and the
\* next postponed block or, after the last one, the new best block.
Commit ==
  /\ pc = "txn"
  /\ txn.todo = {}
  /\ txdb' = [txdb EXCEPT !.best = txn.target, !.tx = txn.tx, !.spent = txn.spent, !.next = txn.next]
  /\ pNext' = Relinked(pNext, txn.vDisconnect, txn.vConnect)
  /\ IF txn.postponed = {}
     THEN /\ pindexBest' = txn.pindexNew
          /\ Accepted(txn.pindexNew)
     ELSE /\ \E s \in txn.postponed :
               /\ Prev[s] = txn.target
               /\ txn' = Begin(txdb', txn.pindexNew, s, txn.postponed \ {s}, {}, {s}, FALSE)
          /\ UNCHANGED <<pindexBest, fMainChainNoReorg, pc, vWorkQueue>>
  /\ UNCHANGED <<mapBlockIndex, setStakeSeen, mapOrphanBlocks, setStakeSeenOrphan,
                 fractions, crashes>>

TxnFails ==
  /\ pc = "txn"
  /\ \/ \E b \in Blocks : Disconnecting(b) /\ ~CanDisconnect(txn, b)
     \/ \E b \in Blocks : Connecting(b) /\ ~CanConnect(txn, b)

\* TxnAbort: the first transaction of SetBestChain fails, the block is refused
\* but keeps its index entry.  What was done to the pegdb stays.
Abort ==
  /\ TxnFails
  /\ txn.first
  /\ Refused
  /\ UNCHANGED <<mapBlockIndex, setStakeSeen, pindexBest, pNext, mapOrphanBlocks,
                 setStakeSeenOrphan, txdb, fractions, crashes>>

\* A postponed block does not connect: the loop ends, and the new block still
\* becomes the best block in memory.
PostponedFails ==
  /\ TxnFails
  /\ ~txn.first
  /\ pindexBest' = txn.pindexNew
  /\ Accepted(txn.pindexNew)
  /\ UNCHANGED <<mapBlockIndex, setStakeSeen, pNext, mapOrphanBlocks,
                 setStakeSeenOrphan, txdb, fractions, crashes>>

\* The process dies and starts again: LoadBlockIndex rebuilds the index from
\* the txdb and drops what is higher than the best block.
Restart ==
  LET loaded == {b \in txdb.index : nHeight[b] <= nHeight[txdb.best]}
      dropped == txdb.index \ loaded
  IN  /\ crashes < MaxCrashes
      /\ crashes' = crashes + 1
      /\ mapBlockIndex' = loaded
      /\ setStakeSeen' = ProofsOfStake(txdb.index) \ ProofsOfStake(dropped)
      /\ pindexBest' = txdb.best
      /\ pNext' = txdb.next
      /\ fMainChainNoReorg' = {a \in Chain[txdb.best] : nHeight[a] < nHeight[txdb.best] - MaxReorg}
      /\ mapOrphanBlocks' = {}
      /\ setStakeSeenOrphan' = {}
      /\ pc' = "idle"
      /\ vWorkQueue' = <<>>
      /\ txn' = Idle
      /\ UNCHANGED <<txdb, fractions>>

Receive(b) == ProcessBlock(b) \/ StoreOrphan(b)

\* The steps of ProcessBlock once it holds cs_main
Continue ==
  \/ \E b \in Blocks : ProcessOrphan(b) \/ DisconnectStep(b) \/ ConnectStep(b)
  \/ NextInQueue \/ Commit \/ Abort

Next ==
  \/ \E b \in Blocks : Receive(b)
  \/ Continue
  \/ PostponedFails
  \/ Restart

\* Every step but the failure of a postponed block
CleanNext ==
  \/ \E b \in Blocks : Receive(b)
  \/ Continue
  \/ Restart

Spec == Init /\ [][Next]_vars
CleanSpec == Init /\ [][CleanNext]_vars

\* The thread that holds cs_main goes on, and peers answer getblocks for any
\* block the node lacks until it has it.
FairSpec ==
  /\ CleanSpec
  /\ WF_vars(Continue)
  /\ \A b \in Blocks : WF_vars(Receive(b))

---------------------------------------------------------------------------
(* Properties *)

Txns == [pindexNew : Blocks \union {Null}, target : Blocks \union {Null},
         postponed : SUBSET Blocks, first : BOOLEAN,
         vDisconnect : SUBSET Blocks, vConnect : SUBSET Blocks, todo : SUBSET Blocks,
         tx : SUBSET Blocks, spent : SUBSET Outputs,
         next : [Blocks -> Blocks \union {Null}]]

TxDBs == [index : SUBSET Blocks, best : Blocks, next : [Blocks -> Blocks \union {Null}],
          tx : SUBSET Blocks, spent : SUBSET Outputs]

\* The variables of the node and of its two databases have their types; in
\* particular the best block is never a null pointer.
TypeOK ==
  /\ mapBlockIndex \subseteq Blocks
  /\ setStakeSeen \subseteq Outputs \X Nat
  /\ pindexBest \in Blocks
  /\ pNext \in [Blocks -> Blocks \union {Null}]
  /\ fMainChainNoReorg \subseteq Blocks
  /\ mapOrphanBlocks \subseteq Blocks
  /\ setStakeSeenOrphan \subseteq Outputs \X Nat
  /\ pc \in {"idle", "txn", "orphans"}
  /\ vWorkQueue \in Seq(Blocks)
  /\ txn \in Txns
  /\ txdb \in TxDBs
  /\ fractions \subseteq Outputs
  /\ crashes \in Nat

\* Every indexed block has its whole ancestry in the index, in memory and on
\* disk, and orphans are not indexed: the walks along Prev() in Reorganize,
\* CheckProofOfStake and ConnectBlock never fall off, also after the clean-up
\* of LoadBlockIndex and when blocks were refused half way.
IndexIsClosed ==
  /\ \A b \in mapBlockIndex : Chain[b] \subseteq mapBlockIndex
  /\ \A b \in txdb.index : Chain[b] \subseteq txdb.index
  /\ mapBlockIndex \subseteq txdb.index
  /\ pindexBest \in mapBlockIndex /\ txdb.best \in mapBlockIndex
  /\ mapOrphanBlocks \intersect mapBlockIndex = {}

\* The committed transaction index holds exactly the transactions of the chain
\* that ends in the committed best block, whatever transaction of SetBestChain
\* was refused or cut short.
TxIndexIsBestChain == txdb.tx = Chain[txdb.best]

\* The outputs marked as spent on disk are exactly those the blocks of the best
\* chain spend, so that a reorganisation frees what the old branch had spent
\* and nothing is spent twice.
SpentIsBestChain ==
  /\ txdb.spent = SpentIn(Chain[txdb.best])
  /\ \A a, b \in Chain[txdb.best] : IsProofOfStake(a) /\ Prevout[a] = Prevout[b] => a = b

\* Outside SetBestChain the memory agrees with the disk on the best block and
\* on the next pointers, and those are the links of the best chain.
MemoryFollowsDisk ==
  pc # "txn" =>
    /\ pindexBest = txdb.best
    /\ \A b \in mapBlockIndex :
         /\ pNext[b] = txdb.next[b]
         /\ pNext[b] # Null <=> \E c \in Chain[pindexBest] \ {Genesis} : Prev[c] = b
         /\ pNext[b] # Null => pNext[b] \in Chain[pindexBest]

\* Every output of the best chain that can still be spent has its fractions in
\* the pegdb, which FetchInputs insists on, although reorganisations erase and
\* rewrite fractions outside of any transaction and spent ones are pruned.
FractionsKept ==
  pc # "txn" =>
    \A o \in Outputs :
      /\ o[1] \in Chain[pindexBest]
      /\ o \notin SpentIn(Chain[pindexBest])
      => FractionsFound(o)

\* Between blocks no indexed chain has more trust than the best one.
HeaviestWins ==
  pc = "idle" => \A b \in mapBlockIndex : nChainTrust[b] <= nChainTrust[pindexBest]

\* Between blocks no orphan waits for a block that is already there.
OrphansWait ==
  pc = "idle" => \A o \in mapOrphanBlocks : Prev[o] \notin mapBlockIndex

\* A block is in the main chain by IsInMainChain, which wallets and the RPC
\* interface ask, only if the best chain contains it.
MainChainIsBest ==
  pc # "txn" => \A b \in mapBlockIndex : IsInMainChain(b) <=> b \in Chain[pindexBest]

\* The best chain gives way to one with no more trust only if that one runs for
\* more than TrustDepth blocks of its own and has a trusted staker's block.
TrustFallsOnlyForStakers ==
  [][ nChainTrust[pindexBest'] <= nChainTrust[pindexBest] /\ pindexBest' # pindexBest
      => \/ crashes' # crashes
         \/ /\ Cardinality(Chain[pindexBest'] \ Chain[pindexBest]) > TrustDepth
            /\ Chain[pindexBest'] \intersect (TrustedStaked \ Chain[pindexBest]) # {} ]_vars

\* Once the blocks are delivered often enough, in any order, the node settles
\* on a chain no block of the network has more trust than.
Converges ==
  <>[](\A b \in Blocks : nChainTrust[b] <= nChainTrust[pindexBest])

\* The databases as a reader of the disk sees them implement the ledger.
DiskLedger == INSTANCE Ledger WITH best <- txdb.best, ledger <- txdb.tx
ImplementsLedger == DiskLedger!Spec
=============================================================================
