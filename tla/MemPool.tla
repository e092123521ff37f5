------------------------------- MODULE MemPool -------------------------------
(***************************************************************************)
(* The memory pool (src/txmempool.cpp) and the handlers that change it     *)
(* (src/main.cpp): a transaction received or made here, the orphans that   *)
(* waited for it, the blocks the best chain gains and loses, and the       *)
(* review of the pool when the peg supply index changes.                   *)
(*                                                                         *)
(* All of it runs under cs_main: while `pc' is not "idle" nothing else     *)
(* starts.  The loops of the handlers are steps of their own, so `db', the *)
(* chain the transaction database holds, and `pindexBest' are seen apart,  *)
(* as the code inside the loops sees them.                                 *)
(*                                                                         *)
(* The fractions of a transaction's outputs are reduced to how they were   *)
(* computed: the index used for the transaction and for each of the        *)
(* transactions its coins come from.  Two computations with the same       *)
(* history give the same fractions.                                        *)
(***************************************************************************)
EXTENDS Integers, Sequences, FiniteSets

CONSTANTS
  Txs,          \* transactions: numbers, each spends outputs of smaller ones
  Vin,          \* the outputs <<transaction, n>> a transaction spends
  Vout,         \* how many outputs it has
  BlockOnly,    \* coinbase and coinstake transactions
  Refused,      \* histories CalculateStandardFractions refuses
  Blocks, Genesis,
  Chain,        \* the blocks from Genesis to a block
  nChainTrust,  \* total trust of that chain
  Vtx,          \* the transactions of a block, in order
  PegIndex,     \* nPegSupplyIndex of a block
  NextIndex,    \* GetNextBlockPegSupplyIndex of a block
  PegInterval,  \* Params().PegInterval()
  LastCheckpoint,  \* Checkpoints::GetTotalBlocksEstimate(): its height
  MaxOrphans    \* MAX_ORPHAN_TRANSACTIONS

OutPoints == Txs \X Nat

ASSUME TxAssumption ==
  /\ Txs \subseteq Nat
  /\ Vin \in [Txs -> SUBSET OutPoints]
  /\ \A t \in Txs : \A o \in Vin[t] : o[1] < t
  /\ Vout \in [Txs -> Nat]
  /\ BlockOnly \subseteq Txs

ASSUME ChainAssumption ==
  /\ Genesis \in Blocks
  /\ Chain \in [Blocks -> SUBSET Blocks]
  /\ \A b \in Blocks :
       /\ b \in Chain[b] /\ IsFiniteSet(Chain[b])
       /\ \A a \in Chain[b] : Chain[a] \subseteq Chain[b] /\ (b \in Chain[a] => a = b)
  /\ nChainTrust \in [Blocks -> Nat]
  /\ Vtx \in [Blocks -> Seq(Txs)]
  /\ PegIndex \in [Blocks -> Nat] /\ NextIndex \in [Blocks -> Nat]

ASSUME LimitAssumption == PegInterval \in Nat \ {0} /\ LastCheckpoint \in Nat /\ MaxOrphans \in Nat

VARIABLES
  db,          \* the block whose chain the transaction database holds
  pindexBest,
  pindexNew,   \* the block SetBestChain was called for
  mapTx, mapNextTx, mapPackedFractions,      \* CTxMemPool
  mapOrphanTransactions,
  pc,          \* the loop that runs, "idle" when cs_main is free
  vWorkQueue, vTry, vErase,                  \* the loop over orphans
  vResurrect, vDelete,                       \* the loops of Reorganize
  vRoots, vStack, vRemove,                   \* the loops of reviewOnPegChange
  drifted      \* history: the pool was not reviewed since the index may have changed

chain == <<db, pindexBest, pindexNew>>
pool == <<mapTx, mapNextTx, mapPackedFractions>>
orphanLoop == <<vWorkQueue, vTry, vErase>>
reorgLoop == <<vResurrect, vDelete>>
reviewLoop == <<vRoots, vStack, vRemove>>
vars == <<chain, pool, mapOrphanTransactions, pc, orphanLoop, reorgLoop, reviewLoop, drifted>>

-----------------------------------------------------------------------------
(* The chain: what the transaction database and the peg database answer    *)

TxsOf(b) == {Vtx[b][i] : i \in DOMAIN Vtx[b]}

ChainTxs(b) == UNION {TxsOf(a) : a \in Chain[b]}

IsSpent(b, o) == \E t \in ChainTxs(b) : o \in Vin[t]

IsChild(b, p) == b \notin Chain[p] /\ Chain[b] = Chain[p] \union {b}

Height(b) == Cardinality(Chain[b]) - 1

\* A transaction and those its coins come from
Origins[t \in Txs] == {t} \union UNION {Origins[o[1]] : o \in Vin[t]}

IndexIn(b, t) == PegIndex[CHOOSE a \in Chain[b] : t \in TxsOf(a)]

\* The peg database keeps what the blocks of the chain computed
ReadFractions(b, t) == {<<u, IndexIn(b, u)>> : u \in Origins[t]}

FractionsOK(history) == \A r \in Refused : ~ r \subseteq history

\* What a block connects before its n-th transaction
ConnectedBefore(b, n) ==
  (UNION {TxsOf(a) : a \in Chain[b] \ {b}}) \union {Vtx[b][i] : i \in 1..(n - 1)}

\* The blocks are those CheckBlock and ConnectBlock accept, and the index of the
\* next block changes at the end of an interval only
ASSUME ConnectAssumption ==
  \A b \in Blocks :
    /\ \A i, j \in DOMAIN Vtx[b] : Vtx[b][i] = Vtx[b][j] => i = j
    /\ \A n \in DOMAIN Vtx[b] : \A o \in Vin[Vtx[b][n]] : o[1] \in ConnectedBefore(b, n)
    /\ \A t \in ChainTxs(b) :
         /\ Cardinality({a \in Chain[b] : t \in TxsOf(a)}) = 1
         /\ \A o \in Vin[t] : o[2] \in 1..Vout[o[1]]
         /\ \A u \in ChainTxs(b) \ {t} : Vin[t] \intersect Vin[u] = {}
         /\ FractionsOK(ReadFractions(b, t))
    /\ \A c \in Blocks : IsChild(c, b) => PegIndex[c] = NextIndex[b]
    /\ (Height(b) + 1) % PegInterval # 0 => NextIndex[b] = PegIndex[b]

-----------------------------------------------------------------------------
(* Fractions of a transaction, from its inputs' and the index              *)

PrevFractions(u) == IF u \in ChainTxs(db) THEN ReadFractions(db, u) ELSE mapPackedFractions[u]

CalculateStandardFractions(t, index) ==
  {<<t, index>>} \union UNION {PrevFractions(o[1]) : o \in Vin[t]}

-----------------------------------------------------------------------------
(* AcceptToMemoryPool                                                      *)

\* Mutant: what the pool spends is not looked at.
ConflictBlindDeclined(t) == t \in BlockOnly \/ t \in mapTx \/ t \in ChainTxs(db)

DeclinedAtOnce(t) ==
  \/ t \in BlockOnly
  \/ t \in mapTx
  \/ Vin[t] \intersect DOMAIN mapNextTx # {}
  \/ t \in ChainTxs(db)

MissingInputs(t) == \E o \in Vin[t] : o[1] \notin ChainTxs(db) \union mapTx

\* ConnectInputs on what FetchInputs found, at the index of pindexBest
InputsConnect(t) ==
  /\ \A o \in Vin[t] : o[2] \in 1..Vout[o[1]] /\ ~ IsSpent(db, o)
  /\ FractionsOK(CalculateStandardFractions(t, PegIndex[pindexBest]))

Acceptable(t) == ~ DeclinedAtOnce(t) /\ ~ MissingInputs(t) /\ InputsConnect(t)

fMissingInputs(t) == ~ DeclinedAtOnce(t) /\ MissingInputs(t)

addUnchecked(t) ==
  /\ mapTx' = mapTx \union {t}
  /\ mapNextTx' = [o \in DOMAIN mapNextTx \union Vin[t] |->
                     IF o \in Vin[t] THEN t ELSE mapNextTx[o]]
  /\ mapPackedFractions' =
       [u \in DOMAIN mapPackedFractions \union {t} |->
          IF u = t THEN CalculateStandardFractions(t, PegIndex[pindexBest]) ELSE mapPackedFractions[u]]

-----------------------------------------------------------------------------
(* Removal: the entries the pool holds for the transactions of a set       *)

\* Mutant: the fractions stay.
KeepingFractions(S) ==
  LET gone == S \intersect mapTx
      freed == UNION {Vin[t] : t \in gone}
  IN  /\ mapTx' = mapTx \ gone
      /\ mapNextTx' = [o \in DOMAIN mapNextTx \ freed |-> mapNextTx[o]]
      /\ UNCHANGED mapPackedFractions

remove(S) ==
  LET gone == S \intersect mapTx
      freed == UNION {Vin[t] : t \in gone}
  IN  /\ mapTx' = mapTx \ gone
      /\ mapNextTx' = [o \in DOMAIN mapNextTx \ freed |-> mapNextTx[o]]
      /\ mapPackedFractions' = [u \in DOMAIN mapPackedFractions \ gone |-> mapPackedFractions[u]]

Spenders(S) == {mapNextTx[o] : o \in {p \in DOMAIN mapNextTx : p[1] \in S}}

\* What remove takes with fRecursive: the transactions that spend S, and so on
WithDependents(S) ==
  LET reach[n \in Nat] == IF n = 0 THEN S ELSE reach[n - 1] \union Spenders(reach[n - 1])
  IN  reach[Cardinality(mapTx)]

\* The pool transactions removeConflicts(t) finds
Conflicts(t) == {mapNextTx[o] : o \in Vin[t] \intersect DOMAIN mapNextTx} \ {t}

-----------------------------------------------------------------------------
Init ==
  /\ db = Genesis /\ pindexBest = Genesis /\ pindexNew = Genesis
  /\ mapTx = {} /\ mapNextTx = <<>> /\ mapPackedFractions = <<>>
  /\ mapOrphanTransactions = {}
  /\ pc = "idle"
  /\ vWorkQueue = <<>> /\ vTry = {} /\ vErase = {}
  /\ vResurrect = {} /\ vDelete = {}
  /\ vRoots = {} /\ vStack = <<>> /\ vRemove = {}
  /\ drifted = FALSE

\* mapOrphanTransactionsByPrev
OrphansOf(t) == {o \in mapOrphanTransactions : \E p \in Vin[o] : p[1] = t}

\* A "tx" message that is accepted: the orphans that wait for it come next
TxMessage(t) ==
  /\ pc = "idle"
  /\ Acceptable(t)
  /\ addUnchecked(t)
  /\ vWorkQueue' = <<t>> /\ vErase' = {t} /\ vTry' = OrphansOf(t)
  /\ pc' = "orphans"
  /\ UNCHANGED <<chain, mapOrphanTransactions, reorgLoop, reviewLoop, drifted>>

\* A "tx" message with an unknown input; LimitOrphanTxSize evicts any orphan
AddOrphanTx(t) ==
  /\ pc = "idle"
  /\ fMissingInputs(t)
  /\ LET all == mapOrphanTransactions \union {t}
     IN  IF Cardinality(all) <= MaxOrphans
           THEN mapOrphanTransactions' = all
           ELSE \E evicted \in all : mapOrphanTransactions' = all \ {evicted}
  /\ UNCHANGED <<chain, pool, pc, orphanLoop, reorgLoop, reviewLoop, drifted>>

\* A transaction of the wallet or of sendrawtransaction: orphans stay where they are
SendTransaction(t) ==
  /\ pc = "idle"
  /\ Acceptable(t)
  /\ addUnchecked(t)
  /\ UNCHANGED <<chain, mapOrphanTransactions, pc, orphanLoop, reorgLoop, reviewLoop, drifted>>

\* The retry of one orphan; the set of hashes is taken in any order
TryOrphan(o) ==
  /\ pc = "orphans"
  /\ o \in vTry
  /\ vTry' = vTry \ {o}
  /\ IF Acceptable(o)
       THEN addUnchecked(o) /\ vWorkQueue' = Append(vWorkQueue, o)
       ELSE UNCHANGED <<pool, vWorkQueue>>
  /\ vErase' = IF fMissingInputs(o) THEN vErase ELSE vErase \union {o}
  /\ UNCHANGED <<chain, mapOrphanTransactions, pc, reorgLoop, reviewLoop, drifted>>

NextInQueue ==
  /\ pc = "orphans"
  /\ vTry = {}
  /\ Len(vWorkQueue) > 1
  /\ vWorkQueue' = Tail(vWorkQueue)
  /\ vTry' = OrphansOf(vWorkQueue[2])
  /\ UNCHANGED <<chain, pool, mapOrphanTransactions, pc, vErase, reorgLoop, reviewLoop, drifted>>

EraseOrphans ==
  /\ pc = "orphans"
  /\ vTry = {}
  /\ Len(vWorkQueue) = 1
  /\ mapOrphanTransactions' = mapOrphanTransactions \ vErase
  /\ vWorkQueue' = <<>> /\ vErase' = {}
  /\ pc' = "idle"
  /\ UNCHANGED <<chain, pool, vTry, reorgLoop, reviewLoop, drifted>>

-----------------------------------------------------------------------------
(* SetBestChain, for a block whose chain connects (BlockChain.tla has the  *)
(* ones that do not: the pool is not touched for them)                     *)

\* The blocks Reorganize disconnects, and those above the last checkpoint, whose
\* transactions alone it takes back
LostBlocks(b, a) == Chain[b] \ Chain[a]

Resurrectable(b, a) == {c \in LostBlocks(b, a) : Height(c) > LastCheckpoint}

\* Reorganize's vResurrect: the places <<block, n>> of the transactions to take back
Disconnected(b, a) ==
  UNION {{<<c, n>> : n \in {i \in DOMAIN Vtx[c] : Vtx[c][i] \notin BlockOnly}} : c \in Resurrectable(b, a)}

\* Mutant: push_back, the newest comes first.
NewestFirst(x, y) == x = y \/ Height(x[1]) > Height(y[1]) \/ (x[1] = y[1] /\ x[2] > y[2])

\* push_front from the last block's last transaction on: the oldest comes first
ResurrectedBefore(x, y) == x = y \/ Height(x[1]) < Height(y[1]) \/ (x[1] = y[1] /\ x[2] < y[2])

\* Mutant: the last block only.
TipOnly(b, a) == TxsOf(b)

\* Its vDelete: the transactions of the connected blocks
Connected(b, a) == UNION {TxsOf(c) : c \in Chain[b] \ Chain[a]}

SetBestChainExtend(new) ==
  /\ pc = "idle"
  /\ IsChild(new, pindexBest)
  /\ pindexNew' = new
  /\ pc' = "connect"
  /\ UNCHANGED <<db, pindexBest, pool, mapOrphanTransactions, orphanLoop, reorgLoop, reviewLoop, drifted>>

\* pindexIntermediate is the first block of the new chain with more trust than
\* the best one; Reorganize commits its chain, the blocks after it follow one by one
Reorganize(new) ==
  /\ pc = "idle"
  /\ nChainTrust[new] > nChainTrust[pindexBest]
  /\ pindexBest \notin Chain[new]
  /\ \E mid \in Chain[new] :
       /\ nChainTrust[mid] > nChainTrust[pindexBest]
       /\ \A a \in Chain[mid] \ {mid} : nChainTrust[a] <= nChainTrust[pindexBest]
       /\ db' = mid
       /\ vResurrect' = Disconnected(pindexBest, mid)
       /\ vDelete' = Connected(mid, pindexBest)
  /\ pindexNew' = new
  /\ pc' = "resurrect"
  /\ drifted' = TRUE
  /\ UNCHANGED <<pindexBest, pool, mapOrphanTransactions, orphanLoop, reviewLoop>>

ResurrectOne ==
  /\ pc = "resurrect"
  /\ \E x \in vResurrect :
       /\ \A y \in vResurrect : ResurrectedBefore(x, y)
       /\ LET t == Vtx[x[1]][x[2]] IN IF Acceptable(t) THEN addUnchecked(t) ELSE UNCHANGED pool
       /\ vResurrect' = vResurrect \ {x}
  /\ UNCHANGED <<chain, mapOrphanTransactions, pc, orphanLoop, vDelete, reviewLoop, drifted>>

\* The transactions of connected blocks are deleted in any order, theirs is one
DeleteOne(t) ==
  /\ pc = "resurrect"
  /\ vResurrect = {}
  /\ t \in vDelete
  /\ remove(IF t \in mapTx THEN {t} ELSE WithDependents(Conflicts(t)))
  /\ vDelete' = vDelete \ {t}
  /\ UNCHANGED <<chain, mapOrphanTransactions, pc, orphanLoop, vResurrect, reviewLoop, drifted>>

Reorganized ==
  /\ pc = "resurrect"
  /\ vResurrect = {} /\ vDelete = {}
  /\ pc' = "connect"
  /\ UNCHANGED <<chain, pool, mapOrphanTransactions, orphanLoop, reorgLoop, reviewLoop, drifted>>

\* The block is committed, then its transactions leave the pool
SetBestChainInner(b) ==
  /\ pc = "connect"
  /\ b \in Chain[pindexNew]
  /\ IsChild(b, db)
  /\ db' = b
  /\ remove(TxsOf(b))
  /\ UNCHANGED <<pindexBest, pindexNew, mapOrphanTransactions, pc, orphanLoop, reorgLoop, reviewLoop, drifted>>

AtPegChange(b) == Height(b) % PegInterval = 0

\* Not spending an output of a pool transaction
Independent(t) == \A o \in Vin[t] : o[1] \notin mapTx

\* What IsInitialBlockDownload() may answer, while pindexBest is the block before:
\* it is below the last checkpoint, above it depends on the clock
IsInitialBlockDownload == IF Height(pindexBest) < LastCheckpoint THEN {TRUE} ELSE BOOLEAN

NewBestBlock(fIsInitialDownload) ==
  /\ pc = "connect"
  /\ db = pindexNew
  /\ fIsInitialDownload \in IsInitialBlockDownload
  /\ pindexBest' = pindexNew
  /\ IF AtPegChange(pindexNew) /\ ~ fIsInitialDownload
       THEN pc' = "review" /\ vRoots' = {t \in mapTx : Independent(t)} /\ UNCHANGED drifted
       ELSE pc' = "idle" /\ drifted' = (drifted \/ AtPegChange(pindexNew)) /\ UNCHANGED vRoots
  /\ UNCHANGED <<db, pindexNew, pool, mapOrphanTransactions, orphanLoop, reorgLoop, vStack, vRemove>>

-----------------------------------------------------------------------------
(* reviewOnPegChange: depth first, from each independent transaction       *)

ReviewPasses(t) ==
  /\ ~ MissingInputs(t)
  /\ FractionsOK(CalculateStandardFractions(t, PegIndex[pindexBest]))

\* Mutant: dependents are not reviewed.
NoOutputs(t) == <<>>

OutputsOf(t) == [n \in 1..Vout[t] |-> <<t, n>>]

\* The review of t; the spenders of its outputs are next, `rest' comes after them
Review(t, rest) ==
  IF ReviewPasses(t)
    THEN /\ mapPackedFractions' =
              [mapPackedFractions EXCEPT ![t] = CalculateStandardFractions(t, PegIndex[pindexBest])]
         /\ vStack' = OutputsOf(t) \o rest
         /\ UNCHANGED vRemove
    ELSE /\ vRemove' = vRemove \union {t}
         /\ vStack' = rest
         /\ UNCHANGED mapPackedFractions

ReviewRoot(t) ==
  /\ pc = "review"
  /\ vStack = <<>>
  /\ t \in vRoots
  /\ Review(t, <<>>)
  /\ vRoots' = vRoots \ {t}
  /\ UNCHANGED <<chain, mapTx, mapNextTx, mapOrphanTransactions, pc, orphanLoop, reorgLoop, drifted>>

ReviewDependent ==
  /\ pc = "review"
  /\ vStack # <<>>
  /\ IF Head(vStack) \in DOMAIN mapNextTx
       THEN Review(mapNextTx[Head(vStack)], Tail(vStack))
       ELSE vStack' = Tail(vStack) /\ UNCHANGED <<mapPackedFractions, vRemove>>
  /\ UNCHANGED <<chain, mapTx, mapNextTx, mapOrphanTransactions, pc, orphanLoop, reorgLoop, vRoots, drifted>>

RemoveCollected ==
  /\ pc = "review"
  /\ vStack = <<>> /\ vRoots = {}
  /\ remove(WithDependents(vRemove))
  /\ vRemove' = {}
  /\ drifted' = FALSE
  /\ pc' = "idle"
  /\ UNCHANGED <<chain, mapOrphanTransactions, orphanLoop, reorgLoop, vRoots, vStack>>

-----------------------------------------------------------------------------
Next ==
  \/ \E t \in Txs : TxMessage(t) \/ AddOrphanTx(t) \/ SendTransaction(t) \/ TryOrphan(t)
                    \/ DeleteOne(t) \/ ReviewRoot(t)
  \/ NextInQueue \/ EraseOrphans
  \/ \E b \in Blocks : SetBestChainExtend(b) \/ Reorganize(b) \/ SetBestChainInner(b)
  \/ ResurrectOne \/ Reorganized
  \/ \E ibd \in BOOLEAN : NewBestBlock(ibd)
  \/ ReviewDependent \/ RemoveCollected

Spec == Init /\ [][Next]_vars

-----------------------------------------------------------------------------
(* CreateNewBlock (src/wallet/miner.cpp): the pool transactions it takes,  *)
(* parents before their dependents                                         *)

\* Mutant: inputs that the chain has spent are taken too.
SpentBlindTemplate ==
  LET take[n \in Nat] ==
        IF n = 0 THEN {}
        ELSE {t \in mapTx :
                /\ \A o \in Vin[t] : o[1] \in ChainTxs(db) \/ o[1] \in take[n - 1]
                /\ FractionsOK(CalculateStandardFractions(t, PegIndex[pindexBest]))}
  IN  take[Cardinality(mapTx)]

Template ==
  LET take[n \in Nat] ==
        IF n = 0 THEN {}
        ELSE {t \in mapTx :
                /\ \A o \in Vin[t] : \/ o[1] \in ChainTxs(db) /\ ~ IsSpent(db, o)
                                     \/ o[1] \in take[n - 1]
                /\ FractionsOK(CalculateStandardFractions(t, PegIndex[pindexBest]))}
  IN  take[Cardinality(mapTx)]

\* Fractions of t when everything not yet in the chain is computed at one index
FractionsAt(t, index) ==
  {<<u, IF u \in ChainTxs(db) THEN IndexIn(db, u) ELSE index>> : u \in Origins[t]}

-----------------------------------------------------------------------------
(* Properties                                                              *)

\* The maps of CTxMemPool agree on what is pooled, coinbase and coinstake
\* transactions never are, and the handlers' queues hold transactions.
TypeOK ==
  /\ {db, pindexBest, pindexNew} \subseteq Blocks
  /\ mapTx \subseteq Txs \ BlockOnly
  /\ mapNextTx \in [DOMAIN mapNextTx -> Txs] /\ DOMAIN mapNextTx \subseteq OutPoints
  /\ DOMAIN mapPackedFractions = mapTx
  /\ mapOrphanTransactions \subseteq Txs
  /\ pc \in {"idle", "orphans", "resurrect", "connect", "review"}
  /\ vWorkQueue \in Seq(Txs) /\ vTry \subseteq Txs /\ vErase \subseteq Txs
  /\ vResurrect \subseteq {x \in Blocks \X Nat : x[2] \in DOMAIN Vtx[x[1]]} /\ vDelete \subseteq Txs
  /\ vRoots \subseteq Txs /\ vStack \in Seq(OutPoints) /\ vRemove \subseteq Txs
  /\ drifted \in BOOLEAN

\* mapNextTx is exactly what the pooled transactions spend, so no two of them
\* spend the same output: through acceptance, resurrection before the other
\* branch's transactions are deleted, removal of conflicts with their
\* dependents, and the review, no entry is left behind or overwritten.
PoolSpendsOnce ==
  /\ \A t \in mapTx : \A o \in Vin[t] : o \in DOMAIN mapNextTx /\ mapNextTx[o] = t
  /\ \A o \in DOMAIN mapNextTx : mapNextTx[o] \in mapTx /\ o \in Vin[mapNextTx[o]]

\* No pooled transaction is in the chain the database holds, except those the
\* running Reorganize has still to delete: a resurrected transaction that the
\* new branch has too must not stay in the pool.
PoolOutsideChain == mapTx \intersect ChainTxs(db) \subseteq vDelete

\* Unless the chain was reorganised or grew unreviewed since the last review,
\* the pool's fractions are those the next block would compute at the current
\* index, for transactions that depend on each other as well.
FractionsCurrent ==
  pc = "idle" /\ ~ drifted =>
    \A t \in mapTx : mapPackedFractions[t] = FractionsAt(t, PegIndex[pindexBest])

\* When Reorganize has tried the transactions it takes back once, none that was in
\* a disconnected block above the last checkpoint and is not taken could be taken
\* now: the order, parents first, leaves none behind, wherever the branches part.
\* Of the blocks up to the checkpoint the code takes back nothing.
ResurrectionComplete ==
  pc = "resurrect" /\ vResurrect = {}
  /\ vDelete = Connected(db, pindexBest) =>
    \A c \in Chain[pindexBest] \ Chain[db] :
      Height(c) > LastCheckpoint => \A t \in TxsOf(c) : ~ Acceptable(t)

\* ConnectBlock would accept the transactions of the template in the next block
TemplateIsBlock ==
  /\ \A t \in Template :
       /\ \A o \in Vin[t] : o[1] \in ChainTxs(db) \union Template /\ ~ IsSpent(db, o)
       /\ FractionsOK(FractionsAt(t, NextIndex[pindexBest]))
  /\ \A t, u \in Template : t # u => Vin[t] \intersect Vin[u] = {}

\* Within an interval, and unless the pool drifted, CreateNewBlock takes only
\* what the next block may hold, although the pool keeps transactions whose
\* inputs a block has spent and fractions are read from the pool.
TemplateConnects ==
  pc = "idle" /\ ~ drifted /\ (Height(pindexBest) + 1) % PegInterval # 0 => TemplateIsBlock

\* What CreateNewBlock says of its ConnectInputs: the block it creates only
\* contains transactions that are valid in new blocks, of a reviewed pool at least.
NewBlocksConnect == pc = "idle" /\ ~ drifted => TemplateIsBlock
=============================================================================
