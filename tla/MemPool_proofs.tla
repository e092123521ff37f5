--------------------------- MODULE MemPool_proofs ---------------------------
(***************************************************************************)
(* For every set of transactions, every tree of blocks and every rule of   *)
(* the fractions: the maps of the memory pool stay consistent with each    *)
(* other and with the chain in the transaction database, a reorganisation  *)
(* takes back what it can, the fractions of the pool are those of the next *)
(* block, and the miner's template connects.                               *)
(***************************************************************************)
EXTENDS MemPool, FiniteSetTheorems, WellFoundedInduction, TLAPS

\* What the pool's three maps say of each other
PoolInv ==
  /\ mapTx \subseteq Txs \ BlockOnly
  /\ mapNextTx \in [DOMAIN mapNextTx -> Txs]
  /\ DOMAIN mapNextTx \subseteq OutPoints
  /\ DOMAIN mapPackedFractions = mapTx
  /\ PoolSpendsOnce

\* What the handlers' loops rely on: outside SetBestChain the database holds the
\* chain of pindexBest, and nothing is left to delete once Reorganize is over
LoopInv ==
  /\ pc \in {"idle", "orphans", "review"} => db = pindexBest
  /\ pc # "resurrect" => vDelete = {}

\* Types of what is not the pool
StateInv ==
  /\ {db, pindexBest, pindexNew} \subseteq Blocks
  /\ mapOrphanTransactions \subseteq Txs
  /\ pc \in {"idle", "orphans", "resurrect", "connect", "review"}
  /\ vWorkQueue \in Seq(Txs) /\ vTry \subseteq Txs /\ vErase \subseteq Txs
  /\ vResurrect \subseteq {x \in Blocks \X Nat : x[2] \in DOMAIN Vtx[x[1]]} /\ vDelete \subseteq Txs
  /\ vRoots \subseteq Txs /\ vStack \in Seq(OutPoints) /\ vRemove \subseteq Txs
  /\ drifted \in BOOLEAN

IInv == PoolInv /\ PoolOutsideChain /\ LoopInv /\ StateInv

\* The inductive invariant gives the three properties.
LEMMA IInvImplies == IInv => TypeOK /\ PoolSpendsOnce /\ PoolOutsideChain
  BY DEF IInv, PoolInv, StateInv, TypeOK

-----------------------------------------------------------------------------
\* addUnchecked keeps the maps consistent: no input of an accepted transaction
\* was in mapNextTx.
LEMMA AddKeepsPool ==
  ASSUME PoolInv, NEW t \in Txs, Acceptable(t), addUnchecked(t)
  PROVE  PoolInv'
<1> USE TxAssumption
<1>1. t \notin BlockOnly /\ t \notin mapTx /\ Vin[t] \intersect DOMAIN mapNextTx = {}
  BY DEF Acceptable, DeclinedAtOnce
<1>2. mapTx' \subseteq Txs \ BlockOnly
  BY <1>1 DEF addUnchecked, PoolInv
<1>3. /\ mapNextTx' \in [DOMAIN mapNextTx' -> Txs]
      /\ DOMAIN mapNextTx' \subseteq OutPoints
  BY DEF addUnchecked, PoolInv
<1>4. DOMAIN mapPackedFractions' = mapTx'
  BY DEF addUnchecked, PoolInv
<1>5. PoolSpendsOnce'
  BY <1>1 DEF addUnchecked, PoolInv, PoolSpendsOnce
<1> QED BY <1>2, <1>3, <1>4, <1>5 DEF PoolInv

\* remove keeps them consistent, whatever set it is given.
LEMMA RemoveKeepsPool ==
  ASSUME PoolInv, NEW S, remove(S)
  PROVE  PoolInv' /\ mapTx' = mapTx \ S
<1> USE TxAssumption
<1> DEFINE gone == S \intersect mapTx
           freed == UNION {Vin[u] : u \in gone}
<1>1. /\ mapTx' = mapTx \ gone
      /\ mapNextTx' = [o \in DOMAIN mapNextTx \ freed |-> mapNextTx[o]]
      /\ mapPackedFractions' = [u \in DOMAIN mapPackedFractions \ gone |-> mapPackedFractions[u]]
  BY DEF remove
<1>2. mapTx' \subseteq Txs \ BlockOnly /\ mapTx' = mapTx \ S
  BY <1>1 DEF PoolInv
<1>3. /\ mapNextTx' \in [DOMAIN mapNextTx' -> Txs]
      /\ DOMAIN mapNextTx' \subseteq OutPoints
  BY <1>1 DEF PoolInv
<1>4. DOMAIN mapPackedFractions' = mapTx'
  BY <1>1 DEF PoolInv
<1>5. ASSUME NEW u \in mapTx', NEW o \in Vin[u]
      PROVE  o \in DOMAIN mapNextTx' /\ mapNextTx'[o] = u
  <2>1. u \in mapTx /\ u \notin gone
    BY <1>1
  <2>2. o \in DOMAIN mapNextTx /\ mapNextTx[o] = u
    BY <2>1 DEF PoolInv, PoolSpendsOnce
  <2>3. ASSUME NEW v \in gone PROVE o \notin Vin[v]
    BY <2>1, <2>2 DEF PoolInv, PoolSpendsOnce
  <2>4. o \notin freed
    BY <2>3
  <2> QED BY <1>1, <2>2, <2>4
<1>6. ASSUME NEW o \in DOMAIN mapNextTx'
      PROVE  mapNextTx'[o] \in mapTx' /\ o \in Vin[mapNextTx'[o]]
  <2>1. o \in DOMAIN mapNextTx /\ o \notin freed /\ mapNextTx'[o] = mapNextTx[o]
    BY <1>1
  <2>2. mapNextTx[o] \in mapTx /\ o \in Vin[mapNextTx[o]]
    BY <2>1 DEF PoolInv, PoolSpendsOnce
  <2>3. mapNextTx[o] \notin gone
    BY <2>1, <2>2
  <2> QED BY <1>1, <2>1, <2>2, <2>3
<1> QED BY <1>2, <1>3, <1>4, <1>5, <1>6 DEF PoolInv, PoolSpendsOnce

\* A step that leaves mapTx and mapNextTx alone and every fraction in place.
LEMMA KeepsPool ==
  ASSUME PoolInv, UNCHANGED <<mapTx, mapNextTx>>, DOMAIN mapPackedFractions' = DOMAIN mapPackedFractions
  PROVE  PoolInv'
  BY DEF PoolInv, PoolSpendsOnce

\* The outputs of a transaction, as the review pushes them.
LEMMA OutputsType ==
  ASSUME NEW t \in Txs PROVE OutputsOf(t) \in Seq(OutPoints)
<1>1. Vout[t] \in Nat
  BY TxAssumption
<1> QED BY <1>1 DEF OutputsOf, OutPoints

\* The review overwrites fractions and changes nothing else of the pool.
LEMMA ReviewTypes ==
  ASSUME StateInv, NEW t \in Txs, NEW rest \in Seq(OutPoints), Review(t, rest)
  PROVE  /\ DOMAIN mapPackedFractions' = DOMAIN mapPackedFractions
         /\ vStack' \in Seq(OutPoints)
         /\ vRemove' \subseteq Txs
<1>1. OutputsOf(t) \in Seq(OutPoints)
  BY OutputsType
<1>2. CASE ReviewPasses(t)
  <2>1. OutputsOf(t) \o rest \in Seq(OutPoints)
    BY <1>1
  <2>2. DOMAIN mapPackedFractions' = DOMAIN mapPackedFractions
    BY <1>2 DEF Review
  <2>3. vStack' \in Seq(OutPoints)
    BY <1>2, <2>1 DEF Review
  <2>4. vRemove' \subseteq Txs
    BY <1>2 DEF Review, StateInv
  <2> QED BY <2>2, <2>3, <2>4
<1>3. CASE ~ ReviewPasses(t)
  BY <1>3 DEF Review, StateInv
<1> QED BY <1>2, <1>3

-----------------------------------------------------------------------------
\* The pool starts empty, beside the database of the first block.
LEMMA InitIInv == Init => IInv
<1> SUFFICES ASSUME Init PROVE IInv
  OBVIOUS
<1> USE ChainAssumption DEF Init
<1>1. PoolInv
  BY DEF PoolInv, PoolSpendsOnce
<1>2. PoolOutsideChain /\ LoopInv
  BY DEF PoolOutsideChain, LoopInv
<1>3. StateInv
  <2>1. /\ vWorkQueue \in Seq(Txs) /\ vStack \in Seq(OutPoints)
        /\ {db, pindexBest, pindexNew} \subseteq Blocks
    OBVIOUS
  <2>2. drifted \in BOOLEAN
    OBVIOUS
  <2>3. /\ mapOrphanTransactions \subseteq Txs /\ vTry \subseteq Txs /\ vErase \subseteq Txs
        /\ vDelete \subseteq Txs /\ vRoots \subseteq Txs /\ vRemove \subseteq Txs
    OBVIOUS
  <2>4. vResurrect \subseteq {x \in Blocks \X Nat : x[2] \in DOMAIN Vtx[x[1]]}
    OBVIOUS
  <2> QED BY <2>1, <2>2, <2>3, <2>4 DEF StateInv
<1> QED BY <1>1, <1>2, <1>3 DEF IInv

\* An accepted transaction is not in the chain of the database.
LEMMA AddOutsideChain ==
  ASSUME IInv, NEW t \in Txs, Acceptable(t), addUnchecked(t), UNCHANGED <<db, vDelete>>
  PROVE  PoolOutsideChain'
  BY DEF IInv, Acceptable, DeclinedAtOnce, addUnchecked, PoolOutsideChain, ChainTxs, TxsOf

\* Every action keeps the invariant.
LEMMA NextIInv == IInv /\ [Next]_vars => IInv'
<1> SUFFICES ASSUME IInv, [Next]_vars PROVE IInv'
  OBVIOUS
<1> USE DEF chain, pool, orphanLoop, reorgLoop, reviewLoop
<1>1. ASSUME NEW t \in Txs, TxMessage(t) PROVE IInv'
  <2>1. PoolInv'
    BY <1>1, AddKeepsPool DEF TxMessage, IInv
  <2>2. PoolOutsideChain'
    BY <1>1, AddOutsideChain DEF TxMessage
  <2>3. LoopInv' /\ StateInv'
    BY <1>1 DEF TxMessage, IInv, LoopInv, StateInv, OrphansOf
  <2> QED BY <2>1, <2>2, <2>3 DEF IInv
<1>2. ASSUME NEW t \in Txs, AddOrphanTx(t) PROVE IInv'
  <2>1. PoolInv'
    BY <1>2, KeepsPool DEF AddOrphanTx, IInv
  <2>2. PoolOutsideChain' /\ LoopInv'
    BY <1>2 DEF AddOrphanTx, IInv, PoolOutsideChain, ChainTxs, LoopInv
  <2>3. StateInv'
    BY <1>2 DEF AddOrphanTx, IInv, StateInv
  <2> QED BY <2>1, <2>2, <2>3 DEF IInv
<1>3. ASSUME NEW t \in Txs, SendTransaction(t) PROVE IInv'
  <2>1. PoolInv'
    BY <1>3, AddKeepsPool DEF SendTransaction, IInv
  <2>2. PoolOutsideChain'
    BY <1>3, AddOutsideChain DEF SendTransaction
  <2>3. LoopInv' /\ StateInv'
    BY <1>3 DEF SendTransaction, IInv, LoopInv, StateInv
  <2> QED BY <2>1, <2>2, <2>3 DEF IInv
<1>4. ASSUME NEW t \in Txs, TryOrphan(t) PROVE IInv'
  <2>1. CASE Acceptable(t)
    <3>1. PoolInv'
      BY <1>4, <2>1, AddKeepsPool DEF TryOrphan, IInv
    <3>2. PoolOutsideChain'
      BY <1>4, <2>1, AddOutsideChain DEF TryOrphan
    <3>3. LoopInv' /\ StateInv'
      BY <1>4, <2>1 DEF TryOrphan, IInv, LoopInv, StateInv
    <3> QED BY <3>1, <3>2, <3>3 DEF IInv
  <2>2. CASE ~ Acceptable(t)
    <3>1. PoolInv'
      BY <1>4, <2>2, KeepsPool DEF TryOrphan, IInv
    <3>2. PoolOutsideChain' /\ LoopInv'
      BY <1>4, <2>2 DEF TryOrphan, IInv, PoolOutsideChain, ChainTxs, LoopInv
    <3>3. StateInv'
      BY <1>4, <2>2 DEF TryOrphan, IInv, StateInv
    <3> QED BY <3>1, <3>2, <3>3 DEF IInv
  <2> QED BY <2>1, <2>2
<1>5. ASSUME NextInQueue PROVE IInv'
  <2>1. PoolInv'
    BY <1>5, KeepsPool DEF NextInQueue, IInv
  <2>2. PoolOutsideChain' /\ LoopInv'
    BY <1>5 DEF NextInQueue, IInv, PoolOutsideChain, ChainTxs, LoopInv
  <2>3. StateInv'
    BY <1>5 DEF NextInQueue, IInv, StateInv, OrphansOf
  <2> QED BY <2>1, <2>2, <2>3 DEF IInv
<1>6. ASSUME EraseOrphans PROVE IInv'
  <2>1. PoolInv'
    BY <1>6, KeepsPool DEF EraseOrphans, IInv
  <2>2. PoolOutsideChain' /\ LoopInv'
    BY <1>6 DEF EraseOrphans, IInv, PoolOutsideChain, ChainTxs, LoopInv
  <2>3. StateInv'
    BY <1>6 DEF EraseOrphans, IInv, StateInv
  <2> QED BY <2>1, <2>2, <2>3 DEF IInv
<1>7. ASSUME NEW b \in Blocks, SetBestChainExtend(b) PROVE IInv'
  <2>1. PoolInv'
    BY <1>7, KeepsPool DEF SetBestChainExtend, IInv
  <2>2. PoolOutsideChain' /\ LoopInv'
    BY <1>7 DEF SetBestChainExtend, IInv, PoolOutsideChain, ChainTxs, LoopInv
  <2>3. StateInv'
    BY <1>7 DEF SetBestChainExtend, IInv, StateInv
  <2> QED BY <2>1, <2>2, <2>3 DEF IInv
<1>8. ASSUME NEW b \in Blocks, Reorganize(b) PROVE IInv'
  <2>1. PICK mid \in Chain[b] :
          /\ db' = mid
          /\ vResurrect' = Disconnected(pindexBest, mid)
          /\ vDelete' = Connected(mid, pindexBest)
    BY <1>8 DEF Reorganize
  <2>2. mid \in Blocks /\ Chain[mid] \subseteq Blocks /\ Chain[pindexBest] \subseteq Blocks
    BY ChainAssumption DEF IInv, StateInv
  <2>3. PoolInv'
    BY <1>8, KeepsPool DEF Reorganize, IInv
  <2>4. PoolOutsideChain'
    <3>1. mapTx \intersect ChainTxs(pindexBest) = {}
      BY <1>8 DEF Reorganize, IInv, LoopInv, PoolOutsideChain
    <3>2. ChainTxs(mid) \subseteq ChainTxs(pindexBest) \union Connected(mid, pindexBest)
      BY DEF ChainTxs, Connected
    <3>3. mapTx' = mapTx
      BY <1>8 DEF Reorganize
    <3> QED BY <2>1, <3>1, <3>2, <3>3 DEF PoolOutsideChain, ChainTxs
  <2>5. LoopInv'
    BY <1>8 DEF Reorganize, LoopInv
  <2>6. vDelete' \subseteq Txs
    <3>1. ASSUME NEW c \in Chain[mid] PROVE TxsOf(c) \subseteq Txs
      <4>1. Vtx[c] \in Seq(Txs)
        BY <2>2, ChainAssumption
      <4> QED BY <4>1 DEF TxsOf
    <3>2. vDelete' = UNION {TxsOf(c) : c \in Chain[mid] \ Chain[pindexBest]}
      BY <2>1 DEF Connected
    <3> QED BY ONLY <3>1, <3>2
  <2>7. vResurrect' \subseteq {x \in Blocks \X Nat : x[2] \in DOMAIN Vtx[x[1]]}
    <3>1. SUFFICES ASSUME NEW x \in Disconnected(pindexBest, mid)
                   PROVE  x \in Blocks \X Nat /\ x[2] \in DOMAIN Vtx[x[1]]
      BY <2>1
    <3>2. PICK c \in Chain[pindexBest] \ Chain[mid] : \E n \in DOMAIN Vtx[c] : x = <<c, n>>
      BY DEF Disconnected, Resurrectable, LostBlocks
    <3>3. c \in Blocks /\ Vtx[c] \in Seq(Txs)
      BY <2>2, <3>2, ChainAssumption
    <3>4. DOMAIN Vtx[c] \subseteq Nat
      BY <3>3
    <3> QED BY <3>2, <3>3, <3>4
  <2>8. StateInv'
    BY <1>8, <2>1, <2>2, <2>6, <2>7 DEF Reorganize, IInv, StateInv
  <2> QED BY <2>3, <2>4, <2>5, <2>8 DEF IInv
<1>9. ASSUME ResurrectOne PROVE IInv'
  <2>1. PICK x \in vResurrect :
          /\ IF Acceptable(Vtx[x[1]][x[2]]) THEN addUnchecked(Vtx[x[1]][x[2]]) ELSE UNCHANGED pool
          /\ vResurrect' = vResurrect \ {x}
    BY <1>9 DEF ResurrectOne
  <2>2. Vtx[x[1]][x[2]] \in Txs
    <3>1. x[1] \in Blocks /\ x[2] \in DOMAIN Vtx[x[1]]
      BY <2>1 DEF IInv, StateInv
    <3>2. Vtx[x[1]] \in Seq(Txs)
      BY <3>1, ChainAssumption
    <3> QED BY <3>1, <3>2
  <2>3. StateInv' /\ LoopInv' /\ UNCHANGED <<db, vDelete>>
    BY <1>9, <2>1 DEF ResurrectOne, IInv, StateInv, LoopInv
  <2>4. CASE Acceptable(Vtx[x[1]][x[2]])
    <3>1. PoolInv'
      BY <2>1, <2>2, <2>4, AddKeepsPool DEF IInv
    <3>2. PoolOutsideChain'
      BY <2>1, <2>2, <2>3, <2>4, AddOutsideChain
    <3> QED BY <2>3, <3>1, <3>2 DEF IInv
  <2>5. CASE ~ Acceptable(Vtx[x[1]][x[2]])
    <3>1. PoolInv'
      BY <2>1, <2>5, KeepsPool DEF IInv
    <3>2. PoolOutsideChain'
      BY <2>1, <2>3, <2>5 DEF IInv, PoolOutsideChain, ChainTxs
    <3> QED BY <2>3, <3>1, <3>2 DEF IInv
  <2> QED BY <2>4, <2>5
<1>10. ASSUME NEW t \in Txs, DeleteOne(t) PROVE IInv'
  <2> DEFINE S == IF t \in mapTx THEN {t} ELSE WithDependents(Conflicts(t))
  <2>1. PoolInv' /\ mapTx' = mapTx \ S
    <3>1. remove(S)
      BY <1>10 DEF DeleteOne
    <3> HIDE DEF S
    <3> QED BY <3>1, RemoveKeepsPool DEF IInv
  <2>2. t \notin mapTx'
    BY <2>1
  <2>3. PoolOutsideChain'
    BY <1>10, <2>1, <2>2 DEF DeleteOne, IInv, PoolOutsideChain, ChainTxs
  <2>4. LoopInv' /\ StateInv'
    BY <1>10 DEF DeleteOne, IInv, LoopInv, StateInv
  <2> QED BY <2>1, <2>3, <2>4 DEF IInv
<1>11. ASSUME Reorganized PROVE IInv'
  <2>1. PoolInv'
    BY <1>11, KeepsPool DEF Reorganized, IInv
  <2>2. PoolOutsideChain' /\ LoopInv'
    BY <1>11 DEF Reorganized, IInv, PoolOutsideChain, ChainTxs, LoopInv
  <2>3. StateInv'
    BY <1>11 DEF Reorganized, IInv, StateInv
  <2> QED BY <2>1, <2>2, <2>3 DEF IInv
<1>12. ASSUME NEW b \in Blocks, SetBestChainInner(b) PROVE IInv'
  <2>1. PoolInv' /\ mapTx' = mapTx \ TxsOf(b)
    BY <1>12, RemoveKeepsPool DEF SetBestChainInner, IInv
  <2>2. ChainTxs(b) = ChainTxs(db) \union TxsOf(b)
    BY <1>12 DEF SetBestChainInner, IsChild, ChainTxs
  <2>3. mapTx \intersect ChainTxs(db) = {}
    BY <1>12 DEF SetBestChainInner, IInv, LoopInv, PoolOutsideChain
  <2>4. PoolOutsideChain'
    BY <1>12, <2>1, <2>2, <2>3 DEF SetBestChainInner, PoolOutsideChain, ChainTxs, TxsOf
  <2>5. LoopInv' /\ StateInv'
    BY <1>12 DEF SetBestChainInner, IInv, LoopInv, StateInv
  <2> QED BY <2>1, <2>4, <2>5 DEF IInv
<1>13. ASSUME NEW ibd \in BOOLEAN, NewBestBlock(ibd) PROVE IInv'
  <2>1. PoolInv'
    BY <1>13, KeepsPool DEF NewBestBlock, IInv
  <2>2. PoolOutsideChain' /\ LoopInv'
    BY <1>13 DEF NewBestBlock, IInv, PoolOutsideChain, ChainTxs, LoopInv
  <2>3. StateInv'
    BY <1>13 DEF NewBestBlock, IInv, StateInv, PoolInv
  <2> QED BY <2>1, <2>2, <2>3 DEF IInv
<1>14. ASSUME NEW t \in Txs, ReviewRoot(t) PROVE IInv'
  <2>1. /\ DOMAIN mapPackedFractions' = DOMAIN mapPackedFractions
        /\ vStack' \in Seq(OutPoints) /\ vRemove' \subseteq Txs
    <3>1. <<>> \in Seq(OutPoints)
      OBVIOUS
    <3> QED BY <1>14, <3>1, ReviewTypes DEF ReviewRoot, IInv
  <2>2. PoolInv'
    BY <1>14, <2>1, KeepsPool DEF ReviewRoot, IInv
  <2>3. PoolOutsideChain' /\ LoopInv'
    BY <1>14 DEF ReviewRoot, IInv, PoolOutsideChain, ChainTxs, LoopInv
  <2>4. StateInv'
    BY <1>14, <2>1 DEF ReviewRoot, IInv, StateInv
  <2> QED BY <2>2, <2>3, <2>4 DEF IInv
<1>15. ASSUME ReviewDependent PROVE IInv'
  <2>1. Tail(vStack) \in Seq(OutPoints)
    BY <1>15 DEF ReviewDependent, IInv, StateInv
  <2>2. /\ DOMAIN mapPackedFractions' = DOMAIN mapPackedFractions
        /\ vStack' \in Seq(OutPoints) /\ vRemove' \subseteq Txs
    <3>1. CASE Head(vStack) \in DOMAIN mapNextTx
      <4>1. mapNextTx[Head(vStack)] \in Txs
        BY <3>1 DEF IInv, PoolInv
      <4> QED BY <1>15, <2>1, <3>1, <4>1, ReviewTypes DEF ReviewDependent, IInv
    <3>2. CASE Head(vStack) \notin DOMAIN mapNextTx
      BY <1>15, <2>1, <3>2 DEF ReviewDependent, IInv, StateInv
    <3> QED BY <3>1, <3>2
  <2>3. PoolInv'
    BY <1>15, <2>2, KeepsPool DEF ReviewDependent, IInv
  <2>4. PoolOutsideChain' /\ LoopInv'
    BY <1>15 DEF ReviewDependent, IInv, PoolOutsideChain, ChainTxs, LoopInv
  <2>5. StateInv'
    BY <1>15, <2>2 DEF ReviewDependent, IInv, StateInv
  <2> QED BY <2>3, <2>4, <2>5 DEF IInv
<1>16. ASSUME RemoveCollected PROVE IInv'
  <2>1. PoolInv' /\ mapTx' \subseteq mapTx
    BY <1>16, RemoveKeepsPool DEF RemoveCollected, IInv
  <2>2. PoolOutsideChain' /\ LoopInv'
    BY <1>16, <2>1 DEF RemoveCollected, IInv, PoolOutsideChain, ChainTxs, LoopInv
  <2>3. StateInv'
    BY <1>16 DEF RemoveCollected, IInv, StateInv
  <2> QED BY <2>1, <2>2, <2>3 DEF IInv
<1>17. ASSUME UNCHANGED vars PROVE IInv'
  <2>1. PoolInv'
    BY <1>17, KeepsPool DEF vars, IInv
  <2>2. PoolOutsideChain' /\ LoopInv' /\ StateInv'
    BY <1>17 DEF vars, IInv, PoolOutsideChain, ChainTxs, LoopInv, StateInv
  <2> QED BY <2>1, <2>2 DEF IInv
<1> QED
  BY <1>1, <1>2, <1>3, <1>4, <1>5, <1>6, <1>7, <1>8, <1>9, <1>10, <1>11, <1>12, <1>13,
     <1>14, <1>15, <1>16, <1>17 DEF Next

-----------------------------------------------------------------------------
\* IInv always holds.
LEMMA SpecIInv == Spec => []IInv
  BY InitIInv, NextIInv, PTL DEF Spec

\* Whatever the transactions, blocks and orders of events, the maps of the pool
\* agree and hold transactions that may be pooled.
THEOREM PoolTypeCorrect == Spec => []TypeOK
  BY SpecIInv, IInvImplies, PTL

\* mapNextTx is at every moment exactly what the pooled transactions spend: no
\* two of them spend the same output.
THEOREM PoolSpendsOnceAlways == Spec => []PoolSpendsOnce
  BY SpecIInv, IInvImplies, PTL

\* No pooled transaction is in the chain of the database, but for those a
\* running Reorganize has still to delete.
THEOREM PoolOutsideChainAlways == Spec => []PoolOutsideChain
  BY SpecIInv, IInvImplies, PTL

-----------------------------------------------------------------------------
(* Resurrection: what was tried stays refused while the rest is tried      *)

\* The transaction at a place
At(x) == Vtx[x[1]][x[2]]

\* While Reorganize resurrects, it has yet to delete anything, a place that was
\* tried comes before all that are left, and what is there cannot be taken
ResurrectInv ==
  pc = "resurrect" =>
    /\ vDelete \subseteq Connected(db, pindexBest)
    /\ vResurrect \subseteq Disconnected(pindexBest, db)
    /\ vDelete = Connected(db, pindexBest) =>
         \A y \in Disconnected(pindexBest, db) \ vResurrect :
           /\ ~ Acceptable(At(y))
           /\ \A x \in vResurrect : ResurrectedBefore(y, x)

\* Blocks of one chain have different heights.
LEMMA HeightGrows ==
  ASSUME NEW b \in Blocks, NEW a \in Chain[b], a # b
  PROVE  Height(a) \in Int /\ Height(b) \in Int /\ Height(a) < Height(b)
<1>1. /\ a \in Blocks /\ Chain[a] \subseteq Chain[b] /\ b \notin Chain[a] /\ b \in Chain[b]
      /\ IsFiniteSet(Chain[b])
  BY ChainAssumption
<1>2. Chain[a] # Chain[b]
  BY <1>1
<1>3. /\ Cardinality(Chain[a]) \in Nat /\ Cardinality(Chain[b]) \in Nat
      /\ Cardinality(Chain[a]) < Cardinality(Chain[b])
  BY <1>1, <1>2, FS_Subset, FS_CardinalityType
<1> QED BY <1>3 DEF Height

\* A transaction is in one block of a chain only.
LEMMA OneBlock ==
  ASSUME NEW b \in Blocks, NEW a \in Chain[b], NEW c \in Chain[b], NEW t,
         t \in TxsOf(a), t \in TxsOf(c)
  PROVE  a = c
<1>1. t \in ChainTxs(b)
  BY DEF ChainTxs
<1> DEFINE S == {d \in Chain[b] : t \in TxsOf(d)}
<1>2. Cardinality(S) = 1
  BY <1>1, ConnectAssumption
<1>3. IsFiniteSet(S)
  <2>1. IsFiniteSet(Chain[b]) /\ S \subseteq Chain[b]
    BY ChainAssumption
  <2> QED BY <2>1, FS_Subset
<1>4. a \in S /\ c \in S
  OBVIOUS
<1> HIDE DEF S
<1>5. PICK d : S = {d}
  BY <1>2, <1>3, FS_Singleton
<1> QED BY <1>4, <1>5

\* What is connected earlier is in an earlier block or earlier in the block.
LEMMA ConnectedBeforeCases ==
  ASSUME NEW b, NEW n, NEW t \in ConnectedBefore(b, n)
  PROVE  (\E c \in Chain[b] \ {b} : t \in TxsOf(c)) \/ (\E i \in 1..(n - 1) : t = Vtx[b][i])
<1>1. t \in UNION {TxsOf(c) : c \in Chain[b] \ {b}} \/ t \in {Vtx[b][i] : i \in 1..(n - 1)}
  BY DEF ConnectedBefore
<1> QED BY <1>1

\* A transaction spends outputs of transactions at earlier places only.
LEMMA InputsComeFirst ==
  ASSUME NEW b \in Blocks, NEW a \in Blocks,
         NEW x \in Disconnected(b, a), NEW y \in Disconnected(b, a),
         ResurrectedBefore(y, x), NEW o \in Vin[At(y)]
  PROVE  o[1] # At(x)
<1> SUFFICES ASSUME o[1] = At(x) PROVE FALSE
  OBVIOUS
<1>1. /\ x[1] \in Chain[b] /\ x[2] \in DOMAIN Vtx[x[1]] /\ x = <<x[1], x[2]>>
      /\ y[1] \in Chain[b] /\ y[2] \in DOMAIN Vtx[y[1]] /\ y = <<y[1], y[2]>>
  BY DEF Disconnected, Resurrectable, LostBlocks
<1>2. /\ x[1] \in Blocks /\ y[1] \in Blocks /\ Chain[y[1]] \subseteq Chain[b]
      /\ Vtx[x[1]] \in Seq(Txs) /\ Vtx[y[1]] \in Seq(Txs)
  BY <1>1, ChainAssumption
<1>3. x[2] \in Nat /\ y[2] \in Nat /\ DOMAIN Vtx[y[1]] = 1..Len(Vtx[y[1]]) /\ Len(Vtx[y[1]]) \in Nat
  BY <1>1, <1>2
<1>4. At(x) \in TxsOf(x[1])
  BY <1>1 DEF At, TxsOf
<1>5. At(x) \in ConnectedBefore(y[1], y[2])
  BY <1>1, <1>2, ConnectAssumption DEF At
<1>6. CASE \E c \in Chain[y[1]] \ {y[1]} : At(x) \in TxsOf(c)
  <2>1. PICK c \in Chain[y[1]] \ {y[1]} : At(x) \in TxsOf(c)
    BY <1>6
  <2>2. x[1] = c
    BY <1>1, <1>2, <1>4, <2>1, OneBlock
  <2>3. Height(x[1]) \in Int /\ Height(y[1]) \in Int /\ Height(x[1]) < Height(y[1])
    BY <1>2, <2>1, <2>2, HeightGrows
  <2> QED BY <2>3 DEF ResurrectedBefore
<1>7. CASE \E i \in 1..(y[2] - 1) : At(x) = Vtx[y[1]][i]
  <2>1. PICK i \in 1..(y[2] - 1) : At(x) = Vtx[y[1]][i]
    BY <1>7
  <2>2. i \in DOMAIN Vtx[y[1]] /\ i < y[2]
    BY <1>1, <1>3
  <2>3. At(x) \in TxsOf(y[1])
    BY <2>1, <2>2 DEF TxsOf
  <2>4. x[1] = y[1]
    BY <1>1, <1>2, <1>4, <2>3, OneBlock
  <2>5. x[2] = i
    BY <1>1, <1>2, <2>1, <2>2, <2>4, ConnectAssumption DEF At
  <2>6. Height(x[1]) \in Int
    <3>1. IsFiniteSet(Chain[x[1]])
      BY <1>2, ChainAssumption
    <3> QED BY <3>1, FS_CardinalityType DEF Height
  <2> QED BY <1>3, <2>2, <2>4, <2>5, <2>6 DEF ResurrectedBefore
<1> QED BY <1>5, <1>6, <1>7, ConnectedBeforeCases

\* What the pool refused it refuses with one transaction more, if it does not
\* spend that one.
LEMMA StaysRefused ==
  ASSUME PoolInv, NEW t \in Txs, NEW u \in Txs, ~ Acceptable(t), addUnchecked(u), UNCHANGED <<db, pindexBest>>,
         \A o \in Vin[t] : o[1] # u
  PROVE  ~ Acceptable(t)'
<1>1. CASE DeclinedAtOnce(t)
  BY <1>1 DEF Acceptable, DeclinedAtOnce, addUnchecked, ChainTxs
<1>2. CASE MissingInputs(t)
  <2>1. MissingInputs(t)'
    BY <1>2 DEF MissingInputs, addUnchecked, ChainTxs
  <2> QED BY <2>1 DEF Acceptable
<1>3. CASE ~ MissingInputs(t) /\ ~ InputsConnect(t)
  <2>1. \A o \in Vin[t] : PrevFractions(o[1])' = PrevFractions(o[1])
    <3> SUFFICES ASSUME NEW o \in Vin[t] PROVE PrevFractions(o[1])' = PrevFractions(o[1])
      OBVIOUS
    <3>1. CASE o[1] \in ChainTxs(db)
      BY <3>1 DEF PrevFractions, ChainTxs, ReadFractions, IndexIn
    <3>2. CASE o[1] \notin ChainTxs(db)
      <4>1. o[1] \in DOMAIN mapPackedFractions /\ o[1] # u
        BY <1>3, <3>2 DEF MissingInputs, PoolInv
      <4>2. mapPackedFractions'[o[1]] = mapPackedFractions[o[1]]
        BY <4>1 DEF addUnchecked
      <4> QED BY <3>2, <4>2 DEF PrevFractions, ChainTxs
    <3> QED BY <3>1, <3>2
  <2>2. CalculateStandardFractions(t, PegIndex[pindexBest])' = CalculateStandardFractions(t, PegIndex[pindexBest])
    BY <2>1 DEF CalculateStandardFractions
  <2>3. ~ InputsConnect(t)'
    BY <1>3, <2>2 DEF InputsConnect, FractionsOK, IsSpent, ChainTxs
  <2> QED BY <2>3 DEF Acceptable
<1> QED BY <1>1, <1>2, <1>3 DEF Acceptable

\* What can be taken depends on the chain and the pool.
LEMMA SameAcceptable ==
  ASSUME UNCHANGED <<db, pindexBest, pool>> PROVE \A t : Acceptable(t)' <=> Acceptable(t)
  BY DEF pool, Acceptable, DeclinedAtOnce, MissingInputs, InputsConnect,
     CalculateStandardFractions, PrevFractions, FractionsOK, IsSpent, ChainTxs

\* The places of the disconnected transactions.
LEMMA PlaceLemma ==
  ASSUME NEW b \in Blocks, NEW a, NEW x \in Disconnected(b, a)
  PROVE  At(x) \in Txs
<1>1. PICK c \in Chain[b] : \E n \in DOMAIN Vtx[c] : x = <<c, n>>
  BY DEF Disconnected, Resurrectable, LostBlocks
<1>2. c \in Blocks /\ Vtx[c] \in Seq(Txs)
  BY ChainAssumption
<1>3. x[1] = c /\ x[2] \in DOMAIN Vtx[c]
  BY <1>1
<1> QED BY <1>2, <1>3 DEF At

\* One step of the resurrection.
LEMMA ResurrectOneKeeps ==
  ASSUME IInv, ResurrectInv, ResurrectOne PROVE ResurrectInv'
<1> USE DEF chain, pool, orphanLoop, reorgLoop, reviewLoop
<1>1. PICK x \in vResurrect :
        /\ \A y \in vResurrect : ResurrectedBefore(x, y)
        /\ IF Acceptable(At(x)) THEN addUnchecked(At(x)) ELSE UNCHANGED pool
        /\ vResurrect' = vResurrect \ {x}
  BY DEF ResurrectOne, At
<1>2. pc = "resurrect" /\ UNCHANGED <<db, pindexBest, vDelete>>
  BY DEF ResurrectOne
<1>3. PICK D : D = Disconnected(pindexBest, db)
  OBVIOUS
<1>4. /\ D' = D /\ Disconnected(pindexBest, db)' = D
      /\ Connected(db, pindexBest)' = Connected(db, pindexBest)
  BY <1>2, <1>3 DEF Disconnected, Resurrectable, LostBlocks, Connected
<1>5. vDelete \subseteq Connected(db, pindexBest) /\ vResurrect \subseteq D
  BY <1>2, <1>3 DEF ResurrectInv
<1>6. pindexBest \in Blocks /\ db \in Blocks /\ PoolInv
  BY DEF IInv, StateInv
<1>7. ASSUME vDelete = Connected(db, pindexBest), NEW y \in D \ vResurrect'
      PROVE  /\ ~ Acceptable(At(y))'
             /\ \A z \in vResurrect' : ResurrectedBefore(y, z)
  <2>1. At(x) \in Txs /\ At(y) \in Txs
    BY <1>3, <1>5, <1>6, <1>7, PlaceLemma
  <2>2. CASE y = x
    <3>1. \A z \in vResurrect' : ResurrectedBefore(y, z)
      BY <1>1, <2>2
    <3>2. CASE Acceptable(At(x))
      BY <1>1, <2>2, <3>2 DEF addUnchecked, Acceptable, DeclinedAtOnce, At
    <3>3. CASE ~ Acceptable(At(x))
      <4>1. UNCHANGED pool
        BY <1>1, <3>3
      <4> QED BY <1>2, <2>2, <3>1, <3>3, <4>1, SameAcceptable DEF At
    <3> QED BY <3>1, <3>2, <3>3
  <2>3. CASE y # x
    <3>1. y \in D \ vResurrect
      BY <1>1, <1>7, <2>3
    <3>2. ~ Acceptable(At(y)) /\ \A z \in vResurrect : ResurrectedBefore(y, z)
      BY <1>2, <1>3, <1>7, <3>1 DEF ResurrectInv
    <3>3. \A z \in vResurrect' : ResurrectedBefore(y, z)
      BY <1>1, <3>2
    <3>4. CASE Acceptable(At(x))
      <4>1. \A o \in Vin[At(y)] : o[1] # At(x)
        BY <1>1, <1>3, <1>5, <1>6, <1>7, <3>2, InputsComeFirst
      <4>2. ~ Acceptable(At(y))'
        BY <1>1, <1>2, <1>6, <2>1, <3>2, <3>4, <4>1, StaysRefused DEF At
      <4> QED BY <3>3, <4>2
    <3>5. CASE ~ Acceptable(At(x))
      <4>1. UNCHANGED pool
        BY <1>1, <3>5
      <4> QED BY <1>2, <3>2, <3>3, <4>1, SameAcceptable DEF At
    <3> QED BY <3>4, <3>5
  <2> QED BY <2>2, <2>3
<1>8. vDelete' \subseteq Connected(db, pindexBest)' /\ vResurrect' \subseteq Disconnected(pindexBest, db)'
  BY <1>1, <1>2, <1>4, <1>5
<1>9. (vDelete = Connected(db, pindexBest))' =>
        (\A y \in Disconnected(pindexBest, db) \ vResurrect :
           /\ ~ Acceptable(At(y))
           /\ \A z \in vResurrect : ResurrectedBefore(y, z))'
  BY <1>2, <1>4, <1>7 DEF ResurrectedBefore, Height, At
<1> QED BY <1>8, <1>9 DEF ResurrectInv

\* Every action keeps what the resurrection relies on.
LEMMA NextResurrectInv == IInv /\ ResurrectInv /\ [Next]_vars => ResurrectInv'
<1> SUFFICES ASSUME IInv, ResurrectInv, [Next]_vars PROVE ResurrectInv'
  OBVIOUS
<1> USE DEF chain, pool, orphanLoop, reorgLoop, reviewLoop
<1>1. ASSUME NEW t \in Txs,
             TxMessage(t) \/ AddOrphanTx(t) \/ SendTransaction(t) \/ TryOrphan(t) \/ ReviewRoot(t)
      PROVE  ResurrectInv'
  <2>1. pc' # "resurrect"
    BY <1>1 DEF TxMessage, AddOrphanTx, SendTransaction, TryOrphan, ReviewRoot
  <2> QED BY <2>1 DEF ResurrectInv
<1>2. ASSUME NEW b \in Blocks, SetBestChainExtend(b) \/ SetBestChainInner(b) PROVE ResurrectInv'
  <2>1. pc' # "resurrect"
    BY <1>2 DEF SetBestChainExtend, SetBestChainInner
  <2> QED BY <2>1 DEF ResurrectInv
<1>3. ASSUME NextInQueue \/ EraseOrphans \/ Reorganized \/ ReviewDependent \/ RemoveCollected
      PROVE  ResurrectInv'
  <2>1. pc' # "resurrect"
    BY <1>3 DEF NextInQueue, EraseOrphans, Reorganized, ReviewDependent, RemoveCollected
  <2> QED BY <2>1 DEF ResurrectInv
<1>4. ASSUME NEW ibd \in BOOLEAN, NewBestBlock(ibd) PROVE ResurrectInv'
  <2>1. pc' # "resurrect"
    BY <1>4 DEF NewBestBlock
  <2> QED BY <2>1 DEF ResurrectInv
<1>5. ASSUME NEW b \in Blocks, Reorganize(b) PROVE ResurrectInv'
  <2>1. /\ vDelete' = Connected(db', pindexBest)
        /\ vResurrect' = Disconnected(pindexBest, db')
        /\ pindexBest' = pindexBest
    BY <1>5 DEF Reorganize
  <2>2. vDelete' = Connected(db, pindexBest)' /\ vResurrect' = Disconnected(pindexBest, db)'
    BY <2>1 DEF Connected, Disconnected, Resurrectable, LostBlocks
  <2> QED BY <2>2 DEF ResurrectInv
<1>6. ASSUME NEW t \in Txs, DeleteOne(t) PROVE ResurrectInv'
  <2>1. /\ pc = "resurrect" /\ t \in vDelete /\ vDelete' = vDelete \ {t}
        /\ UNCHANGED <<db, pindexBest, vResurrect>>
    BY <1>6 DEF DeleteOne
  <2>2. Connected(db, pindexBest)' = Connected(db, pindexBest) /\ Disconnected(pindexBest, db)' = Disconnected(pindexBest, db)
    BY <2>1 DEF Connected, Disconnected, Resurrectable, LostBlocks
  <2>3. vDelete' \subseteq Connected(db, pindexBest)' /\ vResurrect' \subseteq Disconnected(pindexBest, db)'
    BY <2>1, <2>2 DEF ResurrectInv
  <2>4. vDelete' # Connected(db, pindexBest)'
    BY <2>1, <2>2 DEF ResurrectInv
  <2> QED BY <2>3, <2>4 DEF ResurrectInv
<1>7. ASSUME UNCHANGED vars PROVE ResurrectInv'
  <2>1. \A t : Acceptable(t)' <=> Acceptable(t)
    BY <1>7, SameAcceptable DEF vars
  <2> QED BY <1>7, <2>1 DEF vars, ResurrectInv, Connected, Disconnected, Resurrectable, LostBlocks, ResurrectedBefore, Height, At
<1> QED
  BY <1>1, <1>2, <1>3, <1>4, <1>5, <1>6, <1>7, ResurrectOneKeeps DEF Next

\* When everything was tried and nothing deleted yet, nothing refused could be taken.
LEMMA ResurrectInvImplies == IInv /\ ResurrectInv => ResurrectionComplete
<1> SUFFICES ASSUME IInv, ResurrectInv, pc = "resurrect", vResurrect = {}, vDelete = Connected(db, pindexBest),
                    NEW c \in Chain[pindexBest] \ Chain[db], Height(c) > LastCheckpoint,
                    NEW t \in TxsOf(c), Acceptable(t)
             PROVE  FALSE
  BY DEF ResurrectionComplete
<1>1. c \in Resurrectable(pindexBest, db)
  BY DEF Resurrectable, LostBlocks
<1>2. PICK n \in DOMAIN Vtx[c] : t = Vtx[c][n]
  BY DEF TxsOf
<1>3. t \notin BlockOnly
  BY DEF Acceptable, DeclinedAtOnce
<1>4. <<c, n>> \in Disconnected(pindexBest, db)
  BY <1>1, <1>2, <1>3 DEF Disconnected, Resurrectable, LostBlocks
<1>5. ~ Acceptable(At(<<c, n>>))
  BY <1>4 DEF ResurrectInv
<1> QED BY <1>2, <1>5 DEF At

\* However the branches, their transactions and the pool look, and wherever the last
\* checkpoint lies, one pass over the disconnected transactions above it in
\* Reorganize's order takes all of them that can be taken.
THEOREM ResurrectionIsComplete == Spec => []ResurrectionComplete
<1>1. Init => ResurrectInv
  BY DEF Init, ResurrectInv
<1> QED BY <1>1, SpecIInv, NextResurrectInv, ResurrectInvImplies, PTL DEF Spec

-----------------------------------------------------------------------------
(* Induction, with the set of the cases that hold in place of a predicate,  *)
(* and the functions that recursion defines                                 *)

\* A set of numbers that is not empty has a least one.
LEMMA LeastNumber ==
  ASSUME NEW T, T \subseteq Nat, T # {}
  PROVE  \E m \in T : \A k \in T : ~ (k < m)
<1>1. PICK m \in T : \A k \in T : ~ (<<k, m>> \in OpToRel(<, Nat))
  BY WFMin, NatLessThanWellFounded
<1>2. \A k \in T : k < m => <<k, m>> \in OpToRel(<, Nat)
  BY DEF OpToRel
<1> QED BY <1>1, <1>2

\* Induction over the numbers.
LEMMA NumberInduction ==
  ASSUME NEW G, 0 \in G, \A n \in Nat : n \in G => n + 1 \in G
  PROVE  \A n \in Nat : n \in G
<1> SUFFICES ASSUME Nat \ G # {} PROVE FALSE
  OBVIOUS
<1>1. PICK m \in Nat \ G : \A k \in Nat \ G : ~ (k < m)
  <2> DEFINE T == Nat \ G
  <2>1. T \subseteq Nat /\ T # {}
    OBVIOUS
  <2> HIDE DEF T
  <2>2. \E m \in T : \A k \in T : ~ (k < m)
    BY <2>1, LeastNumber
  <2> QED BY <2>2 DEF T
<1>2. m # 0 /\ m - 1 \in Nat /\ m - 1 < m /\ m = (m - 1) + 1
  BY <1>1
<1>3. m - 1 \in G
  BY <1>1, <1>2
<1> QED BY <1>1, <1>2, <1>3

\* Induction over the transactions: what holds of one when it holds of those
\* whose outputs it spends holds of all.
LEMMA TxInduction ==
  ASSUME NEW G, \A t \in Txs : (\A o \in Vin[t] : o[1] \in G) => t \in G
  PROVE  \A t \in Txs : t \in G
<1> SUFFICES ASSUME Txs \ G # {} PROVE FALSE
  OBVIOUS
<1>1. PICK m \in Txs \ G : \A k \in Txs \ G : ~ (k < m)
  <2> DEFINE T == Txs \ G
  <2>1. T \subseteq Nat /\ T # {}
    BY TxAssumption
  <2> HIDE DEF T
  <2>2. \E m \in T : \A k \in T : ~ (k < m)
    BY <2>1, LeastNumber
  <2> QED BY <2>2 DEF T
<1>2. \A o \in Vin[m] : o[1] \in Txs /\ o[1] < m
  BY TxAssumption DEF OutPoints
<1>3. \A o \in Vin[m] : o[1] \in G
  BY <1>1, <1>2
<1> QED BY <1>1, <1>3

\* The equation of a recursion that starts with c and goes on by F
IsRecursion(r, F, c) == r = [n \in Nat |-> IF n = 0 THEN c ELSE F[r[n - 1]]]

\* It has a solution.
LEMMA NatRecursion ==
  ASSUME NEW F, NEW c
  PROVE  \E r : IsRecursion(r, F, c)
<1> DEFINE Good(g, n) == g[0] = c /\ \A k \in 1..n : g[k] = F[g[k - 1]]
           N == {n \in Nat : \E g : Good(g, n)}
<1>1. 0 \in N
  <2>1. Good([n \in Nat |-> c], 0)
    OBVIOUS
  <2> QED BY <2>1
<1>2. ASSUME NEW n \in Nat, n \in N PROVE n + 1 \in N
  <2>1. PICK g : Good(g, n)
    BY <1>2
  <2> DEFINE h == [k \in Nat |-> IF k = n + 1 THEN F[g[n]] ELSE g[k]]
  <2>2. h[0] = c
    BY <2>1
  <2>3. ASSUME NEW k \in 1..(n + 1) PROVE h[k] = F[h[k - 1]]
    <3>1. CASE k = n + 1
      BY <3>1
    <3>2. CASE k # n + 1
      BY <2>1, <3>2
    <3> QED BY <3>1, <3>2
  <2>4. Good(h, n + 1)
    BY <2>2, <2>3
  <2> HIDE DEF h, Good
  <2> QED BY <2>4
<1>3. \A n \in Nat : \E g : Good(g, n)
  <2> HIDE DEF N
  <2>1. \A n \in Nat : n \in N
    BY <1>1, <1>2, NumberInduction
  <2> QED BY <2>1 DEF N
<1> DEFINE at(n) == CHOOSE g : Good(g, n)
<1>4. \A n \in Nat : Good(at(n), n)
  <2> HIDE DEF Good
  <2> QED BY <1>3
<1>5. ASSUME NEW n \in Nat, NEW m \in Nat, n <= m PROVE at(n)[n] = at(m)[n]
  <2> DEFINE K == {k \in Nat : k <= n => at(n)[k] = at(m)[k]}
  <2>1. 0 \in K
    BY <1>4
  <2>2. ASSUME NEW k \in Nat, k \in K PROVE k + 1 \in K
    <3> SUFFICES ASSUME k + 1 <= n PROVE at(n)[k + 1] = at(m)[k + 1]
      OBVIOUS
    <3>1. k + 1 \in 1..n /\ k + 1 \in 1..m /\ (k + 1) - 1 = k /\ k <= n
      BY <1>5
    <3>2. at(n)[k + 1] = F[at(n)[k]] /\ at(m)[k + 1] = F[at(m)[k]]
      <4>1. Good(at(n), n) /\ Good(at(m), m)
        BY <1>4
      <4> HIDE DEF at
      <4> QED BY <3>1, <4>1
    <3> HIDE DEF at
    <3> QED BY <2>2, <3>1, <3>2
  <2> HIDE DEF K
  <2>3. n \in K
    BY <2>1, <2>2, NumberInduction
  <2> QED BY <2>3 DEF K
<1> DEFINE r == [n \in Nat |-> at(n)[n]]
<1>6. \A n \in Nat : r[n] = IF n = 0 THEN c ELSE F[r[n - 1]]
  <2> SUFFICES ASSUME NEW n \in Nat PROVE at(n)[n] = IF n = 0 THEN c ELSE F[r[n - 1]]
    OBVIOUS
  <2>1. CASE n = 0
    BY <1>4, <2>1
  <2>2. CASE n # 0
    <3>1. n \in 1..n /\ n - 1 \in Nat /\ n - 1 <= n
      BY <2>2
    <3>2. at(n)[n] = F[at(n)[n - 1]]
      <4>1. Good(at(n), n)
        BY <1>4
      <4> HIDE DEF at
      <4> QED BY <3>1, <4>1
    <3>3. at(n)[n - 1] = r[n - 1]
      <4>1. at(n - 1)[n - 1] = at(n)[n - 1]
        BY <1>5, <3>1
      <4> HIDE DEF at
      <4> QED BY <3>1, <4>1
    <3> QED BY <2>2, <3>2, <3>3
  <2> QED BY <2>1, <2>2
<1>7. r = [n \in Nat |-> IF n = 0 THEN c ELSE F[r[n - 1]]]
  <2>1. r = [n \in Nat |-> r[n]]
    OBVIOUS
  <2> HIDE DEF r
  <2> QED BY <1>6, <2>1
<1> HIDE DEF r
<1> QED BY <1>7 DEF IsRecursion

-----------------------------------------------------------------------------
(* Where the coins of a transaction come from, and its fractions           *)

\* A set of transactions that holds, with each, those whose outputs it spends
Closed(C) == C \subseteq Txs /\ \A v \in C : \A o \in Vin[v] : o[1] \in C

\* The equation that defines Origins
IsOrigins(f) == f = [t \in Txs |-> {t} \union UNION {f[o[1]] : o \in Vin[t]}]

\* Origins has a solution, the least closed sets.
LEMMA OriginsExists == IsOrigins(Origins)
<1> DEFINE f == [t \in Txs |-> {u \in Txs : \A C : Closed(C) /\ t \in C => u \in C}]
<1>1. \A t \in Txs : \A o \in Vin[t] : o[1] \in Txs
  BY TxAssumption DEF OutPoints
<1>2. ASSUME NEW t \in Txs PROVE f[t] = {t} \union UNION {f[o[1]] : o \in Vin[t]}
  <2> DEFINE U == {t} \union UNION {f[o[1]] : o \in Vin[t]}
  <2>1. t \in f[t]
    OBVIOUS
  <2>2. ASSUME NEW o \in Vin[t], NEW u \in f[o[1]] PROVE u \in f[t]
    <3>1. o[1] \in Txs
      BY <1>1
    <3>2. u \in Txs /\ \A C : Closed(C) /\ o[1] \in C => u \in C
      BY <2>2, <3>1
    <3>3. \A C : Closed(C) /\ t \in C => o[1] \in C
      BY DEF Closed
    <3> QED BY <3>2, <3>3
  <2>3. U \subseteq f[t]
    <3> HIDE DEF f
    <3> QED BY <2>1, <2>2
  <2>4. Closed(U)
    <3>1. U \subseteq Txs
      BY <1>1
    <3>2. ASSUME NEW v \in U, NEW p \in Vin[v] PROVE p[1] \in U
      <4>1. CASE v = t
        <5>1. p[1] \in f[p[1]] /\ p \in Vin[t]
          BY <1>1, <4>1
        <5> HIDE DEF f
        <5> QED BY <5>1
      <4>2. CASE \E o \in Vin[t] : v \in f[o[1]]
        <5>1. PICK o \in Vin[t] : v \in f[o[1]]
          BY <4>2
        <5>2. v \in Txs /\ \A C : Closed(C) /\ o[1] \in C => v \in C
          BY <1>1, <5>1
        <5>3. p[1] \in Txs /\ \A C : Closed(C) /\ o[1] \in C => p[1] \in C
          BY <1>1, <5>2 DEF Closed
        <5>4. p[1] \in f[o[1]]
          BY <1>1, <5>3
        <5> HIDE DEF f
        <5> QED BY <5>4
      <4> HIDE DEF f
      <4> QED BY <4>1, <4>2
    <3> HIDE DEF U
    <3> QED BY <3>1, <3>2 DEF Closed
  <2>5. f[t] \subseteq U
    <3>1. t \in U
      OBVIOUS
    <3> HIDE DEF U
    <3> QED BY <2>4, <3>1
  <2> HIDE DEF f
  <2> QED BY <2>3, <2>5
<1>3. IsOrigins(f)
  <2>1. f = [t \in Txs |-> f[t]]
    OBVIOUS
  <2> HIDE DEF f
  <2> QED BY <1>2, <2>1 DEF IsOrigins
<1>4. \E g : IsOrigins(g)
  <2> HIDE DEF f
  <2> QED BY <1>3
<1>5. Origins = CHOOSE g : IsOrigins(g)
  BY DEF Origins, IsOrigins
<1> QED BY <1>4, <1>5

\* The coins of a transaction come from it and from where its inputs' come from.
LEMMA OriginsLemma ==
  ASSUME NEW t \in Txs
  PROVE  Origins[t] = {t} \union UNION {Origins[o[1]] : o \in Vin[t]}
  BY OriginsExists DEF IsOrigins

\* A chain holds all that the coins of its transactions come from.
LEMMA ChainHoldsInputs ==
  ASSUME NEW b \in Blocks, NEW t \in ChainTxs(b), NEW o \in Vin[t]
  PROVE  t \in Txs /\ o[1] \in ChainTxs(b)
<1>1. PICK a \in Chain[b] : t \in TxsOf(a)
  BY DEF ChainTxs
<1>2. PICK n \in DOMAIN Vtx[a] : t = Vtx[a][n]
  BY <1>1 DEF TxsOf
<1>3. a \in Blocks /\ Chain[a] \subseteq Chain[b] /\ Vtx[a] \in Seq(Txs)
  BY ChainAssumption
<1>4. t \in Txs
  BY <1>2, <1>3
<1>5. o[1] \in ConnectedBefore(a, n)
  BY <1>2, <1>3, ConnectAssumption
<1>6. CASE \E c \in Chain[a] \ {a} : o[1] \in TxsOf(c)
  <2>1. \E c \in Chain[b] : o[1] \in TxsOf(c)
    BY <1>3, <1>6
  <2> QED BY <1>4, <2>1 DEF ChainTxs
<1>7. CASE \E i \in 1..(n - 1) : o[1] = Vtx[a][i]
  <2>1. PICK i \in 1..(n - 1) : o[1] = Vtx[a][i]
    BY <1>7
  <2>2. i \in DOMAIN Vtx[a]
    BY <1>2, <1>3
  <2>3. o[1] \in TxsOf(a)
    BY <2>1, <2>2 DEF TxsOf
  <2> QED BY <1>4, <2>3 DEF ChainTxs
<1> QED BY <1>4, <1>5, <1>6, <1>7, ConnectedBeforeCases

\* The same for everything their coins come from.
LEMMA ChainHoldsOrigins ==
  ASSUME NEW b \in Blocks, NEW t \in ChainTxs(b)
  PROVE  t \in Txs /\ Origins[t] \subseteq ChainTxs(b)
<1> DEFINE G == {u \in Txs : u \in ChainTxs(b) => Origins[u] \subseteq ChainTxs(b)}
<1>1. ASSUME NEW u \in Txs, \A o \in Vin[u] : o[1] \in G PROVE u \in G
  <2> SUFFICES ASSUME u \in ChainTxs(b) PROVE Origins[u] \subseteq ChainTxs(b)
    OBVIOUS
  <2>1. \A o \in Vin[u] : o[1] \in ChainTxs(b) /\ Origins[o[1]] \subseteq ChainTxs(b)
    BY <1>1, ChainHoldsInputs
  <2> QED BY <2>1, OriginsLemma
<1> HIDE DEF G
<1>2. \A u \in Txs : u \in G
  BY <1>1, TxInduction
<1>3. t \in Txs
  <2>1. PICK a \in Chain[b] : t \in TxsOf(a)
    BY DEF ChainTxs
  <2>2. a \in Blocks /\ Vtx[a] \in Seq(Txs)
    BY ChainAssumption
  <2> QED BY <2>1, <2>2 DEF TxsOf
<1> QED BY <1>2, <1>3 DEF G

-----------------------------------------------------------------------------
\* For every output it spends, t finds the fractions that the next block would
\* compute at the given index
InputsCurrent(t, index) ==
  \A o \in Vin[t] :
    \/ o[1] \in ChainTxs(db)
    \/ o[1] \in mapTx /\ mapPackedFractions[o[1]] = FractionsAt(o[1], index)

\* The fractions computed from such inputs are those of the next block.
LEMMA CalculatesCurrent ==
  ASSUME db \in Blocks, NEW t \in Txs, NEW index, t \notin ChainTxs(db), InputsCurrent(t, index)
  PROVE  CalculateStandardFractions(t, index) = FractionsAt(t, index)
<1> DEFINE at(u) == <<u, IF u \in ChainTxs(db) THEN IndexIn(db, u) ELSE index>>
<1>1. ASSUME NEW o \in Vin[t] PROVE PrevFractions(o[1]) = {at(u) : u \in Origins[o[1]]}
  <2>1. CASE o[1] \in ChainTxs(db)
    <3>1. Origins[o[1]] \subseteq ChainTxs(db)
      BY <2>1, ChainHoldsOrigins
    <3>2. \A u \in Origins[o[1]] : at(u) = <<u, IndexIn(db, u)>>
      BY <3>1
    <3> HIDE DEF at
    <3> QED BY <2>1, <3>2 DEF PrevFractions, ReadFractions
  <2>2. CASE o[1] \notin ChainTxs(db)
    BY <2>2 DEF InputsCurrent, PrevFractions, FractionsAt
  <2> QED BY <2>1, <2>2
<1>2. at(t) = <<t, index>>
  OBVIOUS
<1>3. FractionsAt(t, index) = {at(u) : u \in Origins[t]}
  BY DEF FractionsAt
<1> HIDE DEF at
<1>4. FractionsAt(t, index) = {at(t)} \union UNION {{at(u) : u \in Origins[o[1]]} : o \in Vin[t]}
  BY <1>3, OriginsLemma
<1> QED BY <1>1, <1>2, <1>4 DEF CalculateStandardFractions

-----------------------------------------------------------------------------
(* The invariant of the fractions                                          *)

\* The fractions of the pool are those the next block would compute at index
PoolCurrent(index) == \A t \in mapTx : mapPackedFractions[t] = FractionsAt(t, index)

\* What the pool spends exists
InputsExist == \A t \in mapTx : \A o \in Vin[t] : o[2] \in 1..Vout[o[1]]

\* The fractions of t are those its inputs give now
Local(t) ==
  /\ ~ MissingInputs(t)
  /\ mapPackedFractions[t] = CalculateStandardFractions(t, PegIndex[pindexBest])

\* The transactions that spend an output on the stack
OnStack(stack) == {mapNextTx[o] : o \in {stack[i] : i \in DOMAIN stack} \intersect DOMAIN mapNextTx}

\* What the review will still look at, or remove
Awaited == vRoots \union vRemove \union OnStack(vStack)

\* A set that holds what is awaited and all that depends on it
Unsettled(D) == Awaited \subseteq D /\ Spenders(D) \subseteq D

\* What does not depend on anything awaited is as the review leaves it
Settled == \A D \in SUBSET mapTx : Unsettled(D) => \A t \in mapTx \ D : Local(t)

CurrentInv ==
  /\ IsFiniteSet(mapTx)
  /\ InputsExist
  /\ pc = "resurrect" => drifted
  /\ pc \in {"idle", "orphans"} /\ ~ drifted => PoolCurrent(PegIndex[pindexBest])
  /\ pc = "connect" /\ ~ drifted =>
       /\ IsChild(pindexNew, pindexBest) /\ db \in {pindexBest, pindexNew}
       /\ db = pindexBest \/ ~ AtPegChange(pindexNew) => PoolCurrent(PegIndex[pindexBest])
  /\ pc = "review" => Awaited \subseteq mapTx /\ Settled
  /\ pc # "review" => vRemove = {}

-----------------------------------------------------------------------------
(* A block more                                                            *)

\* The index under which a chain keeps the fractions of a transaction.
LEMMA IndexLemma ==
  ASSUME NEW b \in Blocks, NEW c \in Chain[b], NEW u \in TxsOf(c)
  PROVE  IndexIn(b, u) = PegIndex[c]
<1>1. PICK d : d = CHOOSE a \in Chain[b] : u \in TxsOf(a)
  OBVIOUS
<1>2. d \in Chain[b] /\ u \in TxsOf(d)
  BY <1>1
<1>3. d = c
  BY <1>2, OneBlock
<1> QED BY <1>1, <1>3 DEF IndexIn

\* Within an interval a block has the index of the one before it.
LEMMA SameIndex ==
  ASSUME NEW a \in Blocks, NEW b \in Blocks, IsChild(b, a), ~ AtPegChange(b)
  PROVE  PegIndex[b] = PegIndex[a]
<1>1. IsFiniteSet(Chain[a]) /\ b \notin Chain[a] /\ Chain[b] = Chain[a] \union {b}
  BY ChainAssumption DEF IsChild
<1>2. Cardinality(Chain[a]) \in Nat /\ Cardinality(Chain[b]) = Cardinality(Chain[a]) + 1
  BY <1>1, FS_CardinalityType, FS_AddElement
<1>3. Height(b) = Height(a) + 1
  BY <1>2 DEF Height
<1> QED BY <1>3, ConnectAssumption DEF AtPegChange

\* Then fractions of the pool stay what they are when the block is connected.
LEMMA ExtendKeepsFractions ==
  ASSUME db \in Blocks, NEW b \in Blocks, IsChild(b, db), db' = b,
         NEW index, PegIndex[b] = index, NEW t \in Txs
  PROVE  FractionsAt(t, index)' = FractionsAt(t, index)
<1> DEFINE old(u) == IF u \in ChainTxs(db) THEN IndexIn(db, u) ELSE index
           new(u) == IF u \in ChainTxs(b) THEN IndexIn(b, u) ELSE index
<1>1. Chain[b] = Chain[db] \union {b}
  BY DEF IsChild
<1>2. ASSUME NEW u PROVE new(u) = old(u)
  <2>1. CASE u \in ChainTxs(db)
    <3>1. PICK c \in Chain[db] : u \in TxsOf(c)
      BY <2>1 DEF ChainTxs
    <3>2. u \in ChainTxs(b)
      BY <1>1, <3>1 DEF ChainTxs
    <3>3. IndexIn(db, u) = PegIndex[c] /\ IndexIn(b, u) = PegIndex[c]
      BY <1>1, <3>1, IndexLemma
    <3> QED BY <2>1, <3>2, <3>3
  <2>2. CASE u \notin ChainTxs(db) /\ u \in ChainTxs(b)
    <3>1. u \in TxsOf(b) /\ b \in Chain[b]
      BY <1>1, <2>2 DEF ChainTxs
    <3>2. IndexIn(b, u) = PegIndex[b]
      BY <3>1, IndexLemma
    <3> QED BY <2>2, <3>2
  <2>3. CASE u \notin ChainTxs(db) /\ u \notin ChainTxs(b)
    BY <2>3
  <2> QED BY <2>1, <2>2, <2>3
<1>3. FractionsAt(t, index) = {<<u, old(u)>> : u \in Origins[t]}
  BY DEF FractionsAt
<1>4. FractionsAt(t, index)' = {<<u, new(u)>> : u \in Origins[t]}
  BY DEF FractionsAt, ChainTxs, TxsOf, IndexIn
<1> HIDE DEF old, new
<1> QED BY <1>2, <1>3, <1>4

-----------------------------------------------------------------------------
(* A transaction more, transactions less                                   *)

\* A finite pool of existing inputs stays one.
LEMMA AddKeepsInputs ==
  ASSUME IsFiniteSet(mapTx), InputsExist, NEW t \in Txs, Acceptable(t), addUnchecked(t)
  PROVE  IsFiniteSet(mapTx') /\ InputsExist'
<1>1. mapTx' = mapTx \union {t}
  BY DEF addUnchecked
<1>2. IsFiniteSet(mapTx')
  BY <1>1, FS_AddElement
<1>3. \A o \in Vin[t] : o[2] \in 1..Vout[o[1]]
  BY DEF Acceptable, InputsConnect
<1>4. InputsExist'
  BY <1>1, <1>3 DEF InputsExist
<1> QED BY <1>2, <1>4

\* What is taken at the index of the best block gets current fractions.
LEMMA AddKeepsCurrent ==
  ASSUME IInv, PoolCurrent(PegIndex[pindexBest]), NEW t \in Txs, Acceptable(t), addUnchecked(t),
         UNCHANGED <<db, pindexBest>>
  PROVE  PoolCurrent(PegIndex[pindexBest])'
<1>1. PICK index : index = PegIndex[pindexBest]
  OBVIOUS
<1>2. \A u : FractionsAt(u, index)' = FractionsAt(u, index)
  BY DEF FractionsAt, ChainTxs, IndexIn
<1>3. CalculateStandardFractions(t, index) = FractionsAt(t, index)
  <2>1. db \in Blocks /\ t \notin ChainTxs(db)
    BY DEF IInv, StateInv, Acceptable, DeclinedAtOnce
  <2>2. InputsCurrent(t, index)
    BY <1>1 DEF Acceptable, MissingInputs, InputsCurrent, PoolCurrent
  <2> QED BY <2>1, <2>2, CalculatesCurrent
<1>4. mapTx' = mapTx \union {t} /\ DOMAIN mapPackedFractions = mapTx /\ t \notin mapTx
  BY DEF addUnchecked, IInv, PoolInv, Acceptable, DeclinedAtOnce
<1>5. /\ mapPackedFractions'[t] = CalculateStandardFractions(t, index)
      /\ \A u \in mapTx : mapPackedFractions'[u] = mapPackedFractions[u]
  BY <1>1, <1>4 DEF addUnchecked
<1>6. \A u \in mapTx' : mapPackedFractions'[u] = FractionsAt(u, index)
  BY <1>1, <1>3, <1>4, <1>5 DEF PoolCurrent
<1>7. index = PegIndex[pindexBest']
  BY <1>1
<1> QED BY <1>2, <1>6, <1>7 DEF PoolCurrent

\* What stays in the pool when others leave it.
LEMMA RemoveKeepsInputs ==
  ASSUME PoolInv, IsFiniteSet(mapTx), InputsExist, NEW S, remove(S)
  PROVE  /\ IsFiniteSet(mapTx') /\ InputsExist'
         /\ mapTx' = mapTx \ S
         /\ \A u \in mapTx' : mapPackedFractions'[u] = mapPackedFractions[u]
<1>1. mapTx' = mapTx \ S
  BY RemoveKeepsPool
<1>2. IsFiniteSet(mapTx')
  BY <1>1, FS_Subset
<1>3. InputsExist'
  BY <1>1 DEF InputsExist
<1>4. DOMAIN mapPackedFractions = mapTx
  BY DEF PoolInv
<1>5. \A u \in mapTx' : mapPackedFractions'[u] = mapPackedFractions[u]
  BY <1>1, <1>4 DEF remove
<1> QED BY <1>1, <1>2, <1>3, <1>5

-----------------------------------------------------------------------------
(* remove with fRecursive takes all dependents                             *)

\* The equation of WithDependents' recursion
IsReach(r, S) == r = [n \in Nat |-> IF n = 0 THEN S ELSE r[n - 1] \union Spenders(r[n - 1])]

\* WithDependents(S) holds S and what depends on it.
LEMMA DependentsLemma ==
  ASSUME PoolInv, IsFiniteSet(mapTx), NEW S \in SUBSET mapTx
  PROVE  /\ WithDependents(S) \subseteq mapTx
         /\ S \subseteq WithDependents(S)
         /\ Spenders(WithDependents(S)) \subseteq WithDependents(S)
<1>1. \A T \in SUBSET mapTx : Spenders(T) \subseteq mapTx
  BY DEF Spenders, PoolInv, PoolSpendsOnce
<1>2. PICK F : F = [T \in SUBSET mapTx |-> T \union Spenders(T)]
  OBVIOUS
<1>3. PICK r : IsRecursion(r, F, S)
  BY NatRecursion
<1>4. r[0] = S /\ \A n \in Nat : r[n + 1] = F[r[n]]
  BY <1>3 DEF IsRecursion
<1>5. \A n \in Nat : r[n] \in SUBSET mapTx
  <2> DEFINE G == {n \in Nat : r[n] \in SUBSET mapTx}
  <2>1. 0 \in G
    BY <1>4
  <2>2. ASSUME NEW n \in Nat, n \in G PROVE n + 1 \in G
    <3>1. r[n] \in SUBSET mapTx
      BY <2>2
    <3>2. r[n + 1] = r[n] \union Spenders(r[n])
      BY <1>2, <1>4, <3>1
    <3>3. r[n + 1] \in SUBSET mapTx
      BY <1>1, <3>1, <3>2
    <3> QED BY <3>3
  <2> HIDE DEF G
  <2>3. \A n \in Nat : n \in G
    BY <2>1, <2>2, NumberInduction
  <2> QED BY <2>3 DEF G
<1>6. \A n \in Nat : r[n + 1] = r[n] \union Spenders(r[n])
  BY <1>2, <1>4, <1>5
<1>7. IsReach(r, S)
  <2>1. \A n \in Nat : n # 0 => n - 1 \in Nat /\ (n - 1) + 1 = n
    OBVIOUS
  <2>2. \A n \in Nat : r[n] = IF n = 0 THEN S ELSE r[n - 1] \union Spenders(r[n - 1])
    BY <1>4, <1>6, <2>1
  <2>3. r = [n \in Nat |-> r[n]]
    BY <1>3 DEF IsRecursion
  <2> QED BY <2>2, <2>3 DEF IsReach
<1>8. PICK q : q = CHOOSE p : IsReach(p, S)
  OBVIOUS
<1>9. IsReach(q, S)
  BY <1>7, <1>8
<1>10. WithDependents(S) = q[Cardinality(mapTx)]
  BY <1>8 DEF WithDependents, IsReach
<1>11. \A n \in Nat : q[n] = r[n]
  <2> DEFINE G == {n \in Nat : q[n] = r[n]}
  <2>1. q[0] = S /\ \A n \in Nat : q[n + 1] = q[n] \union Spenders(q[n])
    <3>1. \A n \in Nat : n + 1 \in Nat /\ n + 1 # 0 /\ (n + 1) - 1 = n
      OBVIOUS
    <3> QED BY <1>9, <3>1 DEF IsReach
  <2>2. 0 \in G
    BY <1>4, <2>1
  <2>3. ASSUME NEW n \in Nat, n \in G PROVE n + 1 \in G
    <3>1. q[n] = r[n]
      BY <2>3
    <3>2. q[n + 1] = r[n + 1]
      BY <1>6, <2>1, <3>1
    <3> QED BY <3>2
  <2> HIDE DEF G
  <2>4. \A n \in Nat : n \in G
    BY <2>2, <2>3, NumberInduction
  <2> QED BY <2>4 DEF G
<1>12. \A T \in SUBSET mapTx : IsFiniteSet(T) /\ Cardinality(T) \in Nat
  BY FS_Subset, FS_CardinalityType
<1>13. \A n \in Nat : S \subseteq r[n]
  <2> DEFINE G == {n \in Nat : S \subseteq r[n]}
  <2>1. 0 \in G /\ \A n \in Nat : n \in G => n + 1 \in G
    BY <1>4, <1>6
  <2> HIDE DEF G
  <2>2. \A n \in Nat : n \in G
    BY <2>1, NumberInduction
  <2> QED BY <2>2 DEF G
<1>14. \A n \in Nat : Spenders(r[n]) \subseteq r[n] \/ Cardinality(r[n]) >= n
  <2> DEFINE G == {n \in Nat : Spenders(r[n]) \subseteq r[n] \/ Cardinality(r[n]) >= n}
  <2>1. 0 \in G
    BY <1>5, <1>12
  <2>2. ASSUME NEW n \in Nat, n \in G PROVE n + 1 \in G
    <3>1. CASE Spenders(r[n]) \subseteq r[n]
      <4>1. r[n + 1] = r[n]
        BY <1>6, <3>1
      <4> QED BY <3>1, <4>1
    <3>2. CASE ~ (Spenders(r[n]) \subseteq r[n])
      <4>1. Cardinality(r[n]) >= n
        BY <2>2, <3>2
      <4>2. r[n] \subseteq r[n + 1] /\ r[n] # r[n + 1] /\ r[n + 1] \in SUBSET mapTx
        BY <1>5, <1>6, <3>2
      <4>3. Cardinality(r[n]) < Cardinality(r[n + 1])
        BY <1>12, <4>2, FS_Subset
      <4>4. Cardinality(r[n + 1]) >= n + 1
        BY <1>5, <1>12, <4>1, <4>3
      <4> QED BY <4>4
    <3> QED BY <3>1, <3>2
  <2> HIDE DEF G
  <2>3. \A n \in Nat : n \in G
    BY <2>1, <2>2, NumberInduction
  <2> QED BY <2>3 DEF G
<1>15. PICK N \in Nat : N = Cardinality(mapTx)
  BY FS_CardinalityType
<1>16. Spenders(r[N]) \subseteq r[N]
  <2> SUFFICES ASSUME Cardinality(r[N]) >= N PROVE Spenders(r[N]) \subseteq r[N]
    BY <1>14
  <2>1. r[N] = mapTx
    BY <1>5, <1>12, <1>15, FS_Subset
  <2> QED BY <1>1, <2>1
<1> QED BY <1>5, <1>10, <1>11, <1>13, <1>15, <1>16

-----------------------------------------------------------------------------
(* reviewOnPegChange                                                       *)

\* The review is about to start
RootsAwaited == \A t \in mapTx : Independent(t) => t \in vRoots

\* From the independent transactions the review comes to all of the pool.
LEMMA ReviewStarts == PoolInv /\ RootsAwaited => Settled
<1> SUFFICES ASSUME PoolInv, RootsAwaited, NEW D \in SUBSET mapTx, Unsettled(D)
             PROVE  mapTx \subseteq D
  BY DEF Settled
<1> DEFINE G == {t \in Txs : t \in mapTx => t \in D}
<1>1. ASSUME NEW t \in Txs, \A o \in Vin[t] : o[1] \in G PROVE t \in G
  <2> SUFFICES ASSUME t \in mapTx PROVE t \in D
    OBVIOUS
  <2>1. CASE Independent(t)
    BY <2>1 DEF Unsettled, Awaited, RootsAwaited
  <2>2. CASE ~ Independent(t)
    <3>1. PICK o \in Vin[t] : o[1] \in mapTx
      BY <2>2 DEF Independent
    <3>2. o[1] \in D
      BY <1>1, <3>1
    <3>3. o \in DOMAIN mapNextTx /\ mapNextTx[o] = t
      BY DEF PoolInv, PoolSpendsOnce
    <3>4. t \in Spenders(D)
      BY <3>2, <3>3 DEF Spenders
    <3> QED BY <3>4 DEF Unsettled
  <2> QED BY <2>1, <2>2
<1> HIDE DEF G
<1>2. \A t \in Txs : t \in G
  BY <1>1, TxInduction
<1>3. mapTx \subseteq Txs
  BY DEF PoolInv
<1> QED BY <1>2, <1>3 DEF G

\* u spends no output of t
Avoids(u, t) == \A o \in Vin[u] : o[1] # t

\* The fractions of a transaction depend on those of its inputs.
LEMMA SameCalculation ==
  ASSUME NEW t, NEW u, NEW index, UNCHANGED <<db, mapTx>>,
         \A v \in mapTx \ {t} : mapPackedFractions'[v] = mapPackedFractions[v],
         Avoids(u, t), ~ MissingInputs(u)
  PROVE  CalculateStandardFractions(u, index)' = CalculateStandardFractions(u, index)
<1>1. ASSUME NEW o \in Vin[u] PROVE PrevFractions(o[1])' = PrevFractions(o[1])
  <2>1. CASE o[1] \in ChainTxs(db)
    BY <2>1 DEF PrevFractions, ChainTxs, ReadFractions, IndexIn
  <2>2. CASE o[1] \notin ChainTxs(db)
    BY <2>2 DEF PrevFractions, ChainTxs, MissingInputs, Avoids
  <2> QED BY <2>1, <2>2
<1> QED BY <1>1 DEF CalculateStandardFractions

\* What two stacks hold, one after the other.
LEMMA StackLemma ==
  ASSUME NEW A, NEW s \in Seq(A), NEW r \in Seq(A)
  PROVE  OnStack(s \o r) = OnStack(s) \union OnStack(r)
<1>1. {(s \o r)[i] : i \in DOMAIN (s \o r)} = {s[i] : i \in DOMAIN s} \union {r[i] : i \in DOMAIN r}
  <2>1. /\ DOMAIN s = 1..Len(s) /\ DOMAIN r = 1..Len(r) /\ DOMAIN (s \o r) = 1..(Len(s) + Len(r))
        /\ Len(s) \in Nat /\ Len(r) \in Nat
    OBVIOUS
  <2>2. /\ \A i \in 1..Len(s) : (s \o r)[i] = s[i]
        /\ \A i \in 1..Len(r) : (s \o r)[Len(s) + i] = r[i]
    OBVIOUS
  <2>3. ASSUME NEW i \in 1..(Len(s) + Len(r)), i \notin 1..Len(s)
        PROVE  (s \o r)[i] \in {r[j] : j \in 1..Len(r)}
    <3>1. i - Len(s) \in 1..Len(r) /\ Len(s) + (i - Len(s)) = i
      BY <2>1, <2>3
    <3>2. (s \o r)[i] = r[i - Len(s)]
      BY <2>2, <3>1
    <3> QED BY <3>1, <3>2
  <2>4. \A i \in 1..Len(s) : i \in 1..(Len(s) + Len(r))
    BY <2>1
  <2>5. \A i \in 1..Len(r) : Len(s) + i \in 1..(Len(s) + Len(r))
    BY <2>1
  <2>6. PICK q : q = s \o r
    OBVIOUS
  <2>7. ASSUME NEW i \in DOMAIN q PROVE q[i] \in {s[j] : j \in DOMAIN s} \union {r[j] : j \in DOMAIN r}
    BY <2>1, <2>2, <2>3, <2>6
  <2>8. ASSUME NEW i \in DOMAIN s PROVE s[i] \in {q[j] : j \in DOMAIN q}
    BY <2>1, <2>2, <2>4, <2>6
  <2>9. ASSUME NEW i \in DOMAIN r PROVE r[i] \in {q[j] : j \in DOMAIN q}
    BY <2>1, <2>2, <2>5, <2>6
  <2>10. {q[i] : i \in DOMAIN q} = {s[i] : i \in DOMAIN s} \union {r[i] : i \in DOMAIN r}
    BY <2>7, <2>8, <2>9
  <2> QED BY <2>6, <2>10
<1> QED BY <1>1 DEF OnStack

\* The stack that a review pushes holds all that spends the transaction.
LEMMA OutputsLemma ==
  ASSUME PoolInv, InputsExist, NEW t \in Txs
  PROVE  Spenders({t}) \subseteq OnStack(OutputsOf(t))
<1> SUFFICES ASSUME NEW o \in DOMAIN mapNextTx, o[1] = t PROVE mapNextTx[o] \in OnStack(OutputsOf(t))
  BY DEF Spenders
<1>1. mapNextTx[o] \in mapTx /\ o \in Vin[mapNextTx[o]] /\ o \in OutPoints
  BY DEF PoolInv, PoolSpendsOnce
<1>2. o[2] \in 1..Vout[t] /\ o = <<t, o[2]>>
  BY <1>1 DEF InputsExist, OutPoints
<1>3. o[2] \in DOMAIN OutputsOf(t) /\ OutputsOf(t)[o[2]] = o
  BY <1>2 DEF OutputsOf
<1> QED BY <1>3 DEF OnStack

\* The review of one transaction: it is as it should be, or it will be removed,
\* and what depends on it is awaited.
LEMMA ReviewKeepsSettled ==
  ASSUME PoolInv, InputsExist, Awaited \subseteq mapTx, Settled,
         UNCHANGED <<db, pindexBest, mapTx, mapNextTx>>,
         NEW t \in mapTx, NEW rest \in Seq(OutPoints), Review(t, rest),
         Awaited \subseteq {t} \union vRoots' \union vRemove \union OnStack(rest),
         vRoots' \subseteq mapTx
  PROVE  Awaited' \subseteq mapTx' /\ Settled'
<1>1. t \in Txs /\ t \notin {o[1] : o \in Vin[t]}
  BY TxAssumption DEF PoolInv
<1>2. \A D : Spenders(D)' = Spenders(D)
  BY DEF Spenders
<1>3. \A st : OnStack(st)' = OnStack(st) /\ OnStack(st) \subseteq mapTx
  BY DEF OnStack, PoolInv, PoolSpendsOnce
<1>4. \A u : MissingInputs(u)' <=> MissingInputs(u)
  BY DEF MissingInputs, ChainTxs
<1>5. PICK index : index = PegIndex[pindexBest]
  OBVIOUS
<1>6. index = PegIndex[pindexBest']
  BY <1>5
<1>7. vRemove \subseteq mapTx
  BY DEF Awaited
<1>8. CASE ReviewPasses(t)
  <2>1. /\ mapPackedFractions' = [mapPackedFractions EXCEPT ![t] = CalculateStandardFractions(t, index)]
        /\ vStack' = OutputsOf(t) \o rest
        /\ vRemove' = vRemove
    BY <1>5, <1>8 DEF Review
  <2>2. OutputsOf(t) \in Seq(OutPoints)
    BY <1>1, OutputsType
  <2>3. OnStack(vStack') = OnStack(OutputsOf(t)) \union OnStack(rest)
    BY <2>1, <2>2, StackLemma
  <2>4. Awaited' = vRoots' \union vRemove \union OnStack(OutputsOf(t)) \union OnStack(rest)
    <3>1. OnStack(vStack)' = OnStack(vStack')
      BY DEF OnStack
    <3> QED BY <2>1, <2>3, <3>1 DEF Awaited
  <2>5. Awaited' \subseteq mapTx'
    BY <1>3, <1>7, <2>4
  <2>6. ASSUME NEW D \in SUBSET mapTx, Awaited' \subseteq D, Spenders(D) \subseteq D, NEW u \in mapTx \ D
        PROVE  Local(u)'
    <3>1. Spenders({t}) \subseteq D
      BY <1>1, <2>4, <2>6, OutputsLemma
    <3>2. Spenders(D \union {t}) \subseteq D \union {t}
      BY <2>6, <3>1 DEF Spenders
    <3>3. Unsettled(D \union {t})
      BY <2>4, <2>6, <3>2 DEF Unsettled
    <3>4. u # t => Local(u)
      BY <2>6, <3>3 DEF Settled
    <3>5. Avoids(u, t)
      <4> SUFFICES ASSUME NEW o \in Vin[u], o[1] = t PROVE FALSE
        BY DEF Avoids
      <4>1. o \in DOMAIN mapNextTx /\ mapNextTx[o] = u
        BY <2>6 DEF PoolInv, PoolSpendsOnce
      <4>2. u \in Spenders({t})
        BY <4>1 DEF Spenders
      <4> QED BY <2>6, <3>1, <4>2
    <3>6. ~ MissingInputs(u)
      BY <1>8, <3>4 DEF Local, ReviewPasses
    <3>7. DOMAIN mapPackedFractions = mapTx
      BY DEF PoolInv
    <3>8. CalculateStandardFractions(u, index)' = CalculateStandardFractions(u, index)
      <4>1. \A v \in mapTx \ {t} : mapPackedFractions'[v] = mapPackedFractions[v]
        BY <2>1, <3>7
      <4> QED BY <3>5, <3>6, <4>1, SameCalculation
    <3>9. mapPackedFractions'[u] = CalculateStandardFractions(u, index)
      <4>1. CASE u = t
        BY <2>1, <3>7, <4>1
      <4>2. CASE u # t
        BY <1>5, <2>1, <2>6, <3>4, <3>7, <4>2 DEF Local
      <4> QED BY <4>1, <4>2
    <3> QED BY <1>4, <1>6, <3>6, <3>8, <3>9 DEF Local
  <2> QED BY <1>2, <2>5, <2>6 DEF Settled, Unsettled
<1>9. CASE ~ ReviewPasses(t)
  <2>1. vRemove' = vRemove \union {t} /\ vStack' = rest /\ UNCHANGED mapPackedFractions
    BY <1>9 DEF Review
  <2>2. Awaited' = vRoots' \union vRemove \union {t} \union OnStack(rest)
    <3>1. OnStack(vStack)' = OnStack(vStack')
      BY DEF OnStack
    <3> QED BY <2>1, <3>1 DEF Awaited
  <2>3. Awaited' \subseteq mapTx'
    BY <1>3, <1>7, <2>2
  <2>4. \A u : Local(u)' <=> Local(u)
    <3>1. \A v : PrevFractions(v)' = PrevFractions(v)
      BY <2>1 DEF PrevFractions, ChainTxs, ReadFractions, IndexIn
    <3>2. \A u : CalculateStandardFractions(u, PegIndex[pindexBest])' = CalculateStandardFractions(u, PegIndex[pindexBest])
      BY <3>1 DEF CalculateStandardFractions
    <3> QED BY <1>4, <2>1, <3>2 DEF Local
  <2>5. Awaited \subseteq Awaited'
    BY <2>2
  <2> QED BY <1>2, <2>3, <2>4, <2>5 DEF Settled, Unsettled
<1> QED BY <1>8, <1>9

\* The end of the review: what stays in the pool is current.
LEMMA ReviewEnds ==
  ASSUME IInv, CurrentInv, RemoveCollected
  PROVE  PoolCurrent(PegIndex[pindexBest])'
<1>1. PICK D : D = WithDependents(vRemove)
  OBVIOUS
<1>2. /\ pc = "review" /\ vRoots = {} /\ vStack = <<>> /\ remove(D)
      /\ UNCHANGED <<db, pindexBest>>
  BY <1>1 DEF RemoveCollected, chain
<1>3. /\ PoolInv /\ IsFiniteSet(mapTx) /\ InputsExist /\ Awaited \subseteq mapTx /\ Settled
      /\ db \in Blocks /\ mapTx \intersect ChainTxs(db) = {} /\ mapTx \subseteq Txs
  BY <1>2 DEF IInv, CurrentInv, PoolInv, StateInv, PoolOutsideChain, LoopInv
<1>4. Awaited = vRemove
  BY <1>2 DEF Awaited, OnStack
<1>5. D \subseteq mapTx /\ vRemove \subseteq D /\ Spenders(D) \subseteq D
  BY <1>1, <1>3, <1>4, DependentsLemma
<1>6. \A t \in mapTx \ D : Local(t)
  BY <1>3, <1>4, <1>5 DEF Settled, Unsettled
<1>7. PICK index : index = PegIndex[pindexBest]
  OBVIOUS
<1> DEFINE G == {t \in Txs : t \in mapTx \ D => mapPackedFractions[t] = FractionsAt(t, index)}
<1>8. ASSUME NEW t \in Txs, \A o \in Vin[t] : o[1] \in G PROVE t \in G
  <2> SUFFICES ASSUME t \in mapTx \ D PROVE mapPackedFractions[t] = FractionsAt(t, index)
    OBVIOUS
  <2>1. InputsCurrent(t, index)
    <3> SUFFICES ASSUME NEW o \in Vin[t], o[1] \notin ChainTxs(db)
                 PROVE  o[1] \in mapTx /\ mapPackedFractions[o[1]] = FractionsAt(o[1], index)
      BY DEF InputsCurrent
    <3>1. o[1] \in mapTx
      BY <1>6 DEF Local, MissingInputs
    <3>2. o \in DOMAIN mapNextTx /\ mapNextTx[o] = t
      BY <1>3 DEF PoolInv, PoolSpendsOnce
    <3>3. o[1] \notin D
      BY <1>5, <3>2 DEF Spenders
    <3> QED BY <1>8, <3>1, <3>3
  <2>2. CalculateStandardFractions(t, index) = FractionsAt(t, index)
    BY <1>3, <2>1, CalculatesCurrent
  <2> QED BY <1>6, <1>7, <2>2 DEF Local
<1> HIDE DEF G
<1>9. \A t \in Txs : t \in G
  BY <1>8, TxInduction
<1>10. mapTx' = mapTx \ D /\ \A u \in mapTx' : mapPackedFractions'[u] = mapPackedFractions[u]
  BY <1>2, <1>3, RemoveKeepsInputs
<1>11. \A u \in mapTx' : mapPackedFractions'[u] = FractionsAt(u, index)
  BY <1>3, <1>9, <1>10 DEF G
<1>12. \A u : FractionsAt(u, index)' = FractionsAt(u, index)
  BY <1>2 DEF FractionsAt, ChainTxs, IndexIn
<1>13. index = PegIndex[pindexBest']
  BY <1>2, <1>7
<1> QED BY <1>11, <1>12, <1>13 DEF PoolCurrent

-----------------------------------------------------------------------------
\* What a step that leaves the chain and the pool alone cannot change.
LEMMA SamePool ==
  ASSUME UNCHANGED <<db, pindexBest, pool>>
  PROVE  /\ IsFiniteSet(mapTx') <=> IsFiniteSet(mapTx)
         /\ InputsExist' <=> InputsExist
         /\ PoolCurrent(PegIndex[pindexBest])' <=> PoolCurrent(PegIndex[pindexBest])
<1>1. PICK index : index = PegIndex[pindexBest]
  OBVIOUS
<1>2. \A u : FractionsAt(u, index)' = FractionsAt(u, index)
  BY DEF FractionsAt, ChainTxs, IndexIn
<1>3. mapTx' = mapTx /\ mapPackedFractions' = mapPackedFractions /\ index = PegIndex[pindexBest']
  BY <1>1 DEF pool
<1>4. InputsExist' <=> InputsExist
  BY <1>3 DEF InputsExist
<1> QED BY <1>1, <1>2, <1>3, <1>4 DEF PoolCurrent

\* A step of acceptance or of the loop over orphans.
LEMMA TakeKeepsCurrent ==
  ASSUME IInv, CurrentInv, NEW t \in Txs, Acceptable(t), addUnchecked(t),
         UNCHANGED <<db, pindexBest, vRemove, drifted>>,
         pc \in {"idle", "orphans"}, pc' \in {"idle", "orphans"}
  PROVE  CurrentInv'
<1>1. IsFiniteSet(mapTx') /\ InputsExist'
  BY AddKeepsInputs DEF CurrentInv
<1>2. ~ drifted => PoolCurrent(PegIndex[pindexBest])'
  BY AddKeepsCurrent DEF CurrentInv
<1> QED BY <1>1, <1>2 DEF CurrentInv

\* A step that leaves the pool, the chain and the index alone keeps it.
LEMMA IdleKeepsCurrent ==
  ASSUME IInv, CurrentInv, UNCHANGED <<db, pindexBest, pool, vRemove, drifted>>,
         pc \in {"idle", "orphans"}, pc' \in {"idle", "orphans"}
  PROVE  CurrentInv'
  BY SamePool DEF CurrentInv

\* Connecting a block within an interval, and the new best block.
LEMMA InnerKeepsCurrent ==
  ASSUME IInv, CurrentInv, NEW b \in Blocks, SetBestChainInner(b)
  PROVE  CurrentInv'
<1>1. /\ pc = "connect" /\ pc' = "connect" /\ b \in Chain[pindexNew] /\ IsChild(b, db) /\ db' = b
      /\ remove(TxsOf(b)) /\ UNCHANGED <<pindexBest, pindexNew, vRemove, drifted>>
  BY DEF SetBestChainInner, reviewLoop
<1>2. /\ IsFiniteSet(mapTx') /\ InputsExist' /\ mapTx' \subseteq mapTx
      /\ \A u \in mapTx' : mapPackedFractions'[u] = mapPackedFractions[u]
  BY <1>1, RemoveKeepsInputs DEF IInv, CurrentInv
<1>3. ASSUME ~ drifted
      PROVE  /\ IsChild(pindexNew, pindexBest) /\ db = pindexBest /\ b = pindexNew
             /\ db' # pindexBest
             /\ ~ AtPegChange(pindexNew) => PoolCurrent(PegIndex[pindexBest])'
  <2>1. IsChild(pindexNew, pindexBest) /\ db \in {pindexBest, pindexNew}
    BY <1>1, <1>3 DEF CurrentInv
  <2>2. db = pindexBest
    BY <1>1, <2>1 DEF IsChild
  <2>3. b = pindexNew
    BY <1>1, <2>1, <2>2 DEF IsChild
  <2>4. {db, pindexBest, pindexNew} \subseteq Blocks /\ mapTx \subseteq Txs /\ pindexBest \in Chain[pindexBest]
    BY ChainAssumption DEF IInv, StateInv, PoolInv
  <2>5. b # pindexBest
    BY <1>1, <2>2, <2>4 DEF IsChild
  <2>6. ASSUME ~ AtPegChange(pindexNew) PROVE PoolCurrent(PegIndex[pindexBest])'
    <3>1. PICK index : index = PegIndex[pindexBest]
      OBVIOUS
    <3>2. PegIndex[b] = index
      BY <2>1, <2>3, <2>4, <2>6, <3>1, SameIndex
    <3>3. \A u \in Txs : FractionsAt(u, index)' = FractionsAt(u, index)
      BY <1>1, <2>4, <3>2, ExtendKeepsFractions
    <3>4. \A u \in mapTx : mapPackedFractions[u] = FractionsAt(u, index)
      BY <1>1, <1>3, <2>2, <3>1 DEF CurrentInv, PoolCurrent
    <3>5. \A u \in mapTx' : mapPackedFractions'[u] = FractionsAt(u, index)'
      BY <1>2, <2>4, <3>3, <3>4
    <3>6. index = PegIndex[pindexBest']
      BY <1>1, <3>1
    <3> QED BY <3>5, <3>6 DEF PoolCurrent
  <2> QED BY <1>1, <2>1, <2>2, <2>3, <2>5, <2>6
<1>4. IsChild(pindexNew, pindexBest)' <=> IsChild(pindexNew, pindexBest)
  BY <1>1 DEF IsChild
<1>5. AtPegChange(pindexNew)' <=> AtPegChange(pindexNew)
  BY <1>1 DEF AtPegChange, Height
<1>6. vRemove' = {}
  BY <1>1 DEF CurrentInv
<1> QED BY <1>1, <1>2, <1>3, <1>4, <1>5, <1>6 DEF CurrentInv

\* A new best block starts the loops with the pool as it was.
LEMMA NewBestKeepsCurrent ==
  ASSUME IInv, CurrentInv, IInv', NEW ibd \in BOOLEAN, NewBestBlock(ibd)
  PROVE  CurrentInv'
<1>1. /\ pc = "connect" /\ db = pindexNew /\ pindexBest' = pindexNew
      /\ UNCHANGED <<db, mapTx, mapNextTx, mapPackedFractions, vStack, vRemove>>
  BY DEF NewBestBlock, pool
<1>2. vRemove' = {} /\ IsFiniteSet(mapTx') /\ InputsExist'
  BY <1>1 DEF CurrentInv, InputsExist
<1>3. CASE AtPegChange(pindexNew) /\ ~ ibd
  <2>1. pc' = "review" /\ vRoots' = {t \in mapTx : Independent(t)}
    BY <1>3 DEF NewBestBlock
  <2>2. RootsAwaited'
    BY <1>1, <2>1 DEF RootsAwaited, Independent
  <2>3. PoolInv'
    BY DEF IInv
  <2>4. Settled'
    <3>1. PoolInv' /\ RootsAwaited' => Settled'
      BY ReviewStarts, PTL
    <3> QED BY <2>2, <2>3, <3>1
  <2>5. Awaited' \subseteq mapTx'
    <3>1. OnStack(vStack)' \subseteq mapTx'
      BY <2>3 DEF OnStack, PoolInv, PoolSpendsOnce
    <3>2. vRoots' \subseteq mapTx'
      BY <1>1, <2>1
    <3> QED BY <1>2, <3>1, <3>2 DEF Awaited
  <2> QED BY <1>2, <2>1, <2>4, <2>5 DEF CurrentInv
<1>4. CASE ~ (AtPegChange(pindexNew) /\ ~ ibd)
  <2>1. pc' = "idle" /\ drifted' = (drifted \/ AtPegChange(pindexNew))
    BY <1>4 DEF NewBestBlock
  <2>2. ASSUME ~ drifted, ~ AtPegChange(pindexNew) PROVE PoolCurrent(PegIndex[pindexBest])'
    <3>1. PICK index : index = PegIndex[pindexBest]
      OBVIOUS
    <3>2. IsChild(pindexNew, pindexBest) /\ \A u \in mapTx : mapPackedFractions[u] = FractionsAt(u, index)
      BY <1>1, <2>2, <3>1 DEF CurrentInv, PoolCurrent
    <3>3. PegIndex[pindexBest'] = index
      BY <1>1, <2>2, <3>1, <3>2, SameIndex DEF IInv, StateInv
    <3>4. \A u : FractionsAt(u, index)' = FractionsAt(u, index)
      BY <1>1 DEF FractionsAt, ChainTxs, IndexIn
    <3> QED BY <1>1, <3>2, <3>3, <3>4 DEF PoolCurrent
  <2>3. ~ drifted' => ~ drifted /\ ~ AtPegChange(pindexNew)
    BY <2>1
  <2> QED BY <1>2, <2>1, <2>2, <2>3 DEF CurrentInv
<1> QED BY <1>3, <1>4

\* What a stack holds, from its top.
LEMMA PopLemma ==
  ASSUME NEW s \in Seq(OutPoints), s # <<>>
  PROVE  /\ OnStack(s) \subseteq {mapNextTx[Head(s)]} \union OnStack(Tail(s))
         /\ Head(s) \notin DOMAIN mapNextTx => OnStack(s) = OnStack(Tail(s))
<1>1. /\ DOMAIN s = 1..Len(s) /\ Len(s) \in Nat \ {0} /\ DOMAIN Tail(s) = 1..(Len(s) - 1) /\ Head(s) = s[1]
  OBVIOUS
<1>2. \A i \in 1..(Len(s) - 1) : Tail(s)[i] = s[i + 1] /\ i + 1 \in 1..Len(s)
  BY <1>1
<1>3. \A i \in 1..Len(s) : i # 1 => i - 1 \in 1..(Len(s) - 1) /\ Tail(s)[i - 1] = s[i]
  BY <1>1, <1>2
<1>4. PICK r : r = Tail(s)
  OBVIOUS
<1>5. {s[i] : i \in DOMAIN s} \subseteq {Head(s)} \union {r[i] : i \in DOMAIN r}
  <2>1. ASSUME NEW i \in DOMAIN s PROVE s[i] \in {Head(s)} \union {r[k] : k \in DOMAIN r}
    <3>1. CASE i = 1
      BY <1>1, <3>1
    <3>2. CASE i # 1
      <4>1. i - 1 \in DOMAIN r /\ r[i - 1] = s[i]
        BY <1>1, <1>3, <1>4, <3>2
      <4> QED BY ONLY <4>1
    <3> QED BY <3>1, <3>2
  <2> QED BY ONLY <2>1
<1>6. {r[i] : i \in DOMAIN r} \subseteq {s[i] : i \in DOMAIN s}
  BY <1>1, <1>2, <1>4
<1>7. OnStack(s) \subseteq {mapNextTx[Head(s)]} \union OnStack(r)
  BY <1>5 DEF OnStack
<1>8. Head(s) \notin DOMAIN mapNextTx => OnStack(s) = OnStack(r)
  BY <1>5, <1>6 DEF OnStack
<1> QED BY <1>4, <1>7, <1>8

\* A step of the review.
LEMMA ReviewKeepsCurrent ==
  ASSUME IInv, CurrentInv, (\E t \in Txs : ReviewRoot(t)) \/ ReviewDependent
  PROVE  CurrentInv'
<1>1. /\ pc = "review" /\ pc' = "review" /\ UNCHANGED <<db, pindexBest, mapTx, mapNextTx>>
  BY DEF ReviewRoot, ReviewDependent, chain
<1>2. /\ PoolInv /\ InputsExist /\ IsFiniteSet(mapTx) /\ Awaited \subseteq mapTx /\ Settled
      /\ vStack \in Seq(OutPoints)
  BY <1>1 DEF IInv, StateInv, CurrentInv
<1>3. Awaited' \subseteq mapTx' /\ Settled'
  <2>1. ASSUME NEW t \in Txs, ReviewRoot(t) PROVE Awaited' \subseteq mapTx' /\ Settled'
    <3>1. /\ t \in vRoots /\ vRoots' = vRoots \ {t} /\ vStack = <<>> /\ Review(t, <<>>)
          /\ <<>> \in Seq(OutPoints)
      BY <2>1 DEF ReviewRoot
    <3>2. t \in mapTx /\ vRoots' \subseteq mapTx
      BY <1>2, <3>1 DEF Awaited
    <3>3. Awaited \subseteq {t} \union vRoots' \union vRemove \union OnStack(<<>>)
      BY <3>1 DEF Awaited
    <3> QED BY <1>1, <1>2, <3>1, <3>2, <3>3, ReviewKeepsSettled
  <2>2. ASSUME ReviewDependent, Head(vStack) \in DOMAIN mapNextTx PROVE Awaited' \subseteq mapTx' /\ Settled'
    <3>1. PICK t : t = mapNextTx[Head(vStack)]
      OBVIOUS
    <3>2. /\ vStack # <<>> /\ vRoots' = vRoots /\ Review(t, Tail(vStack)) /\ Tail(vStack) \in Seq(OutPoints)
      BY <1>2, <2>2, <3>1 DEF ReviewDependent
    <3>3. t \in mapTx /\ vRoots' \subseteq mapTx
      BY <1>2, <2>2, <3>1, <3>2 DEF Awaited, PoolInv, PoolSpendsOnce
    <3>4. OnStack(vStack) \subseteq {t} \union OnStack(Tail(vStack))
      BY <1>2, <3>1, <3>2, PopLemma
    <3>5. Awaited \subseteq {t} \union vRoots' \union vRemove \union OnStack(Tail(vStack))
      BY <3>2, <3>4 DEF Awaited
    <3> QED BY <1>1, <1>2, <3>2, <3>3, <3>5, ReviewKeepsSettled
  <2>3. ASSUME ReviewDependent, Head(vStack) \notin DOMAIN mapNextTx PROVE Awaited' \subseteq mapTx' /\ Settled'
    <3>1. vStack # <<>> /\ vStack' = Tail(vStack) /\ UNCHANGED <<vRoots, vRemove, mapPackedFractions>>
      BY <2>3 DEF ReviewDependent
    <3>2. OnStack(vStack) = OnStack(Tail(vStack))
      BY <1>2, <2>3, <3>1, PopLemma
    <3>3. OnStack(vStack)' = OnStack(vStack)
      <4>1. PICK r : r = Tail(vStack)
        OBVIOUS
      <4>2. vStack' = r /\ mapNextTx' = mapNextTx
        BY <1>1, <3>1, <4>1
      <4>3. OnStack(vStack)' = OnStack(r)
        BY ONLY <4>2 DEF OnStack
      <4> QED BY ONLY <3>2, <4>1, <4>3
    <3>4. Awaited' = Awaited
      BY <3>1, <3>3 DEF Awaited
    <3>5. \A u : Local(u)' <=> Local(u)
      <4>1. \A v : PrevFractions(v)' = PrevFractions(v)
        BY <1>1, <3>1 DEF PrevFractions, ChainTxs, ReadFractions, IndexIn
      <4>2. \A u : CalculateStandardFractions(u, PegIndex[pindexBest])' = CalculateStandardFractions(u, PegIndex[pindexBest])
        BY <1>1, <4>1 DEF CalculateStandardFractions
      <4>3. \A u : MissingInputs(u)' <=> MissingInputs(u)
        BY <1>1 DEF MissingInputs, ChainTxs
      <4> QED BY <1>1, <3>1, <4>2, <4>3 DEF Local
    <3>6. \A D : Spenders(D)' = Spenders(D)
      BY <1>1 DEF Spenders
    <3> QED BY <1>1, <1>2, <3>4, <3>5, <3>6 DEF Settled, Unsettled
  <2> QED BY <2>1, <2>2, <2>3
<1>4. InputsExist' /\ IsFiniteSet(mapTx')
  BY <1>1, <1>2 DEF InputsExist
<1> QED BY <1>1, <1>3, <1>4 DEF CurrentInv

\* Every action keeps the invariant of the fractions.
LEMMA NextCurrentInv == IInv /\ CurrentInv /\ [Next]_vars => CurrentInv'
<1> SUFFICES ASSUME IInv, CurrentInv, [Next]_vars PROVE CurrentInv'
  OBVIOUS
<1>0. IInv'
  BY NextIInv
<1> USE DEF chain, orphanLoop, reorgLoop, reviewLoop
<1>1. ASSUME NEW t \in Txs, TxMessage(t) \/ SendTransaction(t) PROVE CurrentInv'
  <2>1. /\ pc \in {"idle", "orphans"} /\ pc' \in {"idle", "orphans"}
        /\ Acceptable(t) /\ addUnchecked(t) /\ UNCHANGED <<db, pindexBest, vRemove, drifted>>
    BY <1>1 DEF TxMessage, SendTransaction
  <2> QED BY <2>1, TakeKeepsCurrent
<1>2. ASSUME NEW t \in Txs, TryOrphan(t) PROVE CurrentInv'
  <2>1. /\ pc \in {"idle", "orphans"} /\ pc' \in {"idle", "orphans"}
        /\ UNCHANGED <<db, pindexBest, vRemove, drifted>>
    BY <1>2 DEF TryOrphan
  <2>2. (Acceptable(t) /\ addUnchecked(t)) \/ UNCHANGED pool
    BY <1>2 DEF TryOrphan, pool
  <2> QED BY <2>1, <2>2, TakeKeepsCurrent, IdleKeepsCurrent
<1>3. ASSUME (\E t \in Txs : AddOrphanTx(t)) \/ NextInQueue \/ EraseOrphans PROVE CurrentInv'
  <2>1. /\ pc \in {"idle", "orphans"} /\ pc' \in {"idle", "orphans"}
        /\ UNCHANGED <<db, pindexBest, pool, vRemove, drifted>>
    BY <1>3 DEF AddOrphanTx, NextInQueue, EraseOrphans
  <2> QED BY <2>1, IdleKeepsCurrent
<1>4. ASSUME NEW b \in Blocks, SetBestChainExtend(b) PROVE CurrentInv'
  <2>1. /\ pc = "idle" /\ pc' = "connect" /\ IsChild(b, pindexBest) /\ pindexNew' = b
        /\ UNCHANGED <<db, pindexBest, pool, vRemove, drifted>>
    BY <1>4 DEF SetBestChainExtend
  <2>2. db = pindexBest
    BY <2>1 DEF IInv, LoopInv
  <2>3. IsChild(pindexNew, pindexBest)' <=> IsChild(b, pindexBest)
    BY <2>1 DEF IsChild
  <2>4. IsFiniteSet(mapTx') /\ InputsExist' /\ (~ drifted => PoolCurrent(PegIndex[pindexBest])')
    BY <2>1, SamePool DEF CurrentInv
  <2> QED BY <2>1, <2>2, <2>3, <2>4 DEF CurrentInv
<1>5. ASSUME NEW b \in Blocks, Reorganize(b) PROVE CurrentInv'
  <2>1. pc = "idle" /\ pc' = "resurrect" /\ drifted' = TRUE /\ UNCHANGED <<mapTx, vRemove>>
    BY <1>5 DEF Reorganize, pool
  <2>2. IsFiniteSet(mapTx') /\ InputsExist'
    BY <2>1 DEF CurrentInv, InputsExist
  <2> QED BY <2>1, <2>2 DEF CurrentInv
<1>6. ASSUME ResurrectOne PROVE CurrentInv'
  <2>1. pc = "resurrect" /\ pc' = "resurrect" /\ UNCHANGED <<vRemove, drifted>>
    BY <1>6 DEF ResurrectOne
  <2>2. PICK x \in vResurrect : (Acceptable(At(x)) /\ addUnchecked(At(x))) \/ UNCHANGED pool
    BY <1>6 DEF ResurrectOne, At, pool
  <2>3. At(x) \in Txs
    <3>1. x[1] \in Blocks /\ x[2] \in DOMAIN Vtx[x[1]]
      BY <2>2 DEF IInv, StateInv
    <3>2. Vtx[x[1]] \in Seq(Txs)
      BY <3>1, ChainAssumption
    <3> QED BY <3>1, <3>2 DEF At
  <2>4. IsFiniteSet(mapTx') /\ InputsExist'
    <3>1. CASE UNCHANGED pool
      BY <3>1 DEF CurrentInv, InputsExist, pool
    <3>2. CASE Acceptable(At(x)) /\ addUnchecked(At(x))
      BY <2>3, <3>2, AddKeepsInputs DEF CurrentInv
    <3> QED BY <2>2, <3>1, <3>2
  <2> QED BY <2>1, <2>4 DEF CurrentInv
<1>7. ASSUME NEW t \in Txs, DeleteOne(t) PROVE CurrentInv'
  <2>1. pc = "resurrect" /\ pc' = "resurrect" /\ UNCHANGED <<vRemove, drifted>>
    BY <1>7 DEF DeleteOne
  <2>2. PICK S : remove(S)
    BY <1>7 DEF DeleteOne
  <2>3. IsFiniteSet(mapTx') /\ InputsExist'
    BY <2>2, RemoveKeepsInputs DEF IInv, CurrentInv
  <2> QED BY <2>1, <2>3 DEF CurrentInv
<1>8. ASSUME Reorganized PROVE CurrentInv'
  <2>1. pc = "resurrect" /\ pc' = "connect" /\ UNCHANGED <<mapTx, vRemove, drifted>>
    BY <1>8 DEF Reorganized, pool
  <2>2. IsFiniteSet(mapTx') /\ InputsExist'
    BY <2>1 DEF CurrentInv, InputsExist
  <2> QED BY <2>1, <2>2 DEF CurrentInv
<1>9. ASSUME RemoveCollected PROVE CurrentInv'
  <2>1. pc = "review" /\ pc' = "idle" /\ vRemove' = {} /\ remove(WithDependents(vRemove))
    BY <1>9 DEF RemoveCollected
  <2>2. IsFiniteSet(mapTx') /\ InputsExist'
    BY <2>1, RemoveKeepsInputs DEF IInv, CurrentInv
  <2>3. PoolCurrent(PegIndex[pindexBest])'
    BY <1>9, ReviewEnds
  <2> QED BY <2>1, <2>2, <2>3 DEF CurrentInv
<1>10. ASSUME UNCHANGED vars PROVE CurrentInv'
  <2>1. UNCHANGED <<pc, db, pindexBest, pindexNew, pool, reviewLoop, drifted>>
    BY <1>10 DEF vars
  <2>2. /\ Awaited' = Awaited /\ mapTx' = mapTx
        /\ (\A D : Spenders(D)' = Spenders(D)) /\ (\A u : Local(u)' <=> Local(u))
    BY <2>1 DEF Awaited, OnStack, Spenders, Local, MissingInputs, CalculateStandardFractions, PrevFractions,
       ChainTxs, ReadFractions, IndexIn, pool
  <2>3. Settled' <=> Settled
    BY <2>2 DEF Settled, Unsettled
  <2>4. /\ IsChild(pindexNew, pindexBest)' <=> IsChild(pindexNew, pindexBest)
        /\ AtPegChange(pindexNew)' <=> AtPegChange(pindexNew)
    BY <2>1 DEF IsChild, AtPegChange, Height
  <2> QED BY <2>1, <2>2, <2>3, <2>4, SamePool DEF CurrentInv
<1> QED
  BY <1>0, <1>1, <1>2, <1>3, <1>4, <1>5, <1>6, <1>7, <1>8, <1>9, <1>10,
     InnerKeepsCurrent, NewBestKeepsCurrent, ReviewKeepsCurrent DEF Next

\* The empty pool is current.
LEMMA InitCurrentInv == Init => CurrentInv
<1> SUFFICES ASSUME Init PROVE CurrentInv
  OBVIOUS
<1>1. mapTx = {} /\ pc = "idle" /\ vRemove = {}
  BY DEF Init
<1>2. IsFiniteSet(mapTx) /\ InputsExist /\ PoolCurrent(PegIndex[pindexBest])
  BY <1>1, FS_EmptySet DEF InputsExist, PoolCurrent
<1> QED BY <1>1, <1>2 DEF CurrentInv

\* IInv and CurrentInv always hold.
LEMMA SpecCurrentInv == Spec => [](IInv /\ CurrentInv)
  BY SpecIInv, InitCurrentInv, NextCurrentInv, PTL DEF Spec

\* The fractions the pool keeps are those the next block would compute, through
\* every order of arrivals, blocks and reviews, unless the pool drifted.
THEOREM FractionsStayCurrent == Spec => []FractionsCurrent
<1>1. IInv /\ CurrentInv => FractionsCurrent
  BY DEF CurrentInv, FractionsCurrent, PoolCurrent
<1> QED BY <1>1, SpecCurrentInv, PTL

-----------------------------------------------------------------------------
(* The template of CreateNewBlock                                          *)

\* CreateNewBlock takes t after it has taken the transactions of T
Takes(t, T) ==
  /\ \A o \in Vin[t] : \/ o[1] \in ChainTxs(db) /\ ~ IsSpent(db, o)
                       \/ o[1] \in T
  /\ FractionsOK(CalculateStandardFractions(t, PegIndex[pindexBest]))

\* The equation of Template's recursion
IsTake(r) == r = [n \in Nat |-> IF n = 0 THEN {} ELSE {t \in mapTx : Takes(t, r[n - 1])}]

\* What is in the template spends the chain and the template only.
LEMMA TemplateLemma ==
  ASSUME IsFiniteSet(mapTx)
  PROVE  \A t \in Template : t \in mapTx /\ Takes(t, Template)
<1>1. PICK F : F = [T \in SUBSET mapTx |-> {t \in mapTx : Takes(t, T)}]
  OBVIOUS
<1>2. PICK r : IsRecursion(r, F, {})
  BY NatRecursion
<1>3. r[0] = {} /\ \A n \in Nat : r[n + 1] = F[r[n]]
  BY <1>2 DEF IsRecursion
<1>4. \A n \in Nat : r[n] \in SUBSET mapTx
  <2> DEFINE G == {n \in Nat : r[n] \in SUBSET mapTx}
  <2>1. 0 \in G
    BY <1>3
  <2>2. ASSUME NEW n \in Nat, n \in G PROVE n + 1 \in G
    <3>1. r[n + 1] = {t \in mapTx : Takes(t, r[n])}
      BY <1>1, <1>3, <2>2
    <3>2. r[n + 1] \in SUBSET mapTx
      BY <3>1
    <3> QED BY <3>2
  <2> HIDE DEF G
  <2>3. \A n \in Nat : n \in G
    BY <2>1, <2>2, NumberInduction
  <2> QED BY <2>3 DEF G
<1>5. IsTake(r)
  <2>1. \A n \in Nat : r[n + 1] = {t \in mapTx : Takes(t, r[n])}
    BY <1>1, <1>3, <1>4
  <2>2. \A n \in Nat : n # 0 => n - 1 \in Nat /\ (n - 1) + 1 = n
    OBVIOUS
  <2>3. \A n \in Nat : r[n] = IF n = 0 THEN {} ELSE {t \in mapTx : Takes(t, r[n - 1])}
    BY <1>3, <2>1, <2>2
  <2>4. r = [n \in Nat |-> r[n]]
    BY <1>2 DEF IsRecursion
  <2> QED BY <2>3, <2>4 DEF IsTake
<1>6. PICK q : q = CHOOSE p : IsTake(p)
  OBVIOUS
<1>7. IsTake(q)
  BY <1>5, <1>6
<1>8. Template = q[Cardinality(mapTx)]
  BY <1>6 DEF Template, IsTake, Takes
<1>9. q[0] = {} /\ \A n \in Nat : q[n + 1] = {t \in mapTx : Takes(t, q[n])}
  <2>1. \A n \in Nat : n + 1 \in Nat /\ n + 1 # 0 /\ (n + 1) - 1 = n
    OBVIOUS
  <2> QED BY <1>7, <2>1 DEF IsTake
<1>10. \A t, A, B : Takes(t, A) /\ A \subseteq B => Takes(t, B)
  BY DEF Takes
<1>11. \A n \in Nat : q[n] \subseteq q[n + 1]
  <2> DEFINE G == {n \in Nat : q[n] \subseteq q[n + 1]}
  <2>1. 0 \in G
    BY <1>9
  <2>2. ASSUME NEW n \in Nat, n \in G PROVE n + 1 \in G
    <3>1. q[n] \subseteq q[n + 1]
      BY <2>2
    <3>2. q[n + 1] = {t \in mapTx : Takes(t, q[n])} /\ q[(n + 1) + 1] = {t \in mapTx : Takes(t, q[n + 1])}
      BY <1>9
    <3>3. q[n + 1] \subseteq q[(n + 1) + 1]
      BY <1>10, <3>1, <3>2
    <3> QED BY <3>3
  <2> HIDE DEF G
  <2>3. \A n \in Nat : n \in G
    BY <2>1, <2>2, NumberInduction
  <2> QED BY <2>3 DEF G
<1>12. PICK N \in Nat : N = Cardinality(mapTx)
  BY FS_CardinalityType
<1> SUFFICES ASSUME NEW t \in q[N] PROVE t \in mapTx /\ Takes(t, q[N])
  BY <1>8, <1>12
<1>13. PICK n \in Nat : N = n + 1
  <2>1. N # 0
    BY <1>9
  <2>2. N - 1 \in Nat /\ N = (N - 1) + 1
    BY <2>1
  <2> QED BY <2>2
<1>14. t \in mapTx /\ Takes(t, q[n])
  BY <1>9, <1>13
<1>15. q[n] \subseteq q[N]
  BY <1>11, <1>13
<1> QED BY <1>10, <1>14, <1>15

\* With current fractions a template is a block, as long as the index stays.
LEMMA TemplateOfCurrentPool ==
  ASSUME IInv, CurrentInv, pc = "idle", ~ drifted, (Height(pindexBest) + 1) % PegInterval # 0
  PROVE  TemplateIsBlock
<1>1. /\ db = pindexBest /\ db \in Blocks /\ vDelete = {} /\ mapTx \subseteq Txs
      /\ mapTx \intersect ChainTxs(db) = {}
  BY DEF IInv, LoopInv, StateInv, PoolInv, PoolOutsideChain
<1>2. PICK index : index = PegIndex[pindexBest]
  OBVIOUS
<1>3. NextIndex[pindexBest] = index
  BY <1>1, <1>2, ConnectAssumption
<1>4. \A t \in Template : t \in mapTx /\ Takes(t, Template)
  BY TemplateLemma DEF CurrentInv
<1>5. ASSUME NEW t \in Template, NEW o \in Vin[t]
      PROVE  o[1] \in ChainTxs(db) \union Template /\ ~ IsSpent(db, o)
  <2>1. Takes(t, Template)
    BY <1>4
  <2>2. CASE o[1] \in ChainTxs(db) /\ ~ IsSpent(db, o)
    BY <2>2
  <2>3. CASE o[1] \in Template
    <3>1. o[1] \notin ChainTxs(db)
      BY <1>1, <1>4, <2>3
    <3>2. ~ IsSpent(db, o)
      BY <1>1, <3>1, ChainHoldsInputs DEF IsSpent
    <3> QED BY <2>3, <3>2
  <2> QED BY <2>1, <2>2, <2>3 DEF Takes
<1>6. ASSUME NEW t \in Template PROVE FractionsOK(FractionsAt(t, NextIndex[pindexBest]))
  <2>1. t \in Txs /\ t \notin ChainTxs(db) /\ Takes(t, Template)
    BY <1>1, <1>4
  <2>2. PoolCurrent(index)
    BY <1>2 DEF CurrentInv
  <2>3. InputsCurrent(t, index)
    BY <1>4, <1>5, <2>2 DEF InputsCurrent, PoolCurrent
  <2>4. CalculateStandardFractions(t, index) = FractionsAt(t, index)
    BY <1>1, <2>1, <2>3, CalculatesCurrent
  <2> QED BY <1>2, <1>3, <2>1, <2>4 DEF Takes
<1>7. ASSUME NEW t \in Template, NEW u \in Template, t # u PROVE Vin[t] \intersect Vin[u] = {}
  <2>1. t \in mapTx /\ u \in mapTx /\ PoolSpendsOnce
    BY <1>4 DEF IInv, PoolInv
  <2> QED BY <1>7, <2>1 DEF PoolSpendsOnce
<1> QED BY <1>5, <1>6, <1>7 DEF TemplateIsBlock

\* Within an interval, and unless the pool drifted, what CreateNewBlock takes is
\* what ConnectBlock accepts, for every pool and every chain.
THEOREM TemplatesConnect == Spec => []TemplateConnects
<1>1. IInv /\ CurrentInv => TemplateConnects
  BY TemplateOfCurrentPool DEF TemplateConnects
<1> QED BY <1>1, SpecCurrentInv, PTL
=============================================================================
