-------------------------- MODULE BlockChain_proofs --------------------------
(***************************************************************************)
(* Proofs about BlockChain, for every tree of blocks and every limit: the  *)
(* disk, that it is a ledger, and what the memory of the node and the peg  *)
(* database hold (next pointers, orphans, trust, fractions).               *)
(***************************************************************************)
EXTENDS BlockChain, WellFoundedInduction, TLAPS

---------------------------------------------------------------------------
(* The block tree *)

\* A block ends its own chain, and its predecessor is on it (the recursion of
\* CBlockIndex::Prev as the constants describe it).
LEMMA ChainLemma ==
  ASSUME NEW b \in Blocks
  PROVE  /\ b \in Chain[b]
         /\ Chain[b] \subseteq Blocks
         /\ \A a \in Chain[b] : Chain[a] \subseteq Chain[b] /\ nHeight[a] <= nHeight[b]
         /\ b # Genesis => Prev[b] \in Blocks /\ Prev[b] \in Chain[b]
<1>1. b \in Chain[b]
  BY TreeAssumption DEF TreeAssumption
<1>2. Chain[b] \subseteq Blocks
  BY TreeAssumption DEF TreeAssumption
<1>3. \A a \in Chain[b] : Chain[a] \subseteq Chain[b] /\ nHeight[a] <= nHeight[b]
  BY <1>1, PathAssumption DEF PathAssumption
<1>4. ASSUME b # Genesis PROVE Prev[b] \in Blocks /\ Prev[b] \in Chain[b]
  <2>1. Prev[b] \in Blocks /\ Chain[b] = Chain[Prev[b]] \union {b}
    BY <1>4, TreeAssumption DEF TreeAssumption
  <2>2. Prev[b] \in Chain[Prev[b]]
    BY <2>1, TreeAssumption DEF TreeAssumption
  <2> QED BY <2>1, <2>2
<1> QED BY <1>1, <1>2, <1>3, <1>4

\* Lowest picks a block of least height (the walk of SetBestChain ends).
LEMMA LowestLemma ==
  ASSUME NEW S \in SUBSET Blocks, S # {}
  PROVE  Lowest(S) \in S /\ \A o \in S : nHeight[Lowest(S)] <= nHeight[o]
<1> DEFINE H == {nHeight[s] : s \in S}
<1>1. H \subseteq Nat /\ H # {}
  BY TreeAssumption DEF TreeAssumption
<1>2. PICK h \in H : \A k \in H : ~(<<k, h>> \in OpToRel(<, Nat))
  BY <1>1, WFMin, NatLessThanWellFounded
<1>3. \A k \in H : h <= k
  <2> SUFFICES ASSUME NEW k \in H, ~(h <= k) PROVE FALSE
    OBVIOUS
  <2>1. k \in Nat /\ h \in Nat /\ k < h
    BY <1>1
  <2>2. <<k, h>> \in OpToRel(<, Nat)
    BY <2>1 DEF OpToRel
  <2> QED BY <2>2, <1>2
<1>4. \E s \in S : \A o \in S : nHeight[s] <= nHeight[o]
  BY <1>3
<1> QED BY <1>4 DEF Lowest

\* What SetBestChain sets out to do: the blocks it postpones are exactly those
\* above the block it first reorganises to, and that one has more trust than the
\* best block unless nothing is postponed.
LEMMA SetBestChainLemma ==
  ASSUME NEW b \in Blocks \ {Genesis}, NEW db, pindexBest \in Blocks
  PROVE  LET t == SetBestChain(db, b) IN
         /\ t.pindexNew = b /\ t.first
         /\ t.target \in Chain[b]
         /\ t.postponed \subseteq Chain[b]
         /\ t.postponed \intersect Chain[t.target] = {}
         /\ t.postponed \union Chain[t.target] = Chain[b]
         /\ t.postponed # {} => nChainTrust[t.target] > nChainTrust[pindexBest]
         /\ \/ /\ Prev[b] = pindexBest /\ t.target = b
               /\ t.vDisconnect = {} /\ t.vConnect = {b}
            \/ /\ t.vDisconnect = Chain[pindexBest] \ Chain[t.target]
               /\ t.vConnect = Chain[t.target] \ Chain[pindexBest]
         /\ t.todo = t.vDisconnect \union t.vConnect
         /\ t.tx = db.tx /\ t.spent = db.spent /\ t.next = db.next
<1> DEFINE t == SetBestChain(db, b)
<1>1. CASE Prev[b] = pindexBest
  BY <1>1, ChainLemma DEF SetBestChain, Begin
<1>2. CASE Prev[b] # pindexBest
  <2> DEFINE postponed == {s \in Chain[b] \ {Genesis} : nChainTrust[Prev[s]] > nChainTrust[pindexBest]}
             inter == IF postponed = {} THEN b ELSE Prev[Lowest(postponed)]
  <2>1. t = Begin(db, b, inter, postponed, Chain[pindexBest] \ Chain[inter],
                  Chain[inter] \ Chain[pindexBest], TRUE)
    BY <1>2 DEF SetBestChain
  <2>2. postponed \subseteq Blocks
    BY ChainLemma
  <2>3. /\ inter \in Chain[b]
        /\ postponed \intersect Chain[inter] = {}
        /\ postponed \union Chain[inter] = Chain[b]
        /\ postponed # {} => nChainTrust[inter] > nChainTrust[pindexBest]
    <3>1. CASE postponed = {}
      BY <3>1, ChainLemma
    <3>2. CASE postponed # {}
      <4> DEFINE low == Lowest(postponed)
      <4>1. low \in postponed /\ \A o \in postponed : nHeight[low] <= nHeight[o]
        <5> HIDE DEF postponed
        <5> QED BY <3>2, <2>2, LowestLemma
      <4>2. /\ low \in Blocks \ {Genesis} /\ low \in Chain[b]
            /\ nChainTrust[Prev[low]] > nChainTrust[pindexBest]
        BY <4>1, <2>2
      <4>3. /\ Prev[low] \in Blocks /\ Prev[low] \in Chain[low] /\ Chain[low] \subseteq Chain[b]
            /\ Chain[low] = Chain[Prev[low]] \union {low}
            /\ nHeight[low] = nHeight[Prev[low]] + 1
        <5> HIDE DEF low, postponed
        <5>1. Prev[low] \in Blocks /\ Prev[low] \in Chain[low] /\ Chain[low] \subseteq Chain[b]
          BY <4>2, ChainLemma
        <5> QED BY <5>1, <4>2, TreeAssumption DEF TreeAssumption
      <4>4. inter = Prev[low] /\ inter \in Chain[b] /\ Chain[inter] \subseteq Chain[b]
        BY <4>3, <3>2, ChainLemma
      <4>5. ASSUME NEW o \in postponed, o \in Chain[inter] PROVE FALSE
        <5>1. nHeight[o] <= nHeight[inter]
          BY <4>5, <4>3, <4>4, ChainLemma
        <5>2. nHeight[low] <= nHeight[o]
          BY <4>1, <4>5
        <5>3. nHeight[o] \in Nat /\ nHeight[inter] \in Nat /\ nHeight[low] \in Nat
          BY <2>2, <4>2, <4>3, <4>4, TreeAssumption DEF TreeAssumption
        <5> QED BY <5>1, <5>2, <5>3, <4>3, <4>4
      <4>6. ASSUME NEW o \in Chain[b], o \notin Chain[inter] PROVE o \in postponed
        <5>1. o \in Blocks /\ nHeight[o] \in Nat /\ nHeight[low] \in Nat /\ nHeight[inter] \in Nat
          BY <4>2, <4>3, <4>4, ChainLemma, TreeAssumption DEF TreeAssumption
        <5>2. ~(nHeight[o] <= nHeight[inter])
          BY <4>6, <4>4, PathAssumption DEF PathAssumption
        <5>3. nHeight[low] <= nHeight[o]
          BY <5>1, <5>2, <4>3, <4>4
        <5>4. o # Genesis /\ Prev[o] \in Blocks /\ Prev[o] \in Chain[b]
              /\ nHeight[o] = nHeight[Prev[o]] + 1 /\ nHeight[Prev[o]] \in Nat
          <6>1. o # Genesis
            BY <5>1, <5>2, TreeAssumption DEF TreeAssumption
          <6>2. Prev[o] \in Blocks /\ Prev[o] \in Chain[o] /\ Chain[o] \subseteq Chain[b]
            BY <6>1, <5>1, <4>6, ChainLemma
          <6> QED BY <6>1, <6>2, <5>1, TreeAssumption DEF TreeAssumption
        <5>5. nHeight[inter] <= nHeight[Prev[o]]
          BY <5>1, <5>2, <5>4
        <5>6. nChainTrust[inter] <= nChainTrust[Prev[o]]
          BY <5>5, <5>4, <4>4, PathAssumption DEF PathAssumption
        <5>7. nChainTrust[inter] \in Nat /\ nChainTrust[Prev[o]] \in Nat /\ nChainTrust[pindexBest] \in Nat
          BY <5>4, <4>3, <4>4, TreeAssumption DEF TreeAssumption
        <5> QED BY <5>4, <5>6, <5>7, <4>2, <4>4
      <4> QED BY <4>2, <4>4, <4>5, <4>6
    <3> QED BY <3>1, <3>2
  <2>4. /\ t.pindexNew = b /\ t.first /\ t.target = inter /\ t.postponed = postponed
        /\ t.vDisconnect = Chain[pindexBest] \ Chain[inter]
        /\ t.vConnect = Chain[inter] \ Chain[pindexBest]
        /\ t.todo = t.vDisconnect \union t.vConnect
        /\ t.tx = db.tx /\ t.spent = db.spent /\ t.next = db.next
    <3> HIDE DEF postponed, inter, t
    <3> QED BY <2>1 DEF Begin
  <2> HIDE DEF postponed, inter, t
  <2>5. t.postponed \subseteq Chain[b]
    BY <2>3, <2>4
  <2>6. /\ t.target \in Chain[b]
        /\ t.postponed \intersect Chain[t.target] = {}
        /\ t.postponed \union Chain[t.target] = Chain[b]
        /\ t.postponed # {} => nChainTrust[t.target] > nChainTrust[pindexBest]
    BY <2>3, <2>4
  <2> QED BY <2>4, <2>5, <2>6 DEF t
<1> QED BY <1>1, <1>2

---------------------------------------------------------------------------
(* Types and the block index *)

\* What IndexIsClosed needs to be inductive: while SetBestChain runs, the block
\* it works for is indexed and everything it moves to is on that block's chain;
\* while the work queue runs, it is not empty.
Formed ==
  /\ pc = "txn" => /\ txn.pindexNew \in mapBlockIndex
                   /\ txn.target \in Chain[txn.pindexNew]
                   /\ txn.postponed \subseteq Chain[txn.pindexNew]
  /\ pc = "orphans" => vWorkQueue # <<>>

IndexInv == TypeOK /\ IndexIsClosed /\ Formed

\* Types of the operators that give the outputs and proofs of stake.
LEMMA OutputTypes ==
  /\ \A S \in SUBSET Blocks : SpentIn(S) \subseteq Outputs
  /\ \A S \in SUBSET Blocks : ProofsOfStake(S) \subseteq Outputs \X Nat
  /\ \A b \in Blocks : OutputsOf(b) \subseteq Outputs
  /\ \A b \in Blocks : Pruned(b) \subseteq Outputs
<1>1. \A S \in SUBSET Blocks : SpentIn(S) \subseteq Outputs
  BY StakeAssumption DEF StakeAssumption, SpentIn, IsProofOfStake
<1>2. \A S \in SUBSET Blocks : ProofsOfStake(S) \subseteq Outputs \X Nat
  BY StakeAssumption DEF StakeAssumption, ProofsOfStake, IsProofOfStake, GetProofOfStake
<1>3. \A b \in Blocks : OutputsOf(b) \subseteq Outputs
  BY DEF OutputsOf, Outputs
<1>4. \A b \in Blocks : Pruned(b) \subseteq Outputs
  BY <1>1, ChainLemma DEF Pruned
<1> QED BY <1>1, <1>2, <1>3, <1>4

\* No transaction is open when ProcessBlock is not switching the chain.
LEMMA IdleType == Idle \in Txns
<1>1. TRUE \in BOOLEAN
  OBVIOUS
<1> QED BY <1>1 DEF Idle, Txns

\* A transaction that starts from the disk is one.
LEMMA BeginType ==
  ASSUME NEW db \in TxDBs, NEW new \in Blocks, NEW target \in Blocks,
         NEW postponed \in SUBSET Blocks, NEW D \in SUBSET Blocks, NEW C \in SUBSET Blocks
  PROVE  /\ Begin(db, new, target, postponed, D, C, TRUE) \in Txns
         /\ Begin(db, new, target, postponed, D, C, FALSE) \in Txns
<1>1. /\ db.tx \in SUBSET Blocks /\ db.spent \in SUBSET Outputs
      /\ db.next \in [Blocks -> Blocks \union {Null}]
  BY DEF TxDBs
<1>2. D \union C \in SUBSET Blocks
  OBVIOUS
<1> QED BY <1>1, <1>2 DEF Begin, Txns

\* The transaction SetBestChain starts is well typed.
LEMMA SetBestChainType ==
  ASSUME NEW b \in Blocks \ {Genesis}, NEW db \in TxDBs, pindexBest \in Blocks
  PROVE  SetBestChain(db, b) \in Txns
<1> DEFINE u == SetBestChain(db, b)
<1>1. u = Begin(db, u.pindexNew, u.target, u.postponed, u.vDisconnect, u.vConnect, TRUE)
  BY DEF SetBestChain, Begin
<1>2. /\ u.pindexNew = b /\ u.target \in Chain[b] /\ u.postponed \subseteq Chain[b]
      /\ \/ u.vDisconnect = {} /\ u.vConnect = {b}
         \/ /\ u.vDisconnect = Chain[pindexBest] \ Chain[u.target]
            /\ u.vConnect = Chain[u.target] \ Chain[pindexBest]
  BY SetBestChainLemma
<1> HIDE DEF u
<1>3. /\ u.pindexNew \in Blocks /\ u.target \in Blocks /\ u.postponed \in SUBSET Blocks
      /\ u.vDisconnect \in SUBSET Blocks /\ u.vConnect \in SUBSET Blocks
  BY <1>2, ChainLemma
<1>4. Begin(db, u.pindexNew, u.target, u.postponed, u.vDisconnect, u.vConnect, TRUE) \in Txns
  BY <1>3, BeginType
<1> QED BY <1>1, <1>4 DEF u

\* How AcceptBlock ends keeps types and the shape of the control state.
LEMMA AcceptedLemma ==
  ASSUME TypeOK, NEW b \in Blocks, Accepted(b)
  PROVE  /\ fMainChainNoReorg' \subseteq Blocks
         /\ vWorkQueue' \in Seq(Blocks) /\ vWorkQueue' # <<>>
         /\ pc' = "orphans"
         /\ txn' \in Txns
<1>1. fMainChainNoReorg' \subseteq Blocks
  BY ChainLemma DEF Accepted, TypeOK
<1>2. vWorkQueue' \in Seq(Blocks) /\ vWorkQueue' # <<>>
  BY DEF Accepted, TypeOK
<1> QED BY <1>1, <1>2, IdleType DEF Accepted

\* A new index entry keeps the invariant: its predecessor was indexed.
LEMMA AddToBlockIndexKeepsIndex ==
  ASSUME IndexInv, NEW b \in Blocks, AcceptBlockChecks(b), AddToBlockIndex(b),
         mapOrphanBlocks' \subseteq mapOrphanBlocks \ {b},
         setStakeSeenOrphan' \subseteq Outputs \X Nat
  PROVE  IndexInv'
<1> USE DEF IndexInv
<1>1. b # Genesis /\ Prev[b] \in Blocks /\ Prev[b] \in mapBlockIndex
      /\ Chain[b] = Chain[Prev[b]] \union {b}
  BY TreeAssumption DEF AcceptBlockChecks, TypeOK, TreeAssumption
<1> DEFINE db == [txdb EXCEPT !.index = @ \union {b}, !.next[b] = Null]
<1>2. /\ db \in TxDBs
      /\ db.index = txdb.index \union {b} /\ db.best = txdb.best /\ db.tx = txdb.tx
      /\ db.spent = txdb.spent
  BY DEF TypeOK, TxDBs
<1>3. txdb' = db /\ mapBlockIndex' = mapBlockIndex \union {b} /\ pindexBest' = pindexBest
  BY DEF AddToBlockIndex
<1>4. IndexIsClosed'
  <2> HIDE DEF db
  <2>1. \A a \in mapBlockIndex' : Chain[a] \subseteq mapBlockIndex'
    BY <1>1, <1>3 DEF IndexIsClosed
  <2>2. \A a \in txdb'.index : Chain[a] \subseteq txdb'.index
    BY <1>1, <1>2, <1>3 DEF IndexIsClosed
  <2>3. mapBlockIndex' \subseteq txdb'.index /\ pindexBest' \in mapBlockIndex'
        /\ txdb'.best \in mapBlockIndex'
    BY <1>2, <1>3 DEF IndexIsClosed
  <2>4. mapOrphanBlocks' \intersect mapBlockIndex' = {}
    BY <1>3 DEF IndexIsClosed
  <2> QED BY <2>1, <2>2, <2>3, <2>4 DEF IndexIsClosed
<1>5. /\ mapBlockIndex' \subseteq Blocks /\ setStakeSeen' \subseteq Outputs \X Nat
      /\ pindexBest' \in Blocks /\ pNext' \in [Blocks -> Blocks \union {Null}]
      /\ mapOrphanBlocks' \subseteq Blocks /\ setStakeSeenOrphan' \subseteq Outputs \X Nat
      /\ txdb' \in TxDBs /\ fractions' \subseteq Outputs /\ crashes' \in Nat
  <2>1. setStakeSeen' \subseteq Outputs \X Nat
    BY OutputTypes DEF AddToBlockIndex, TypeOK
  <2> QED BY <2>1, <1>2, <1>3 DEF AddToBlockIndex, TypeOK
<1>6. /\ fMainChainNoReorg' \subseteq Blocks /\ pc' \in {"idle", "txn", "orphans"}
      /\ vWorkQueue' \in Seq(Blocks) /\ txn' \in Txns /\ Formed'
  <2>1. CASE BetterChainTrust(b) \/ BetterStakerTrust(b)
    <3>1. txn' = SetBestChain(db, b) /\ pc' = "txn" /\ UNCHANGED <<fMainChainNoReorg, vWorkQueue>>
      BY <2>1 DEF AddToBlockIndex
    <3> HIDE DEF db
    <3>2. txn' \in Txns
      BY <3>1, <1>1, <1>2, SetBestChainType DEF TypeOK
    <3>3. txn'.pindexNew = b /\ txn'.target \in Chain[b] /\ txn'.postponed \subseteq Chain[b]
      BY <3>1, <1>1, SetBestChainLemma DEF TypeOK
    <3> QED BY <3>1, <3>2, <3>3, <1>3 DEF TypeOK, Formed
  <2>2. CASE ~(BetterChainTrust(b) \/ BetterStakerTrust(b))
    <3>1. Accepted(b)
      BY <2>2 DEF AddToBlockIndex
    <3> QED BY <3>1, AcceptedLemma DEF Formed
  <2> QED BY <2>1, <2>2
<1> QED BY <1>4, <1>5, <1>6 DEF TypeOK

\* The steps inside a transaction change the transaction and the pegdb only.
LEMMA TxnStepType ==
  ASSUME TypeOK, NEW b \in Blocks, txn' = DisconnectBlock(txn, b) \/ txn' = ConnectBlock(txn, b)
  PROVE  /\ txn' \in Txns
         /\ txn'.pindexNew = txn.pindexNew /\ txn'.target = txn.target
         /\ txn'.postponed = txn.postponed /\ txn'.first = txn.first
         /\ txn'.vDisconnect = txn.vDisconnect /\ txn'.vConnect = txn.vConnect
         /\ txn'.todo = txn.todo \ {b}
<1>1. SpentIn({b}) \subseteq Outputs /\ OutputsOf(b) \subseteq Outputs
  BY OutputTypes
<1>2. CASE txn' = DisconnectBlock(txn, b)
  BY <1>1, <1>2 DEF DisconnectBlock, TypeOK, Txns
<1>3. CASE txn' = ConnectBlock(txn, b)
  BY <1>1, <1>3 DEF ConnectBlock, TypeOK, Txns
<1> QED BY <1>2, <1>3

\* The pointers of the memory index stay pointers to blocks.
LEMMA RelinkedType ==
  ASSUME NEW next \in [Blocks -> Blocks \union {Null}], NEW D \in SUBSET Blocks, NEW C \in SUBSET Blocks
  PROVE  Relinked(next, D, C) \in [Blocks -> Blocks \union {Null}]
BY DEF Relinked

\* Commit keeps the invariant: what is committed is on the new block's chain.
LEMMA CommitKeepsIndex ==
  ASSUME IndexInv, Commit
  PROVE  IndexInv'
<1> USE DEF IndexInv
<1>1. /\ pc = "txn" /\ txn \in Txns /\ txdb \in TxDBs
      /\ txn.pindexNew \in mapBlockIndex /\ txn.pindexNew \in Blocks
      /\ txn.target \in Chain[txn.pindexNew] /\ txn.postponed \subseteq Chain[txn.pindexNew]
  BY DEF Commit, TypeOK, Formed
<1>2. txn.target \in Blocks /\ txn.target \in mapBlockIndex /\ txn.postponed \subseteq Blocks
  BY <1>1, ChainLemma DEF IndexIsClosed
<1>3. /\ txdb' \in TxDBs /\ txdb'.index = txdb.index /\ txdb'.best = txn.target
      /\ txdb'.tx = txn.tx
  BY <1>1, <1>2 DEF Commit, TxDBs, Txns
<1>4. pNext' \in [Blocks -> Blocks \union {Null}]
  BY <1>1, RelinkedType DEF Commit, TypeOK, Txns
<1>5. /\ pindexBest' \in mapBlockIndex
      /\ fMainChainNoReorg' \subseteq Blocks /\ pc' \in {"idle", "txn", "orphans"}
      /\ vWorkQueue' \in Seq(Blocks) /\ txn' \in Txns /\ Formed'
  <2>1. CASE txn.postponed = {}
    <3>1. pindexBest' = txn.pindexNew /\ Accepted(txn.pindexNew)
      BY <2>1 DEF Commit
    <3> QED BY <3>1, <1>1, AcceptedLemma DEF Formed
  <2>2. CASE txn.postponed # {}
    <3>1. PICK s \in txn.postponed :
             /\ Prev[s] = txn.target
             /\ txn' = Begin(txdb', txn.pindexNew, s, txn.postponed \ {s}, {}, {s}, FALSE)
      BY <2>2 DEF Commit
    <3>2. UNCHANGED <<pindexBest, fMainChainNoReorg, pc, vWorkQueue, mapBlockIndex>>
      BY <2>2 DEF Commit
    <3>3. txn' \in Txns
      BY <3>1, <1>1, <1>2, <1>3, BeginType
    <3>4. txn'.pindexNew = txn.pindexNew /\ txn'.target = s /\ txn'.postponed = txn.postponed \ {s}
      BY <3>1 DEF Begin
    <3>5. Formed'
      BY <3>2, <3>4, <1>1 DEF Formed
    <3> QED BY <3>2, <3>3, <3>5 DEF TypeOK, IndexIsClosed
  <2> QED BY <2>1, <2>2
<1>6. /\ UNCHANGED <<mapBlockIndex, setStakeSeen, mapOrphanBlocks, setStakeSeenOrphan,
                     fractions, crashes>>
  BY DEF Commit
<1>7. IndexIsClosed'
  BY <1>2, <1>3, <1>5, <1>6 DEF IndexIsClosed
<1>8. TypeOK'
  BY <1>3, <1>4, <1>5, <1>6 DEF TypeOK
<1> QED BY <1>5, <1>7, <1>8

\* A restart keeps the invariant: what is dropped lies above what is kept.
LEMMA RestartKeepsIndex ==
  ASSUME IndexInv, Restart
  PROVE  IndexInv'
<1> USE DEF IndexInv
<1> DEFINE loaded == {b \in txdb.index : nHeight[b] <= nHeight[txdb.best]}
           dropped == txdb.index \ loaded
<1>1. txdb \in TxDBs /\ txdb.index \subseteq Blocks /\ txdb.best \in Blocks /\ txdb' = txdb
  BY DEF TypeOK, TxDBs, Restart
<1>2. /\ mapBlockIndex' = loaded /\ pindexBest' = txdb.best /\ mapOrphanBlocks' = {}
      /\ setStakeSeen' = ProofsOfStake(txdb.index) \ ProofsOfStake(dropped)
      /\ pNext' = txdb.next
      /\ fMainChainNoReorg' \subseteq Chain[txdb.best]
      /\ setStakeSeenOrphan' = {} /\ pc' = "idle" /\ vWorkQueue' = <<>> /\ txn' = Idle
      /\ crashes' = crashes + 1 /\ fractions' = fractions
  BY DEF Restart
<1>3. \A b \in loaded : Chain[b] \subseteq loaded
  <2> SUFFICES ASSUME NEW b \in loaded, NEW a \in Chain[b] PROVE a \in loaded
    OBVIOUS
  <2>1. a \in txdb.index /\ a \in Blocks /\ b \in Blocks
    BY <1>1 DEF IndexIsClosed
  <2>2. nHeight[a] <= nHeight[b] /\ nHeight[b] <= nHeight[txdb.best]
    BY <2>1, ChainLemma
  <2>3. nHeight[a] \in Nat /\ nHeight[b] \in Nat /\ nHeight[txdb.best] \in Nat
    BY <2>1, <1>1, TreeAssumption DEF TreeAssumption
  <2> QED BY <2>1, <2>2, <2>3
<1>4. txdb.best \in loaded
  BY <1>1, TreeAssumption DEF IndexIsClosed, TreeAssumption
<1>5. IndexIsClosed'
  <2> HIDE DEF loaded, dropped
  <2>1. loaded \subseteq txdb.index
    BY DEF loaded
  <2> QED BY <1>1, <1>2, <1>3, <1>4, <2>1 DEF IndexIsClosed
<1>6. TypeOK'
  <2>1. setStakeSeen' \subseteq Outputs \X Nat
    BY <1>1, <1>2, OutputTypes
  <2>2. txdb.next \in [Blocks -> Blocks \union {Null}]
    BY <1>1 DEF TxDBs
  <2> QED BY <1>1, <1>2, <2>1, <2>2, ChainLemma, IdleType DEF TypeOK
<1> QED BY <1>2, <1>5, <1>6 DEF Formed

\* Every step, the failure of a postponed block included, keeps the invariant.
LEMMA IndexInvStep ==
  ASSUME IndexInv, [Next]_vars
  PROVE  IndexInv'
<1> USE DEF IndexInv
<1>1. ASSUME NEW b \in Blocks, ProcessBlock(b) PROVE IndexInv'
  <2>1. /\ AcceptBlockChecks(b) /\ AddToBlockIndex(b)
        /\ mapOrphanBlocks' \subseteq mapOrphanBlocks \ {b}
        /\ setStakeSeenOrphan' \subseteq Outputs \X Nat
    BY <1>1 DEF ProcessBlock, NewToProcess, TypeOK
  <2> QED BY <2>1, AddToBlockIndexKeepsIndex
<1>2. ASSUME NEW b \in Blocks, StoreOrphan(b) PROVE IndexInv'
  <2>1. PICK pruned \in PruneOrphanBlocks :
           /\ mapOrphanBlocks' = (mapOrphanBlocks \ pruned) \union {b}
           /\ setStakeSeenOrphan' = (setStakeSeenOrphan \ ProofsOfStake(pruned)) \union ProofsOfStake({b})
    BY <1>2 DEF StoreOrphan
  <2>2. setStakeSeenOrphan' \subseteq Outputs \X Nat
    BY <2>1, OutputTypes DEF TypeOK
  <2>3. b \notin mapBlockIndex
    BY <1>2 DEF StoreOrphan, NewToProcess
  <2>4. UNCHANGED <<mapBlockIndex, setStakeSeen, pindexBest, pNext, fMainChainNoReorg,
                    pc, vWorkQueue, txn, txdb, fractions, crashes>>
    BY <1>2 DEF StoreOrphan
  <2>5. TypeOK'
    BY <2>1, <2>2, <2>4 DEF TypeOK
  <2>6. IndexIsClosed'
    BY <2>1, <2>3, <2>4 DEF IndexIsClosed
  <2>7. Formed'
    BY <2>4 DEF Formed
  <2> QED BY <2>5, <2>6, <2>7
<1>3. ASSUME NEW o \in Blocks, ProcessOrphan(o) PROVE IndexInv'
  <2>1. /\ mapOrphanBlocks' = mapOrphanBlocks \ {o}
        /\ setStakeSeenOrphan' \subseteq Outputs \X Nat
    BY <1>3 DEF ProcessOrphan, TypeOK
  <2>2. CASE AcceptBlockChecks(o)
    <3>1. AddToBlockIndex(o)
      BY <1>3, <2>2 DEF ProcessOrphan
    <3> QED BY <2>1, <2>2, <3>1, AddToBlockIndexKeepsIndex
  <2>3. CASE ~AcceptBlockChecks(o)
    <3>1. UNCHANGED <<mapBlockIndex, setStakeSeen, pindexBest, pNext, fMainChainNoReorg,
                      pc, vWorkQueue, txn, txdb, fractions, crashes>>
      BY <1>3, <2>3 DEF ProcessOrphan
    <3>2. TypeOK'
      BY <2>1, <3>1 DEF TypeOK
    <3> QED BY <2>1, <3>1, <3>2 DEF IndexIsClosed, Formed
  <2> QED BY <2>2, <2>3
<1>4. ASSUME NextInQueue PROVE IndexInv'
  <2>1. vWorkQueue \in Seq(Blocks) /\ vWorkQueue # <<>> /\ vWorkQueue' = Tail(vWorkQueue)
    BY <1>4 DEF NextInQueue, TypeOK, Formed
  <2>2. vWorkQueue' \in Seq(Blocks)
    BY <2>1
  <2>3. /\ pc' \in {"idle", "orphans"} /\ (pc' = "orphans" => vWorkQueue' # <<>>)
        /\ UNCHANGED <<mapBlockIndex, setStakeSeen, pindexBest, pNext, fMainChainNoReorg,
                       mapOrphanBlocks, setStakeSeenOrphan, txn, txdb, fractions, crashes>>
    BY <1>4 DEF NextInQueue
  <2> QED BY <2>2, <2>3 DEF TypeOK, IndexIsClosed, Formed
<1>5. ASSUME NEW b \in Blocks, DisconnectStep(b) \/ ConnectStep(b) PROVE IndexInv'
  <2>1. txn' = DisconnectBlock(txn, b) \/ txn' = ConnectBlock(txn, b)
    BY <1>5 DEF DisconnectStep, ConnectStep
  <2>2. fractions' \subseteq Outputs
    BY <1>5, OutputTypes DEF DisconnectStep, ConnectStep, ConnectFractions, TypeOK
  <2>3. UNCHANGED <<mapBlockIndex, setStakeSeen, pindexBest, pNext, fMainChainNoReorg,
                    mapOrphanBlocks, setStakeSeenOrphan, pc, vWorkQueue, txdb, crashes>>
    BY <1>5 DEF DisconnectStep, ConnectStep
  <2>4. /\ txn' \in Txns /\ txn'.pindexNew = txn.pindexNew /\ txn'.target = txn.target
        /\ txn'.postponed = txn.postponed
    BY <2>1, TxnStepType
  <2> QED BY <2>2, <2>3, <2>4 DEF TypeOK, IndexIsClosed, Formed
<1>6. ASSUME Abort PROVE IndexInv'
  <2>1. /\ pc' = IF vWorkQueue = <<>> THEN "idle" ELSE "orphans"
        /\ txn' = Idle
        /\ UNCHANGED <<mapBlockIndex, setStakeSeen, pindexBest, pNext, fMainChainNoReorg,
                       mapOrphanBlocks, setStakeSeenOrphan, vWorkQueue, txdb, fractions, crashes>>
    BY <1>6 DEF Abort, Refused
  <2> QED BY <2>1, IdleType DEF TypeOK, IndexIsClosed, Formed
<1>7. ASSUME PostponedFails PROVE IndexInv'
  <2>1. /\ pc = "txn" /\ pindexBest' = txn.pindexNew /\ Accepted(txn.pindexNew)
        /\ UNCHANGED <<mapBlockIndex, setStakeSeen, pNext, mapOrphanBlocks,
                       setStakeSeenOrphan, txdb, fractions, crashes>>
    BY <1>7 DEF PostponedFails, TxnFails
  <2>2. txn.pindexNew \in Blocks /\ txn.pindexNew \in mapBlockIndex
    BY <2>1 DEF TypeOK, Formed
  <2> QED BY <2>1, <2>2, AcceptedLemma DEF TypeOK, IndexIsClosed, Formed
<1>8. ASSUME UNCHANGED vars PROVE IndexInv'
  BY <1>8 DEF vars, memory, TypeOK, IndexIsClosed, Formed
<1> QED
  BY <1>1, <1>2, <1>3, <1>4, <1>5, <1>6, <1>7, <1>8, CommitKeepsIndex, RestartKeepsIndex
     DEF Next, Receive, Continue

\* A fresh node has indexed the genesis block.
LEMMA IndexInvInit == Init => IndexInv
<1> SUFFICES ASSUME Init PROVE IndexInv
  OBVIOUS
<1>1. Genesis \in Blocks /\ Chain[Genesis] = {Genesis}
  BY TreeAssumption DEF TreeAssumption
<1>2. txdb \in TxDBs
  BY <1>1 DEF Init, TxDBs
<1> QED BY <1>1, <1>2, IdleType DEF Init, IndexInv, TypeOK, IndexIsClosed, Formed

\* IndexInv is an invariant, the failure of postponed blocks included.
LEMMA IndexInvHolds == Spec => []IndexInv
<1>1. IndexInv /\ [Next]_vars => IndexInv'
  BY IndexInvStep
<1> QED BY <1>1, IndexInvInit, PTL DEF Spec

\* The variables of the node and its databases keep their types, whatever
\* blocks arrive and wherever the process is restarted.
THEOREM TypeCorrect == Spec => []TypeOK
<1>1. IndexInv => TypeOK
  BY DEF IndexInv
<1> QED BY <1>1, IndexInvHolds, PTL

\* The block index is closed under predecessors, in memory and on disk, through
\* refused blocks, failed reorganisations and restarts (AddToBlockIndex,
\* LoadBlockIndex).
THEOREM IndexClosed == Spec => []IndexIsClosed
<1>1. IndexInv => IndexIsClosed
  BY DEF IndexInv
<1> QED BY <1>1, IndexInvHolds, PTL

---------------------------------------------------------------------------
(* What the committed transaction database holds: exactly the transactions *)
(* of one chain, with no output spent twice, and, without trusted stakers, *)
(* a chain that only ever gains trust, which is the specification Ledger.  *)
(* All of it is about CleanSpec: after PostponedFails the best block in    *)
(* memory is not the one on disk, and the next reorganisation starts from  *)
(* the wrong block.                                                        *)

(* The inductive invariant *)

\* The memory's best block is the disk's, except between the first commit of a
\* SetBestChain and its last.
BestAgrees == pc # "txn" \/ txn.first => pindexBest = txdb.best

\* Where the open transaction is heading: once the blocks still to do are
\* disconnected and connected, it holds the chain of its target, and the
\* postponed blocks are those between the target and the new block.
HeadsForTarget ==
  pc = "txn" =>
    /\ txn.vDisconnect \intersect txn.vConnect = {}
    /\ txn.todo \subseteq txn.vDisconnect \union txn.vConnect
    /\ txn.vDisconnect \intersect txn.tx = txn.todo \intersect txn.vDisconnect
    /\ (txn.tx \ (txn.todo \intersect txn.vDisconnect)) \union (txn.todo \intersect txn.vConnect)
         = Chain[txn.target]
    /\ txn.postponed \intersect Chain[txn.target] = {}
    /\ txn.postponed \union Chain[txn.target] = Chain[txn.pindexNew]

\* The blocks still to connect are above those that stay.
ConnectsUpwards ==
  pc = "txn" =>
    \A x \in txn.tx \ txn.vDisconnect, c \in txn.todo \intersect txn.vConnect :
      nHeight[x] < nHeight[c]

TxInv == IndexInv /\ TxIndexIsBestChain /\ BestAgrees /\ HeadsForTarget /\ ConnectsUpwards

\* The transaction of a SetBestChain starts out heading for its target.
LEMMA SetBestChainHeads ==
  ASSUME NEW b \in Blocks \ {Genesis}, NEW db, pindexBest \in Blocks, db.tx = Chain[pindexBest]
  PROVE  LET t == SetBestChain(db, b) IN
         /\ t.vDisconnect \intersect t.vConnect = {}
         /\ t.vDisconnect \intersect t.tx = t.todo \intersect t.vDisconnect
         /\ (t.tx \ (t.todo \intersect t.vDisconnect)) \union (t.todo \intersect t.vConnect)
              = Chain[t.target]
         /\ \A x \in t.tx \ t.vDisconnect, c \in t.todo \intersect t.vConnect :
              nHeight[x] < nHeight[c]
<1> DEFINE t == SetBestChain(db, b)
<1>1. /\ t.target \in Chain[b]
      /\ \/ /\ Prev[b] = pindexBest /\ t.target = b
            /\ t.vDisconnect = {} /\ t.vConnect = {b}
         \/ /\ t.vDisconnect = Chain[pindexBest] \ Chain[t.target]
            /\ t.vConnect = Chain[t.target] \ Chain[pindexBest]
      /\ t.todo = t.vDisconnect \union t.vConnect
      /\ t.tx = Chain[pindexBest]
  BY SetBestChainLemma
<1> HIDE DEF t
<1>2. t.target \in Blocks
  BY <1>1, ChainLemma
<1>3. CASE /\ Prev[b] = pindexBest /\ t.target = b
           /\ t.vDisconnect = {} /\ t.vConnect = {b}
  <2>1. Chain[b] = Chain[pindexBest] \union {b} /\ nHeight[b] = nHeight[pindexBest] + 1
    BY <1>3, TreeAssumption DEF TreeAssumption
  <2>2. ASSUME NEW x \in Chain[pindexBest] PROVE nHeight[x] < nHeight[b]
    <3>1. x \in Blocks /\ nHeight[x] <= nHeight[pindexBest]
      BY ChainLemma
    <3>2. nHeight[x] \in Nat /\ nHeight[pindexBest] \in Nat
      BY <3>1, TreeAssumption DEF TreeAssumption
    <3> QED BY <2>1, <3>1, <3>2
  <2> QED BY <1>1, <1>3, <2>1, <2>2 DEF t
<1>4. CASE /\ t.vDisconnect = Chain[pindexBest] \ Chain[t.target]
           /\ t.vConnect = Chain[t.target] \ Chain[pindexBest]
  <2>1. ASSUME NEW x \in Chain[pindexBest], x \in Chain[t.target],
               NEW c \in Chain[t.target], c \notin Chain[pindexBest]
        PROVE  nHeight[x] < nHeight[c]
    <3>1. x \in Blocks /\ c \in Blocks /\ Chain[x] \subseteq Chain[pindexBest]
      BY <1>2, <2>1, ChainLemma
    <3>2. ~(nHeight[c] <= nHeight[x])
      BY <1>2, <2>1, <3>1, PathAssumption DEF PathAssumption
    <3>3. nHeight[x] \in Nat /\ nHeight[c] \in Nat
      BY <3>1, TreeAssumption DEF TreeAssumption
    <3> QED BY <3>2, <3>3
  <2> QED BY <1>1, <1>4, <2>1 DEF t
<1> QED BY <1>1, <1>3, <1>4

\* Two blocks with the same chain are the same block.
LEMMA ChainInjective ==
  ASSUME NEW a \in Blocks, NEW b \in Blocks, Chain[a] = Chain[b]
  PROVE  a = b
<1>1. a \in Chain[b] /\ b \in Chain[a] /\ b \in Chain[b] /\ a \in Chain[a]
  BY ChainLemma
<1>2. nHeight[a] <= nHeight[b] /\ nHeight[b] <= nHeight[a]
  BY <1>1, ChainLemma
<1>3. nHeight[a] = nHeight[b]
  BY <1>2, TreeAssumption DEF TreeAssumption
<1> QED BY <1>1, <1>3, PathAssumption DEF PathAssumption

\* A new index entry, with or without a switch of the chain, keeps TxInv.
LEMMA AddToBlockIndexKeepsTx ==
  ASSUME TxInv, pc # "txn", NEW b \in Blocks, AcceptBlockChecks(b), AddToBlockIndex(b), IndexInv'
  PROVE  TxInv'
<1> DEFINE db == [txdb EXCEPT !.index = @ \union {b}, !.next[b] = Null]
<1>1. /\ b \in Blocks \ {Genesis} /\ pindexBest \in Blocks
      /\ pindexBest = txdb.best /\ txdb.tx = Chain[pindexBest]
  BY TreeAssumption DEF TreeAssumption, AcceptBlockChecks, TxInv, IndexInv, TypeOK, BestAgrees,
     TxIndexIsBestChain
<1>2. /\ txdb' = db /\ db.best = txdb.best /\ db.tx = txdb.tx /\ pindexBest' = pindexBest
  BY DEF AddToBlockIndex, TxInv, IndexInv, TypeOK, TxDBs
<1> HIDE DEF db
<1>3. CASE BetterChainTrust(b) \/ BetterStakerTrust(b)
  <2>1. txn' = SetBestChain(db, b) /\ pc' = "txn"
    BY <1>3 DEF AddToBlockIndex, db
  <2>2. /\ txn'.postponed \intersect Chain[txn'.target] = {}
        /\ txn'.postponed \union Chain[txn'.target] = Chain[txn'.pindexNew]
        /\ txn'.todo = txn'.vDisconnect \union txn'.vConnect
    BY <2>1, <1>1, SetBestChainLemma
  <2>3. /\ txn'.vDisconnect \intersect txn'.vConnect = {}
        /\ txn'.vDisconnect \intersect txn'.tx = txn'.todo \intersect txn'.vDisconnect
        /\ (txn'.tx \ (txn'.todo \intersect txn'.vDisconnect)) \union (txn'.todo \intersect txn'.vConnect)
              = Chain[txn'.target]
        /\ \A x \in txn'.tx \ txn'.vDisconnect, c \in txn'.todo \intersect txn'.vConnect :
              nHeight[x] < nHeight[c]
    BY <2>1, <1>1, <1>2, SetBestChainHeads
  <2> QED BY <1>1, <1>2, <2>1, <2>2, <2>3
          DEF TxInv, TxIndexIsBestChain, BestAgrees, HeadsForTarget, ConnectsUpwards
<1>4. CASE ~(BetterChainTrust(b) \/ BetterStakerTrust(b))
  <2>1. pc' = "orphans"
    BY <1>4 DEF AddToBlockIndex, Accepted
  <2> QED BY <1>1, <1>2, <2>1
          DEF TxInv, TxIndexIsBestChain, BestAgrees, HeadsForTarget, ConnectsUpwards
<1> QED BY <1>3, <1>4

\* A step inside the transaction brings it nearer to its target.
LEMMA TxnStepKeepsTx ==
  ASSUME TxInv, NEW b \in Blocks, DisconnectStep(b) \/ ConnectStep(b), IndexInv'
  PROVE  TxInv'
<1>1. /\ pc = "txn" /\ pc' = "txn" /\ UNCHANGED <<pindexBest, txdb>>
      /\ txn' = DisconnectBlock(txn, b) \/ txn' = ConnectBlock(txn, b)
  BY DEF DisconnectStep, ConnectStep
<1>2. /\ txn'.pindexNew = txn.pindexNew /\ txn'.target = txn.target
      /\ txn'.postponed = txn.postponed /\ txn'.first = txn.first
      /\ txn'.vDisconnect = txn.vDisconnect /\ txn'.vConnect = txn.vConnect
      /\ txn'.todo = txn.todo \ {b}
  BY <1>1, TxnStepType DEF TxInv, IndexInv
<1>3. txn \in Txns /\ txn.target \in Blocks
  BY <1>1, ChainLemma DEF TxInv, IndexInv, TypeOK, Formed, Txns, IndexIsClosed
<1>4. HeadsForTarget' /\ ConnectsUpwards'
  <2>1. CASE DisconnectStep(b)
    <3>1. b \in txn.todo /\ b \in txn.vDisconnect
      BY <2>1 DEF DisconnectStep, Disconnecting
    <3>2. txn'.tx = txn.tx \ {b}
      BY <2>1, <1>3 DEF DisconnectStep, DisconnectBlock, Txns
    <3> QED BY <1>1, <1>2, <3>1, <3>2 DEF TxInv, HeadsForTarget, ConnectsUpwards
  <2>2. CASE ConnectStep(b)
    <3>1. /\ b \in txn.todo /\ b \in txn.vConnect /\ txn.todo \intersect txn.vDisconnect = {}
          /\ \A o \in txn.todo \intersect txn.vConnect : nHeight[b] <= nHeight[o]
      BY <2>2 DEF ConnectStep, Connecting
    <3>2. txn'.tx = txn.tx \union {b}
      BY <2>2, <1>3 DEF ConnectStep, ConnectBlock, Txns
    <3>3. HeadsForTarget'
      BY <1>1, <1>2, <3>1, <3>2 DEF TxInv, HeadsForTarget
    <3>4. ASSUME NEW c \in txn'.todo \intersect txn'.vConnect PROVE nHeight[b] < nHeight[c]
      <4>1. c \in Chain[txn.target] /\ b \in Chain[txn.target] /\ c # b /\ nHeight[b] <= nHeight[c]
        BY <1>1, <1>2, <3>1, <3>4 DEF TxInv, HeadsForTarget
      <4>2. nHeight[b] # nHeight[c]
        BY <1>3, <4>1, PathAssumption DEF PathAssumption
      <4>3. nHeight[b] \in Nat /\ nHeight[c] \in Nat
        BY <1>3, <4>1, ChainLemma, TreeAssumption DEF TreeAssumption
      <4> QED BY <4>1, <4>2, <4>3
    <3>5. ConnectsUpwards'
      BY <1>1, <1>2, <3>2, <3>4 DEF TxInv, ConnectsUpwards
    <3> QED BY <3>3, <3>5
  <2> QED BY <2>1, <2>2
<1> QED BY <1>1, <1>2, <1>4 DEF TxInv, TxIndexIsBestChain, BestAgrees

\* What is committed is the chain of the target; after the last postponed block
\* the target is the new block.
LEMMA CommitKeepsTx ==
  ASSUME TxInv, Commit, IndexInv'
  PROVE  /\ TxInv'
         /\ txdb'.best = txn.target /\ txdb'.tx = Chain[txn.target]
         /\ pc' = "txn" => Prev[txn'.target] = txn.target
<1>1. /\ pc = "txn" /\ txn.todo = {} /\ txn \in Txns /\ txdb \in TxDBs
      /\ txn.pindexNew \in Blocks /\ txn.target \in Chain[txn.pindexNew] /\ txn.target \in Blocks
      /\ txn.postponed \subseteq Blocks
  BY ChainLemma DEF Commit, TxInv, IndexInv, TypeOK, Formed, IndexIsClosed, Txns
<1>2. txdb'.best = txn.target /\ txdb'.tx = txn.tx
  BY <1>1 DEF Commit, TxDBs
<1>3. /\ txn.tx = Chain[txn.target]
      /\ txn.postponed \intersect Chain[txn.target] = {}
      /\ txn.postponed \union Chain[txn.target] = Chain[txn.pindexNew]
  BY <1>1 DEF TxInv, HeadsForTarget
<1>4. CASE txn.postponed = {}
  <2>1. pindexBest' = txn.pindexNew /\ pc' = "orphans"
    BY <1>4 DEF Commit, Accepted
  <2>2. txn.target = txn.pindexNew
    BY <1>1, <1>3, <1>4, ChainInjective
  <2> QED BY <1>2, <1>3, <2>1, <2>2
          DEF TxInv, TxIndexIsBestChain, BestAgrees, HeadsForTarget, ConnectsUpwards
<1>5. CASE txn.postponed # {}
  <2>1. PICK s \in txn.postponed :
           /\ Prev[s] = txn.target
           /\ txn' = Begin(txdb', txn.pindexNew, s, txn.postponed \ {s}, {}, {s}, FALSE)
    BY <1>5 DEF Commit
  <2>2. pc' = "txn"
    BY <1>1, <1>5 DEF Commit
  <2>3. /\ txn'.pindexNew = txn.pindexNew /\ txn'.target = s /\ txn'.postponed = txn.postponed \ {s}
        /\ ~txn'.first /\ txn'.vDisconnect = {} /\ txn'.vConnect = {s} /\ txn'.todo = {s}
        /\ txn'.tx = Chain[txn.target]
    BY <1>2, <1>3, <2>1 DEF Begin
  <2>4. s \in Blocks \ {Genesis}
    BY <1>1, <2>1, TreeAssumption DEF TreeAssumption
  <2>5. Chain[s] = Chain[txn.target] \union {s} /\ nHeight[s] = nHeight[txn.target] + 1
    BY <2>1, <2>4, TreeAssumption DEF TreeAssumption
  <2>6. HeadsForTarget'
    <3>1. (txn'.tx \ (txn'.todo \intersect txn'.vDisconnect)) \union (txn'.todo \intersect txn'.vConnect)
            = Chain[txn'.target]
      BY <2>3, <2>5
    <3>2. /\ txn'.postponed \intersect Chain[txn'.target] = {}
          /\ txn'.postponed \union Chain[txn'.target] = Chain[txn'.pindexNew]
      <4>1. s \in txn.postponed
        OBVIOUS
      <4>2. (txn.postponed \ {s}) \intersect Chain[s] = {}
        BY <1>3, <2>5
      <4>3. (txn.postponed \ {s}) \union Chain[s] = Chain[txn.pindexNew]
        BY <1>3, <2>5, <4>1
      <4> QED BY <2>3, <4>2, <4>3
    <3>3. /\ txn'.vDisconnect \intersect txn'.vConnect = {}
          /\ txn'.todo \subseteq txn'.vDisconnect \union txn'.vConnect
          /\ txn'.vDisconnect \intersect txn'.tx = txn'.todo \intersect txn'.vDisconnect
      BY <2>3
    <3> QED BY <3>1, <3>2, <3>3 DEF HeadsForTarget
  <2>7. ConnectsUpwards'
    <3>1. ASSUME NEW x \in Chain[txn.target] PROVE nHeight[x] < nHeight[s]
      <4>1. x \in Blocks /\ nHeight[x] <= nHeight[txn.target]
        BY <1>1, ChainLemma
      <4>2. nHeight[x] \in Nat /\ nHeight[txn.target] \in Nat
        BY <1>1, <4>1, TreeAssumption DEF TreeAssumption
      <4> QED BY <2>5, <4>1, <4>2
    <3> QED BY <2>3, <3>1 DEF ConnectsUpwards
  <2> QED BY <1>2, <1>3, <2>1, <2>2, <2>3, <2>6, <2>7 DEF TxInv, TxIndexIsBestChain, BestAgrees
<1> QED BY <1>4, <1>5

\* Every step but the failure of a postponed block keeps TxInv.
LEMMA TxInvStep ==
  ASSUME TxInv, [CleanNext]_vars
  PROVE  TxInv'
<1>1. IndexInv'
  BY IndexInvStep DEF TxInv, CleanNext, Next
<1>2. ASSUME NEW b \in Blocks, ProcessBlock(b) PROVE TxInv'
  BY <1>1, <1>2, AddToBlockIndexKeepsTx DEF ProcessBlock
<1>3. ASSUME NEW b \in Blocks, StoreOrphan(b) PROVE TxInv'
  BY <1>1, <1>3 DEF StoreOrphan, TxInv, TxIndexIsBestChain, BestAgrees, HeadsForTarget, ConnectsUpwards
<1>4. ASSUME NEW o \in Blocks, ProcessOrphan(o) PROVE TxInv'
  <2>1. pc # "txn"
    BY <1>4 DEF ProcessOrphan
  <2>2. CASE AcceptBlockChecks(o)
    <3>1. AddToBlockIndex(o)
      BY <1>4, <2>2 DEF ProcessOrphan
    <3> QED BY <1>1, <2>1, <2>2, <3>1, AddToBlockIndexKeepsTx
  <2>3. CASE ~AcceptBlockChecks(o)
    <3>1. UNCHANGED <<pindexBest, pc, txn, txdb>>
      BY <1>4, <2>3 DEF ProcessOrphan
    <3> QED BY <1>1, <3>1 DEF TxInv, TxIndexIsBestChain, BestAgrees, HeadsForTarget, ConnectsUpwards
  <2> QED BY <2>2, <2>3
<1>5. ASSUME NextInQueue PROVE TxInv'
  <2>1. pc # "txn" /\ pc' # "txn" /\ UNCHANGED <<pindexBest, txn, txdb>>
    BY <1>5 DEF NextInQueue
  <2> QED BY <1>1, <2>1 DEF TxInv, TxIndexIsBestChain, BestAgrees, HeadsForTarget, ConnectsUpwards
<1>6. ASSUME Abort PROVE TxInv'
  <2>1. pc = "txn" /\ txn.first /\ pc' # "txn" /\ UNCHANGED <<pindexBest, txdb>>
    BY <1>6 DEF Abort, TxnFails, Refused
  <2> QED BY <1>1, <2>1 DEF TxInv, TxIndexIsBestChain, BestAgrees, HeadsForTarget, ConnectsUpwards
<1>7. ASSUME Restart PROVE TxInv'
  <2>1. pc' = "idle" /\ pindexBest' = txdb.best /\ txdb' = txdb
    BY <1>7 DEF Restart
  <2> QED BY <1>1, <2>1 DEF TxInv, TxIndexIsBestChain, BestAgrees, HeadsForTarget, ConnectsUpwards
<1>8. ASSUME UNCHANGED vars PROVE TxInv'
  BY <1>1, <1>8 DEF vars, memory, TxInv, TxIndexIsBestChain, BestAgrees, HeadsForTarget, ConnectsUpwards
<1>9. ASSUME NEW b \in Blocks, DisconnectStep(b) \/ ConnectStep(b) PROVE TxInv'
  BY <1>1, <1>9, TxnStepKeepsTx
<1>10. ASSUME Commit PROVE TxInv'
  BY <1>1, <1>10, CommitKeepsTx
<1> QED
  BY <1>2, <1>3, <1>4, <1>5, <1>6, <1>7, <1>8, <1>9, <1>10 DEF CleanNext, Receive, Continue

\* A fresh node holds the genesis block, in memory and on disk.
LEMMA TxInvInit == Init => TxInv
<1> SUFFICES ASSUME Init PROVE TxInv
  OBVIOUS
<1>1. IndexInv
  BY IndexInvInit
<1>2. TxIndexIsBestChain
  BY TreeAssumption DEF TreeAssumption, Init, TxIndexIsBestChain
<1> QED BY <1>1, <1>2 DEF Init, TxInv, BestAgrees, HeadsForTarget, ConnectsUpwards

\* TxInv is an invariant of the block chain without postponed failures.
LEMMA TxInvHolds == CleanSpec => []TxInv
<1>1. TxInv /\ [CleanNext]_vars => TxInv'
  BY TxInvStep
<1> QED BY <1>1, TxInvInit, PTL DEF CleanSpec

\* The committed transaction index holds the transactions of exactly one chain,
\* through reorganisations, refused blocks and restarts anywhere in between
\* (SetBestChain, Reorganize, LoadBlockIndex).
THEOREM TxIndexConsistent == CleanSpec => []TxIndexIsBestChain
<1>1. TxInv => TxIndexIsBestChain
  BY DEF TxInv
<1> QED BY <1>1, TxInvHolds, PTL

---------------------------------------------------------------------------
(* Spent outputs *)

\* What a set of blocks must satisfy for its spent marks to be exact: every
\* stake is of an output of an earlier block of its own chain, and no two
\* blocks stake the same one.
Sound(tx, spent) ==
  /\ spent = SpentIn(tx)
  /\ \A a, b \in tx : IsProofOfStake(a) /\ Prevout[a] = Prevout[b] => a = b
  /\ \A a \in tx : IsProofOfStake(a) => Prevout[a][1] \in Chain[a] \ {a}

SpentInv ==
  /\ Sound(txdb.tx, txdb.spent)
  /\ pc = "txn" => Sound(txn.tx, txn.spent)

\* Disconnecting the highest block frees what it staked, and nothing that stays
\* had staked its outputs.
LEMMA DisconnectIsSound ==
  ASSUME TxInv, SpentInv, NEW b \in Blocks, DisconnectStep(b)
  PROVE  Sound(txn'.tx, txn'.spent)
<1>1. /\ pc = "txn" /\ txn \in Txns /\ txn.target \in Blocks
      /\ b \in txn.todo /\ b \in txn.vDisconnect
      /\ \A o \in txn.todo \intersect txn.vDisconnect : nHeight[o] <= nHeight[b]
  BY ChainLemma DEF DisconnectStep, Disconnecting, TxInv, IndexInv, TypeOK, Formed, Txns, IndexIsClosed
<1>2. /\ txn'.tx = txn.tx \ {b}
      /\ txn'.spent = txn.spent \ (SpentIn({b}) \union OutputsOf(b))
  BY <1>1 DEF DisconnectStep, DisconnectBlock, Txns
<1>3. Sound(txn.tx, txn.spent) /\ txn.tx \subseteq Blocks
  BY <1>1 DEF SpentInv, Txns
<1>4. b \notin Chain[txn.target]
  BY <1>1 DEF TxInv, HeadsForTarget
<1>5. ASSUME NEW a \in txn.tx, a # b, IsProofOfStake(a), Prevout[a][1] = b PROVE FALSE
  <2>1. b \in Chain[a] /\ a \in Blocks
    BY <1>3, <1>5 DEF Sound
  <2>2. a \notin Chain[txn.target]
    BY <1>1, <1>4, <2>1, ChainLemma
  <2>3. a \in txn.todo \intersect txn.vDisconnect
    BY <1>1, <1>5, <2>2 DEF TxInv, HeadsForTarget
  <2>4. nHeight[a] <= nHeight[b] /\ nHeight[b] <= nHeight[a]
    BY <1>1, <2>1, <2>3, ChainLemma
  <2>5. nHeight[a] = nHeight[b]
    BY <2>1, <2>4, TreeAssumption DEF TreeAssumption
  <2>6. a \in Chain[a]
    BY <2>1, ChainLemma
  <2> QED BY <1>5, <2>1, <2>5, <2>6, PathAssumption DEF PathAssumption
<1>6. txn'.spent = SpentIn(txn'.tx)
  <2>1. ASSUME NEW a \in txn'.tx, IsProofOfStake(a)
        PROVE  Prevout[a] \notin SpentIn({b}) \union OutputsOf(b)
    <3>1. a \in txn.tx /\ a # b
      BY <1>2, <2>1
    <3>2. Prevout[a] \notin OutputsOf(b)
      BY <1>5, <2>1, <3>1 DEF OutputsOf
    <3>3. Prevout[a] \notin SpentIn({b})
      <4> SUFFICES ASSUME IsProofOfStake(b), Prevout[b] = Prevout[a] PROVE FALSE
        BY DEF SpentIn
      <4>1. b \in txn.tx
        BY <1>1 DEF TxInv, HeadsForTarget
      <4> QED BY <1>3, <3>1, <4>1 DEF Sound
    <3> QED BY <3>2, <3>3
  <2>2. \A o \in txn.spent : o \notin SpentIn({b}) => \E a \in txn'.tx : IsProofOfStake(a) /\ o = Prevout[a]
    BY <1>2, <1>3 DEF Sound, SpentIn
  <2> QED BY <1>2, <1>3, <2>1, <2>2 DEF Sound, SpentIn
<1> QED BY <1>2, <1>3, <1>6 DEF Sound

\* A block that connects stakes an output of its own past that is not spent.
LEMMA ConnectIsSound ==
  ASSUME TxInv, SpentInv, NEW b \in Blocks, ConnectStep(b)
  PROVE  Sound(txn'.tx, txn'.spent)
<1>1. /\ pc = "txn" /\ txn \in Txns /\ txn.target \in Blocks
      /\ b \in txn.todo /\ b \in txn.vConnect /\ txn.todo \intersect txn.vDisconnect = {}
  BY ChainLemma DEF ConnectStep, Connecting, TxInv, IndexInv, TypeOK, Formed, Txns, IndexIsClosed
<1>2. /\ txn'.tx = txn.tx \union {b}
      /\ txn'.spent = (txn.spent \ OutputsOf(b)) \union SpentIn({b})
  BY <1>1 DEF ConnectStep, ConnectBlock, Txns
<1>3. Sound(txn.tx, txn.spent) /\ txn.tx \subseteq Blocks
  BY <1>1 DEF SpentInv, Txns
<1>4. b \in Chain[txn.target] /\ txn.tx \subseteq Chain[txn.target]
  BY <1>1 DEF TxInv, HeadsForTarget
<1>5. ASSUME NEW x \in txn.tx PROVE x \in Chain[b] /\ x # b /\ nHeight[x] < nHeight[b]
  <2>1. x \notin txn.vDisconnect
    BY <1>1, <1>4 DEF TxInv, HeadsForTarget
  <2>2. nHeight[x] < nHeight[b]
    BY <1>1, <2>1 DEF TxInv, ConnectsUpwards
  <2>3. nHeight[x] \in Nat /\ nHeight[b] \in Nat
    BY <1>3, TreeAssumption DEF TreeAssumption
  <2>4. nHeight[x] <= nHeight[b]
    BY <2>2, <2>3
  <2>5. x \in Chain[b]
    BY <1>1, <1>4, <2>4, PathAssumption DEF PathAssumption
  <2> QED BY <2>2, <2>3, <2>5
<1>6. IsProofOfStake(b) => /\ Prevout[b][1] \in txn.tx
                           /\ Prevout[b] \notin txn.spent
  BY DEF ConnectStep, CanConnect, FetchInputs, ConnectInputs
<1>7. ASSUME NEW a \in txn.tx, IsProofOfStake(a) PROVE Prevout[a] \notin OutputsOf(b)
  <2> SUFFICES ASSUME Prevout[a][1] = b PROVE FALSE
    BY DEF OutputsOf
  <2>1. b \in Chain[a] /\ a \in Blocks
    BY <1>3, <1>7 DEF Sound
  <2>2. nHeight[b] <= nHeight[a] /\ nHeight[a] < nHeight[b]
    BY <1>5, <2>1, ChainLemma
  <2>3. nHeight[a] \in Nat /\ nHeight[b] \in Nat
    BY <2>1, TreeAssumption DEF TreeAssumption
  <2> QED BY <2>2, <2>3
<1>8. txn'.spent = SpentIn(txn'.tx)
  <2>1. txn.spent \intersect OutputsOf(b) = {}
    BY <1>3, <1>7 DEF Sound, SpentIn
  <2> QED BY <1>2, <1>3, <2>1 DEF Sound, SpentIn
<1>9. \A a, c \in txn'.tx : IsProofOfStake(a) /\ Prevout[a] = Prevout[c] => a = c
  <2>1. ASSUME NEW a \in txn.tx, IsProofOfStake(b), Prevout[a] = Prevout[b] PROVE FALSE
    BY <1>3, <1>6, <2>1 DEF Sound, SpentIn, IsProofOfStake
  <2>2. ASSUME NEW a \in txn'.tx, NEW c \in txn'.tx, IsProofOfStake(a), Prevout[a] = Prevout[c]
        PROVE  a = c
    <3>1. IsProofOfStake(c)
      BY <2>2 DEF IsProofOfStake
    <3> QED BY <1>2, <1>3, <2>1, <2>2, <3>1 DEF Sound
  <2> QED BY <2>2
<1>10. \A a \in txn'.tx : IsProofOfStake(a) => Prevout[a][1] \in Chain[a] \ {a}
  BY <1>2, <1>3, <1>5, <1>6 DEF Sound
<1> QED BY <1>8, <1>9, <1>10 DEF Sound

\* Every step but the failure of a postponed block keeps the spent marks exact.
LEMMA SpentInvStep ==
  ASSUME TxInv, SpentInv, [CleanNext]_vars
  PROVE  SpentInv'
<1>1. ASSUME NEW b \in Blocks, pc # "txn", AcceptBlockChecks(b), AddToBlockIndex(b) PROVE SpentInv'
  <2> DEFINE db == [txdb EXCEPT !.index = @ \union {b}, !.next[b] = Null]
  <2>1. /\ b \in Blocks \ {Genesis} /\ pindexBest \in Blocks
        /\ txdb' = db /\ db.tx = txdb.tx /\ db.spent = txdb.spent
    BY <1>1, TreeAssumption DEF TreeAssumption, AcceptBlockChecks, AddToBlockIndex, TxInv, IndexInv,
       TypeOK, TxDBs
  <2>2. pc' = "txn" => txn' = SetBestChain(db, b)
    BY <1>1 DEF AddToBlockIndex, Accepted
  <2> HIDE DEF db
  <2>3. pc' = "txn" => txn'.tx = txdb.tx /\ txn'.spent = txdb.spent
    BY <2>1, <2>2, SetBestChainLemma
  <2> QED BY <2>1, <2>3 DEF SpentInv
<1>2. ASSUME NEW b \in Blocks, ProcessBlock(b) PROVE SpentInv'
  BY <1>1, <1>2 DEF ProcessBlock
<1>3. ASSUME NEW b \in Blocks, StoreOrphan(b) PROVE SpentInv'
  BY <1>3 DEF StoreOrphan, SpentInv
<1>4. ASSUME NEW o \in Blocks, ProcessOrphan(o) PROVE SpentInv'
  <2>1. CASE AcceptBlockChecks(o)
    BY <1>1, <1>4, <2>1 DEF ProcessOrphan
  <2>2. CASE ~AcceptBlockChecks(o)
    BY <1>4, <2>2 DEF ProcessOrphan, SpentInv
  <2> QED BY <2>1, <2>2
<1>5. ASSUME NextInQueue PROVE SpentInv'
  BY <1>5 DEF NextInQueue, SpentInv
<1>6. ASSUME Abort PROVE SpentInv'
  BY <1>6 DEF Abort, Refused, SpentInv
<1>7. ASSUME Restart PROVE SpentInv'
  BY <1>7 DEF Restart, SpentInv
<1>8. ASSUME UNCHANGED vars PROVE SpentInv'
  BY <1>8 DEF vars, memory, SpentInv
<1>9. ASSUME NEW b \in Blocks, DisconnectStep(b) PROVE SpentInv'
  <2>1. txdb' = txdb
    BY <1>9 DEF DisconnectStep
  <2> QED BY <1>9, <2>1, DisconnectIsSound DEF SpentInv
<1>10. ASSUME NEW b \in Blocks, ConnectStep(b) PROVE SpentInv'
  <2>1. txdb' = txdb
    BY <1>10 DEF ConnectStep
  <2> QED BY <1>10, <2>1, ConnectIsSound DEF SpentInv
<1>11. ASSUME Commit PROVE SpentInv'
  <2>1. pc = "txn" /\ txdb \in TxDBs
    BY <1>11 DEF Commit, TxInv, IndexInv, TypeOK
  <2>2. txdb'.tx = txn.tx /\ txdb'.spent = txn.spent
    BY <1>11, <2>1 DEF Commit, TxDBs
  <2>3. pc' = "txn" => txn'.tx = txdb'.tx /\ txn'.spent = txdb'.spent
    BY <1>11 DEF Commit, Accepted, Begin
  <2> QED BY <2>1, <2>2, <2>3 DEF SpentInv
<1> QED
  BY <1>2, <1>3, <1>4, <1>5, <1>6, <1>7, <1>8, <1>9, <1>10, <1>11 DEF CleanNext, Receive, Continue

\* On disk an output is marked as spent exactly if a block of the best chain
\* stakes it, and no two blocks of that chain stake the same output
\* (ConnectInputs, DisconnectInputs).
THEOREM SpentConsistent == CleanSpec => []SpentIsBestChain
<1>1. Init => SpentInv
  BY StakeAssumption DEF Init, SpentInv, Sound, SpentIn, StakeAssumption, IsProofOfStake
<1>2. TxInv /\ SpentInv /\ [CleanNext]_vars => SpentInv'
  BY SpentInvStep
<1>3. TxInv /\ SpentInv => SpentIsBestChain
  BY DEF TxInv, TxIndexIsBestChain, SpentInv, Sound, SpentIsBestChain
<1> QED BY <1>1, <1>2, <1>3, TxInvHolds, PTL DEF CleanSpec

---------------------------------------------------------------------------
(* The ledger *)

\* Without trusted stakers a transaction heads for more trust than the disk has.
TrustRises == pc = "txn" => nChainTrust[txn.target] > nChainTrust[txdb.best]

\* Every step keeps TrustRises and is a step of the ledger or leaves it alone.
LEMMA LedgerStep ==
  ASSUME TxInv, TrustRises, TrustedStaked = {}, [CleanNext]_vars
  PROVE  TrustRises' /\ [DiskLedger!Next]_<<txdb.best, txdb.tx>>
<1> USE DEF DiskLedger!Next, DiskLedger!Switch
<1>1. ASSUME NEW b \in Blocks, pc # "txn", AcceptBlockChecks(b), AddToBlockIndex(b)
      PROVE  TrustRises' /\ UNCHANGED <<txdb.best, txdb.tx>>
  <2> DEFINE db == [txdb EXCEPT !.index = @ \union {b}, !.next[b] = Null]
  <2>1. /\ b \in Blocks \ {Genesis} /\ pindexBest \in Blocks /\ pindexBest = txdb.best
        /\ txdb' = db /\ db.tx = txdb.tx /\ db.best = txdb.best
    BY <1>1, TreeAssumption DEF TreeAssumption, AcceptBlockChecks, AddToBlockIndex, TxInv, IndexInv,
       TypeOK, TxDBs, BestAgrees
  <2>2. ASSUME pc' = "txn" PROVE txn' = SetBestChain(db, b) /\ BetterChainTrust(b)
    <3>1. ~BetterStakerTrust(b)
      BY DEF BetterStakerTrust
    <3> QED BY <1>1, <2>2, <3>1 DEF AddToBlockIndex, Accepted
  <2> HIDE DEF db
  <2>3. ASSUME pc' = "txn" PROVE nChainTrust[txn'.target] > nChainTrust[pindexBest]
    <3>1. /\ txn'.target \in Chain[b]
          /\ txn'.postponed \union Chain[txn'.target] = Chain[b]
          /\ txn'.postponed # {} => nChainTrust[txn'.target] > nChainTrust[pindexBest]
      BY <2>1, <2>2, <2>3, SetBestChainLemma
    <3>2. CASE txn'.postponed = {}
      <4>1. txn'.target \in Blocks /\ Chain[txn'.target] = Chain[b]
        BY <3>1, <3>2, <2>1, ChainLemma
      <4>2. txn'.target = b
        BY <4>1, ChainInjective
      <4> QED BY <2>2, <2>3, <4>2 DEF BetterChainTrust
    <3> QED BY <3>1, <3>2
  <2> QED BY <2>1, <2>3 DEF TrustRises
<1>2. ASSUME NEW b \in Blocks, ProcessBlock(b) PROVE TrustRises' /\ UNCHANGED <<txdb.best, txdb.tx>>
  BY <1>1, <1>2 DEF ProcessBlock
<1>3. ASSUME NEW b \in Blocks, StoreOrphan(b) PROVE TrustRises' /\ UNCHANGED <<txdb.best, txdb.tx>>
  BY <1>3 DEF StoreOrphan, TrustRises
<1>4. ASSUME NEW o \in Blocks, ProcessOrphan(o) PROVE TrustRises' /\ UNCHANGED <<txdb.best, txdb.tx>>
  <2>1. CASE AcceptBlockChecks(o)
    BY <1>1, <1>4, <2>1 DEF ProcessOrphan
  <2>2. CASE ~AcceptBlockChecks(o)
    BY <1>4, <2>2 DEF ProcessOrphan, TrustRises
  <2> QED BY <2>1, <2>2
<1>5. ASSUME NextInQueue PROVE TrustRises' /\ UNCHANGED <<txdb.best, txdb.tx>>
  BY <1>5 DEF NextInQueue, TrustRises
<1>6. ASSUME Abort PROVE TrustRises' /\ UNCHANGED <<txdb.best, txdb.tx>>
  BY <1>6 DEF Abort, Refused, TrustRises
<1>7. ASSUME Restart PROVE TrustRises' /\ UNCHANGED <<txdb.best, txdb.tx>>
  BY <1>7 DEF Restart, TrustRises
<1>8. ASSUME UNCHANGED vars PROVE TrustRises' /\ UNCHANGED <<txdb.best, txdb.tx>>
  BY <1>8 DEF vars, memory, TrustRises
<1>9. ASSUME NEW b \in Blocks, DisconnectStep(b) \/ ConnectStep(b)
      PROVE  TrustRises' /\ UNCHANGED <<txdb.best, txdb.tx>>
  <2>1. /\ UNCHANGED <<pc, txdb>>
        /\ txn' = DisconnectBlock(txn, b) \/ txn' = ConnectBlock(txn, b)
    BY <1>9 DEF DisconnectStep, ConnectStep
  <2>2. txn'.target = txn.target
    BY <2>1, TxnStepType DEF TxInv, IndexInv
  <2> QED BY <2>1, <2>2 DEF TrustRises
<1>10. ASSUME Commit PROVE TrustRises' /\ DiskLedger!Next
  <2>1. /\ TxInv'
        /\ txdb'.best = txn.target /\ txdb'.tx = Chain[txn.target]
        /\ pc' = "txn" => Prev[txn'.target] = txn.target
    <3>1. IndexInv'
      BY <1>10, IndexInvStep DEF TxInv, Next, Continue
    <3> QED BY <1>10, <3>1, CommitKeepsTx
  <2>2. pc = "txn" /\ txn.target \in Blocks
    BY <1>10, ChainLemma DEF Commit, TxInv, IndexInv, TypeOK, Formed, IndexIsClosed
  <2>3. DiskLedger!Switch(txn.target)
    BY <2>1, <2>2 DEF TrustRises
  <2>4. TrustRises'
    <3> SUFFICES ASSUME pc' = "txn" PROVE nChainTrust[txn'.target] > nChainTrust[txdb'.best]
      BY DEF TrustRises
    <3>1. txn'.target \in Blocks
      BY <2>1, ChainLemma DEF TxInv, IndexInv, TypeOK, Formed, IndexIsClosed
    <3>2. txn'.target # Genesis
      BY <2>1, <2>2, <3>1, TreeAssumption DEF TreeAssumption
    <3> QED BY <2>1, <3>1, <3>2, TreeAssumption DEF TreeAssumption
  <2> QED BY <2>2, <2>3, <2>4
<1> QED
  BY <1>2, <1>3, <1>4, <1>5, <1>6, <1>7, <1>8, <1>9, <1>10 DEF CleanNext, Receive, Continue

\* With no trusted stakers, what a reader of the disk sees is the ledger: whole
\* chains only, each with more trust than the one before (SetBestChain and its
\* transactions against the specification Ledger).
THEOREM DiskIsLedger == ASSUME TrustedStaked = {} PROVE CleanSpec => ImplementsLedger
<1>1. Init => DiskLedger!Init
  BY DEF Init, DiskLedger!Init
<1>2. Init => TrustRises
  BY DEF Init, TrustRises
<1>3. TxInv /\ TrustRises /\ [CleanNext]_vars => TrustRises' /\ [DiskLedger!Next]_<<txdb.best, txdb.tx>>
  BY LedgerStep
<1> QED BY <1>1, <1>2, <1>3, TxInvHolds, PTL DEF CleanSpec, ImplementsLedger, DiskLedger!Spec

---------------------------------------------------------------------------
(* Next pointers *)

\* next holds exactly the links between the blocks of S.
Linked(next, S) ==
  \A p \in Blocks :
    \/ next[p] \in S /\ Prev[next[p]] = p
    \/ next[p] = Null /\ \A c \in S : Prev[c] # p

\* The open transaction holds one chain, gets from the committed one to its
\* target by its two lists, and its next pointers are those of the chain it holds.
TransactionLinked ==
  pc = "txn" =>
    /\ \E top \in Blocks : txn.tx = Chain[top]
    /\ Linked(txn.next, txn.tx)
    /\ txn.vDisconnect \subseteq txdb.tx
    /\ txn.vConnect \intersect txdb.tx = {}
    /\ Chain[txn.target] = (txdb.tx \ txn.vDisconnect) \union txn.vConnect

LinkInv ==
  /\ Linked(pNext, txdb.tx)
  /\ Linked(txdb.next, txdb.tx)
  /\ TransactionLinked

\* Every chain starts at the genesis block.
LEMMA GenesisInChain ==
  ASSUME NEW b \in Blocks
  PROVE  Genesis \in Chain[b]
<1>1. Chain[b] \subseteq Blocks /\ Chain[b] # {}
  BY ChainLemma
<1>2. PICK l \in Chain[b] : \A o \in Chain[b] : nHeight[l] <= nHeight[o]
  BY <1>1, LowestLemma
<1>3. CASE l # Genesis
  <2>1. l \in Blocks /\ Prev[l] \in Blocks /\ Prev[l] \in Chain[l] /\ Chain[l] \subseteq Chain[b]
    BY <1>1, <1>3, ChainLemma
  <2>2. nHeight[l] = nHeight[Prev[l]] + 1 /\ nHeight[Prev[l]] \in Nat
    BY <1>3, <2>1, TreeAssumption DEF TreeAssumption
  <2>3. nHeight[l] <= nHeight[Prev[l]]
    BY <1>2, <2>1
  <2> QED BY <2>2, <2>3
<1> QED BY <1>2, <1>3

\* In a chain a block has at most one successor.
LEMMA OneSuccessor ==
  ASSUME NEW b \in Blocks, NEW c \in Chain[b], NEW d \in Chain[b],
         Prev[c] \in Blocks, Prev[c] = Prev[d]
  PROVE  c = d
<1>1. c \in Blocks /\ d \in Blocks /\ c # Genesis /\ d # Genesis
  BY ChainLemma, TreeAssumption DEF TreeAssumption
<1>2. nHeight[c] = nHeight[d]
  BY <1>1, TreeAssumption DEF TreeAssumption
<1> QED BY <1>2, PathAssumption DEF PathAssumption

\* The links of a chain are unique.
LEMMA LinksUnique ==
  ASSUME NEW b \in Blocks, NEW m, NEW n, Linked(m, Chain[b]), Linked(n, Chain[b]), NEW p \in Blocks
  PROVE  m[p] = n[p]
BY OneSuccessor DEF Linked

\* A block taken off the end of a chain takes its link with it.
LEMMA UnlinkLast ==
  ASSUME NEW b \in Blocks \ {Genesis}, NEW next \in [Blocks -> Blocks \union {Null}],
         Linked(next, Chain[b])
  PROVE  Linked([next EXCEPT ![Prev[b]] = Null], Chain[Prev[b]])
<1>1. Prev[b] \in Blocks /\ Chain[b] = Chain[Prev[b]] \union {b} /\ nHeight[b] = nHeight[Prev[b]] + 1
  BY TreeAssumption DEF TreeAssumption
<1>2. ASSUME NEW c \in Chain[Prev[b]], Prev[c] = Prev[b] PROVE FALSE
  <2>1. c = b
    BY <1>1, <1>2, OneSuccessor, ChainLemma
  <2>2. nHeight[b] <= nHeight[Prev[b]] /\ nHeight[Prev[b]] \in Nat
    BY <1>1, <1>2, <2>1, ChainLemma, TreeAssumption DEF TreeAssumption
  <2> QED BY <1>1, <2>2
<1> SUFFICES ASSUME NEW p \in Blocks
             PROVE  LET n == [next EXCEPT ![Prev[b]] = Null] IN
                    \/ n[p] \in Chain[Prev[b]] /\ Prev[n[p]] = p
                    \/ n[p] = Null /\ \A c \in Chain[Prev[b]] : Prev[c] # p
  BY DEF Linked
<1>3. CASE p = Prev[b]
  BY <1>1, <1>2, <1>3
<1>4. CASE p # Prev[b]
  BY <1>1, <1>4 DEF Linked
<1> QED BY <1>3, <1>4

\* A block put at the end of a chain is linked from its predecessor.
LEMMA LinkNext ==
  ASSUME NEW b \in Blocks \ {Genesis}, NEW next \in [Blocks -> Blocks \union {Null}],
         Linked(next, Chain[Prev[b]])
  PROVE  Linked([next EXCEPT ![b] = Null, ![Prev[b]] = b], Chain[b])
<1>1. /\ Prev[b] \in Blocks /\ Chain[b] = Chain[Prev[b]] \union {b} /\ b \in Chain[b]
      /\ nHeight[b] = nHeight[Prev[b]] + 1 /\ nHeight[b] \in Nat /\ nHeight[Prev[b]] \in Nat
  BY TreeAssumption DEF TreeAssumption
<1>2. Prev[b] # b
  BY <1>1
<1>3. ASSUME NEW c \in Chain[b], Prev[c] = b PROVE FALSE
  <2>1. c \in Blocks /\ c # Genesis /\ nHeight[c] <= nHeight[b]
    BY <1>3, ChainLemma, TreeAssumption DEF TreeAssumption
  <2>2. nHeight[c] = nHeight[b] + 1
    BY <1>3, <2>1, TreeAssumption DEF TreeAssumption
  <2> QED BY <1>1, <2>1, <2>2
<1> SUFFICES ASSUME NEW p \in Blocks
             PROVE  LET n == [next EXCEPT ![b] = Null, ![Prev[b]] = b] IN
                    \/ n[p] \in Chain[b] /\ Prev[n[p]] = p
                    \/ n[p] = Null /\ \A c \in Chain[b] : Prev[c] # p
  BY DEF Linked
<1>4. CASE p = Prev[b]
  BY <1>1, <1>4
<1>5. CASE p = b
  BY <1>2, <1>3, <1>5
<1>6. CASE p # Prev[b] /\ p # b
  BY <1>1, <1>6 DEF Linked
<1> QED BY <1>4, <1>5, <1>6

\* What SetBestChain does to the next pointers in memory after its commit turns
\* the links of the old chain into those of the new one.
LEMMA RelinkedLinks ==
  ASSUME NEW old \in Blocks, NEW new \in Blocks, NEW next \in [Blocks -> Blocks \union {Null}],
         NEW D \in SUBSET Chain[old], NEW C \in SUBSET Blocks, C \intersect Chain[old] = {},
         Chain[new] = (Chain[old] \ D) \union C, Linked(next, Chain[old])
  PROVE  Linked(Relinked(next, D, C), Chain[new])
<1> SUFFICES ASSUME NEW p \in Blocks
             PROVE  LET n == Relinked(next, D, C) IN
                    \/ n[p] \in Chain[new] /\ Prev[n[p]] = p
                    \/ n[p] = Null /\ \A c \in Chain[new] : Prev[c] # p
  BY DEF Linked
<1> DEFINE n == Relinked(next, D, C)
<1>1. CASE \E c \in C : Prev[c] = p
  <2>1. n[p] \in C /\ Prev[n[p]] = p
    BY <1>1 DEF Relinked
  <2> QED BY <2>1
<1>2. CASE (~\E c \in C : Prev[c] = p) /\ \E d \in D : Prev[d] = p
  <2>1. n[p] = Null
    BY <1>2 DEF Relinked
  <2>2. ASSUME NEW c \in Chain[new], Prev[c] = p PROVE FALSE
    BY <1>2, <2>2, OneSuccessor
  <2> QED BY <2>1, <2>2
<1>3. CASE (~\E c \in C : Prev[c] = p) /\ ~\E d \in D : Prev[d] = p
  <2>1. n[p] = next[p]
    BY <1>3 DEF Relinked
  <2> HIDE DEF n
  <2> QED BY <1>3, <2>1 DEF Linked, n
<1> QED BY <1>1, <1>2, <1>3

\* A new index entry has no successor yet; SetBestChain starts from the disk.
LEMMA AddToBlockIndexKeepsLinks ==
  ASSUME TxInv, LinkInv, pc # "txn", NEW b \in Blocks, AcceptBlockChecks(b), AddToBlockIndex(b)
  PROVE  LinkInv'
<1> DEFINE db == [txdb EXCEPT !.index = @ \union {b}, !.next[b] = Null]
<1>1. /\ b \in Blocks \ {Genesis} /\ pindexBest \in Blocks /\ pindexBest = txdb.best
      /\ txdb.tx = Chain[pindexBest] /\ b \notin Chain[pindexBest]
      /\ pNext \in [Blocks -> Blocks \union {Null}] /\ txdb.next \in [Blocks -> Blocks \union {Null}]
  BY TreeAssumption DEF TreeAssumption, AcceptBlockChecks, TxInv, IndexInv, TypeOK, BestAgrees,
     TxIndexIsBestChain, IndexIsClosed, TxDBs
<1>2. /\ txdb' = db /\ db.tx = txdb.tx /\ db.next = [txdb.next EXCEPT ![b] = Null]
      /\ pNext' = [pNext EXCEPT ![b] = Null]
  BY DEF AddToBlockIndex, TxInv, IndexInv, TypeOK, TxDBs
<1> HIDE DEF db
<1>3. ASSUME NEW c \in Chain[pindexBest], Prev[c] = b PROVE FALSE
  <2>1. c \in Blocks /\ c # Genesis
    BY <1>1, <1>3, ChainLemma, TreeAssumption DEF TreeAssumption
  <2> QED BY <1>1, <1>3, <2>1, ChainLemma
<1>4. ASSUME NEW next \in [Blocks -> Blocks \union {Null}], Linked(next, Chain[pindexBest])
      PROVE  Linked([next EXCEPT ![b] = Null], Chain[pindexBest])
  BY <1>3, <1>4 DEF Linked
<1>5. Linked(pNext', txdb'.tx) /\ Linked(txdb'.next, txdb'.tx)
  BY <1>1, <1>2, <1>4 DEF LinkInv
<1>6. TransactionLinked'
  <2> SUFFICES ASSUME pc' = "txn" PROVE TransactionLinked'
    BY DEF TransactionLinked
  <2>1. txn' = SetBestChain(db, b)
    BY DEF AddToBlockIndex, Accepted, db
  <2>2. /\ txn'.target \in Chain[b]
        /\ \/ /\ Prev[b] = pindexBest /\ txn'.target = b
              /\ txn'.vDisconnect = {} /\ txn'.vConnect = {b}
           \/ /\ txn'.vDisconnect = Chain[pindexBest] \ Chain[txn'.target]
              /\ txn'.vConnect = Chain[txn'.target] \ Chain[pindexBest]
        /\ txn'.tx = db.tx /\ txn'.next = db.next
    BY <1>1, <2>1, SetBestChainLemma
  <2>3. Prev[b] = pindexBest => Chain[b] = Chain[pindexBest] \union {b}
    BY <1>1, TreeAssumption DEF TreeAssumption
  <2>4. /\ txn'.vDisconnect \subseteq Chain[pindexBest]
        /\ txn'.vConnect \intersect Chain[pindexBest] = {}
        /\ Chain[txn'.target] = (Chain[pindexBest] \ txn'.vDisconnect) \union txn'.vConnect
    BY <1>1, <2>2, <2>3
  <2> QED BY <1>1, <1>2, <1>5, <2>2, <2>4 DEF TransactionLinked
<1> QED BY <1>5, <1>6 DEF LinkInv

\* The block a transaction disconnects is the last of the chain it holds.
LEMMA DisconnectsLast ==
  ASSUME TxInv, LinkInv, NEW b \in Blocks, DisconnectStep(b)
  PROVE  b # Genesis /\ txn.tx = Chain[b]
<1>1. /\ pc = "txn" /\ txn.target \in Blocks
      /\ b \in txn.todo /\ b \in txn.vDisconnect
      /\ \A o \in txn.todo \intersect txn.vDisconnect : nHeight[o] <= nHeight[b]
  BY ChainLemma DEF DisconnectStep, Disconnecting, TxInv, IndexInv, TypeOK, Formed, Txns, IndexIsClosed
<1>2. PICK top \in Blocks : txn.tx = Chain[top]
  BY <1>1 DEF LinkInv, TransactionLinked
<1>3. b \in Chain[top] /\ b \notin Chain[txn.target] /\ top \in txn.tx
  BY <1>1, <1>2, ChainLemma DEF TxInv, HeadsForTarget
<1>4. top \notin Chain[txn.target]
  BY <1>1, <1>3, ChainLemma
<1>5. top \in txn.todo \intersect txn.vDisconnect
  BY <1>1, <1>3, <1>4 DEF TxInv, HeadsForTarget
<1>6. nHeight[top] <= nHeight[b] /\ nHeight[b] <= nHeight[top]
  BY <1>1, <1>3, <1>5, ChainLemma
<1>7. nHeight[top] = nHeight[b]
  BY <1>6, TreeAssumption DEF TreeAssumption
<1>8. top = b
  BY <1>3, <1>7, ChainLemma, PathAssumption DEF PathAssumption
<1> QED BY <1>1, <1>2, <1>3, <1>8, GenesisInChain

\* The block a transaction connects follows the last of the chain it holds.
LEMMA ConnectsNext ==
  ASSUME TxInv, LinkInv, NEW b \in Blocks, ConnectStep(b)
  PROVE  b # Genesis /\ txn.tx = Chain[Prev[b]] /\ b \in txn.vConnect
<1>1. /\ pc = "txn" /\ txn.target \in Blocks
      /\ b \in txn.todo /\ b \in txn.vConnect /\ txn.todo \intersect txn.vDisconnect = {}
      /\ \A o \in txn.todo \intersect txn.vConnect : nHeight[b] <= nHeight[o]
  BY ChainLemma DEF ConnectStep, Connecting, TxInv, IndexInv, TypeOK, Formed, Txns, IndexIsClosed
<1>2. PICK top \in Blocks : txn.tx = Chain[top]
  BY <1>1 DEF LinkInv, TransactionLinked
<1>3. /\ b \in Chain[txn.target] /\ top \in Chain[txn.target] /\ top \in txn.tx
      /\ top \notin txn.vDisconnect
  BY <1>1, <1>2, ChainLemma DEF TxInv, HeadsForTarget
<1>4. nHeight[top] < nHeight[b]
  BY <1>1, <1>3 DEF TxInv, ConnectsUpwards
<1>5. b # Genesis
  BY <1>4, TreeAssumption DEF TreeAssumption
<1>6. /\ Prev[b] \in Blocks /\ Prev[b] \in Chain[txn.target]
      /\ nHeight[b] = nHeight[Prev[b]] + 1 /\ nHeight[Prev[b]] \in Nat /\ nHeight[top] \in Nat
  <2>1. Prev[b] \in Blocks /\ Prev[b] \in Chain[b] /\ Chain[b] \subseteq Chain[txn.target]
    BY <1>1, <1>3, <1>5, ChainLemma
  <2> QED BY <1>5, <2>1, TreeAssumption DEF TreeAssumption
<1>7. Prev[b] \in txn.tx
  <2>1. Prev[b] \notin txn.todo \intersect txn.vConnect
    BY <1>1, <1>6
  <2> QED BY <1>1, <1>6, <2>1 DEF TxInv, HeadsForTarget
<1>8. nHeight[Prev[b]] <= nHeight[top]
  BY <1>2, <1>7, ChainLemma
<1>9. nHeight[Prev[b]] = nHeight[top]
  BY <1>4, <1>6, <1>8
<1>10. Prev[b] = top
  BY <1>1, <1>3, <1>6, <1>9, PathAssumption DEF PathAssumption
<1> QED BY <1>1, <1>2, <1>5, <1>10

\* The steps inside a transaction keep its next pointers those of its chain.
LEMMA TxnStepKeepsLinks ==
  ASSUME TxInv, LinkInv, NEW b \in Blocks, DisconnectStep(b) \/ ConnectStep(b)
  PROVE  LinkInv'
<1>1. /\ pc = "txn" /\ pc' = "txn" /\ UNCHANGED <<pNext, txdb>> /\ txn \in Txns
      /\ txn' = DisconnectBlock(txn, b) \/ txn' = ConnectBlock(txn, b)
  BY DEF DisconnectStep, ConnectStep, TxInv, IndexInv, TypeOK
<1>2. /\ txn'.target = txn.target
      /\ txn'.vDisconnect = txn.vDisconnect /\ txn'.vConnect = txn.vConnect
  BY <1>1, TxnStepType DEF TxInv, IndexInv
<1>3. txn.next \in [Blocks -> Blocks \union {Null}] /\ pNext \in [Blocks -> Blocks \union {Null}]
  BY <1>1 DEF Txns, TxInv, IndexInv, TypeOK
<1>4. (\E top \in Blocks : txn'.tx = Chain[top]) /\ Linked(txn'.next, txn'.tx)
  <2>1. CASE DisconnectStep(b)
    <3>1. b # Genesis /\ txn.tx = Chain[b]
      BY <2>1, DisconnectsLast
    <3>2. txn'.tx = txn.tx \ {b} /\ txn'.next = [txn.next EXCEPT ![Prev[b]] = Null]
      BY <2>1, <1>1 DEF DisconnectStep, DisconnectBlock, Txns
    <3>3. Prev[b] \in Blocks /\ Chain[b] = Chain[Prev[b]] \union {b} /\ b \notin Chain[Prev[b]]
      <4>1. /\ Prev[b] \in Blocks /\ Chain[b] = Chain[Prev[b]] \union {b}
            /\ nHeight[b] = nHeight[Prev[b]] + 1 /\ nHeight[Prev[b]] \in Nat
        BY <3>1, TreeAssumption DEF TreeAssumption
      <4> QED BY <4>1, ChainLemma
    <3>4. Linked(txn.next, Chain[b])
      BY <1>1, <3>1 DEF LinkInv, TransactionLinked
    <3>5. Linked([txn.next EXCEPT ![Prev[b]] = Null], Chain[Prev[b]])
      BY <1>3, <3>1, <3>4, UnlinkLast
    <3>6. txn'.tx = Chain[Prev[b]]
      BY <3>1, <3>2, <3>3
    <3> QED BY <3>2, <3>3, <3>5, <3>6
  <2>2. CASE ConnectStep(b)
    <3>1. b # Genesis /\ txn.tx = Chain[Prev[b]] /\ b \in txn.vConnect
      BY <2>2, ConnectsNext
    <3>2. txn'.tx = txn.tx \union {b} /\ txn'.next = [txn.next EXCEPT ![b] = pNext[b], ![Prev[b]] = b]
      BY <2>2, <1>1 DEF ConnectStep, ConnectBlock, Txns
    <3>3. Prev[b] \in Blocks /\ Chain[b] = Chain[Prev[b]] \union {b}
      BY <3>1, TreeAssumption DEF TreeAssumption
    <3>4. pNext[b] = Null
      <4>1. b \notin txdb.tx /\ txdb.tx = Chain[txdb.best] /\ txdb.best \in Blocks
        BY <1>1, <3>1 DEF LinkInv, TransactionLinked, TxInv, TxIndexIsBestChain, IndexInv, TypeOK, TxDBs
      <4>2. ASSUME NEW c \in txdb.tx, Prev[c] = b PROVE FALSE
        <5>1. c \in Blocks /\ c # Genesis
          BY <4>1, <4>2, ChainLemma, TreeAssumption DEF TreeAssumption
        <5> QED BY <4>1, <4>2, <5>1, ChainLemma
      <4> QED BY <4>2 DEF LinkInv, Linked
    <3>5. Linked([txn.next EXCEPT ![b] = Null, ![Prev[b]] = b], Chain[b])
      BY <1>1, <1>3, <3>1, LinkNext DEF LinkInv, TransactionLinked
    <3>6. txn'.tx = Chain[b]
      BY <3>1, <3>2, <3>3
    <3> QED BY <3>2, <3>4, <3>5, <3>6
  <2> QED BY <2>1, <2>2
<1> QED BY <1>1, <1>2, <1>4 DEF LinkInv, TransactionLinked

\* A commit puts the transaction's next pointers on disk and relinks the memory.
LEMMA CommitKeepsLinks ==
  ASSUME TxInv, LinkInv, Commit
  PROVE  LinkInv'
<1>1. /\ pc = "txn" /\ txn.todo = {} /\ txn \in Txns /\ txdb \in TxDBs
      /\ txn.pindexNew \in Blocks /\ txn.target \in Blocks
      /\ txn.postponed \subseteq Blocks /\ txdb.best \in Blocks /\ txdb.tx = Chain[txdb.best]
      /\ pNext \in [Blocks -> Blocks \union {Null}]
  BY ChainLemma DEF Commit, TxInv, IndexInv, TypeOK, Formed, IndexIsClosed, Txns, TxDBs, TxIndexIsBestChain
<1>2. /\ txdb'.tx = txn.tx /\ txdb'.next = txn.next
      /\ pNext' = Relinked(pNext, txn.vDisconnect, txn.vConnect)
  BY <1>1 DEF Commit, TxDBs
<1>3. /\ txn.tx = Chain[txn.target] /\ txn.postponed \intersect Chain[txn.target] = {}
  BY <1>1 DEF TxInv, HeadsForTarget
<1>4. Linked(txn.next, Chain[txn.target])
  BY <1>1, <1>3 DEF LinkInv, TransactionLinked
<1>5. Linked(pNext', Chain[txn.target])
  <2>1. /\ txn.vDisconnect \in SUBSET Chain[txdb.best] /\ txn.vConnect \in SUBSET Blocks
        /\ txn.vConnect \intersect Chain[txdb.best] = {}
        /\ Chain[txn.target] = (Chain[txdb.best] \ txn.vDisconnect) \union txn.vConnect
        /\ Linked(pNext, Chain[txdb.best])
    BY <1>1 DEF LinkInv, TransactionLinked, Txns
  <2> QED BY <1>1, <1>2, <2>1, RelinkedLinks
<1>6. TransactionLinked'
  <2> SUFFICES ASSUME pc' = "txn" PROVE TransactionLinked'
    BY DEF TransactionLinked
  <2>1. txn.postponed # {}
    BY DEF Commit, Accepted
  <2>2. PICK s \in txn.postponed :
           /\ Prev[s] = txn.target
           /\ txn' = Begin(txdb', txn.pindexNew, s, txn.postponed \ {s}, {}, {s}, FALSE)
    BY <2>1 DEF Commit
  <2>3. /\ txn'.target = s /\ txn'.vDisconnect = {} /\ txn'.vConnect = {s}
        /\ txn'.tx = txdb'.tx /\ txn'.next = txdb'.next
    BY <2>2 DEF Begin
  <2>4. s \in Blocks \ {Genesis} /\ s \notin Chain[txn.target]
    BY <1>1, <1>3, <2>2, TreeAssumption DEF TreeAssumption
  <2>5. Chain[s] = Chain[txn.target] \union {s}
    BY <2>2, <2>4, TreeAssumption DEF TreeAssumption
  <2> QED BY <1>1, <1>2, <1>3, <1>4, <2>3, <2>4, <2>5 DEF TransactionLinked
<1> QED BY <1>2, <1>3, <1>4, <1>5, <1>6 DEF LinkInv

\* Every step but the failure of a postponed block keeps LinkInv.
LEMMA LinkInvStep ==
  ASSUME TxInv, LinkInv, [CleanNext]_vars
  PROVE  LinkInv'
<1>1. ASSUME NEW b \in Blocks, ProcessBlock(b) PROVE LinkInv'
  BY <1>1, AddToBlockIndexKeepsLinks DEF ProcessBlock
<1>2. ASSUME NEW b \in Blocks, StoreOrphan(b) PROVE LinkInv'
  BY <1>2 DEF StoreOrphan, LinkInv, TransactionLinked
<1>3. ASSUME NEW o \in Blocks, ProcessOrphan(o) PROVE LinkInv'
  <2>1. CASE AcceptBlockChecks(o)
    BY <1>3, <2>1, AddToBlockIndexKeepsLinks DEF ProcessOrphan
  <2>2. CASE ~AcceptBlockChecks(o)
    BY <1>3, <2>2 DEF ProcessOrphan, LinkInv, TransactionLinked
  <2> QED BY <2>1, <2>2
<1>4. ASSUME NextInQueue PROVE LinkInv'
  BY <1>4 DEF NextInQueue, LinkInv, TransactionLinked
<1>5. ASSUME NEW b \in Blocks, DisconnectStep(b) \/ ConnectStep(b) PROVE LinkInv'
  BY <1>5, TxnStepKeepsLinks
<1>6. ASSUME Abort PROVE LinkInv'
  BY <1>6 DEF Abort, Refused, LinkInv, TransactionLinked
<1>7. ASSUME Restart PROVE LinkInv'
  BY <1>7 DEF Restart, LinkInv, TransactionLinked
<1>8. ASSUME UNCHANGED vars PROVE LinkInv'
  BY <1>8 DEF vars, memory, LinkInv, TransactionLinked
<1> QED
  BY <1>1, <1>2, <1>3, <1>4, <1>5, <1>6, <1>7, <1>8, CommitKeepsLinks DEF CleanNext, Receive, Continue

\* LinkInv is an invariant of the block chain without postponed failures.
LEMMA LinkInvHolds == CleanSpec => []LinkInv
<1>1. Init => LinkInv
  <2>1. \A p \in Blocks : Prev[Genesis] # p
    BY TreeAssumption DEF TreeAssumption
  <2> QED BY <2>1 DEF Init, LinkInv, Linked, TransactionLinked
<1>2. TxInv /\ LinkInv /\ [CleanNext]_vars => LinkInv'
  BY LinkInvStep
<1> QED BY <1>1, <1>2, TxInvHolds, PTL DEF CleanSpec

\* Outside SetBestChain the memory agrees with the disk on the best block and
\* on every next pointer, and those are the links of the best chain: through
\* reorganisations over several transactions, refused blocks, blocks accepted
\* late and restarts between any two steps (Reorganize, SetBestChain,
\* LoadBlockIndex).
THEOREM MemoryIsDisk == CleanSpec => []MemoryFollowsDisk
<1>1. ASSUME TxInv, LinkInv PROVE MemoryFollowsDisk
  <2> SUFFICES ASSUME pc # "txn"
               PROVE  /\ pindexBest = txdb.best
                      /\ \A b \in mapBlockIndex :
                           /\ pNext[b] = txdb.next[b]
                           /\ pNext[b] # Null <=> \E c \in Chain[pindexBest] \ {Genesis} : Prev[c] = b
                           /\ pNext[b] # Null => pNext[b] \in Chain[pindexBest]
    BY DEF MemoryFollowsDisk
  <2>1. /\ pindexBest = txdb.best /\ txdb.tx = Chain[pindexBest] /\ pindexBest \in Blocks
        /\ mapBlockIndex \subseteq Blocks
    BY <1>1 DEF TxInv, BestAgrees, TxIndexIsBestChain, IndexInv, TypeOK
  <2>2. Linked(pNext, Chain[pindexBest]) /\ Linked(txdb.next, Chain[pindexBest])
    BY <1>1, <2>1 DEF LinkInv
  <2>3. ASSUME NEW b \in Blocks PROVE pNext[b] = txdb.next[b]
    BY <2>1, <2>2, LinksUnique
  <2>4. ASSUME NEW b \in Blocks
        PROVE  /\ pNext[b] # Null <=> \E c \in Chain[pindexBest] \ {Genesis} : Prev[c] = b
               /\ pNext[b] # Null => pNext[b] \in Chain[pindexBest]
    <3>1. Prev[Genesis] # b /\ Null \notin Chain[pindexBest]
      BY <2>1, ChainLemma, TreeAssumption DEF TreeAssumption
    <3> QED BY <2>2, <3>1 DEF Linked
  <2> QED BY <2>1, <2>3, <2>4
<1>2. TxInv /\ LinkInv => MemoryFollowsDisk
  BY <1>1
<1> QED BY <1>2, TxInvHolds, LinkInvHolds, PTL

---------------------------------------------------------------------------
(* Trust *)

\* The block SetBestChain works for beats the best block by trust, or by a
\* trusted staker on a longer fork; the best block in memory waits for it.
NewIsBetter ==
  pc = "txn" =>
    \/ nChainTrust[txn.pindexNew] > nChainTrust[pindexBest]
    \/ /\ Cardinality(Chain[txn.pindexNew] \ Chain[pindexBest]) > TrustDepth
       /\ Chain[txn.pindexNew] \intersect (TrustedStaked \ Chain[pindexBest]) # {}

\* The step of TrustFallsOnlyForStakers
TrustKept ==
  nChainTrust[pindexBest'] <= nChainTrust[pindexBest] /\ pindexBest' # pindexBest
  => \/ crashes' # crashes
     \/ /\ Cardinality(Chain[pindexBest'] \ Chain[pindexBest]) > TrustDepth
        /\ Chain[pindexBest'] \intersect (TrustedStaked \ Chain[pindexBest]) # {}

\* What a new index entry does to the switch of chains: nothing, or it starts one
\* for a block that is better by trust or by its stakers.
LEMMA AddToBlockIndexSwitch ==
  ASSUME IndexInv, NEW b \in Blocks, AcceptBlockChecks(b), AddToBlockIndex(b)
  PROVE  /\ pindexBest' = pindexBest /\ mapBlockIndex' = mapBlockIndex \union {b}
         /\ \/ /\ pc' = "txn" /\ txn'.pindexNew = b /\ NewIsBetter'
               /\ UNCHANGED <<fMainChainNoReorg, vWorkQueue>>
               /\ txn'.first /\ txn'.tx = txdb.tx
               /\ TrustedStaked = {} => nChainTrust[b] > nChainTrust[pindexBest]
            \/ /\ pc' = "orphans" /\ Accepted(b) /\ nChainTrust[b] <= nChainTrust[pindexBest]
<1> DEFINE db == [txdb EXCEPT !.index = @ \union {b}, !.next[b] = Null]
<1>1. b \in Blocks \ {Genesis} /\ pindexBest \in Blocks /\ db.tx = txdb.tx
  BY TreeAssumption DEF TreeAssumption, AcceptBlockChecks, IndexInv, TypeOK, TxDBs
<1>2. pindexBest' = pindexBest /\ mapBlockIndex' = mapBlockIndex \union {b}
  BY DEF AddToBlockIndex
<1>3. CASE BetterChainTrust(b) \/ BetterStakerTrust(b)
  <2>1. txn' = SetBestChain(db, b) /\ pc' = "txn" /\ UNCHANGED <<fMainChainNoReorg, vWorkQueue>>
    BY <1>3 DEF AddToBlockIndex
  <2> HIDE DEF db
  <2>2. txn'.pindexNew = b /\ txn'.first /\ txn'.tx = txdb.tx
    BY <1>1, <2>1, SetBestChainLemma
  <2>3. \/ nChainTrust[b] > nChainTrust[pindexBest]
        \/ /\ Cardinality(Chain[b] \ Chain[pindexBest]) > TrustDepth
           /\ Chain[b] \intersect (TrustedStaked \ Chain[pindexBest]) # {}
    BY <1>3 DEF BetterChainTrust, BetterStakerTrust
  <2>4. NewIsBetter'
    BY <1>2, <2>2, <2>3 DEF NewIsBetter
  <2>5. TrustedStaked = {} => nChainTrust[b] > nChainTrust[pindexBest]
    BY <2>3
  <2> QED BY <1>2, <2>1, <2>2, <2>4, <2>5
<1>4. CASE ~(BetterChainTrust(b) \/ BetterStakerTrust(b))
  <2>1. Accepted(b) /\ pc' = "orphans"
    BY <1>4 DEF AddToBlockIndex, Accepted
  <2>2. nChainTrust[b] <= nChainTrust[pindexBest]
    BY <1>1, <1>4, TreeAssumption DEF BetterChainTrust, TreeAssumption
  <2> QED BY <1>2, <2>1, <2>2
<1> QED BY <1>3, <1>4

\* Every step keeps NewIsBetter and never gives up trust for less than stakers.
LEMMA NewIsBetterStep ==
  ASSUME IndexInv, NewIsBetter, [Next]_vars
  PROVE  NewIsBetter' /\ (UNCHANGED vars \/ TrustKept)
<1> USE DEF TrustKept
<1>1. ASSUME NEW b \in Blocks, AcceptBlockChecks(b), AddToBlockIndex(b) PROVE NewIsBetter' /\ TrustKept
  BY <1>1, AddToBlockIndexSwitch DEF NewIsBetter
<1>2. ASSUME NEW b \in Blocks, ProcessBlock(b) PROVE NewIsBetter' /\ TrustKept
  BY <1>1, <1>2 DEF ProcessBlock
<1>3. ASSUME NEW b \in Blocks, StoreOrphan(b) PROVE NewIsBetter' /\ TrustKept
  BY <1>3 DEF StoreOrphan, NewIsBetter
<1>4. ASSUME NEW o \in Blocks, ProcessOrphan(o) PROVE NewIsBetter' /\ TrustKept
  <2>1. CASE AcceptBlockChecks(o)
    BY <1>1, <1>4, <2>1 DEF ProcessOrphan
  <2>2. CASE ~AcceptBlockChecks(o)
    BY <1>4, <2>2 DEF ProcessOrphan, NewIsBetter
  <2> QED BY <2>1, <2>2
<1>5. ASSUME NextInQueue PROVE NewIsBetter' /\ TrustKept
  BY <1>5 DEF NextInQueue, NewIsBetter
<1>6. ASSUME Abort PROVE NewIsBetter' /\ TrustKept
  BY <1>6 DEF Abort, Refused, NewIsBetter
<1>7. ASSUME Restart PROVE NewIsBetter' /\ TrustKept
  <2>1. pc' = "idle" /\ crashes' = crashes + 1 /\ crashes \in Nat
    BY <1>7 DEF Restart, IndexInv, TypeOK
  <2>2. crashes' # crashes
    BY <2>1
  <2> QED BY <2>1, <2>2 DEF NewIsBetter
<1>8. ASSUME NEW b \in Blocks, DisconnectStep(b) \/ ConnectStep(b) PROVE NewIsBetter' /\ TrustKept
  <2>1. /\ UNCHANGED <<pc, pindexBest>>
        /\ txn' = DisconnectBlock(txn, b) \/ txn' = ConnectBlock(txn, b)
    BY <1>8 DEF DisconnectStep, ConnectStep
  <2>2. txn'.pindexNew = txn.pindexNew
    BY <2>1, TxnStepType DEF IndexInv
  <2> QED BY <2>1, <2>2 DEF NewIsBetter
<1>9. ASSUME pc = "txn", pindexBest' = txn.pindexNew, Accepted(txn.pindexNew)
      PROVE  NewIsBetter' /\ TrustKept
  <2>1. pc' = "orphans"
    BY <1>9 DEF Accepted
  <2>2. TrustKept
    <3>1. pindexBest \in Blocks /\ txn.pindexNew \in Blocks
      BY <1>9 DEF IndexInv, TypeOK, Formed
    <3>2. nChainTrust[pindexBest] \in Nat /\ nChainTrust[txn.pindexNew] \in Nat
      BY <3>1, TreeAssumption DEF TreeAssumption
    <3> QED BY <1>9, <3>2 DEF NewIsBetter
  <2> QED BY <2>1, <2>2 DEF NewIsBetter
<1>10. ASSUME Commit PROVE NewIsBetter' /\ TrustKept
  <2>1. CASE txn.postponed = {}
    BY <1>9, <1>10, <2>1 DEF Commit
  <2>2. CASE txn.postponed # {}
    <3>1. UNCHANGED <<pindexBest, pc>> /\ txn'.pindexNew = txn.pindexNew
      BY <1>10, <2>2 DEF Commit, Begin
    <3> QED BY <3>1 DEF NewIsBetter
  <2> QED BY <2>1, <2>2
<1>11. ASSUME PostponedFails PROVE NewIsBetter' /\ TrustKept
  BY <1>9, <1>11 DEF PostponedFails, TxnFails
<1>12. ASSUME UNCHANGED vars PROVE NewIsBetter'
  BY <1>12 DEF vars, memory, NewIsBetter
<1> HIDE DEF TrustKept
<1> QED
  BY <1>2, <1>3, <1>4, <1>5, <1>6, <1>7, <1>8, <1>10, <1>11, <1>12 DEF Next, Receive, Continue

\* NewIsBetter is an invariant, the failure of postponed blocks included.
LEMMA NewIsBetterHolds == Spec => []NewIsBetter
<1>1. Init => NewIsBetter
  BY DEF Init, NewIsBetter
<1>2. IndexInv /\ NewIsBetter /\ [Next]_vars => NewIsBetter'
  BY NewIsBetterStep
<1> QED BY <1>1, <1>2, IndexInvHolds, PTL DEF Spec

\* The best chain gives way to one with no more trust only for a longer fork
\* with a trusted staker's block, or over a restart: the comparison made when
\* the block was indexed still holds when SetBestChain ends, however many
\* transactions, failed ones included, lie between (AddToBlockIndex, SetBestChain).
THEOREM TrustFallsRarely == Spec => TrustFallsOnlyForStakers
<1>1. IndexInv /\ NewIsBetter /\ [Next]_vars => [TrustKept]_vars
  BY NewIsBetterStep
<1>2. [][TrustKept]_vars => TrustFallsOnlyForStakers
  BY PTL DEF TrustKept, TrustFallsOnlyForStakers
<1> QED BY <1>1, <1>2, IndexInvHolds, NewIsBetterHolds, PTL DEF Spec

---------------------------------------------------------------------------
(* Orphans, and the heaviest chain *)

\* No block is refused by its first transaction; the process is not restarted.
NothingRefused == [][~Abort]_vars
NoRestart == [][~Restart]_vars

\* A block whose orphans still have to be looked at
Waits(b) ==
  \/ \E i \in 1..Len(vWorkQueue) : vWorkQueue[i] = b
  \/ pc = "txn" /\ txn.pindexNew = b

\* An orphan whose predecessor is indexed is still going to be looked at.
OrphanInv ==
  /\ \A o \in mapOrphanBlocks : Prev[o] \in mapBlockIndex => Waits(Prev[o])
  /\ pc = "idle" => vWorkQueue = <<>>

\* A block appended to the work queue joins those that wait.
LEMMA AppendWaits ==
  ASSUME NEW q \in Seq(Blocks), NEW b \in Blocks
  PROVE  /\ \A i \in 1..Len(q) : i \in 1..Len(Append(q, b)) /\ Append(q, b)[i] = q[i]
         /\ Len(q) + 1 \in 1..Len(Append(q, b)) /\ Append(q, b)[Len(q) + 1] = b
OBVIOUS

\* The block SetBestChain was for waits, or enters the queue.
LEMMA AcceptedWaits ==
  ASSUME IndexInv, NEW b \in Blocks, Accepted(b)
  PROVE  /\ pc' = "orphans"
         /\ \A c : (\E i \in 1..Len(vWorkQueue) : vWorkQueue[i] = c) \/ c = b => Waits(c)'
<1>1. vWorkQueue \in Seq(Blocks) /\ vWorkQueue' = Append(vWorkQueue, b) /\ pc' = "orphans"
  BY DEF Accepted, IndexInv, TypeOK
<1>2. ASSUME NEW c, (\E i \in 1..Len(vWorkQueue) : vWorkQueue[i] = c) \/ c = b
      PROVE  \E i \in 1..Len(vWorkQueue') : vWorkQueue'[i] = c
  BY <1>1, <1>2, AppendWaits
<1> QED BY <1>1, <1>2 DEF Waits

\* Every step that refuses no block keeps OrphanInv.
LEMMA OrphanInvStep ==
  ASSUME IndexInv, OrphanInv, [Next]_vars, UNCHANGED vars \/ ~Abort
  PROVE  OrphanInv'
<1>1. ASSUME NEW b \in Blocks, pc # "txn", AcceptBlockChecks(b), AddToBlockIndex(b),
             mapOrphanBlocks' \subseteq mapOrphanBlocks
      PROVE  OrphanInv'
  <2>1. mapBlockIndex' = mapBlockIndex \union {b}
    BY <1>1, AddToBlockIndexSwitch
  <2>2. CASE pc' = "txn" /\ txn'.pindexNew = b /\ UNCHANGED vWorkQueue
    BY <1>1, <2>1, <2>2 DEF OrphanInv, Waits
  <2>3. CASE pc' = "orphans" /\ Accepted(b)
    <3>1. \A c : (\E i \in 1..Len(vWorkQueue) : vWorkQueue[i] = c) \/ c = b => Waits(c)'
      BY <2>3, AcceptedWaits
    <3> QED BY <1>1, <2>1, <2>3, <3>1 DEF OrphanInv, Waits
  <2> QED BY <1>1, <2>2, <2>3, AddToBlockIndexSwitch
<1>2. ASSUME NEW b \in Blocks, ProcessBlock(b) PROVE OrphanInv'
  BY <1>1, <1>2 DEF ProcessBlock
<1>3. ASSUME NEW b \in Blocks, StoreOrphan(b) PROVE OrphanInv'
  BY <1>3 DEF StoreOrphan, OrphanInv, Waits
<1>4. ASSUME NEW o \in Blocks, ProcessOrphan(o) PROVE OrphanInv'
  <2>1. CASE AcceptBlockChecks(o)
    BY <1>1, <1>4, <2>1 DEF ProcessOrphan
  <2>2. CASE ~AcceptBlockChecks(o)
    BY <1>4, <2>2 DEF ProcessOrphan, OrphanInv, Waits
  <2> QED BY <2>1, <2>2
<1>5. ASSUME NextInQueue PROVE OrphanInv'
  <2>1. /\ vWorkQueue \in Seq(Blocks) /\ vWorkQueue # <<>> /\ vWorkQueue' = Tail(vWorkQueue)
        /\ pc = "orphans" /\ pc' = IF vWorkQueue' = <<>> THEN "idle" ELSE "orphans"
        /\ \A o \in mapOrphanBlocks : Prev[o] # Head(vWorkQueue)
        /\ UNCHANGED <<mapBlockIndex, mapOrphanBlocks, txn>>
    BY <1>5 DEF NextInQueue, HasOrphanChild, IndexInv, TypeOK, Formed
  <2>2. ASSUME NEW i \in 1..Len(vWorkQueue), vWorkQueue[i] # Head(vWorkQueue)
        PROVE  \E j \in 1..Len(vWorkQueue') : vWorkQueue'[j] = vWorkQueue[i]
    <3>1. i # 1 /\ i - 1 \in 1..Len(vWorkQueue') /\ vWorkQueue'[i - 1] = vWorkQueue[i]
      BY <2>1, <2>2
    <3> QED BY <3>1
  <2>3. ASSUME NEW o \in mapOrphanBlocks, Prev[o] \in mapBlockIndex PROVE Waits(Prev[o])'
    BY <2>1, <2>2, <2>3 DEF OrphanInv, Waits
  <2> QED BY <2>1, <2>3 DEF OrphanInv
<1>6. ASSUME NEW b \in Blocks, DisconnectStep(b) \/ ConnectStep(b) PROVE OrphanInv'
  <2>1. /\ UNCHANGED <<pc, vWorkQueue, mapBlockIndex, mapOrphanBlocks>>
        /\ txn' = DisconnectBlock(txn, b) \/ txn' = ConnectBlock(txn, b)
    BY <1>6 DEF DisconnectStep, ConnectStep
  <2>2. txn'.pindexNew = txn.pindexNew
    BY <2>1, TxnStepType DEF IndexInv
  <2> QED BY <2>1, <2>2 DEF OrphanInv, Waits
<1>7. ASSUME pc = "txn", Accepted(txn.pindexNew), UNCHANGED <<mapBlockIndex, mapOrphanBlocks>>
      PROVE  OrphanInv'
  <2>1. txn.pindexNew \in Blocks
    BY <1>7 DEF IndexInv, TypeOK, Formed
  <2>2. /\ pc' = "orphans"
        /\ \A c : (\E i \in 1..Len(vWorkQueue) : vWorkQueue[i] = c) \/ c = txn.pindexNew => Waits(c)'
    BY <1>7, <2>1, AcceptedWaits
  <2> QED BY <1>7, <2>2 DEF OrphanInv, Waits
<1>8. ASSUME Commit PROVE OrphanInv'
  <2>1. CASE txn.postponed = {}
    BY <1>7, <1>8, <2>1 DEF Commit
  <2>2. CASE txn.postponed # {}
    <3>1. UNCHANGED <<pc, vWorkQueue, mapBlockIndex, mapOrphanBlocks>> /\ txn'.pindexNew = txn.pindexNew
      BY <1>8, <2>2 DEF Commit, Begin
    <3> QED BY <3>1 DEF OrphanInv, Waits
  <2> QED BY <2>1, <2>2
<1>9. ASSUME PostponedFails PROVE OrphanInv'
  BY <1>7, <1>9 DEF PostponedFails, TxnFails
<1>10. ASSUME Restart PROVE OrphanInv'
  BY <1>10 DEF Restart, OrphanInv
<1>11. ASSUME UNCHANGED vars PROVE OrphanInv'
  BY <1>11 DEF vars, memory, OrphanInv, Waits
<1> QED
  BY <1>2, <1>3, <1>4, <1>5, <1>6, <1>8, <1>9, <1>10, <1>11 DEF Next, Receive, Continue

\* As long as no block is refused by the transaction it starts, no orphan is
\* left waiting for a block that is there, although blocks that arrive late
\* connect whole trees of orphans with switches of the chain in between
\* (ProcessBlock's work queue).  A refused block keeps its index entry and its
\* orphans are not looked at, which is why the hypothesis is needed.
THEOREM NoOrphanForgotten == Spec /\ NothingRefused => []OrphansWait
<1>1. Init => OrphanInv
  BY DEF Init, OrphanInv
<1>2. IndexInv /\ OrphanInv /\ [Next]_vars /\ [~Abort]_vars => OrphanInv'
  BY OrphanInvStep
<1>3. IndexInv /\ OrphanInv => OrphansWait
  BY DEF OrphanInv, OrphansWait, Waits
<1> QED BY <1>1, <1>2, <1>3, IndexInvHolds, PTL DEF Spec, NothingRefused

\* Only the block SetBestChain works for may have more trust than the best one.
HeaviestInv ==
  \A b \in mapBlockIndex : nChainTrust[b] > nChainTrust[pindexBest] => pc = "txn" /\ txn.pindexNew = b

\* Without trusted stakers every step that refuses nothing, and is no restart,
\* keeps HeaviestInv.
LEMMA HeaviestInvStep ==
  ASSUME IndexInv, NewIsBetter, HeaviestInv, TrustedStaked = {}, [Next]_vars,
         UNCHANGED vars \/ ~Abort, UNCHANGED vars \/ ~Restart
  PROVE  HeaviestInv'
<1>0. \A b \in Blocks : nChainTrust[b] \in Nat
  BY TreeAssumption DEF TreeAssumption
<1>1. ASSUME NEW b \in Blocks, pc # "txn", AcceptBlockChecks(b), AddToBlockIndex(b)
      PROVE  HeaviestInv'
  <2>1. /\ pindexBest' = pindexBest /\ mapBlockIndex' = mapBlockIndex \union {b}
        /\ \/ pc' = "txn" /\ txn'.pindexNew = b
           \/ nChainTrust[b] <= nChainTrust[pindexBest]
    BY <1>1, AddToBlockIndexSwitch
  <2>2. pindexBest \in Blocks
    BY DEF IndexInv, TypeOK
  <2> QED BY <1>0, <1>1, <2>1, <2>2 DEF HeaviestInv
<1>2. ASSUME NEW b \in Blocks, ProcessBlock(b) PROVE HeaviestInv'
  BY <1>1, <1>2 DEF ProcessBlock
<1>3. ASSUME NEW b \in Blocks, StoreOrphan(b) PROVE HeaviestInv'
  BY <1>3 DEF StoreOrphan, HeaviestInv
<1>4. ASSUME NEW o \in Blocks, ProcessOrphan(o) PROVE HeaviestInv'
  <2>1. CASE AcceptBlockChecks(o)
    BY <1>1, <1>4, <2>1 DEF ProcessOrphan
  <2>2. CASE ~AcceptBlockChecks(o)
    BY <1>4, <2>2 DEF ProcessOrphan, HeaviestInv
  <2> QED BY <2>1, <2>2
<1>5. ASSUME NextInQueue PROVE HeaviestInv'
  <2>1. pc # "txn" /\ UNCHANGED <<mapBlockIndex, pindexBest>>
    BY <1>5 DEF NextInQueue
  <2> QED BY <2>1 DEF HeaviestInv
<1>6. ASSUME NEW b \in Blocks, DisconnectStep(b) \/ ConnectStep(b) PROVE HeaviestInv'
  <2>1. /\ UNCHANGED <<pc, mapBlockIndex, pindexBest>>
        /\ txn' = DisconnectBlock(txn, b) \/ txn' = ConnectBlock(txn, b)
    BY <1>6 DEF DisconnectStep, ConnectStep
  <2>2. txn'.pindexNew = txn.pindexNew
    BY <2>1, TxnStepType DEF IndexInv
  <2> QED BY <2>1, <2>2 DEF HeaviestInv
<1>7. ASSUME pc = "txn", pindexBest' = txn.pindexNew, UNCHANGED mapBlockIndex PROVE HeaviestInv'
  <2>1. nChainTrust[txn.pindexNew] > nChainTrust[pindexBest]
    BY <1>7 DEF NewIsBetter
  <2>2. txn.pindexNew \in Blocks /\ pindexBest \in Blocks /\ mapBlockIndex \subseteq Blocks
    BY <1>7 DEF IndexInv, TypeOK, Formed
  <2> QED BY <1>0, <1>7, <2>1, <2>2 DEF HeaviestInv
<1>8. ASSUME Commit PROVE HeaviestInv'
  <2>1. CASE txn.postponed = {}
    BY <1>7, <1>8, <2>1 DEF Commit
  <2>2. CASE txn.postponed # {}
    <3>1. UNCHANGED <<pc, mapBlockIndex, pindexBest>> /\ txn'.pindexNew = txn.pindexNew
      BY <1>8, <2>2 DEF Commit, Begin
    <3> QED BY <3>1 DEF HeaviestInv
  <2> QED BY <2>1, <2>2
<1>9. ASSUME PostponedFails PROVE HeaviestInv'
  BY <1>7, <1>9 DEF PostponedFails, TxnFails
<1>10. ASSUME UNCHANGED vars PROVE HeaviestInv'
  BY <1>10 DEF vars, memory, HeaviestInv
<1> QED
  BY <1>2, <1>3, <1>4, <1>5, <1>6, <1>8, <1>9, <1>10 DEF Next, Receive, Continue

\* Without trusted stakers, refused blocks and restarts no indexed chain has
\* more trust than the best one between blocks: each of the three is a way for
\* a heavier block to stay indexed without being followed (AddToBlockIndex,
\* SetBestChain, LoadBlockIndex).
THEOREM HeaviestIsBest ==
  ASSUME TrustedStaked = {} PROVE Spec /\ NothingRefused /\ NoRestart => []HeaviestWins
<1>1. Init => HeaviestInv
  BY TreeAssumption DEF Init, HeaviestInv, TreeAssumption
<1>2. IndexInv /\ NewIsBetter /\ HeaviestInv /\ [Next]_vars /\ [~Abort]_vars /\ [~Restart]_vars => HeaviestInv'
  BY HeaviestInvStep
<1>3. IndexInv /\ HeaviestInv => HeaviestWins
  <2> SUFFICES ASSUME IndexInv, HeaviestInv, pc = "idle", NEW b \in mapBlockIndex
               PROVE  nChainTrust[b] <= nChainTrust[pindexBest]
    BY DEF HeaviestWins
  <2>1. ~(nChainTrust[b] > nChainTrust[pindexBest])
    BY DEF HeaviestInv
  <2>2. nChainTrust[b] \in Nat /\ nChainTrust[pindexBest] \in Nat
    BY TreeAssumption DEF TreeAssumption, IndexInv, TypeOK
  <2> QED BY <2>1, <2>2
<1> QED BY <1>1, <1>2, <1>3, IndexInvHolds, NewIsBetterHolds, PTL DEF Spec, NothingRefused, NoRestart

---------------------------------------------------------------------------
(* Marks of the main chain, and fractions: what shallow forks give *)

\* A branch that has no more trust than another chain has at most depth blocks
\* that the other chain lacks.  Nothing in the code enforces it: AcceptBlock
\* compares heights of the ends of branches, not the height where they part.
ShallowForks(depth) ==
  \A a, b \in Blocks :
    nChainTrust[b] <= nChainTrust[a] =>
      \A m \in Chain[b] \ Chain[a] : nHeight[b] - nHeight[m] < depth

\* A block is marked as beyond reorganisation below a block of no more trust
\* than the best one.
MarkInv ==
  \A m \in fMainChainNoReorg : \E b \in Blocks :
    /\ m \in Chain[b]
    /\ nHeight[m] < nHeight[b] - MaxReorg
    /\ nChainTrust[b] <= nChainTrust[pindexBest]

\* What an accepted block marks is below it.
LEMMA AcceptedMarks ==
  ASSUME IndexInv, MarkInv, NEW b \in Blocks, Accepted(b), NEW best \in Blocks,
         nChainTrust[pindexBest] <= nChainTrust[best], nChainTrust[b] <= nChainTrust[best],
         pindexBest' = best
  PROVE  MarkInv'
<1> SUFFICES ASSUME NEW m \in fMainChainNoReorg'
             PROVE  \E c \in Blocks : /\ m \in Chain[c]
                                      /\ nHeight[m] < nHeight[c] - MaxReorg
                                      /\ nChainTrust[c] <= nChainTrust[best]
  BY DEF MarkInv
<1>1. CASE m \in fMainChainNoReorg
  <2>1. PICK c \in Blocks : /\ m \in Chain[c]
                            /\ nHeight[m] < nHeight[c] - MaxReorg
                            /\ nChainTrust[c] <= nChainTrust[pindexBest]
    BY <1>1 DEF MarkInv
  <2>2. nChainTrust[c] \in Nat /\ nChainTrust[pindexBest] \in Nat /\ nChainTrust[best] \in Nat
    BY TreeAssumption DEF TreeAssumption, IndexInv, TypeOK
  <2>3. nChainTrust[c] <= nChainTrust[best]
    BY <2>1, <2>2
  <2> QED BY <2>1, <2>3
<1>2. CASE m \notin fMainChainNoReorg
  <2>1. m \in Chain[b] /\ nHeight[m] = nHeight[b] - MaxReorg - 1
    BY <1>2 DEF Accepted
  <2>2. nHeight[b] \in Nat /\ MaxReorg \in Nat
    BY TreeAssumption, LimitsAssumption DEF TreeAssumption, LimitsAssumption
  <2> QED BY <2>1, <2>2
<1> QED BY <1>1, <1>2

\* Without trusted stakers every step, restarts and refusals included, keeps MarkInv.
LEMMA MarkInvStep ==
  ASSUME IndexInv, NewIsBetter, MarkInv, TrustedStaked = {}, [Next]_vars
  PROVE  MarkInv'
<1>0. pindexBest \in Blocks /\ \A b \in Blocks : nChainTrust[b] \in Nat /\ nHeight[b] \in Nat
  BY TreeAssumption DEF TreeAssumption, IndexInv, TypeOK
<1>1. ASSUME NEW b \in Blocks, AcceptBlockChecks(b), AddToBlockIndex(b) PROVE MarkInv'
  <2>1. /\ pindexBest' = pindexBest
        /\ \/ UNCHANGED fMainChainNoReorg
           \/ Accepted(b) /\ nChainTrust[b] <= nChainTrust[pindexBest]
    BY <1>1, AddToBlockIndexSwitch
  <2>2. nChainTrust[pindexBest] <= nChainTrust[pindexBest]
    BY <1>0
  <2>3. CASE Accepted(b) /\ nChainTrust[b] <= nChainTrust[pindexBest]
    BY <1>0, <2>1, <2>2, <2>3, AcceptedMarks
  <2>4. CASE UNCHANGED fMainChainNoReorg
    BY <2>1, <2>4 DEF MarkInv
  <2> QED BY <2>1, <2>3, <2>4
<1>2. ASSUME NEW b \in Blocks, ProcessBlock(b) PROVE MarkInv'
  BY <1>1, <1>2 DEF ProcessBlock
<1>3. ASSUME NEW b \in Blocks, StoreOrphan(b) PROVE MarkInv'
  BY <1>3 DEF StoreOrphan, MarkInv
<1>4. ASSUME NEW o \in Blocks, ProcessOrphan(o) PROVE MarkInv'
  <2>1. CASE AcceptBlockChecks(o)
    BY <1>1, <1>4, <2>1 DEF ProcessOrphan
  <2>2. CASE ~AcceptBlockChecks(o)
    BY <1>4, <2>2 DEF ProcessOrphan, MarkInv
  <2> QED BY <2>1, <2>2
<1>5. ASSUME UNCHANGED <<pindexBest, fMainChainNoReorg>> PROVE MarkInv'
  BY <1>5 DEF MarkInv
<1>6. ASSUME pc = "txn", pindexBest' = txn.pindexNew, Accepted(txn.pindexNew) PROVE MarkInv'
  <2>1. nChainTrust[txn.pindexNew] > nChainTrust[pindexBest] /\ txn.pindexNew \in Blocks
    BY <1>6 DEF NewIsBetter, IndexInv, TypeOK, Formed
  <2>2. /\ nChainTrust[pindexBest] <= nChainTrust[txn.pindexNew]
        /\ nChainTrust[txn.pindexNew] <= nChainTrust[txn.pindexNew]
    BY <1>0, <2>1
  <2> QED BY <1>6, <2>1, <2>2, AcceptedMarks
<1>7. ASSUME Commit PROVE MarkInv'
  BY <1>5, <1>6, <1>7 DEF Commit
<1>8. ASSUME PostponedFails PROVE MarkInv'
  BY <1>6, <1>8 DEF PostponedFails, TxnFails
<1>9. ASSUME Restart PROVE MarkInv'
  <2>1. /\ pindexBest' = txdb.best /\ txdb.best \in Blocks
        /\ \A m \in fMainChainNoReorg' : m \in Chain[txdb.best] /\ nHeight[m] < nHeight[txdb.best] - MaxReorg
    BY <1>9 DEF Restart, IndexInv, TypeOK, TxDBs
  <2>2. nChainTrust[txdb.best] <= nChainTrust[txdb.best]
    BY <1>0, <2>1
  <2> QED BY <2>1, <2>2 DEF MarkInv
<1>10. ASSUME NextInQueue \/ Abort \/ \E b \in Blocks : DisconnectStep(b) \/ ConnectStep(b)
       PROVE  MarkInv'
  BY <1>5, <1>10 DEF NextInQueue, Abort, Refused, DisconnectStep, ConnectStep
<1>11. ASSUME UNCHANGED vars PROVE MarkInv'
  BY <1>5, <1>11 DEF vars, memory
<1> QED
  BY <1>2, <1>3, <1>4, <1>7, <1>8, <1>9, <1>10, <1>11 DEF Next, Receive, Continue

\* CleanSpec takes only steps of Spec.
LEMMA CleanIsSpec == CleanSpec => Spec
<1>1. [CleanNext]_vars => [Next]_vars
  BY DEF CleanNext, Next
<1> QED BY <1>1, PTL DEF CleanSpec, Spec

\* Without trusted stakers, if no branch that falls behind has more than
\* MaxReorg + 1 blocks of its own, IsInMainChain answers for the best chain
\* alone, through refused blocks and restarts: the marks AcceptBlock leaves
\* below every accepted block, of whatever branch, are then all on it.
THEOREM MainChainIsBestChain ==
  ASSUME TrustedStaked = {}, ShallowForks(MaxReorg + 1) PROVE CleanSpec => []MainChainIsBest
<1>1. Init => MarkInv
  BY DEF Init, MarkInv
<1>2. IndexInv /\ NewIsBetter /\ MarkInv /\ [Next]_vars => MarkInv'
  BY MarkInvStep
<1>3. ASSUME TxInv, LinkInv, MarkInv PROVE MainChainIsBest
  <2> SUFFICES ASSUME pc # "txn", NEW b \in mapBlockIndex
               PROVE  IsInMainChain(b) <=> b \in Chain[pindexBest]
    BY DEF MainChainIsBest
  <2>1. /\ pindexBest \in Blocks /\ b \in Blocks
        /\ Linked(pNext, Chain[pindexBest])
    BY <1>3 DEF TxInv, BestAgrees, TxIndexIsBestChain, IndexInv, TypeOK, LinkInv
  <2>2. ASSUME b \in fMainChainNoReorg PROVE b \in Chain[pindexBest]
    <3>1. PICK c \in Blocks : /\ b \in Chain[c]
                              /\ nHeight[b] < nHeight[c] - MaxReorg
                              /\ nChainTrust[c] <= nChainTrust[pindexBest]
      BY <1>3, <2>2 DEF MarkInv
    <3>2. nHeight[b] \in Nat /\ nHeight[c] \in Nat /\ MaxReorg \in Nat
      BY <2>1, TreeAssumption, LimitsAssumption DEF TreeAssumption, LimitsAssumption
    <3>3. ~(nHeight[c] - nHeight[b] < MaxReorg + 1)
      BY <3>1, <3>2
    <3> QED BY <2>1, <3>1, <3>3 DEF ShallowForks
  <2>3. ASSUME pNext[b] # Null PROVE b \in Chain[pindexBest]
    <3>1. pNext[b] \in Chain[pindexBest] /\ Prev[pNext[b]] = b
      BY <2>1, <2>3 DEF Linked
    <3>2. pNext[b] \in Blocks /\ pNext[b] # Genesis
      BY <2>1, <3>1, ChainLemma, TreeAssumption DEF TreeAssumption
    <3> QED BY <2>1, <3>1, <3>2, ChainLemma
  <2>4. ASSUME b \in Chain[pindexBest], b # pindexBest PROVE pNext[b] # Null
    <3> SUFFICES ASSUME \A c \in Chain[pindexBest] : Prev[c] # b PROVE FALSE
      BY <2>1, ChainLemma, TreeAssumption DEF Linked, TreeAssumption
    <3> DEFINE above == {c \in Chain[pindexBest] : nHeight[c] > nHeight[b]}
    <3>1. \A c \in Chain[pindexBest] : c \in Blocks /\ nHeight[c] \in Nat
      BY <2>1, ChainLemma, TreeAssumption DEF TreeAssumption
    <3>2. above \subseteq Blocks /\ pindexBest \in above
      <4>1. pindexBest \in Chain[pindexBest] /\ nHeight[b] <= nHeight[pindexBest]
        BY <2>1, <2>4, ChainLemma
      <4>2. nHeight[b] # nHeight[pindexBest]
        BY <2>1, <2>4, <4>1, PathAssumption DEF PathAssumption
      <4> QED BY <2>4, <3>1, <4>1, <4>2
    <3>3. PICK c \in above : \A d \in above : nHeight[c] <= nHeight[d]
      <4> HIDE DEF above
      <4> QED BY <3>2, LowestLemma
    <3>4. /\ c \in Blocks /\ c \in Chain[pindexBest] /\ nHeight[c] > nHeight[b] /\ nHeight[b] \in Nat
          /\ nHeight[c] \in Nat
      BY <2>1, <3>1, <3>3, TreeAssumption DEF TreeAssumption
    <3>5. c # Genesis
      BY <3>4, TreeAssumption DEF TreeAssumption
    <3>6. /\ Prev[c] \in Blocks /\ Prev[c] \in Chain[pindexBest] /\ nHeight[c] = nHeight[Prev[c]] + 1
          /\ nHeight[Prev[c]] \in Nat
      BY <2>1, <3>4, <3>5, ChainLemma, TreeAssumption DEF TreeAssumption
    <3>7. ~(nHeight[Prev[c]] > nHeight[b])
      BY <3>3, <3>4, <3>6
    <3>8. nHeight[Prev[c]] = nHeight[b]
      BY <3>4, <3>6, <3>7
    <3>9. Prev[c] = b
      BY <2>1, <2>4, <3>6, <3>8, PathAssumption DEF PathAssumption
    <3> QED BY <3>4, <3>9
  <2> QED BY <2>1, <2>2, <2>3, <2>4, ChainLemma DEF IsInMainChain
<1>4. TxInv /\ LinkInv /\ MarkInv => MainChainIsBest
  BY <1>3
<1> QED BY <1>1, <1>2, <1>4, CleanIsSpec, IndexInvHolds, NewIsBetterHolds, TxInvHolds, LinkInvHolds,
           PTL DEF Spec

---------------------------------------------------------------------------
(* Fractions *)

\* The blocks whose outputs exist for ConnectBlock: those of the open
\* transaction, or those committed
Held == IF pc = "txn" THEN txn.tx ELSE txdb.tx

\* A stake PrunePegForBlock has dealt with: one PruneInterval or more below a
\* block that is held, or has no more trust than the best block.
Buried(s) ==
  \E b \in Blocks :
    /\ s \in Chain[b]
    /\ nHeight[s] <= nHeight[b] - PruneInterval
    /\ nChainTrust[b] <= nChainTrust[pindexBest] \/ b \in Held

\* Fractions miss only for outputs that a buried stake of a held block spends.
FractionInv ==
  /\ \A o \in Outputs :
       o[1] \in Held /\ ~FractionsFound(o) =>
         \E s \in Held : IsProofOfStake(s) /\ Prevout[s] = o /\ Buried(s)
  /\ pc = "txn" /\ txn.vDisconnect # {} => txn.first

\* If neither the fractions nor the blocks held nor the best block's trust
\* change for the worse, the invariant's first part stays.
LEMMA FractionsCarryOver ==
  ASSUME FractionInv, pindexBest \in Blocks, pindexBest' \in Blocks, Held' = Held, fractions' = fractions,
         \A b \in Blocks : nChainTrust[b] <= nChainTrust[pindexBest] \/ b \in Held
                           => nChainTrust[b] <= nChainTrust[pindexBest'] \/ b \in Held
  PROVE  \A o \in Outputs :
           o[1] \in Held' /\ ~FractionsFound(o)' =>
             \E s \in Held' : IsProofOfStake(s) /\ Prevout[s] = o /\ Buried(s)'
<1> SUFFICES ASSUME NEW o \in Outputs, o[1] \in Held, ~FractionsFound(o)
             PROVE  \E s \in Held : IsProofOfStake(s) /\ Prevout[s] = o /\ Buried(s)'
  BY DEF FractionsFound
<1>1. PICK s \in Held : IsProofOfStake(s) /\ Prevout[s] = o /\ Buried(s)
  BY DEF FractionInv
<1>2. Buried(s)'
  BY <1>1 DEF Buried
<1> QED BY <1>1, <1>2

\* Blocks that are disconnected are not deep enough to have been pruned.
LEMMA DisconnectKeepsFractions ==
  ASSUME TxInv, LinkInv, TrustRises, FractionInv, ShallowForks(PruneInterval),
         NEW x \in Blocks, DisconnectStep(x)
  PROVE  FractionInv'
<1>1. /\ pc = "txn" /\ pc' = "txn" /\ pindexBest' = pindexBest /\ fractions' = fractions \ OutputsOf(x)
      /\ txn.target \in Blocks /\ x \in txn.vDisconnect /\ x \in txn.todo
      /\ txn' = DisconnectBlock(txn, x) /\ txn \in Txns
  BY ChainLemma DEF DisconnectStep, Disconnecting, TxInv, IndexInv, TypeOK, Formed, IndexIsClosed
<1>2. /\ txn'.vDisconnect = txn.vDisconnect /\ txn'.first = txn.first
      /\ txn'.tx = txn.tx \ {x}
  BY <1>1, TxnStepType DEF TxInv, IndexInv, DisconnectBlock, Txns
<1>3. txn.tx = Chain[x] /\ x \notin Chain[txn.target]
  BY <1>1, DisconnectsLast DEF TxInv, HeadsForTarget
<1>4. /\ txn.first /\ pindexBest = txdb.best /\ pindexBest \in Blocks
      /\ x \in Chain[pindexBest]
  BY <1>1 DEF FractionInv, TxInv, BestAgrees, TxIndexIsBestChain, LinkInv, TransactionLinked, IndexInv,
     TypeOK
<1>5. \A b \in Blocks : nChainTrust[b] \in Nat /\ nHeight[b] \in Nat
  BY TreeAssumption DEF TreeAssumption
<1>6. ASSUME NEW b \in Chain[x] PROVE nChainTrust[b] <= nChainTrust[pindexBest]
  <2>1. b \in Chain[pindexBest] /\ pindexBest \in Chain[pindexBest] /\ nHeight[b] <= nHeight[pindexBest]
    BY <1>4, ChainLemma
  <2> QED BY <1>4, <2>1, PathAssumption DEF PathAssumption
<1>7. ASSUME NEW s \in Chain[x], Buried(s)
      PROVE  s # x /\ Buried(s)'
  <2>1. PICK b \in Blocks : /\ s \in Chain[b]
                            /\ nHeight[s] <= nHeight[b] - PruneInterval
                            /\ nChainTrust[b] <= nChainTrust[pindexBest]
    BY <1>1, <1>3, <1>6, <1>7 DEF Buried, Held
  <2>2. s # x
    <3> SUFFICES ASSUME s = x PROVE FALSE
      OBVIOUS
    <3>1. nChainTrust[b] <= nChainTrust[txn.target]
      BY <1>1, <1>4, <1>5, <2>1 DEF TrustRises
    <3>2. nHeight[b] - nHeight[x] < PruneInterval
      BY <1>1, <1>3, <2>1, <3>1 DEF ShallowForks
    <3>3. PruneInterval \in Nat
      BY LimitsAssumption DEF LimitsAssumption
    <3> QED BY <1>5, <2>1, <3>2, <3>3
  <2>3. Buried(s)'
    BY <1>1, <2>1 DEF Buried
  <2> QED BY <2>2, <2>3
<1>8. ASSUME NEW o \in Outputs, o[1] \in txn'.tx, ~FractionsFound(o)'
      PROVE  \E s \in txn'.tx : IsProofOfStake(s) /\ Prevout[s] = o /\ Buried(s)'
  <2>1. o[1] \in Chain[x] /\ o[1] # x
    BY <1>2, <1>3, <1>8
  <2>2. ~FractionsFound(o)
    BY <1>1, <1>8, <2>1 DEF FractionsFound, OutputsOf
  <2>3. PICK s \in Chain[x] : IsProofOfStake(s) /\ Prevout[s] = o /\ Buried(s)
    BY <1>1, <1>3, <2>1, <2>2 DEF FractionInv, Held
  <2> QED BY <1>2, <1>3, <1>7, <2>3
<1> QED BY <1>1, <1>2, <1>8 DEF FractionInv, Held

\* A block that is connected brings its outputs' fractions and takes only those
\* its chain has spent PruneInterval blocks below.
LEMMA ConnectKeepsFractions ==
  ASSUME TxInv, LinkInv, FractionInv, NEW b \in Blocks, ConnectStep(b)
  PROVE  FractionInv'
<1>1. /\ pc = "txn" /\ pc' = "txn" /\ pindexBest' = pindexBest /\ fractions' = ConnectFractions(b)
      /\ txn' = ConnectBlock(txn, b) /\ txn \in Txns
  BY DEF ConnectStep, TxInv, IndexInv, TypeOK
<1>2. /\ txn'.vDisconnect = txn.vDisconnect /\ txn'.first = txn.first
      /\ txn'.tx = txn.tx \union {b}
  BY <1>1, TxnStepType DEF TxInv, IndexInv, ConnectBlock, Txns
<1>3. txn.tx = Chain[Prev[b]] /\ b # Genesis /\ Chain[b] = Chain[Prev[b]] \union {b}
  BY ConnectsNext, TreeAssumption DEF TreeAssumption
<1>4. txn'.tx = Chain[b]
  BY <1>2, <1>3
<1>5. ASSUME NEW s \in txn.tx, Buried(s) PROVE Buried(s)'
  BY <1>1, <1>2, <1>5 DEF Buried, Held
<1>6. ASSUME NEW o \in Outputs, o[1] \in txn'.tx, ~FractionsFound(o)'
      PROVE  \E s \in txn'.tx : IsProofOfStake(s) /\ Prevout[s] = o /\ Buried(s)'
  <2>1. nHeight[o[1]] >= PegStartHeight /\ o \notin ConnectFractions(b)
    BY <1>1, <1>6 DEF FractionsFound
  <2>2. CASE o \in Pruned(b)
    <3>1. PICK p \in Chain[b] : /\ nHeight[p] = nHeight[b] - PruneInterval
                                /\ IsProofOfStake(p) /\ Prevout[p] = o
      BY <2>2 DEF Pruned, SpentIn
    <3>2. nHeight[b] \in Nat /\ PruneInterval \in Nat
      BY TreeAssumption, LimitsAssumption DEF TreeAssumption, LimitsAssumption
    <3>3. b \in Held' /\ nHeight[p] <= nHeight[b] - PruneInterval
      BY <1>1, <1>2, <3>1, <3>2 DEF Held
    <3>4. Buried(p)'
      BY <3>1, <3>3 DEF Buried
    <3> QED BY <1>4, <3>1, <3>4
  <2>3. CASE o \notin Pruned(b)
    <3>1. o \notin fractions /\ (nHeight[b] >= PegStartHeight => o \notin OutputsOf(b))
      BY <2>1, <2>3 DEF ConnectFractions
    <3>2. o[1] # b
      BY <2>1, <3>1 DEF OutputsOf, Outputs
    <3>3. o[1] \in txn.tx /\ ~FractionsFound(o)
      BY <1>2, <1>6, <2>1, <3>1, <3>2 DEF FractionsFound
    <3>4. PICK s \in txn.tx : IsProofOfStake(s) /\ Prevout[s] = o /\ Buried(s)
      BY <1>1, <3>3 DEF FractionInv, Held
    <3> QED BY <1>2, <1>5, <3>4
  <2> QED BY <2>2, <2>3
<1> QED BY <1>1, <1>2, <1>6 DEF FractionInv, Held

\* The commit that ends a switch makes the chain held the best one.
LEMMA CommitKeepsFractions ==
  ASSUME TxInv, TxInv', NewIsBetter, FractionInv, TrustedStaked = {}, Commit
  PROVE  FractionInv'
<1>1. /\ pc = "txn" /\ txdb'.tx = txn.tx /\ fractions' = fractions /\ pindexBest \in Blocks
  BY DEF Commit, TxInv, IndexInv, TypeOK, TxDBs
<1>2. CASE txn.postponed = {}
  <2>1. pindexBest' = txn.pindexNew /\ pc' = "orphans" /\ Held' = Held
    BY <1>1, <1>2 DEF Commit, Accepted, Held
  <2>2. /\ nChainTrust[txn.pindexNew] > nChainTrust[pindexBest] /\ txn.pindexNew \in Blocks
        /\ txdb'.tx = Chain[txn.pindexNew]
    BY <1>1, <2>1 DEF NewIsBetter, TxInv, BestAgrees, TxIndexIsBestChain, IndexInv, TypeOK, Formed
  <2>3. ASSUME NEW b \in Blocks, nChainTrust[b] <= nChainTrust[pindexBest] \/ b \in Held
        PROVE  nChainTrust[b] <= nChainTrust[pindexBest']
    <3>1. nChainTrust[b] \in Nat /\ nChainTrust[pindexBest] \in Nat /\ nChainTrust[txn.pindexNew] \in Nat
      BY <1>1, <2>2, TreeAssumption DEF TreeAssumption
    <3>2. ASSUME b \in Held PROVE nChainTrust[b] <= nChainTrust[txn.pindexNew]
      <4>1. b \in Chain[txn.pindexNew] /\ txn.pindexNew \in Chain[txn.pindexNew]
            /\ nHeight[b] <= nHeight[txn.pindexNew]
        BY <1>1, <2>2, <3>2, ChainLemma DEF Held
      <4> QED BY <2>2, <4>1, PathAssumption DEF PathAssumption
    <3> QED BY <2>1, <2>2, <2>3, <3>1, <3>2
  <2> QED BY <1>1, <2>1, <2>2, <2>3, FractionsCarryOver DEF FractionInv
<1>3. CASE txn.postponed # {}
  <2>1. /\ pindexBest' = pindexBest /\ pc' = pc /\ txn'.tx = txdb'.tx /\ txn'.vDisconnect = {}
    BY <1>3 DEF Commit, Begin
  <2>2. Held' = Held
    BY <1>1, <2>1 DEF Held
  <2> QED BY <1>1, <2>1, <2>2, FractionsCarryOver DEF FractionInv
<1> QED BY <1>2, <1>3

\* Without trusted stakers and deep forks every step that refuses nothing, and
\* is no restart, keeps the fractions of what can be spent.
LEMMA FractionInvStep ==
  ASSUME TxInv, LinkInv, NewIsBetter, TrustRises, FractionInv, [CleanNext]_vars,
         TrustedStaked = {}, ShallowForks(PruneInterval),
         UNCHANGED vars \/ ~Abort, UNCHANGED vars \/ ~Restart
  PROVE  FractionInv'
<1>0. pindexBest \in Blocks
  BY DEF TxInv, IndexInv, TypeOK
<1>1. ASSUME NEW b \in Blocks, pc # "txn", AcceptBlockChecks(b), AddToBlockIndex(b)
      PROVE  FractionInv'
  <2>1. /\ pindexBest' = pindexBest /\ fractions' = fractions /\ txdb'.tx = txdb.tx
        /\ \/ pc' = "txn" /\ txn'.first /\ txn'.tx = txdb.tx
           \/ pc' = "orphans"
    BY <1>1, AddToBlockIndexSwitch DEF AddToBlockIndex, TxInv, IndexInv, TypeOK, TxDBs
  <2>2. Held' = Held
    BY <1>1, <2>1 DEF Held
  <2> QED BY <1>0, <2>1, <2>2, FractionsCarryOver DEF FractionInv
<1>2. ASSUME NEW b \in Blocks, ProcessBlock(b) PROVE FractionInv'
  BY <1>1, <1>2 DEF ProcessBlock
<1>3. ASSUME UNCHANGED <<pc, txn, txdb, pindexBest, fractions>> PROVE FractionInv'
  BY <1>3 DEF FractionInv, Held, Buried, FractionsFound
<1>4. ASSUME NEW b \in Blocks, StoreOrphan(b) PROVE FractionInv'
  BY <1>3, <1>4 DEF StoreOrphan
<1>5. ASSUME NEW o \in Blocks, ProcessOrphan(o) PROVE FractionInv'
  <2>1. CASE AcceptBlockChecks(o)
    BY <1>1, <1>5, <2>1 DEF ProcessOrphan
  <2>2. CASE ~AcceptBlockChecks(o)
    BY <1>3, <1>5, <2>2 DEF ProcessOrphan
  <2> QED BY <2>1, <2>2
<1>6. ASSUME NextInQueue PROVE FractionInv'
  <2>1. pc # "txn" /\ pc' # "txn" /\ UNCHANGED <<txn, txdb, pindexBest, fractions>>
    BY <1>6 DEF NextInQueue
  <2> QED BY <2>1 DEF FractionInv, Held, Buried, FractionsFound
<1>7. ASSUME Commit PROVE FractionInv'
  <2>1. TxInv'
    BY TxInvStep
  <2> QED BY <1>7, <2>1, CommitKeepsFractions
<1>8. ASSUME UNCHANGED vars PROVE FractionInv'
  BY <1>3, <1>8 DEF vars, memory
<1> QED
  BY <1>2, <1>4, <1>5, <1>6, <1>7, <1>8, DisconnectKeepsFractions, ConnectKeepsFractions
     DEF CleanNext, Receive, Continue

\* Without trusted stakers, refusals and restarts, and if no branch that falls
\* behind has more than PruneInterval blocks of its own, every output of the
\* best chain that can still be spent has its fractions, although the peg
\* database is erased and rewritten outside the transactions of SetBestChain.
\* The hypotheses are the ways for fractions to be lost: erased for a switch
\* that is taken back or cut short, or pruned below the fork.
THEOREM FractionsNeverLost ==
  ASSUME TrustedStaked = {}, ShallowForks(PruneInterval)
  PROVE  CleanSpec /\ NothingRefused /\ NoRestart => []FractionsKept
<1>1. Init => FractionInv /\ TrustRises
  <2>1. nHeight[Genesis] = 0 /\ PegStartHeight \in Nat \ {0}
    BY TreeAssumption, LimitsAssumption DEF TreeAssumption, LimitsAssumption
  <2> QED BY <2>1 DEF Init, FractionInv, FractionsFound, Held, TrustRises
<1>2. TxInv /\ TrustRises /\ [CleanNext]_vars => TrustRises'
  BY LedgerStep
<1>3. TxInv /\ LinkInv /\ NewIsBetter /\ TrustRises /\ FractionInv /\ [CleanNext]_vars
      /\ [~Abort]_vars /\ [~Restart]_vars => FractionInv'
  BY FractionInvStep
<1>4. TxInv /\ FractionInv => FractionsKept
  <2> SUFFICES ASSUME TxInv, FractionInv, pc # "txn", NEW o \in Outputs,
                      o[1] \in Chain[pindexBest], o \notin SpentIn(Chain[pindexBest])
               PROVE  FractionsFound(o)
    BY DEF FractionsKept
  <2>1. Held = Chain[pindexBest]
    BY DEF Held, TxInv, BestAgrees, TxIndexIsBestChain
  <2> QED BY <2>1 DEF FractionInv, SpentIn
<1> QED BY <1>1, <1>2, <1>3, <1>4, CleanIsSpec, NewIsBetterHolds, TxInvHolds, LinkInvHolds,
           PTL DEF CleanSpec, NothingRefused, NoRestart
=============================================================================
