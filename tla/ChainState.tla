---------------------------- MODULE ChainState -----------------------------
(***************************************************************************)
(* How a node follows the best chain: CBlock::AcceptBlock,                 *)
(* AddToBlockIndex, SetBestChain, SetBestChainInner, ConnectBlock,         *)
(* DisconnectBlock and Reorganize of core/main.cpp, on top of the LevelDB  *)
(* transaction of CTxDB, with the start-up code that reloads the state     *)
(* after a stop.                                                           *)
(*                                                                         *)
(* The state exists twice: in memory (mapBlockIndex, pindexBest, pnext,    *)
(* nMoneySupply) and in the transaction database (db). SetBestChain        *)
(* changes the second inside a batch, block by block, and the first after  *)
(* the batch is committed; the process may stop between any two of these   *)
(* steps. One SetBestChain call runs under cs_main, so no other block is   *)
(* accepted while `call` is active; the staking thread does not take       *)
(* cs_main to set GetRelayPeerAddr and may do so at any time.              *)
(***************************************************************************)
EXTENDS BlockTree

CONSTANTS
    fDemiNodes, fDemiSelf,  \* -deminodes, -demiself
    nCoinbaseMaturity,
    RollingStart,   \* first height with a rolling checkpoint (5000)
    TempDepth,      \* BLOCK_TEMP_CHECKPOINT_DEPTH (120)
    SyncSpan,       \* how far below the best block CheckSync reaches (620)
    BlockReward,    \* what GetProofOfWorkReward(h, 0) or ...Stake...(0, 0) gives
    RollbackHeights,\* values given to -backtoblock
    MyStakes,       \* blocks whose coinstake spends this wallet's coins
    DiskFaults      \* whether a block read or a commit may fail

VARIABLES
    mapBlockIndex,  \* blocks known in memory
    pindexBest,     \* pindexBest, hashBestChain, nBestHeight, nBestChainTrust
    pnext,          \* CBlockIndex::pnext
    nMoneySupply,   \* CBlockIndex::nMoneySupply
    nBestInvalidTrust,
    relayDemi,      \* fDemiPeerRelay(GetRelayPeerAddr)
    fRollbacktoBlock,
    boot,           \* how far AppInit2 is: "load", "args", "start", "run"
    db,             \* the committed contents of the transaction database
    batch,          \* what the writing CTxDB reads: db and its activeBatch
    call,           \* where the running SetBestChain stands
    refunded,       \* own coinstakes whose inputs the wallet has as unspent
    damage          \* history: "memory" once a further connect has failed,
                    \* "disk" once a batch was committed after that

vars == <<mapBlockIndex, pindexBest, pnext, nMoneySupply, nBestInvalidTrust,
          relayDemi, fRollbacktoBlock, boot, db, batch, call, refunded, damage>>

ASSUME ParameterAssumption ==
    /\ fDemiNodes \in BOOLEAN /\ fDemiSelf \in BOOLEAN /\ DiskFaults \in BOOLEAN
    /\ nCoinbaseMaturity \in Nat /\ BlockReward \in Nat /\ SyncSpan \in Nat
    /\ TempDepth \in Nat /\ RollingStart \in Nat
    /\ RollbackHeights \subseteq Int
    /\ MyStakes \subseteq Block

\* core/main.h. Each source file that includes main.h has its own copy of these
\* static variables: AppInit2 assigns the ones of init.cpp, Reorganize reads
\* the ones of main.cpp, which keep their initial values.
BLOCK_REORG_MAX_DEPTH == 1
BLOCK_REORG_OVERRIDE_DEPTH == 0
BLOCK_REORG_THRESHOLD == BLOCK_REORG_MAX_DEPTH + BLOCK_REORG_OVERRIDE_DEPTH
PEER_REORG_TYPE == 0

-----------------------------------------------------------------------------
(* The transaction database.                                               *)

\* What the database holds: the block index records (which blocks, their
\* hashNext and nMoneySupply), hashBestChain, and the transaction index: the
\* transactions it has an entry for and, per output, who spent it (vSpent).
ViewType ==
    [index : SUBSET Block, best : Block,
     next : [Block -> Block \cup {NoBlock}], supply : [Block -> Int],
     txs : SUBSET Tx, spent : [Outpoint -> Tx \cup {NoTx}]]

\* ConnectInputs: an output of a coinbase or coinstake is not spent within
\* nCoinbaseMaturity blocks of the block of b's chain it was created in.
Mature(b, o) ==
    TxOf[o] \in Generated =>
        ~ \E c \in Anc[b] : /\ TxOf[o] \in TxsOf(c)
                            /\ Height[b] - Height[c] < nCoinbaseMaturity

\* FetchInputs for the i-th transaction of b: each prevout's transaction is
\* found, earlier in the block or in the database.
InputsFound(v, b, i) ==
    \A o \in Ins[Vtx[b][i]] :
        (\E j \in 1..(i - 1) : Vtx[b][j] = TxOf[o]) \/ TxOf[o] \in v.txs

\* ConnectInputs for it: a prevout the block has not created is unspent in the
\* database, no earlier transaction of the block has spent it, and it is mature.
InputsConnect(v, b, i) ==
    \A o \in Ins[Vtx[b][i]] :
        /\ (\E j \in 1..(i - 1) : Vtx[b][j] = TxOf[o]) \/ v.spent[o] = NoTx
        /\ \A j \in 1..(i - 1) : o \notin Ins[Vtx[b][j]]
        /\ Mature(b, o)

\* ConnectBlock succeeds: no transaction of b replaces one that still has an
\* unspent output, and the inputs of all of them connect.
CanConnect(v, b) ==
    /\ b \in Sound
    /\ \A t \in TxsOf(b) \cap v.txs : \A o \in OutsOf(t) : v.spent[o] # NoTx
    /\ \A i \in DOMAIN Vtx[b] : InputsFound(v, b, i) /\ InputsConnect(v, b, i)

\* The transaction of b that spends o.
SpenderIn(b, o) == CHOOSE t \in TxsOf(b) : o \in Ins[t]
SpentIn(b, o) == \E t \in TxsOf(b) : o \in Ins[t]

\* For SupplyWith: the supply of the best block stands in for the parent's.
SupplyFromBest(b) ==
    [nMoneySupply EXCEPT ![b] = nMoneySupply[pindexBest] + Minted[b]]

\* ConnectBlock: pindex->nMoneySupply, set before anything is committed.
SupplyWith(b) == [nMoneySupply EXCEPT ![b] = nMoneySupply[Prev[b]] + Minted[b]]

\* What ConnectBlock writes: its own record, with the pnext memory has, the
\* queued transaction index changes, and the parent's record with hashNext set.
Connected(v, b) ==
    [index |-> v.index, best |-> v.best,
     next |-> [v.next EXCEPT ![b] = pnext[b], ![Prev[b]] = b],
     supply |-> [v.supply EXCEPT ![b] = SupplyWith(b)[b],
                                 ![Prev[b]] = nMoneySupply[Prev[b]]],
     txs |-> v.txs \cup TxsOf(b),
     spent |-> [o \in Outpoint |->
                    IF SpentIn(b, o) THEN SpenderIn(b, o)
                    ELSE IF TxOf[o] \in TxsOf(b) THEN NoTx ELSE v.spent[o]]]

\* DisconnectInputs finds the entry of every prevout's transaction.
CanDisconnect(v, b) == \A t \in TxsOf(b) : \A o \in Ins[t] : TxOf[o] \in v.txs

\* For Disconnected: prevouts are not marked unspent.
DisconnectedStillSpent(v, b) ==
    [index |-> v.index, best |-> v.best,
     next |-> [v.next EXCEPT ![Prev[b]] = NoBlock],
     supply |-> [v.supply EXCEPT ![Prev[b]] = nMoneySupply[Prev[b]]],
     txs |-> v.txs \ TxsOf(b),
     spent |-> [o \in Outpoint |->
                    IF TxOf[o] \in TxsOf(b) THEN NoTx ELSE v.spent[o]]]

\* For Disconnected: the parent's record keeps its hashNext.
DisconnectedKeepsNext(v, b) ==
    [index |-> v.index, best |-> v.best, next |-> v.next, supply |-> v.supply,
     txs |-> v.txs \ TxsOf(b),
     spent |-> [o \in Outpoint |->
                    IF TxOf[o] \in TxsOf(b) \/ SpentIn(b, o)
                    THEN NoTx ELSE v.spent[o]]]

\* What DisconnectBlock writes: prevouts unspent again, the entries of its
\* transactions erased, and the parent's record without a hashNext.
Disconnected(v, b) ==
    [index |-> v.index, best |-> v.best,
     next |-> [v.next EXCEPT ![Prev[b]] = NoBlock],
     supply |-> [v.supply EXCEPT ![Prev[b]] = nMoneySupply[Prev[b]]],
     txs |-> v.txs \ TxsOf(b),
     spent |-> [o \in Outpoint |->
                    IF TxOf[o] \in TxsOf(b) \/ SpentIn(b, o)
                    THEN NoTx ELSE v.spent[o]]]

\* For Respend: a connected block marks the coins of all coinstakes spent.
RespendAll(b) == IF boot = "run" THEN {} ELSE refunded

\* SyncWithWallets, called by DisconnectBlock and ConnectBlock before the
\* commit: the inputs of an own coinstake become unspent, or spent again. The
\* wallet is loaded after the blocks are.
Refund(b) == IF boot = "run" /\ b \in MyStakes THEN refunded \cup {b} ELSE refunded
Respend(b) == IF boot = "run" THEN refunded \ {b} ELSE refunded

\* InvalidChainFound, which writes outside the transaction.
InvalidChainFound(b) ==
    nBestInvalidTrust' = IF ChainTrust[b] > nBestInvalidTrust
                         THEN ChainTrust[b] ELSE nBestInvalidTrust

\* tx_Factor, the part of Velocity that looks at the state: the outputs of a
\* block do not exceed the supply its parent is known to have.
TxFactor(b) == OutTotal[b] <= nMoneySupply[Prev[b]] + BlockReward

-----------------------------------------------------------------------------
(* Init: the node has connected Root and is running.                       *)

Idle == [op |-> "idle", new |-> Root, mid |-> Root, fork |-> Root,
         at |-> Root, rollback |-> FALSE]

InitialDb ==
    [index |-> {Root}, best |-> Root, next |-> [b \in Block |-> NoBlock],
     supply |-> [b \in Block |-> IF b = Root THEN Minted[Root] ELSE 0],
     txs |-> TxsOf(Root), spent |-> [o \in Outpoint |-> NoTx]]

Init ==
    /\ mapBlockIndex = {Root} /\ pindexBest = Root
    /\ pnext = InitialDb.next /\ nMoneySupply = InitialDb.supply
    /\ nBestInvalidTrust = 0
    /\ relayDemi = FALSE /\ fRollbacktoBlock = FALSE /\ boot = "run"
    /\ db = InitialDb /\ batch = InitialDb /\ call = Idle
    /\ refunded = {} /\ damage = "none"

-----------------------------------------------------------------------------
(* Accepting a block.                                                      *)

\* For Intermediate: the block before the one that tips the balance.
IntermediateTooLow(b) ==
    Highest({a \in Anc[b] : ChainTrust[a] <= ChainTrust[pindexBest]})

\* SetBestChain, "the first block in the new chain that will cause it to
\* become the new best chain": those after it are connected later.
Intermediate(b) ==
    Highest({a \in Anc[b] :
                a = Root \/ ChainTrust[Prev[a]] <= ChainTrust[pindexBest]})

\* SetBestChain begins: a child of the best block is attached, anything else
\* goes through Reorganize.
SetBestChain(b) ==
    [Idle EXCEPT !.op = IF Prev[b] = pindexBest THEN "extend" ELSE "reorganize",
                 !.new = b, !.mid = Intermediate(b), !.at = pindexBest]

\* Checkpoints::CheckSync against AutoSelectSyncCheckpoint.
CheckSync(b) ==
    \/ Height[b] > Height[pindexBest] - SyncSpan
    \/ Height[pindexBest] - SyncSpan < Height[Root]

\* ProcessBlock and AcceptBlock, up to SetBestChain: the block joins the index
\* in memory and on disk. GetRelayPeerAddr is set to the peer that sent it; a
\* waiting orphan or an imported block leaves whatever value is there.
AcceptBlock(b, demi) ==
    /\ boot = "run" /\ call = Idle
    /\ b \notin mapBlockIndex /\ Prev[b] \in mapBlockIndex
    /\ CheckSync(b) /\ TxFactor(b)
    /\ relayDemi' = demi
    /\ mapBlockIndex' = mapBlockIndex \cup {b}
    /\ pnext' = [pnext EXCEPT ![b] = NoBlock]
    /\ nMoneySupply' = [nMoneySupply EXCEPT ![b] = 0]
    /\ db' = [index |-> db.index \cup {b}, best |-> db.best,
              next |-> [db.next EXCEPT ![b] = NoBlock],
              supply |-> [db.supply EXCEPT ![b] = 0],
              txs |-> db.txs, spent |-> db.spent]
    /\ batch' = db'
    /\ call' = IF ChainTrust[b] > ChainTrust[pindexBest]
               THEN SetBestChain(b) ELSE Idle
    /\ UNCHANGED <<pindexBest, nBestInvalidTrust, fRollbacktoBlock, boot,
                   refunded, damage>>

\* ProcessBlock of a block that becomes an orphan or that AcceptBlock refuses
\* (one outside Block, too): only GetRelayPeerAddr has changed.
RefuseBlock(demi) ==
    /\ boot = "run" /\ call = Idle
    /\ relayDemi' = demi
    /\ UNCHANGED <<mapBlockIndex, pindexBest, pnext, nMoneySupply,
                   nBestInvalidTrust, fRollbacktoBlock, boot, db, batch, call,
                   refunded, damage>>

\* CreateNewBlock, on the staking or mining thread: GetRelayPeerAddr becomes
\* 127.0.0.1, at any moment.
CreateNewBlock ==
    /\ boot = "run" /\ relayDemi
    /\ relayDemi' = FALSE
    /\ UNCHANGED <<mapBlockIndex, pindexBest, pnext, nMoneySupply,
                   nBestInvalidTrust, fRollbacktoBlock, boot, db, batch, call,
                   refunded, damage>>

-----------------------------------------------------------------------------
(* SetBestChain, one block at a time.                                      *)

\* A commit on top of a memory state that is ahead of the disk.
Committed == IF damage = "memory" THEN "disk" ELSE damage

\* SetBestChainInner(b) has connected and committed b.
Attached(b) ==
    /\ CanConnect(db, b)
    /\ nMoneySupply' = SupplyWith(b)
    /\ refunded' = Respend(b)
    /\ db' = [Connected(db, b) EXCEPT !.best = b]
    /\ batch' = db'
    /\ pnext' = [pnext EXCEPT ![Prev[b]] = b]
    /\ damage' = Committed
    /\ UNCHANGED nBestInvalidTrust

\* SetBestChainInner(b) has failed: in ConnectBlock, or in the commit.
NotAttached(b) ==
    /\ \/ /\ ~ CanConnect(db, b)
          /\ InvalidChainFound(b)
          /\ UNCHANGED <<nMoneySupply, refunded>>
       \/ /\ DiskFaults /\ CanConnect(db, b)
          /\ nMoneySupply' = SupplyWith(b)
          /\ refunded' = Respend(b)
          /\ UNCHANGED nBestInvalidTrust
    /\ UNCHANGED <<db, batch, pnext>>

\* SetBestChain for a child of the best block.
ExtendChain ==
    /\ call.op = "extend"
    /\ \/ Attached(call.new) /\ call' = [call EXCEPT !.op = "finish"]
       \/ NotAttached(call.new) /\ call' = Idle /\ UNCHANGED damage
    /\ UNCHANGED <<mapBlockIndex, pindexBest, relayDemi, fRollbacktoBlock, boot>>

\* -deminodes is read after the block index is loaded.
DemiNodesOn == fDemiNodes /\ boot = "run"
DemiRelay == relayDemi /\ DemiNodesOn

HeightShorter ==
    IF Height[call.mid] > Height[pindexBest] THEN Height[pindexBest]
                                             ELSE Height[call.mid]
MergeDepth == Height[call.mid] + Height[pindexBest] - 2 * HeightShorter

\* For DirectionSane: every direction is authorised.
AnyDirection == TRUE

\* "Ensure reorganize direction sanity".
DirectionSane ==
    \/ Height[call.mid] > Height[pindexBest]
    \/ DemiRelay \/ fRollbacktoBlock
    \/ PEER_REORG_TYPE = 1

\* "Ensure reorganize depth sanity".
DepthSane ==
    IF MergeDepth > BLOCK_REORG_MAX_DEPTH
    THEN fRollbacktoBlock \/ (DemiRelay /\ MergeDepth <= BLOCK_REORG_THRESHOLD)
    ELSE relayDemi \/ ~ DemiNodesOn \/ fDemiSelf

\* RollingCheckpoints(nHeightShorter, pindexBest). Below Root all chains agree.
RollingHeight == HeightShorter - (TempDepth + BLOCK_REORG_THRESHOLD)
RollingBlock ==
    IF RollingHeight <= Height[Root] THEN Root
                                     ELSE AtHeight(pindexBest, RollingHeight)

\* For ChainQuality: the rolling checkpoint is found but not looked for.
ChainQualityUnchecked == HeightShorter >= RollingStart

\* "Verify chain quality".
ChainQuality == HeightShorter >= RollingStart /\ RollingBlock \in Anc[call.mid]

\* Reorganize returned false: TxnAbort and InvalidChainFound(pindexNew).
AbortReorganize ==
    /\ batch' = db
    /\ call' = Idle
    /\ InvalidChainFound(call.new)

\* Reorganize, up to the two lists: is this reorganisation allowed?
Reorganize ==
    /\ call.op = "reorganize"
    /\ fRollbacktoBlock' = FALSE
    /\ \/ /\ DirectionSane /\ DepthSane /\ ChainQuality
          /\ call' = [call EXCEPT !.op = "disconnect",
                                  !.fork = Fork(pindexBest, call.mid),
                                  !.rollback = fRollbacktoBlock]
          /\ UNCHANGED <<batch, nBestInvalidTrust>>
       \/ /\ ~ (DirectionSane /\ DepthSane /\ ChainQuality)
          /\ AbortReorganize
    /\ UNCHANGED <<mapBlockIndex, pindexBest, pnext, nMoneySupply, relayDemi,
                   boot, db, refunded, damage>>

\* "Disconnect current branch": one turn of the loop.
DisconnectBlock ==
    /\ call.op = "disconnect" /\ call.at # call.fork
    /\ \/ /\ CanDisconnect(batch, call.at)
          /\ batch' = Disconnected(batch, call.at)
          /\ refunded' = Refund(call.at)
          /\ call' = [call EXCEPT !.at = Prev[call.at]]
          /\ UNCHANGED nBestInvalidTrust
       \/ /\ DiskFaults \/ ~ CanDisconnect(batch, call.at)
          /\ AbortReorganize /\ UNCHANGED refunded
    /\ UNCHANGED <<mapBlockIndex, pindexBest, pnext, nMoneySupply, relayDemi,
                   fRollbacktoBlock, boot, db, damage>>

DisconnectDone ==
    /\ call.op = "disconnect" /\ call.at = call.fork
    /\ call' = [call EXCEPT !.op = "connect"]
    /\ UNCHANGED <<mapBlockIndex, pindexBest, pnext, nMoneySupply, relayDemi,
                   nBestInvalidTrust, fRollbacktoBlock, boot, db, batch,
                   refunded, damage>>

\* "Connect merging branch": one turn of the loop. Velocity comes after
\* ConnectBlock has changed memory and wallet.
ConnectBlock ==
    LET b == Toward(call.at, call.mid) IN
    /\ call.op = "connect" /\ call.at # call.mid
    /\ \/ /\ CanConnect(batch, b)
          /\ nMoneySupply' = SupplyWith(b)
          /\ refunded' = Respend(b)
          /\ \/ /\ TxFactor(b)
                /\ batch' = Connected(batch, b)
                /\ call' = [call EXCEPT !.at = b]
                /\ UNCHANGED nBestInvalidTrust
             \/ ~ TxFactor(b) /\ AbortReorganize
       \/ /\ DiskFaults \/ ~ CanConnect(batch, b)
          /\ AbortReorganize /\ UNCHANGED <<nMoneySupply, refunded>>
    /\ UNCHANGED <<mapBlockIndex, pindexBest, pnext, relayDemi,
                   fRollbacktoBlock, boot, db, damage>>

\* For CommitReorganize: the old branch keeps its pnext pointers.
CommitKeepsOldLinks ==
    /\ call.op = "connect" /\ call.at = call.mid
    /\ db' = [batch EXCEPT !.best = call.mid]
    /\ batch' = db'
    /\ pnext' = [a \in Block |->
            IF a \in Anc[call.mid] \ {call.mid} /\ call.fork \in Anc[a]
            THEN Toward(a, call.mid) ELSE pnext[a]]
    /\ call' = [call EXCEPT !.op = "further"]
    /\ damage' = Committed
    /\ UNCHANGED <<mapBlockIndex, pindexBest, nMoneySupply, relayDemi,
                   nBestInvalidTrust, fRollbacktoBlock, boot, refunded>>

\* The end of Reorganize: WriteHashBestChain, TxnCommit, and the pnext
\* pointers of both branches.
CommitReorganize ==
    /\ call.op = "connect" /\ call.at = call.mid
    /\ \/ /\ db' = [batch EXCEPT !.best = call.mid]
          /\ batch' = db'
          /\ pnext' = [a \in Block |->
                IF a \in Anc[call.mid] \ {call.mid} /\ call.fork \in Anc[a]
                THEN Toward(a, call.mid)
                ELSE IF a \in Anc[pindexBest] \ {pindexBest} /\ call.fork \in Anc[a]
                THEN NoBlock ELSE pnext[a]]
          /\ call' = [call EXCEPT !.op = "further"]
          /\ damage' = Committed
          /\ UNCHANGED nBestInvalidTrust
       \/ /\ DiskFaults
          /\ AbortReorganize /\ UNCHANGED <<db, pnext, damage>>
    /\ UNCHANGED <<mapBlockIndex, pindexBest, nMoneySupply, relayDemi,
                   fRollbacktoBlock, boot, refunded>>

\* "Connect further blocks", each in a transaction of its own. A failure ends
\* the loop and is not reported: SetBestChain still ends with pindexNew.
ConnectFurther ==
    LET b == Toward(call.at, call.new) IN
    /\ call.op = "further" /\ call.at # call.new
    /\ \/ /\ Attached(b)
          /\ call' = [call EXCEPT !.at = b]
       \/ /\ \/ NotAttached(b)
             \/ DiskFaults /\ UNCHANGED <<nMoneySupply, refunded, db, batch,
                                          pnext, nBestInvalidTrust>>
          /\ call' = [call EXCEPT !.op = "finish"]
          /\ damage' = IF damage = "none" THEN "memory" ELSE damage
    /\ UNCHANGED <<mapBlockIndex, pindexBest, relayDemi, fRollbacktoBlock, boot>>

\* For NewBestBlock: nothing follows the last further block.
NewBestBlockAfterBreak ==
    /\ call.op = "finish"
    /\ pindexBest' = call.new
    /\ call' = Idle
    /\ UNCHANGED <<mapBlockIndex, pnext, nMoneySupply, nBestInvalidTrust,
                   relayDemi, fRollbacktoBlock, boot, db, batch, refunded,
                   damage>>

\* "New best block": SetBestChain publishes the new tip in memory.
NewBestBlock ==
    /\ call.op = "finish" \/ (call.op = "further" /\ call.at = call.new)
    /\ pindexBest' = call.new
    /\ call' = Idle
    /\ UNCHANGED <<mapBlockIndex, pnext, nMoneySupply, nBestInvalidTrust,
                   relayDemi, fRollbacktoBlock, boot, db, batch, refunded,
                   damage>>

-----------------------------------------------------------------------------
(* Stopping and starting.                                                  *)

\* The process stops, at any moment, and LoadBlockIndex reads back what was
\* committed.
Restart ==
    /\ mapBlockIndex' = db.index /\ pindexBest' = db.best
    /\ pnext' = db.next /\ nMoneySupply' = db.supply
    /\ relayDemi' = FALSE /\ fRollbacktoBlock' = FALSE /\ boot' = "load"
    /\ batch' = db /\ call' = Idle
    /\ damage' = IF damage = "memory" THEN "none" ELSE damage
    /\ UNCHANGED <<nBestInvalidTrust, db, refunded>>

\* LoadBlockIndex verifies the last blocks. When it finds a bad one, f is the
\* block below the lowest bad one, and SetBestChain is to go back to it.
VerifyBlocks ==
    /\ boot = "load" /\ call = Idle
    /\ boot' = "args"
    /\ \/ UNCHANGED call
       \/ \E f \in Anc[pindexBest] \ {pindexBest, Root} : call' = SetBestChain(f)
    /\ UNCHANGED <<mapBlockIndex, pindexBest, pnext, nMoneySupply,
                   nBestInvalidTrust, relayDemi, fRollbacktoBlock, db, batch,
                   refunded, damage>>

\* AppInit2 with -backtoblock=h: SetBestChain to the block of the best chain at
\* height h, or to the best block itself when it is no higher. When there is no
\* such block (h is negative) the flag stays set.
BackToBlock(h) ==
    /\ boot = "args" /\ call = Idle
    /\ boot' = "start"
    /\ fRollbacktoBlock' = TRUE
    /\ IF h < 0 THEN UNCHANGED call
       ELSE /\ h > Height[Root]
            /\ call' = SetBestChain(IF h < Height[pindexBest]
                                    THEN AtHeight(pindexBest, h) ELSE pindexBest)
    /\ UNCHANGED <<mapBlockIndex, pindexBest, pnext, nMoneySupply,
                   nBestInvalidTrust, relayDemi, db, batch, refunded, damage>>

\* The rest of AppInit2: the wallet is loaded, -deminodes read, the network
\* started. ReacceptWalletTransactions marks the coins spent that the
\* transaction index has as spent, refunded ones among them.
FinishInit ==
    /\ boot \in {"args", "start"} /\ call = Idle
    /\ boot' = "run"
    /\ refunded' = {b \in refunded : \E t \in TxsOf(b) \cap Generated :
                                        \E o \in Ins[t] : db.spent[o] = NoTx}
    /\ UNCHANGED <<mapBlockIndex, pindexBest, pnext, nMoneySupply,
                   nBestInvalidTrust, relayDemi, fRollbacktoBlock, db, batch,
                   call, damage>>

-----------------------------------------------------------------------------

\* What SetBestChain does once it runs, none of it waiting for anything.
SetBestChainStep ==
    \/ ExtendChain
    \/ Reorganize \/ DisconnectBlock \/ DisconnectDone \/ ConnectBlock
    \/ CommitReorganize \/ ConnectFurther \/ NewBestBlock

Next ==
    \/ \E b \in Block \ {Root}, demi \in BOOLEAN : AcceptBlock(b, demi)
    \/ \E demi \in BOOLEAN : RefuseBlock(demi)
    \/ CreateNewBlock
    \/ SetBestChainStep
    \/ Restart \/ VerifyBlocks \/ FinishInit
    \/ \E h \in RollbackHeights : BackToBlock(h)

Spec == Init /\ [][Next]_vars

\* cs_main is held until SetBestChain returns, so its next step is taken.
FairSpec == Spec /\ WF_vars(SetBestChainStep)

-----------------------------------------------------------------------------
(* Properties.                                                             *)

CallType ==
    [op : {"idle", "extend", "reorganize", "disconnect", "connect", "further",
           "finish"},
     new : Block, mid : Block, fork : Block, at : Block, rollback : BOOLEAN]

\* Every variable holds a value of its kind: in particular, no step follows a
\* pprev below Root or looks for a block where the chain has none.
TypeOK ==
    /\ mapBlockIndex \subseteq Block /\ pindexBest \in Block
    /\ pnext \in [Block -> Block \cup {NoBlock}]
    /\ nMoneySupply \in [Block -> Int] /\ nBestInvalidTrust \in Nat
    /\ relayDemi \in BOOLEAN /\ fRollbacktoBlock \in BOOLEAN
    /\ boot \in {"load", "args", "start", "run"}
    /\ db \in ViewType /\ batch \in ViewType /\ call \in CallType
    /\ refunded \subseteq Block /\ damage \in {"none", "memory", "disk"}

\* The transaction index v describes exactly the chain that ends in b: it has
\* the transactions of that chain, records for each prevout the one transaction
\* that spends it, marks nothing else spent, and has every prevout's
\* transaction no later than the block that spends it.
Describes(v, b) ==
    /\ v.txs = TxsOn(Anc[b])
    /\ \A t \in v.txs : \A o \in Ins[t] : v.spent[o] = t
    /\ \A o \in Outpoint : v.spent[o] # NoTx =>
            v.spent[o] \in v.txs /\ o \in Ins[v.spent[o]]
    /\ \A c \in Anc[b] : \A t \in TxsOf(c) : \A o \in Ins[t] :
            TxOf[o] \in TxsOn(Anc[c])

\* ConnectBlock, DisconnectBlock and the batch around them: what is on disk
\* describes the chain of hashBestChain at every moment, a stop in the middle
\* of a reorganisation and a reorganisation that fails half way included.
TxIndexExact == damage # "disk" => Describes(db, db.best)

\* Whenever SetBestChain has returned, memory and disk have the same best
\* block, the same main chain and the same money supply along it, unless a
\* further block has failed after a committed reorganisation (damage).
MemoryMatchesDisk ==
    call = Idle /\ damage = "none" =>
        /\ pindexBest = db.best /\ pnext = db.next
        /\ \A a \in Anc[db.best] : nMoneySupply[a] = db.supply[a]

\* CBlockIndex::IsInMainChain: after any number of reorganisations, failed
\* ones included, pnext marks the blocks of the best chain and no other.
IsInMainChain(b) == pnext[b] # NoBlock \/ b = pindexBest
MainChainMarked ==
    call = Idle /\ damage = "none" =>
        {b \in Block : IsInMainChain(b)} = Anc[pindexBest]

\* The money supply of a best-chain block is its parent's plus what it minted,
\* though ConnectBlock writes it to memory before it knows that the block
\* stays, and start-up reads it from records written by other blocks.
SupplyExact ==
    damage = "none" =>
        \A a \in Anc[pindexBest] \ {Root} :
            nMoneySupply[a] = nMoneySupply[Prev[a]] + Minted[a]

\* Rolling checkpoints: the committed chain keeps every block that is
\* TempDepth + BLOCK_REORG_THRESHOLD below both the old and the new tip.
Final(b, tip) == Height[b] <= Height[tip] - (TempDepth + BLOCK_REORG_THRESHOLD)
BuriedBlocksStay ==
    [][\A b \in Anc[db.best] :
            damage = "none" /\ Final(b, db.best) /\ Final(b, db'.best)
                => b \in Anc[db'.best]]_vars

\* SetBestChain ends, whatever fails in it: cs_main is released.
SetBestChainReturns == (call # Idle) ~> (call = Idle)

\* The chain on disk moves as BestChain says, and is cut back only by a
\* rollback the user asked for.
Promise == INSTANCE BestChain WITH known <- db.index, tip <- db.best
FollowsBestChain == Promise!Spec
OnlyRollbackCutsBack ==
    [][ChainTrust[db'.best] < ChainTrust[db.best] => call.rollback]_vars

\* An own coinstake that a reorganisation takes off the committed chain has
\* had its inputs refunded in the wallet (SyncTransaction), wherever in the
\* disconnected branch it was.
LostStakesRefunded ==
    [][\A b \in MyStakes :
           /\ boot = "run" /\ damage = "none"
           /\ b \in Anc[db.best] /\ b \notin Anc[db'.best]
           => b \in refunded']_vars

-----------------------------------------------------------------------------
(* What comments of the code say, and its steps refute.                    *)

\* Reorganize: "Make sure it's successfully written to disk before changing
\* memory structure". Between calls the best block of memory is the one on disk.
DiskBeforeMemory == call = Idle => pindexBest = db.best

\* LoadBlockIndex: "Reorg back to the fork", "moving best chain pointer back to
\* block %d". A repair that is let run to its end has moved the best block.
RepairMovesBack ==
    [][boot = "args" /\ boot' = "args" /\ call # Idle /\ call' = Idle =>
           pindexBest' = call.new]_vars

\* SyncTransaction: "wallets need to refund inputs when disconnecting
\* coinstake". While the node runs, between calls, no coinstake of the best
\* chain has its inputs refunded.
RefundedOnlyOffChain ==
    boot = "run" /\ call = Idle /\ damage = "none" =>
        refunded \cap Anc[pindexBest] = {}

=============================================================================
