---------------------------- MODULE ChainMempool ----------------------------
(***************************************************************************)
(* The memory pool (CTxMemPool of subcore/txmempool.cpp) while the best    *)
(* chain of ChainState changes under it. AcceptToMemoryPool adds a         *)
(* transaction; connecting a block to the best chain removes its           *)
(* transactions; a reorganisation, once committed, offers the disconnected *)
(* transactions to the pool again and then removes the connected ones with *)
(* whatever conflicts with them. The pool is lost when the process stops.  *)
(***************************************************************************)
EXTENDS ChainState, TxMemPool

CONSTANT Relayable  \* transactions that pass CheckTransaction, are standard,
                    \* have valid scripts and pay the fee

ASSUME RelayableAssumption == Relayable \subseteq Tx

VARIABLES
    mapTx,      \* the transactions of the pool
    mapNextTx   \* per output, the pool transaction that spends it

poolVars == <<mapTx, mapNextTx>>

\* The pool as one value, for the operations that are applied in sequence.
pool == [tx |-> mapTx, next |-> mapNextTx]
PoolBecomes(p) == mapTx' = p.tx /\ mapNextTx' = p.next

-----------------------------------------------------------------------------
(* CTxMemPool, the operations that remove more than one transaction.       *)

\* What spends an output of a transaction of D is in D.
SpendsWithin(p, D) ==
    \A d \in D : \A o \in OutsOf(d) : p.next[o] # NoTx => p.next[o] \in D

\* What the recursion of remove(tx, true) visits: t, what spends its outputs,
\* what spends theirs, and so on. It is the least such set.
Dependents(p, t) ==
    IF t \notin p.tx THEN {}
    ELSE {d \in p.tx : \A D \in SUBSET p.tx : t \in D /\ SpendsWithin(p, D) => d \in D}

\* removeConflicts: remove(tx, true) of each conflict. What an earlier one has
\* removed is not there for a later one, so the order makes no difference.
Conflicts(p, t) == {p.next[o] : o \in Ins[t]} \ {NoTx, t}
removeConflicts(p, t) == removeEach(p, UNION {Dependents(p, c) : c \in Conflicts(p, t)})

-----------------------------------------------------------------------------
(* AcceptToMemoryPool.                                                     *)

\* ConnectInputs for a loose transaction: a generated output is not spent
\* within nCoinbaseMaturity blocks of pindexBest. The block it was created in
\* is looked for by its position, on the chain of pindexBest.
MatureLoose(d, o) ==
    TxOf[o] \in Generated =>
        ~ \E c \in Anc[pindexBest] \cap Anc[d.best] :
            /\ TxOf[o] \in TxsOf(c)
            /\ Height[pindexBest] - Height[c] < nCoinbaseMaturity

\* For Acceptable: mapNextTx is not consulted.
AcceptableTwice(p, d, t) ==
    /\ t \in Relayable \ Generated
    /\ t \notin p.tx /\ t \notin d.txs
    /\ \A o \in Ins[t] : IF TxOf[o] \in d.txs
                         THEN d.spent[o] = NoTx /\ MatureLoose(d, o)
                         ELSE TxOf[o] \in p.tx

\* The checks, with FetchInputs and ConnectInputs against the database d, and
\* against the pool for what the database does not have.
Acceptable(p, d, t) ==
    /\ t \in Relayable \ Generated
    /\ t \notin p.tx
    /\ \A o \in Ins[t] : p.next[o] = NoTx
    /\ t \notin d.txs
    /\ \A o \in Ins[t] : IF TxOf[o] \in d.txs
                         THEN d.spent[o] = NoTx /\ MatureLoose(d, o)
                         ELSE TxOf[o] \in p.tx

\* A transaction from a peer, the wallet or an RPC call, under cs_main; the
\* wallet's are offered when AppInit2 ends, too.
AcceptToMemoryPool(t) ==
    /\ boot = "run" /\ call = Idle
    /\ Acceptable(pool, db, t)
    /\ PoolBecomes(addUnchecked(pool, t))
    /\ UNCHANGED vars

-----------------------------------------------------------------------------
(* What a change of the best chain does to the pool.                       *)

\* For Redundant: the transactions of the block stay in the pool.
NothingRedundant(p, b) == p

\* SetBestChainInner, "Delete redundant memory transactions".
Redundant(p, b) == removeEach(p, TxsOf(b))

\* What n turns of a loop make of p; step is its body.
Loop(n, p, step(_, _)) ==
    LET after[i \in 0..n] == IF i = 0 THEN p ELSE step(after[i - 1], i)
    IN  after[n]

\* nReorgMax: the transactions of blocks above it are queued. nNewHeight is
\* the argument of -backtoblock, a negative one if its flag was left set.
nReorgMax ==
    IF MergeDepth > BLOCK_REORG_THRESHOLD /\ call.rollback
    THEN IF boot = "run" THEN -1 ELSE Height[call.new] - 1
    ELSE HeightShorter - BLOCK_REORG_MAX_DEPTH
         - (IF MergeDepth > BLOCK_REORG_MAX_DEPTH THEN BLOCK_REORG_OVERRIDE_DEPTH
                                                  ELSE 0)

\* The block of b's chain i above the fork, and their number.
Above(b, i) == AtHeight(b, Height[call.fork] + i)
BranchLength(b) == Height[b] - Height[call.fork]

\* For ResurrectedFrom: a transaction that is refused ends the loop.
ResurrectedToFirstRefused(p, d, b) ==
    Loop(Len(Vtx[b]), [pool |-> p, go |-> TRUE], LAMBDA q, i :
            LET t == Vtx[b][Len(Vtx[b]) + 1 - i] IN
            IF q.go /\ Acceptable(q.pool, d, t)
            THEN [pool |-> addUnchecked(q.pool, t), go |-> TRUE]
            ELSE [pool |-> q.pool, go |-> FALSE]).pool

\* vResurrect: the blocks are visited from the tip down and each transaction is
\* put in front, so the lowest block is first and its last transaction leads.
\* "Resurrect memory transactions that were in the disconnected branch".
ResurrectedFrom(p, d, b) ==
    Loop(Len(Vtx[b]), p, LAMBDA q, i :
            LET t == Vtx[b][Len(Vtx[b]) + 1 - i] IN
            IF Acceptable(q, d, t) THEN addUnchecked(q, t) ELSE q)
Resurrected(p, d) ==
    Loop(BranchLength(pindexBest), p, LAMBDA q, i :
            IF Height[call.fork] + i > nReorgMax
            THEN ResurrectedFrom(q, d, Above(pindexBest, i)) ELSE q)

\* For DeletedBy: conflicting transactions are not looked for.
DeletedOnly(p, b) == removeEach(p, TxsOf(b))

\* vDelete: "Delete redundant memory transactions that are in the connected
\* branch", the lowest block first.
DeletedBy(p, b) ==
    Loop(Len(Vtx[b]), p, LAMBDA q, i :
            removeConflicts(remove(q, Vtx[b][i]), Vtx[b][i]))
Deleted(p) ==
    Loop(BranchLength(call.mid), p, LAMBDA q, i : DeletedBy(q, Above(call.mid, i)))

-----------------------------------------------------------------------------

PoolInit == Init /\ mapTx = EmptyPool.tx /\ mapNextTx = EmptyPool.next

\* SetBestChainInner, which changes hashBestChain on success only.
AttachStep ==
    /\ ExtendChain \/ ConnectFurther
    /\ PoolBecomes(IF db'.best = db.best THEN pool ELSE Redundant(pool, db'.best))

\* The end of Reorganize. pindexBest is still the old best block.
CommitStep ==
    /\ CommitReorganize
    /\ PoolBecomes(IF db'.best = db.best THEN pool
                   ELSE Deleted(Resurrected(pool, db')))

RestartStep == Restart /\ PoolBecomes(EmptyPool)

\* The steps that leave the pool alone.
PoolOtherStep ==
    /\ \/ \E b \in Block \ {Root}, demi \in BOOLEAN : AcceptBlock(b, demi)
       \/ \E demi \in BOOLEAN : RefuseBlock(demi)
       \/ CreateNewBlock
       \/ Reorganize \/ DisconnectBlock \/ DisconnectDone \/ ConnectBlock
       \/ NewBestBlock
       \/ VerifyBlocks \/ FinishInit
       \/ \E h \in RollbackHeights : BackToBlock(h)
    /\ UNCHANGED poolVars

PoolNext ==
    \/ \E t \in Tx : AcceptToMemoryPool(t)
    \/ AttachStep \/ CommitStep \/ RestartStep \/ PoolOtherStep

PoolSpec == PoolInit /\ [][PoolNext]_<<vars, poolVars>>

-----------------------------------------------------------------------------
(* Properties.                                                             *)

\* mapNextTx has an entry for exactly the outputs the pool's transactions
\* spend, each for the one that spends it: after any mixture of additions,
\* removals, recursive removals and resurrections no two of them share one.
PoolIndexExact == IndexesSpends(pool)

\* No transaction is in the pool and in the best chain, whichever way the
\* chain came to contain it.
PoolOffChain == damage = "none" => mapTx \cap db.txs = {}

\* Once a reorganisation is committed, nothing in the pool spends an output
\* that the connected branch spends, resurrected transactions included.
ReorganizeClearsConflicts ==
    [][call.op = "connect" /\ db'.best # db.best =>
           \A t \in mapTx' : \A o \in Ins[t] :
               db'.spent[o] \notin TxsOn(Anc[db'.best] \ Anc[call.fork])]_<<vars, poolVars>>

\* The transactions of vResurrect.
Queued ==
    TxsOn({b \in Anc[pindexBest] \ Anc[call.fork] : Height[b] > nReorgMax}) \ Generated

\* Once a reorganisation is committed, every transaction queued from the
\* disconnected branch is back in the pool, or in the new chain, if all it
\* spends are mature unspent outputs of the new chain that nothing in the pool
\* had claimed: however many blocks were taken off, and whatever else of them
\* is refused.
RootsResurrected ==
    [][call.op = "connect" /\ db'.best # db.best =>
           \A t \in Queued \cap Relayable :
               (\A o \in Ins[t] :
                   /\ TxOf[o] \in db'.txs /\ db'.spent[o] = NoTx
                   /\ MatureLoose(db', o) /\ mapNextTx[o] = NoTx)
               => t \in mapTx' \cup db'.txs]_<<vars, poolVars>>

-----------------------------------------------------------------------------
(* What a comment of the code says, and its steps refute.                  *)

\* Reorganize: "Resurrect memory transactions that were in the disconnected
\* branch". No queued transaction is left out whose inputs are all unspent
\* outputs of the new chain or of the pool.
BranchResurrected ==
    [][call.op = "connect" /\ db'.best # db.best =>
           \A t \in Queued \cap Relayable :
               (\A o \in Ins[t] :
                   /\ mapNextTx'[o] = NoTx
                   /\ IF TxOf[o] \in db'.txs THEN db'.spent[o] = NoTx
                                             ELSE TxOf[o] \in mapTx')
               => t \in mapTx' \cup db'.txs]_<<vars, poolVars>>

=============================================================================
