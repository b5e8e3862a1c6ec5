---------------------------- MODULE ChainLookups ----------------------------
(***************************************************************************)
(* Two caches over the best chain of ChainState: the block found last by   *)
(* FindBlockByHeight (core/main.cpp), from which the next may start, and   *)
(* the sizes of recent blocks (core/blocksizecalculator.cpp), from which   *)
(* ConnectBlock computes MAX_BLOCK_SIZE.                                   *)
(*                                                                         *)
(* ConnectBlock searches in the middle of SetBestChain, when pnext and     *)
(* pindexBest are of different chains. Other callers hold cs_main, except  *)
(* the dsee handler: its search goes on step by step while the staking     *)
(* thread or an RPC changes the chain.                                     *)
(***************************************************************************)
EXTENDS ChainState, FiniteSets

CONSTANTS
    sysUpgrade_01,      \* height above which block sizes adapt
    Size,               \* size of each block; those below Root are like Root
    NUM_BLOCKS_FOR_MEDIAN_BLOCK,
    Confirming          \* blocks at the heights at which an Xnode's collateral has
                        \* XNODE_MIN_CONFIRMATIONS, which the dsee handler looks for

ASSUME LookupAssumption ==
    /\ sysUpgrade_01 \in Nat /\ Size \in [Block -> Nat] /\ Confirming \subseteq Block
    /\ NUM_BLOCKS_FOR_MEDIAN_BLOCK \in Nat \ {0}

VARIABLES
    pblockindexFBBHLast,
    blocksizes,         \* how often each size occurs; the code keeps them sorted
    search,             \* the search without cs_main
    stray               \* history: pblockindexFBBHLast was stored by a search that
                        \* SetBestChain has left behind, or found from there

cacheVars == <<pblockindexFBBHLast, blocksizes, stray>>
lookupVars == <<vars, cacheVars, search>>

\* at is where the search has come to. lost is history: a chain without that
\* block has become the best one since.
NoSearch == [at |-> NoBlock, height |-> 0, lost |-> FALSE]

Sizes == {Size[b] : b \in Block}
NoSizes == [s \in Sizes |-> 0]
Distance(m, n) == IF m > n THEN m - n ELSE n - m

-----------------------------------------------------------------------------
\* Where FindBlockByHeight starts. The walk from the genesis block passes Root.
SearchFrom(h) ==
    LET near == IF h < Height[pindexBest] \div 2 THEN Root ELSE pindexBest IN
    IF /\ pblockindexFBBHLast # NoBlock
       /\ Distance(h, Height[near]) > Distance(h, Height[pblockindexFBBHLast])
    THEN pblockindexFBBHLast ELSE near

\* The block that n turns of following pnext from b lead to. NoBlock is a null
\* pointer that the loop follows, which ends the process.
Climb(b, n) ==
    LET up[k \in 0..n] ==
            IF k = 0 THEN b
            ELSE IF up[k - 1] = NoBlock THEN NoBlock ELSE pnext[up[k - 1]]
    IN  up[n]

\* FindBlockByHeight: down by pprev or up by pnext. Below Root there is one
\* chain.
FindBlockByHeight(height) ==
    LET h == IF height < Height[Root] THEN Height[Root] ELSE height
        from == SearchFrom(h)
    IN  IF Height[from] >= h THEN AtHeight(from, h)
                             ELSE Climb(from, h - Height[from])

\* The process stops; both caches start empty.
CachesLost ==
    /\ pblockindexFBBHLast' = NoBlock /\ blocksizes' = NoSizes
    /\ stray' = FALSE /\ search' = NoSearch

-----------------------------------------------------------------------------
\* The number of the last NUM_BLOCKS_FOR_MEDIAN_BLOCK blocks up to b with size s.
SizesUpTo(b) ==
    LET last == (Height[b] - NUM_BLOCKS_FOR_MEDIAN_BLOCK + 1)..Height[b]
        at(h) == IF h <= Height[Root] THEN Root ELSE AtHeight(b, h)
    IN  [s \in Sizes |-> Cardinality({h \in last : Size[at(h)] = s})]

Adaptive == Height[pindexBest] > sysUpgrade_01
Oldest(b) == FindBlockByHeight(Height[b] - NUM_BLOCKS_FOR_MEDIAN_BLOCK)

\* ComputeBlockSize for block b: the list is built once, and from then on the
\* size of b takes the place of that of the block that leaves the window.
ComputeBlockSize(b) ==
    IF ~ Adaptive THEN UNCHANGED cacheVars
    ELSE IF blocksizes = NoSizes
    THEN blocksizes' = SizesUpTo(b) /\ UNCHANGED <<pblockindexFBBHLast, stray>>
    ELSE /\ pblockindexFBBHLast' = Oldest(b) /\ UNCHANGED stray
         /\ blocksizes' = IF blocksizes[Size[Oldest(b)]] = 0 THEN blocksizes
                          ELSE [s \in Sizes |->
                                    blocksizes[s] - (IF s = Size[Oldest(b)] THEN 1 ELSE 0)
                                                  + (IF s = Size[b] THEN 1 ELSE 0)]

\* A step of SetBestChain that connects block b computes the sizes first. The
\* search may end the process. With DiskFaults the block may not even be read.
Connecting(b, step) ==
    IF Adaptive /\ blocksizes # NoSizes /\ Oldest(b) = NoBlock
    THEN Restart /\ CachesLost
    ELSE /\ step /\ UNCHANGED search
         /\ \/ ComputeBlockSize(b)
            \/ /\ DiskFaults /\ call.op # "extend" /\ call'.op # call.op
               /\ UNCHANGED cacheVars

ConnectStep ==
    \/ call.op = "extend" /\ Connecting(call.new, ExtendChain)
    \/ /\ call.op = "connect" /\ call.at # call.mid
       /\ Connecting(Toward(call.at, call.mid), ConnectBlock)
    \/ /\ call.op = "further" /\ call.at # call.new
       /\ Connecting(Toward(call.at, call.new), ConnectFurther)

\* The search goes on, if there is one, though its block may be on no best chain.
SearchOvertaken ==
    search' = IF search = NoSearch THEN NoSearch
              ELSE [search EXCEPT !.lost = search.at \notin Anc[call.new]]

\* For PublishBest: the block found last is kept.
PublishBestOnly == NewBestBlock /\ SearchOvertaken /\ UNCHANGED cacheVars

\* SetBestChain forgets the block found last when it publishes the new one.
PublishBest ==
    /\ NewBestBlock /\ SearchOvertaken
    /\ pblockindexFBBHLast' = NoBlock /\ stray' = FALSE
    /\ UNCHANGED blocksizes

LookupOtherStep ==
    /\ \/ \E b \in Block \ {Root}, demi \in BOOLEAN : AcceptBlock(b, demi)
       \/ \E demi \in BOOLEAN : RefuseBlock(demi)
       \/ CreateNewBlock
       \/ Reorganize \/ DisconnectBlock \/ DisconnectDone \/ CommitReorganize
       \/ VerifyBlocks \/ FinishInit
       \/ \E h \in RollbackHeights : BackToBlock(h)
    /\ UNCHANGED <<cacheVars, search>>

\* getblockhash and its like, with cs_main.
Query(h) ==
    /\ boot = "run" /\ call = Idle
    /\ h <= Height[pindexBest]
    /\ IF FindBlockByHeight(h) = NoBlock
       THEN Restart /\ CachesLost
       ELSE /\ pblockindexFBBHLast' = FindBlockByHeight(h)
            /\ UNCHANGED <<vars, blocksizes, stray, search>>

-----------------------------------------------------------------------------
(* FindBlockByHeight as the dsee handler calls it, which has released      *)
(* cs_main. Reading a null pointer, or one that has just become null, ends *)
(* the process, which Restart allows at any time.                          *)

\* nBestHeight, pindexBest and pblockindexFBBHLast are read one after the other,
\* so that any of the three starts may come out. pprev does not change. The
\* height was compared with the best one, by GetInputAge, some time before.
BeginSearch(h) ==
    /\ boot = "run" /\ search = NoSearch
    /\ \E from \in {Root, pindexBest, pblockindexFBBHLast} \ {NoBlock} :
            search' = [at |-> IF Height[from] >= h THEN AtHeight(from, h) ELSE from,
                       height |-> h, lost |-> stray /\ from = pblockindexFBBHLast]
    /\ UNCHANGED <<vars, cacheVars>>

\* One turn of the loop along pnext.
ClimbSearch ==
    /\ search # NoSearch /\ Height[search.at] < search.height
    /\ IF pnext[search.at] = NoBlock
       THEN Restart /\ CachesLost
       ELSE /\ search' = [search EXCEPT !.at = pnext[@]]
            /\ UNCHANGED <<vars, cacheVars>>

\* The block is stored, unless a search with cs_main, which has read
\* pblockindexFBBHLast before that, stores its own at once.
EndSearch ==
    /\ search # NoSearch /\ Height[search.at] = search.height
    /\ \/ pblockindexFBBHLast' = search.at /\ stray' = search.lost
       \/ UNCHANGED <<pblockindexFBBHLast, stray>>
    /\ search' = NoSearch
    /\ UNCHANGED <<vars, blocksizes>>

LookupInit ==
    /\ Init
    /\ pblockindexFBBHLast = NoBlock /\ blocksizes = NoSizes
    /\ stray = FALSE /\ search = NoSearch

LookupNext ==
    \/ ConnectStep \/ PublishBest \/ LookupOtherStep
    \/ Restart /\ CachesLost
    \/ \E b \in Block : Query(Height[b])
    \/ \E b \in Confirming : BeginSearch(Height[b])
    \/ ClimbSearch \/ EndSearch

LookupSpec == LookupInit /\ [][LookupNext]_lookupVars

-----------------------------------------------------------------------------
\* getblockhash: "Returns hash of block in best-block-chain at <index>".
\* FindBlockByHeight finds the block of the best chain at every height, whatever
\* was looked for before, after reorganisations and failed ones, and also after
\* a search without cs_main that began, climbed or ended in the middle of one.
\* Only when such a search ends after SetBestChain has published a chain that
\* its block is not on (stray), the next may go wrong, until the best block
\* changes again; and a further block must not have failed (damage). While
\* SetBestChain moves pnext from one chain to the other, the property is about
\* heights up to their fork, where ConnectBlock looks for the block that leaves
\* the window of sizes.
FindsMainChain ==
    damage = "none" /\ ~ stray =>
        \A b \in Anc[IF call.op \in {"disconnect", "connect", "further", "finish"}
                     THEN Fork(pindexBest, call.new) ELSE pindexBest] :
            FindBlockByHeight(Height[b]) = b

\* The same of getblockhash without the exception. The dsee handler refutes it.
ReturnsMainChain ==
    damage = "none" /\ call = Idle =>
        \A b \in Anc[pindexBest] : FindBlockByHeight(Height[b]) = b

\* main.h: "The number of blocks to consider in the computation of median block
\* size" and "maximum allowed size for a serialized block, in bytes (network
\* rule)". Between calls the sizes are those of the last blocks of the best chain.
SizesOfBestChain ==
    call = Idle /\ damage = "none" /\ blocksizes # NoSizes =>
        blocksizes = SizesUpTo(pindexBest)

=============================================================================
