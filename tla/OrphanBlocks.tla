---------------------------- MODULE OrphanBlocks ----------------------------
(***************************************************************************)
(* ProcessBlock of core/main.cpp around the AcceptBlock of ChainState: a   *)
(* block from a peer is accepted, or held in mapOrphanBlocks while its     *)
(* parent is unknown. When a block is accepted, the orphans that wait for  *)
(* it are accepted one after the other, each with a SetBestChain of its    *)
(* own, and then those that wait for them; all of it under cs_main. The    *)
(* process may stop at any step, and the orphans are lost.                 *)
(*                                                                         *)
(* setStakeSeen, the stakes of the blocks in mapBlockIndex, is not kept as *)
(* a variable: AddToBlockIndex and LoadBlockIndex insert into both.        *)
(***************************************************************************)
EXTENDS ChainState, FiniteSets

CONSTANTS
    Stake,           \* GetProofOfStake: the kernel and time of a coinstake
    NoStake,         \* what it is for a proof-of-work block
    MaxOrphanBlocks, \* -maxorphanblocks
    fImporting       \* blocks are being imported from a file

ASSUME StakeAssumption ==
    /\ DOMAIN Stake = Block
    /\ MaxOrphanBlocks \in Nat /\ fImporting \in BOOLEAN

VARIABLES
    mapOrphanBlocks,
    mapOrphanBlocksByPrev, \* its entries; the key of b is Prev[b]
    setStakeSeenOrphan,
    proc,                  \* where ProcessBlock stands
    failed                 \* history: blocks that are in mapBlockIndex though
                           \* AcceptBlock has returned false for them

orphanVars == <<mapOrphanBlocks, mapOrphanBlocksByPrev, setStakeSeenOrphan,
                proc, failed>>

\* op is "first" while the received block is being accepted and "orphans" in
\* the loop, where cur is the orphan being accepted, queue is vWorkQueue, at the
\* place in it, and left the rest of the inner loop.
Waiting == [op |-> "idle", cur |-> NoBlock, queue |-> <<>>, at |-> 0, left |-> {}]

-----------------------------------------------------------------------------

\* What mapOrphanBlocksByPrev, with the given entries, has under the key b.
Children(entries, b) == {c \in entries : Prev[c] = b}

StakesOf(S) == {Stake[b] : b \in S} \ {NoStake}

\* "Limited duplicity on stake", against the stakes already seen.
Duplicate(b, seen) == Stake[b] \in seen /\ Children(mapOrphanBlocksByPrev, b) = {}

\* The first checks of ProcessBlock.
Fresh(b) ==
    /\ b \notin mapBlockIndex \cup mapOrphanBlocks
    /\ fImporting \/ ~ Duplicate(b, StakesOf(mapBlockIndex))

\* The entries that n turns of the loop of PruneOrphanBlocks may come to from a
\* random one. A turn goes on to a block that waits for the one it is at, if the
\* map has any; find may return each of them.
Walked(n) ==
    LET it[k \in 0..n] ==
          IF k = 0 THEN mapOrphanBlocksByPrev
          ELSE {c \in mapOrphanBlocksByPrev : \E b \in it[k - 1] :
                    IF Children(mapOrphanBlocksByPrev, b) = {} THEN c = b
                    ELSE Prev[c] = b}
    IN  it[n]

\* For Pruned: the loop is left after the first turn.
PrunedEarly ==
    IF Cardinality(mapOrphanBlocksByPrev) <= MaxOrphanBlocks THEN {{}}
    ELSE {{b} : b \in Walked(1)}

\* For Pruned: nothing is removed until the limit is exceeded by one more.
PrunedLate ==
    IF Cardinality(mapOrphanBlocksByPrev) <= MaxOrphanBlocks + 1 THEN {{}}
    ELSE {{b} : b \in Walked(Cardinality(mapOrphanBlocksByPrev))}

\* PruneOrphanBlocks: what it may remove. The loop has no limit to its turns, but
\* it passes no entry twice.
Pruned ==
    IF Cardinality(mapOrphanBlocksByPrev) <= MaxOrphanBlocks THEN {{}}
    ELSE {{b} : b \in Walked(Cardinality(mapOrphanBlocksByPrev))}

\* AcceptBlock has returned true: SetBestChain was not called or has succeeded.
\* A call that fails leaves pindexBest below b's trust.
Returned(b) == ChainTrust[b] <= ChainTrust[pindexBest]

-----------------------------------------------------------------------------

OrphanInit ==
    /\ Init
    /\ mapOrphanBlocks = {} /\ mapOrphanBlocksByPrev = {}
    /\ setStakeSeenOrphan = {} /\ proc = Waiting /\ failed = {}

\* For StoreOrphan: the stake of a pruned orphan stays in the set.
StoreOrphanKeepStake(b, demi) ==
    /\ proc = Waiting /\ RefuseBlock(demi)
    /\ Fresh(b) /\ Prev[b] \notin mapBlockIndex
    /\ ~ Duplicate(b, setStakeSeenOrphan)
    /\ \E gone \in Pruned :
        /\ mapOrphanBlocks' = (mapOrphanBlocks \ gone) \cup {b}
        /\ mapOrphanBlocksByPrev' = (mapOrphanBlocksByPrev \ gone) \cup {b}
        /\ setStakeSeenOrphan' = setStakeSeenOrphan \cup StakesOf({b})
    /\ UNCHANGED <<proc, failed>>

\* A block from a peer whose parent is unknown; demi tells whether the peer is
\* a Demi-node. The missing blocks are asked for.
StoreOrphan(b, demi) ==
    /\ proc = Waiting /\ RefuseBlock(demi)
    /\ Fresh(b) /\ Prev[b] \notin mapBlockIndex
    /\ ~ Duplicate(b, setStakeSeenOrphan)
    /\ \E gone \in Pruned :
        /\ mapOrphanBlocks' = (mapOrphanBlocks \ gone) \cup {b}
        /\ mapOrphanBlocksByPrev' = (mapOrphanBlocksByPrev \ gone) \cup {b}
        /\ setStakeSeenOrphan' = (setStakeSeenOrphan \ StakesOf(gone))
                                 \cup StakesOf({b})
    /\ UNCHANGED <<proc, failed>>

\* One that is refused: an orphan with a duplicate stake, a block AcceptBlock
\* does not put into the index.
RefuseReceived(b, demi) ==
    /\ proc = Waiting /\ RefuseBlock(demi)
    /\ Fresh(b)
    /\ IF Prev[b] \in mapBlockIndex THEN ~ (CheckSync(b) /\ TxFactor(b))
                                    ELSE Duplicate(b, setStakeSeenOrphan)
    /\ UNCHANGED orphanVars

\* One that AcceptBlock puts into the index. Mined and imported blocks come
\* this way, too, with GetRelayPeerAddr as it is.
AcceptReceived(b, demi) ==
    /\ proc = Waiting
    /\ Fresh(b) /\ AcceptBlock(b, demi)
    /\ proc' = [Waiting EXCEPT !.op = "first", !.cur = b]
    /\ UNCHANGED <<mapOrphanBlocks, mapOrphanBlocksByPrev, setStakeSeenOrphan,
                   failed>>

\* Its AcceptBlock returns: the loop begins, or ProcessBlock returns false.
FirstReturns ==
    /\ proc.op = "first" /\ call = Idle
    /\ IF Returned(proc.cur)
       THEN /\ proc' = [op |-> "orphans", cur |-> NoBlock,
                        queue |-> <<proc.cur>>, at |-> 1,
                        left |-> Children(mapOrphanBlocksByPrev, proc.cur)]
            /\ UNCHANGED failed
       ELSE proc' = Waiting /\ failed' = failed \cup {proc.cur}
    /\ UNCHANGED <<vars, mapOrphanBlocks, mapOrphanBlocksByPrev, setStakeSeenOrphan>>

\* mapOrphanBlocks.erase and setStakeSeenOrphan.erase after AcceptBlock, in
\* whatever way that has ended.
Forget(c) ==
    /\ mapOrphanBlocks' = mapOrphanBlocks \ {c}
    /\ setStakeSeenOrphan' = setStakeSeenOrphan \ {Stake[c]}
    /\ UNCHANGED mapOrphanBlocksByPrev

\* An orphan of the inner loop that AcceptBlock puts into the index.
AcceptOrphan(c) ==
    /\ proc.op = "orphans" /\ proc.cur = NoBlock /\ c \in proc.left
    /\ AcceptBlock(c, relayDemi)
    /\ proc' = [proc EXCEPT !.cur = c, !.left = @ \ {c}]
    /\ UNCHANGED <<mapOrphanBlocks, mapOrphanBlocksByPrev, setStakeSeenOrphan,
                   failed>>

\* One that it refuses before that.
RefuseOrphan(c) ==
    /\ proc.op = "orphans" /\ proc.cur = NoBlock /\ c \in proc.left
    /\ ~ (c \notin mapBlockIndex /\ CheckSync(c) /\ TxFactor(c))
    /\ proc' = [proc EXCEPT !.left = @ \ {c}]
    /\ Forget(c)
    /\ UNCHANGED <<vars, failed>>

\* For OrphanReturns: an accepted orphan is not put into vWorkQueue.
OrphanReturnsOnly ==
    /\ proc.op = "orphans" /\ proc.cur # NoBlock /\ call = Idle
    /\ proc' = [proc EXCEPT !.cur = NoBlock]
    /\ failed' = IF Returned(proc.cur) THEN failed ELSE failed \cup {proc.cur}
    /\ Forget(proc.cur)
    /\ UNCHANGED vars

\* The AcceptBlock of an orphan returns.
OrphanReturns ==
    /\ proc.op = "orphans" /\ proc.cur # NoBlock /\ call = Idle
    /\ proc' = [proc EXCEPT !.cur = NoBlock,
                            !.queue = IF Returned(proc.cur)
                                      THEN Append(@, proc.cur) ELSE @]
    /\ failed' = IF Returned(proc.cur) THEN failed ELSE failed \cup {proc.cur}
    /\ Forget(proc.cur)
    /\ UNCHANGED vars

\* For NextInQueue: the entries of the inner loop are not erased.
NextKeepsEntries ==
    /\ proc.op = "orphans" /\ proc.cur = NoBlock /\ proc.left = {}
    /\ proc' = IF proc.at = Len(proc.queue) THEN Waiting
               ELSE [proc EXCEPT !.at = @ + 1,
                                 !.left = Children(mapOrphanBlocksByPrev,
                                                  proc.queue[proc.at + 1])]
    /\ UNCHANGED <<vars, mapOrphanBlocks, mapOrphanBlocksByPrev,
                   setStakeSeenOrphan, failed>>

\* For NextInQueue: the place in the queue is not advanced.
SameInQueue ==
    /\ proc.op = "orphans" /\ proc.cur = NoBlock /\ proc.left = {}
    /\ mapOrphanBlocksByPrev' =
          mapOrphanBlocksByPrev \ Children(mapOrphanBlocksByPrev, proc.queue[proc.at])
    /\ proc' = IF proc.at = Len(proc.queue) THEN Waiting
               ELSE [proc EXCEPT !.left = Children(mapOrphanBlocksByPrev',
                                                   proc.queue[proc.at + 1])]
    /\ UNCHANGED <<vars, mapOrphanBlocks, setStakeSeenOrphan, failed>>

\* mapOrphanBlocksByPrev.erase(hashPrev), and the outer loop goes on or ends.
NextInQueue ==
    /\ proc.op = "orphans" /\ proc.cur = NoBlock /\ proc.left = {}
    /\ mapOrphanBlocksByPrev' =
          mapOrphanBlocksByPrev \ Children(mapOrphanBlocksByPrev, proc.queue[proc.at])
    /\ proc' = IF proc.at = Len(proc.queue) THEN Waiting
               ELSE [proc EXCEPT !.at = @ + 1,
                                 !.left = Children(mapOrphanBlocksByPrev',
                                                   proc.queue[proc.at + 1])]
    /\ UNCHANGED <<vars, mapOrphanBlocks, setStakeSeenOrphan, failed>>

\* The process stops; the orphans were in memory only.
LoseOrphans ==
    /\ Restart
    /\ mapOrphanBlocks' = {} /\ mapOrphanBlocksByPrev' = {}
    /\ setStakeSeenOrphan' = {} /\ proc' = Waiting /\ UNCHANGED failed

\* SetBestChain within AcceptBlock or start-up, and what runs beside it.
ChainStep ==
    /\ \/ SetBestChainStep \/ CreateNewBlock
       \/ VerifyBlocks \/ FinishInit
       \/ \E h \in RollbackHeights : BackToBlock(h)
    /\ UNCHANGED orphanVars

\* What ProcessBlock does with a block it has begun.
ProcessStep ==
    \/ FirstReturns \/ OrphanReturns \/ NextInQueue
    \/ \E c \in Block : AcceptOrphan(c) \/ RefuseOrphan(c)
    \/ SetBestChainStep /\ UNCHANGED orphanVars

OrphanNext ==
    \/ \E b \in Block \ {Root}, demi \in BOOLEAN :
            \/ StoreOrphan(b, demi) \/ RefuseReceived(b, demi)
            \/ AcceptReceived(b, demi)
    \/ FirstReturns \/ OrphanReturns \/ NextInQueue
    \/ \E c \in Block : AcceptOrphan(c) \/ RefuseOrphan(c)
    \/ LoseOrphans \/ ChainStep

OrphanSpec == OrphanInit /\ [][OrphanNext]_<<vars, orphanVars>>

\* The thread that handles messages keeps running.
OrphanFairSpec == OrphanSpec /\ WF_<<vars, orphanVars>>(ProcessStep)

-----------------------------------------------------------------------------
(* Properties.                                                             *)

\* Between blocks the two maps hold the same orphans. ProcessBlock deletes an
\* orphan while its entry in the second map is still there; an entry that
\* outlived the loop would be a dangling pointer.
OrphanMapsAgree == proc = Waiting => mapOrphanBlocksByPrev = mapOrphanBlocks

\* PruneOrphanBlocks is called before the new orphan is stored and removes one
\* at most, so there is never more than one above the limit.
OrphanBlocksBounded == Cardinality(mapOrphanBlocks) <= MaxOrphanBlocks + 1

\* Whatever chains of orphans are held and wherever PruneOrphanBlocks begins, no
\* orphan loses the orphan it waits for, except to the loop of ProcessBlock,
\* which has passed that one to AcceptBlock. The exception is the block being
\* stored: its own parent may be the orphan that makes room for it.
OrphanChainsWhole ==
    [][boot' = "run" /\ proc.op # "orphans" =>
           \A c \in mapOrphanBlocks \cap mapOrphanBlocks' :
               Prev[c] \in mapOrphanBlocks => Prev[c] \in mapOrphanBlocks'
      ]_<<vars, orphanVars>>

\* setStakeSeenOrphan: a stake in the set is the stake of an orphan that is
\* there. A stale one would refuse a block for a competitor that is gone.
NoStaleStake == setStakeSeenOrphan \subseteq StakesOf(mapOrphanBlocks)

\* "Recursively process any orphan blocks that depended on this one": between
\* blocks, an orphan whose parent is in the index is there only because
\* AcceptBlock has returned false for the parent.
AcceptedParentsHaveNoOrphans ==
    proc = Waiting =>
        \A c \in mapOrphanBlocks : Prev[c] \in mapBlockIndex => Prev[c] \in failed

\* ProcessBlock ends, though it adds to the queue it runs over.
ProcessBlockReturns == (proc # Waiting) ~> (proc = Waiting)

=============================================================================
