-------------------------- MODULE BlockRelayProofs --------------------------
(***************************************************************************)
(* Proofs about blocks on their way from the peers to the chain, for any   *)
(* number of peers and any tree of blocks.                                 *)
(*                                                                         *)
(* BlockDownload: maps, lists and counters agree, no block is listed       *)
(* twice, and no peer has more than MAX_BLOCKS_IN_TRANSIT_PER_PEER         *)
(* requests to answer. MapsMatchLists is not inductive: a peer without a   *)
(* CNodeState must have no lists either, a block must not be in both maps, *)
(* and the peer that SendMessages works for must still be there. ListInv   *)
(* adds that; CountInv adds that the lists are finite, which a count of    *)
(* them needs.                                                             *)
(*                                                                         *)
(* OrphanBlocks: the two maps of orphans agree, their number is bounded,   *)
(* no stake outlives its orphan, and an accepted block leaves no orphan    *)
(* waiting for it. The walk of PruneOrphanBlocks ends at an orphan that    *)
(* none waits for: each turn that goes on has one more orphan below it.    *)
(* The invariants speak of the moments between two blocks.                 *)
(* In between, the orphans that the inner loop has dealt with are gone     *)
(* from the first map and still in the second, and blocks have been        *)
(* accepted whose orphans the loop has yet to come to; MapsInv and WaitInv *)
(* say which.                                                              *)
(***************************************************************************)
EXTENDS BlockDownload, OrphanBlocks, FiniteSetTheorems, NaturalLemmas, TLAPS

USE SMTT(30)

-----------------------------------------------------------------------------
(* Block downloads.                                                        *)

QueueType ==
    /\ mapNodeState \subseteq Node
    /\ vBlocksToDownload \in [Node -> SUBSET Hash]
    /\ vBlocksInFlight \in [Node -> SUBSET Hash]
    /\ nBlocksToDownload \in [Node -> Int]
    /\ nBlocksInFlight \in [Node -> Int]
    /\ mapBlocksToDownload \in [Hash -> Node \cup {NoNode}]
    /\ mapBlocksInFlight \in [Hash -> Node \cup {NoNode}]
    /\ sending \in mapNodeState \cup {NoNode}

ListInv ==
    /\ QueueType
    /\ \A h \in Hash, n \in Node :
           /\ mapBlocksToDownload[h] = n <=> h \in vBlocksToDownload[n]
           /\ mapBlocksInFlight[h] = n <=> h \in vBlocksInFlight[n]
    /\ \A h \in Hash : mapBlocksToDownload[h] = NoNode \/ mapBlocksInFlight[h] = NoNode
    /\ \A n \in Node \ mapNodeState :
           vBlocksToDownload[n] = {} /\ vBlocksInFlight[n] = {}

CountInv ==
    \A n \in Node :
        /\ IsFiniteSet(vBlocksToDownload[n]) /\ IsFiniteSet(vBlocksInFlight[n])
        /\ nBlocksToDownload[n] = Cardinality(vBlocksToDownload[n])
        /\ nBlocksInFlight[n] = Cardinality(vBlocksInFlight[n])
        /\ nBlocksInFlight[n] <= MAX_BLOCKS_IN_TRANSIT_PER_PEER

-----------------------------------------------------------------------------
(* MarkBlockAsReceived.                                                    *)

\* A map that has h at m, with its lists and counters; the same without h; and
\* what that comes to.
Holds(h, m, list, count) ==
    /\ list \in [Node -> SUBSET Hash] /\ count \in [Node -> Int]
    /\ m \in Node \cup {NoNode}
    /\ \A n \in Node : m = n <=> h \in list[n]
    /\ \A n \in Node : IsFiniteSet(list[n]) /\ count[n] = Cardinality(list[n])

Erases(h, m, list, count, l, c) ==
    /\ l = IF m = NoNode THEN list ELSE [list EXCEPT ![m] = @ \ {h}]
    /\ c = IF m = NoNode THEN count ELSE [count EXCEPT ![m] = @ - 1]

Without(h, list, count, l, c) ==
    /\ l = [n \in Node |-> list[n] \ {h}]
    /\ c \in [Node -> Int]
    /\ \A n \in Node : IsFiniteSet(l[n]) /\ c[n] = Cardinality(l[n]) /\ c[n] <= count[n]

\* One half of MarkBlockAsReceived, for either map with its lists and counters:
\* the block leaves the list of the peer that the map names, which is the only
\* list it can be in, and the counters still count.
LEMMA LeavesList ==
    ASSUME NEW h \in Hash, NEW m, NEW list, NEW count, NEW l, NEW c,
           Holds(h, m, list, count), Erases(h, m, list, count, l, c)
    PROVE  Without(h, list, count, l, c)
<1> USE DEF Holds, Erases
<1>1. l \in [Node -> SUBSET Hash] /\ c \in [Node -> Int]
  OBVIOUS
<1>2. ASSUME NEW n \in Node
      PROVE  /\ l[n] = list[n] \ {h}
             /\ IsFiniteSet(l[n]) /\ c[n] = Cardinality(l[n]) /\ c[n] <= count[n]
  <2>1. CASE m = n
    <3>1. m # NoNode /\ h \in list[n] /\ l[n] = list[n] \ {h} /\ c[n] = count[n] - 1
      BY <2>1, DownloadAssumption
    <3>2. IsFiniteSet(list[n]) /\ count[n] = Cardinality(list[n]) /\ count[n] \in Int
      OBVIOUS
    <3>3. /\ IsFiniteSet(list[n] \ {h})
          /\ Cardinality(list[n] \ {h}) = Cardinality(list[n]) - 1
      BY <3>1, <3>2, FS_RemoveElement, Zenon
    <3>4. c[n] = Cardinality(l[n]) /\ IsFiniteSet(l[n])
      BY <3>1, <3>2, <3>3, Zenon
    <3>5. c[n] <= count[n]
      BY <3>1, <3>2
    <3> QED
      BY <3>1, <3>4, <3>5, Zenon
  <2>2. CASE m # n
    <3>1. h \notin list[n] /\ l[n] = list[n] /\ c[n] = count[n]
      BY <2>2
    <3>2. count[n] \in Int /\ IsFiniteSet(list[n]) /\ count[n] = Cardinality(list[n])
      OBVIOUS
    <3> QED
      BY <3>1, <3>2
  <2> QED
    BY <2>1, <2>2
<1>3. l = [n \in Node |-> list[n] \ {h}]
  BY <1>1, <1>2, Zenon
<1> QED
  BY <1>1, <1>2, <1>3, Zenon DEF Without

\* MarkBlockAsReceived, first half.
LEMMA NotQueuedAnywhere ==
    ASSUME ListInv, CountInv, NEW h \in Hash, NotQueued(h)
    PROVE  /\ vBlocksToDownload' = [n \in Node |-> vBlocksToDownload[n] \ {h}]
           /\ mapBlocksToDownload' = [mapBlocksToDownload EXCEPT ![h] = NoNode]
           /\ nBlocksToDownload' \in [Node -> Int]
           /\ \A n \in Node : /\ IsFiniteSet(vBlocksToDownload'[n])
                              /\ nBlocksToDownload'[n] = Cardinality(vBlocksToDownload'[n])
<1>1. Holds(h, mapBlocksToDownload[h], vBlocksToDownload, nBlocksToDownload)
  BY DEF Holds, ListInv, QueueType, CountInv
<1>2. Erases(h, mapBlocksToDownload[h], vBlocksToDownload, nBlocksToDownload,
             vBlocksToDownload', nBlocksToDownload')
  BY DEF Erases, NotQueued
<1>3. Without(h, vBlocksToDownload, nBlocksToDownload,
              vBlocksToDownload', nBlocksToDownload')
  BY <1>1, <1>2, LeavesList
<1> QED
  BY <1>3, Zenon DEF Without, NotQueued

\* MarkBlockAsReceived, second half.
LEMMA LandedEverywhere ==
    ASSUME ListInv, CountInv, NEW h \in Hash
    PROVE  /\ Landed(h).list = [n \in Node |-> vBlocksInFlight[n] \ {h}]
           /\ Landed(h).count \in [Node -> Int]
           /\ \A n \in Node : /\ IsFiniteSet(Landed(h).list[n])
                              /\ Landed(h).count[n] = Cardinality(Landed(h).list[n])
                              /\ Landed(h).count[n] <= nBlocksInFlight[n]
<1>1. Holds(h, mapBlocksInFlight[h], vBlocksInFlight, nBlocksInFlight)
  BY DEF Holds, ListInv, QueueType, CountInv
<1>2. Erases(h, mapBlocksInFlight[h], vBlocksInFlight, nBlocksInFlight,
             Landed(h).list, Landed(h).count)
  BY DEF Erases, Landed
<1>3. Without(h, vBlocksInFlight, nBlocksInFlight, Landed(h).list, Landed(h).count)
  BY <1>1, <1>2, LeavesList, Zenon
<1> QED
  BY <1>3 DEF Without

-----------------------------------------------------------------------------
(* The actions.                                                            *)

\* Steps that leave maps, lists and counters alone.
LEMMA QuietStep ==
    ASSUME ListInv, CountInv, UNCHANGED queues,
           mapNodeState \subseteq mapNodeState', mapNodeState' \subseteq Node,
           sending' \in mapNodeState' \cup {NoNode}
    PROVE  ListInv' /\ CountInv'
BY DEF ListInv, QueueType, CountInv, queues

\* AddBlockToQueue: the block was nowhere, and is in one list now.
LEMMA InvStep ==
    ASSUME ListInv, CountInv, NEW p \in Node, NEW h \in Hash, Inv(p, h)
    PROVE  ListInv' /\ CountInv'
<1>1. CASE mapBlocksToDownload[h] # NoNode \/ mapBlocksInFlight[h] # NoNode
  <2>1. UNCHANGED <<queues, mapNodeState, sending>>
    BY <1>1 DEF Inv, AddBlockToQueue
  <2> QED
    BY <2>1, QuietStep, Zenon DEF ListInv, QueueType
<1>2. CASE mapBlocksToDownload[h] = NoNode /\ mapBlocksInFlight[h] = NoNode
  <2>1. /\ vBlocksToDownload' = [vBlocksToDownload EXCEPT ![p] = @ \cup {h}]
        /\ nBlocksToDownload' = [nBlocksToDownload EXCEPT ![p] = @ + 1]
        /\ mapBlocksToDownload' = [mapBlocksToDownload EXCEPT ![h] = p]
        /\ UNCHANGED <<vBlocksInFlight, nBlocksInFlight, mapBlocksInFlight,
                       mapNodeState, sending>>
        /\ p \in mapNodeState
    BY <1>2 DEF Inv, AddBlockToQueue
  <2>2. /\ QueueType
        /\ \A n \in Node : h \notin vBlocksToDownload[n]
    BY <1>2, DownloadAssumption DEF ListInv, QueueType
  <2>3. QueueType'
    <3>1. /\ vBlocksToDownload \in [Node -> SUBSET Hash]
          /\ nBlocksToDownload \in [Node -> Int]
          /\ mapBlocksToDownload \in [Hash -> Node \cup {NoNode}]
      BY <2>2, Zenon DEF QueueType
    <3>2. vBlocksToDownload' \in [Node -> SUBSET Hash]
      BY <2>1, <3>1, Zenon
    <3>3. mapBlocksToDownload' \in [Hash -> Node \cup {NoNode}]
      BY <2>1, <3>1, Zenon
    <3>4. nBlocksToDownload' \in [Node -> Int]
      <4>1. nBlocksToDownload[p] + 1 \in Int
        BY <3>1
      <4> QED
        BY <2>1, <3>1, <4>1, Zenon
    <3> QED
      BY <2>1, <2>2, <3>2, <3>3, <3>4, Zenon DEF QueueType
  <2>4. ListInv'
    BY <1>2, <2>1, <2>2, <2>3, DownloadAssumption DEF ListInv, QueueType
  <2>5. /\ IsFiniteSet(vBlocksToDownload[p] \cup {h})
        /\ Cardinality(vBlocksToDownload[p] \cup {h}) = nBlocksToDownload[p] + 1
    <3>1. /\ IsFiniteSet(vBlocksToDownload[p]) /\ h \notin vBlocksToDownload[p]
          /\ Cardinality(vBlocksToDownload[p]) = nBlocksToDownload[p]
      BY <2>2 DEF CountInv
    <3>2. /\ IsFiniteSet(vBlocksToDownload[p] \cup {h})
          /\ Cardinality(vBlocksToDownload[p] \cup {h})
                 = Cardinality(vBlocksToDownload[p]) + 1
      BY <3>1, FS_AddElement, Zenon
    <3> QED
      BY <3>1, <3>2
  <2>6. CountInv'
    BY <2>1, <2>2, <2>5 DEF CountInv, QueueType
  <2> QED
    BY <2>4, <2>6, Zenon
<1> QED
  BY <1>1, <1>2, Zenon

\* A "block" message takes the block out of every list.
LEMMA BlockMessageStep ==
    ASSUME ListInv, CountInv, NEW p \in Node, NEW h \in Hash, NEW taken, NEW nDoS,
           BlockMessage(p, h, taken, nDoS)
    PROVE  ListInv' /\ CountInv'
<1>1. /\ NotQueued(h)
      /\ vBlocksInFlight' = Landed(h).list /\ nBlocksInFlight' = Landed(h).count
      /\ mapBlocksInFlight' = [mapBlocksInFlight EXCEPT ![h] = NoNode]
      /\ UNCHANGED <<mapNodeState, sending>>
  BY Zenon DEF BlockMessage
<1>2. /\ vBlocksToDownload' = [n \in Node |-> vBlocksToDownload[n] \ {h}]
      /\ mapBlocksToDownload' = [mapBlocksToDownload EXCEPT ![h] = NoNode]
      /\ nBlocksToDownload' \in [Node -> Int]
      /\ \A n \in Node : /\ IsFiniteSet(vBlocksToDownload'[n])
                         /\ nBlocksToDownload'[n] = Cardinality(vBlocksToDownload'[n])
  BY <1>1, NotQueuedAnywhere
<1>3. /\ vBlocksInFlight' = [n \in Node |-> vBlocksInFlight[n] \ {h}]
      /\ nBlocksInFlight' \in [Node -> Int]
      /\ \A n \in Node : /\ IsFiniteSet(vBlocksInFlight'[n])
                         /\ nBlocksInFlight'[n] = Cardinality(vBlocksInFlight'[n])
                         /\ nBlocksInFlight'[n] <= nBlocksInFlight[n]
  BY <1>1, LandedEverywhere, Zenon
<1>4. QueueType'
  <2>1. QueueType
    BY Zenon DEF ListInv
  <2>2. /\ vBlocksToDownload \in [Node -> SUBSET Hash]
        /\ vBlocksInFlight \in [Node -> SUBSET Hash]
        /\ mapBlocksToDownload \in [Hash -> Node \cup {NoNode}]
        /\ mapBlocksInFlight \in [Hash -> Node \cup {NoNode}]
    BY <2>1, Zenon DEF QueueType
  <2>3. /\ vBlocksToDownload' \in [Node -> SUBSET Hash]
        /\ vBlocksInFlight' \in [Node -> SUBSET Hash]
    BY <1>2, <1>3, <2>2, Zenon
  <2>4. /\ mapBlocksToDownload' \in [Hash -> Node \cup {NoNode}]
        /\ mapBlocksInFlight' \in [Hash -> Node \cup {NoNode}]
    BY <1>1, <1>2, <2>2
  <2> QED
    BY <1>1, <1>2, <1>3, <2>1, <2>3, <2>4, Zenon DEF QueueType
<1>5. ListInv'
  <2>1. /\ \A g \in Hash, n \in Node :
              /\ mapBlocksToDownload[g] = n <=> g \in vBlocksToDownload[n]
              /\ mapBlocksInFlight[g] = n <=> g \in vBlocksInFlight[n]
        /\ \A g \in Hash : mapBlocksToDownload[g] = NoNode \/ mapBlocksInFlight[g] = NoNode
        /\ \A n \in Node \ mapNodeState :
              vBlocksToDownload[n] = {} /\ vBlocksInFlight[n] = {}
    BY Zenon DEF ListInv
  <2>2. /\ mapBlocksToDownload \in [Hash -> Node \cup {NoNode}]
        /\ mapBlocksInFlight \in [Hash -> Node \cup {NoNode}]
    BY Zenon DEF ListInv, QueueType
  <2>3. \A g \in Hash :
            /\ mapBlocksToDownload'[g] = IF g = h THEN NoNode ELSE mapBlocksToDownload[g]
            /\ mapBlocksInFlight'[g] = IF g = h THEN NoNode ELSE mapBlocksInFlight[g]
    BY <1>1, <1>2, <2>2, Zenon
  <2>4. \A n \in Node : /\ vBlocksToDownload'[n] = vBlocksToDownload[n] \ {h}
                        /\ vBlocksInFlight'[n] = vBlocksInFlight[n] \ {h}
    BY <1>2, <1>3, Zenon
  <2>5. NoNode \notin Node
    BY DownloadAssumption, Zenon
  <2>6. \A g \in Hash, n \in Node :
            /\ mapBlocksToDownload'[g] = n <=> g \in vBlocksToDownload'[n]
            /\ mapBlocksInFlight'[g] = n <=> g \in vBlocksInFlight'[n]
    BY <2>1, <2>3, <2>4, <2>5
  <2>7. \A g \in Hash : mapBlocksToDownload'[g] = NoNode \/ mapBlocksInFlight'[g] = NoNode
    BY <2>1, <2>3, Zenon
  <2>8. \A n \in Node \ mapNodeState' :
            vBlocksToDownload'[n] = {} /\ vBlocksInFlight'[n] = {}
    BY <1>1, <2>1, <2>4
  <2> QED
    BY <1>4, <2>6, <2>7, <2>8, Zenon DEF ListInv
<1>6. CountInv'
  <2>1. ASSUME NEW n \in Node
        PROVE  nBlocksInFlight'[n] <= MAX_BLOCKS_IN_TRANSIT_PER_PEER
    <3>1. /\ nBlocksInFlight'[n] \in Int /\ nBlocksInFlight[n] \in Int
          /\ MAX_BLOCKS_IN_TRANSIT_PER_PEER \in Int
          /\ nBlocksInFlight[n] <= MAX_BLOCKS_IN_TRANSIT_PER_PEER
      BY <1>3, DownloadAssumption DEF ListInv, QueueType, CountInv
    <3>2. nBlocksInFlight'[n] <= nBlocksInFlight[n]
      BY <1>3, Zenon
    <3> QED
      BY <3>1, <3>2
  <2> QED
    BY <1>2, <1>3, <2>1, Zenon DEF CountInv
<1> QED
  BY <1>5, <1>6, Zenon

\* MarkBlockAsInFlight takes the block out of every list and puts it into one.
LEMMA RequestStep ==
    ASSUME ListInv, CountInv, NEW h \in Hash, RequestBlock(h)
    PROVE  ListInv' /\ CountInv'
<1>0. sending \in Node /\ sending \in mapNodeState
  BY DEF RequestBlock, LockFree, ListInv, QueueType
<1> DEFINE was == Landed(h)
<1>1. /\ NotQueued(h)
      /\ vBlocksInFlight' = [was.list EXCEPT ![sending] = @ \cup {h}]
      /\ nBlocksInFlight' = [was.count EXCEPT ![sending] = @ + 1]
      /\ mapBlocksInFlight' = [mapBlocksInFlight EXCEPT ![h] = sending]
      /\ UNCHANGED <<mapNodeState, sending>>
      /\ nBlocksInFlight[sending] < MAX_BLOCKS_IN_TRANSIT_PER_PEER
  BY Zenon DEF RequestBlock, MarkBlockAsInFlight, MoreToAsk, peers
<1>2. /\ vBlocksToDownload' = [n \in Node |-> vBlocksToDownload[n] \ {h}]
      /\ mapBlocksToDownload' = [mapBlocksToDownload EXCEPT ![h] = NoNode]
      /\ nBlocksToDownload' \in [Node -> Int]
      /\ \A n \in Node : /\ IsFiniteSet(vBlocksToDownload'[n])
                         /\ nBlocksToDownload'[n] = Cardinality(vBlocksToDownload'[n])
  BY <1>1, NotQueuedAnywhere
<1>3. /\ was.list = [n \in Node |-> vBlocksInFlight[n] \ {h}]
      /\ was.count \in [Node -> Int]
      /\ \A n \in Node : /\ IsFiniteSet(was.list[n])
                         /\ was.count[n] = Cardinality(was.list[n])
                         /\ was.count[n] <= nBlocksInFlight[n]
  BY LandedEverywhere, Zenon
<1> HIDE DEF was
<1>4. QueueType'
  <2>1. QueueType
    BY Zenon DEF ListInv
  <2>2. /\ vBlocksToDownload \in [Node -> SUBSET Hash]
        /\ vBlocksInFlight \in [Node -> SUBSET Hash]
        /\ mapBlocksToDownload \in [Hash -> Node \cup {NoNode}]
        /\ mapBlocksInFlight \in [Hash -> Node \cup {NoNode}]
    BY <2>1, Zenon DEF QueueType
  <2>3. /\ vBlocksToDownload' \in [Node -> SUBSET Hash]
        /\ vBlocksInFlight' \in [Node -> SUBSET Hash]
    <3>1. vBlocksToDownload' \in [Node -> SUBSET Hash]
      BY <1>2, <2>2, Zenon
    <3>2. was.list \in [Node -> SUBSET Hash]
      BY <1>3, <2>2, Zenon
    <3>3. vBlocksInFlight' \in [Node -> SUBSET Hash]
      BY <1>0, <1>1, <3>2, Zenon
    <3> QED
      BY <3>1, <3>3, Zenon
  <2>4. /\ mapBlocksToDownload' \in [Hash -> Node \cup {NoNode}]
        /\ mapBlocksInFlight' \in [Hash -> Node \cup {NoNode}]
    BY <1>0, <1>1, <1>2, <2>2, Zenon
  <2>5. nBlocksInFlight' \in [Node -> Int]
    <3>1. was.count[sending] + 1 \in Int
      BY <1>0, <1>3
    <3> QED
      BY <1>0, <1>1, <1>3, <3>1, Zenon
  <2> QED
    BY <1>1, <1>2, <2>1, <2>3, <2>4, <2>5, Zenon DEF QueueType
<1>5. \A n \in Node, g \in Hash :
          g \in vBlocksInFlight'[n] <=> IF g = h THEN n = sending
                                       ELSE g \in vBlocksInFlight[n]
  <2> TAKE n \in Node, g \in Hash
  <2>1. was.list[n] = vBlocksInFlight[n] \ {h}
    BY <1>3
  <2>2. vBlocksInFlight'[n] = IF n = sending THEN was.list[n] \cup {h} ELSE was.list[n]
    BY <1>0, <1>1, <1>3, Zenon
  <2> QED
    BY <2>1, <2>2
<1>6. ListInv'
  <2>1. \A n \in Node, g \in Hash :
            /\ mapBlocksToDownload'[g] = n <=> g \in vBlocksToDownload'[n]
            /\ mapBlocksInFlight'[g] = n <=> g \in vBlocksInFlight'[n]
    <3>1. \A g \in Hash, n \in Node :
              /\ mapBlocksToDownload[g] = n <=> g \in vBlocksToDownload[n]
              /\ mapBlocksInFlight[g] = n <=> g \in vBlocksInFlight[n]
      BY Zenon DEF ListInv
    <3>2. /\ mapBlocksToDownload \in [Hash -> Node \cup {NoNode}]
          /\ mapBlocksInFlight \in [Hash -> Node \cup {NoNode}]
      BY Zenon DEF ListInv, QueueType
    <3>3. \A g \in Hash :
              /\ mapBlocksToDownload'[g] = IF g = h THEN NoNode ELSE mapBlocksToDownload[g]
              /\ mapBlocksInFlight'[g] = IF g = h THEN sending ELSE mapBlocksInFlight[g]
      BY <1>1, <1>2, <3>2, Zenon
    <3>4. \A n \in Node : vBlocksToDownload'[n] = vBlocksToDownload[n] \ {h}
      BY <1>2, Zenon
    <3>5. NoNode \notin Node
      BY DownloadAssumption, Zenon
    <3> QED
      BY <1>0, <1>5, <3>1, <3>3, <3>4, <3>5
  <2>2. \A g \in Hash : mapBlocksToDownload'[g] = NoNode \/ mapBlocksInFlight'[g] = NoNode
    <3>1. \A g \in Hash : mapBlocksToDownload[g] = NoNode \/ mapBlocksInFlight[g] = NoNode
      BY Zenon DEF ListInv
    <3>2. /\ mapBlocksToDownload \in [Hash -> Node \cup {NoNode}]
          /\ mapBlocksInFlight \in [Hash -> Node \cup {NoNode}]
      BY Zenon DEF ListInv, QueueType
    <3> QED
      BY <1>1, <1>2, <3>1, <3>2, Zenon
  <2>3. ASSUME NEW n \in Node \ mapNodeState'
        PROVE  vBlocksToDownload'[n] = {} /\ vBlocksInFlight'[n] = {}
    <3>1. n # sending /\ vBlocksToDownload[n] = {} /\ vBlocksInFlight[n] = {}
      BY <1>0, <1>1, <2>3, ZenonT(60) DEF ListInv
    <3>2. \A g \in Hash : g \notin vBlocksInFlight'[n]
      BY <1>5, <3>1, Zenon
    <3>3. vBlocksInFlight'[n] \subseteq Hash
      BY <1>4, Zenon DEF QueueType
    <3> QED
      BY <1>2, <3>1, <3>2, <3>3, Zenon
  <2> QED
    BY <1>4, <2>1, <2>2, <2>3, ZenonT(60) DEF ListInv
<1>7. ASSUME NEW n \in Node
      PROVE  /\ IsFiniteSet(vBlocksInFlight'[n])
             /\ nBlocksInFlight'[n] = Cardinality(vBlocksInFlight'[n])
             /\ nBlocksInFlight'[n] <= MAX_BLOCKS_IN_TRANSIT_PER_PEER
  <2>1. /\ was.count[n] \in Int /\ nBlocksInFlight[n] \in Int
        /\ MAX_BLOCKS_IN_TRANSIT_PER_PEER \in Int
        /\ nBlocksInFlight[n] <= MAX_BLOCKS_IN_TRANSIT_PER_PEER
        /\ was.count[n] <= nBlocksInFlight[n]
    <3>1. was.count[n] \in Int /\ was.count[n] <= nBlocksInFlight[n]
      BY <1>3, Zenon
    <3>2. nBlocksInFlight[n] \in Int /\ MAX_BLOCKS_IN_TRANSIT_PER_PEER \in Int
      BY DownloadAssumption DEF ListInv, QueueType
    <3>3. nBlocksInFlight[n] <= MAX_BLOCKS_IN_TRANSIT_PER_PEER
      BY DEF CountInv
    <3> QED
      BY <3>1, <3>2, <3>3
  <2>2. CASE n = sending
    <3>1. h \notin was.list[n] /\ IsFiniteSet(was.list[n])
      BY <1>3
    <3>2. /\ IsFiniteSet(was.list[n] \cup {h})
          /\ Cardinality(was.list[n] \cup {h}) = Cardinality(was.list[n]) + 1
      BY <3>1, FS_AddElement, Zenon
    <3>3. /\ vBlocksInFlight'[n] = was.list[n] \cup {h}
          /\ nBlocksInFlight'[n] = was.count[n] + 1
      BY <1>1, <1>3, <2>2, Zenon
    <3>4. was.count[n] + 1 <= MAX_BLOCKS_IN_TRANSIT_PER_PEER
      BY <1>1, <2>1, <2>2
    <3> QED
      BY <1>3, <3>2, <3>3, <3>4, Zenon
  <2>3. CASE n # sending
    <3>1. vBlocksInFlight'[n] = was.list[n] /\ nBlocksInFlight'[n] = was.count[n]
      BY <1>1, <1>3, <2>3, Zenon
    <3>2. was.count[n] <= MAX_BLOCKS_IN_TRANSIT_PER_PEER
      BY <2>1
    <3> QED
      BY <1>3, <3>1, <3>2, Zenon
  <2> QED
    BY <2>2, <2>3, Zenon
<1>8. CountInv'
  BY <1>2, <1>7, Zenon DEF CountInv
<1> QED
  BY <1>6, <1>8, Zenon

\* FinalizeNode takes a peer's blocks out of the maps with its lists.
LEMMA FinalizeStep ==
    ASSUME ListInv, CountInv, NEW p \in Node, FinalizeNode(p)
    PROVE  ListInv' /\ CountInv'
<1>1. /\ mapBlocksInFlight' = [h \in Hash |-> IF h \in vBlocksInFlight[p]
                                              THEN NoNode ELSE mapBlocksInFlight[h]]
      /\ mapBlocksToDownload' = [h \in Hash |-> IF h \in vBlocksToDownload[p]
                                                THEN NoNode ELSE mapBlocksToDownload[h]]
      /\ vBlocksInFlight' = [vBlocksInFlight EXCEPT ![p] = {}]
      /\ nBlocksInFlight' = [nBlocksInFlight EXCEPT ![p] = 0]
      /\ vBlocksToDownload' = [vBlocksToDownload EXCEPT ![p] = {}]
      /\ nBlocksToDownload' = [nBlocksToDownload EXCEPT ![p] = 0]
      /\ mapNodeState' = mapNodeState \ {p}
      /\ sending = NoNode /\ sending' = NoNode
  BY Zenon DEF FinalizeNode, LockFree
<1>0. /\ vBlocksToDownload \in [Node -> SUBSET Hash]
      /\ vBlocksInFlight \in [Node -> SUBSET Hash]
      /\ nBlocksToDownload \in [Node -> Int] /\ nBlocksInFlight \in [Node -> Int]
      /\ mapBlocksToDownload \in [Hash -> Node \cup {NoNode}]
      /\ mapBlocksInFlight \in [Hash -> Node \cup {NoNode}]
      /\ mapNodeState \subseteq Node
  BY Zenon DEF ListInv, QueueType
<1>2. QueueType'
  <2>1. /\ vBlocksToDownload' \in [Node -> SUBSET Hash]
        /\ vBlocksInFlight' \in [Node -> SUBSET Hash]
    BY <1>0, <1>1
  <2>2. nBlocksToDownload' \in [Node -> Int] /\ nBlocksInFlight' \in [Node -> Int]
    BY <1>0, <1>1
  <2>3. /\ mapBlocksToDownload' \in [Hash -> Node \cup {NoNode}]
        /\ mapBlocksInFlight' \in [Hash -> Node \cup {NoNode}]
    BY <1>0, <1>1
  <2> QED
    BY <1>0, <1>1, <2>1, <2>2, <2>3, Zenon DEF QueueType
<1>3. ListInv'
  <2>1. /\ \A g \in Hash, n \in Node :
              /\ mapBlocksToDownload[g] = n <=> g \in vBlocksToDownload[n]
              /\ mapBlocksInFlight[g] = n <=> g \in vBlocksInFlight[n]
        /\ \A g \in Hash : mapBlocksToDownload[g] = NoNode \/ mapBlocksInFlight[g] = NoNode
        /\ \A n \in Node \ mapNodeState :
              vBlocksToDownload[n] = {} /\ vBlocksInFlight[n] = {}
    BY Zenon DEF ListInv
  <2>2. \A n \in Node :
            /\ vBlocksToDownload'[n] = IF n = p THEN {} ELSE vBlocksToDownload[n]
            /\ vBlocksInFlight'[n] = IF n = p THEN {} ELSE vBlocksInFlight[n]
    BY <1>0, <1>1, Zenon
  <2>3. \A g \in Hash :
            /\ mapBlocksToDownload'[g] = IF g \in vBlocksToDownload[p]
                                         THEN NoNode ELSE mapBlocksToDownload[g]
            /\ mapBlocksInFlight'[g] = IF g \in vBlocksInFlight[p]
                                       THEN NoNode ELSE mapBlocksInFlight[g]
    BY <1>1, Zenon
  <2>4. NoNode \notin Node
    BY DownloadAssumption, Zenon
  <2>5. \A g \in Hash, n \in Node :
            /\ mapBlocksToDownload'[g] = n <=> g \in vBlocksToDownload'[n]
            /\ mapBlocksInFlight'[g] = n <=> g \in vBlocksInFlight'[n]
    BY <2>1, <2>2, <2>3, <2>4
  <2>6. \A g \in Hash : mapBlocksToDownload'[g] = NoNode \/ mapBlocksInFlight'[g] = NoNode
    BY <2>1, <2>3, Zenon
  <2>7. \A n \in Node \ mapNodeState' :
            vBlocksToDownload'[n] = {} /\ vBlocksInFlight'[n] = {}
    <3> SUFFICES ASSUME NEW n \in Node, n \notin mapNodeState'
                 PROVE  vBlocksToDownload'[n] = {} /\ vBlocksInFlight'[n] = {}
      BY Zenon
    <3>1. n \notin mapNodeState \/ n = p
      BY <1>1, Zenon
    <3> QED
      BY <2>1, <2>2, <3>1, Zenon
  <2> QED
    BY <1>2, <2>5, <2>6, <2>7, Zenon DEF ListInv
<1>4. CountInv'
  <2>1. IsFiniteSet({}) /\ Cardinality({}) = 0 /\ 0 <= MAX_BLOCKS_IN_TRANSIT_PER_PEER
    <3>1. MAX_BLOCKS_IN_TRANSIT_PER_PEER \in Nat
      BY DownloadAssumption, Zenon
    <3> QED
      BY <3>1, FS_EmptySet
  <2>2. \A n \in Node :
            /\ vBlocksToDownload'[n] = IF n = p THEN {} ELSE vBlocksToDownload[n]
            /\ vBlocksInFlight'[n] = IF n = p THEN {} ELSE vBlocksInFlight[n]
            /\ nBlocksToDownload'[n] = IF n = p THEN 0 ELSE nBlocksToDownload[n]
            /\ nBlocksInFlight'[n] = IF n = p THEN 0 ELSE nBlocksInFlight[n]
    BY <1>0, <1>1, Zenon
  <2> SUFFICES ASSUME NEW n \in Node
               PROVE  /\ IsFiniteSet(vBlocksToDownload'[n]) /\ IsFiniteSet(vBlocksInFlight'[n])
                      /\ nBlocksToDownload'[n] = Cardinality(vBlocksToDownload'[n])
                      /\ nBlocksInFlight'[n] = Cardinality(vBlocksInFlight'[n])
                      /\ nBlocksInFlight'[n] <= MAX_BLOCKS_IN_TRANSIT_PER_PEER
    BY Zenon DEF CountInv
  <2>3. CASE n = p
    BY <2>1, <2>2, <2>3, Zenon
  <2>4. CASE n # p
    BY <2>2, <2>4, Zenon DEF CountInv
  <2> QED
    BY <2>3, <2>4, Zenon
<1> QED
  BY <1>3, <1>4

-----------------------------------------------------------------------------
(* The invariants.                                                         *)

\* No peers and nothing listed.
LEMMA DownloadStart ==
    ASSUME DownloadInit
    PROVE  ListInv /\ CountInv
<1>1. ListInv
  BY DownloadAssumption DEF DownloadInit, ListInv, QueueType
<1>2. CountInv
  BY FS_EmptySet, DownloadAssumption DEF DownloadInit, CountInv
<1> QED
  BY <1>1, <1>2, Zenon

\* ListInv and CountInv are inductive.
LEMMA DownloadStep ==
    ASSUME ListInv, CountInv, [DownloadNext]_downloadVars
    PROVE  ListInv' /\ CountInv'
<1>1. ASSUME NEW n \in Node, InitializeNode(n) \/ Disconnect(n) \/ SendMessages(n)
      PROVE  ListInv' /\ CountInv'
  <2>1. /\ UNCHANGED queues /\ mapNodeState \subseteq mapNodeState'
        /\ mapNodeState' \subseteq Node /\ sending' \in mapNodeState' \cup {NoNode}
    BY <1>1 DEF InitializeNode, Disconnect, SendMessages, LockFree, ListInv, QueueType
  <2> QED
    BY <2>1, QuietStep, Zenon
<1>2. CASE \/ \E h \in Hash : OtherBlock(h)
           \/ SendDone \/ Tick \/ UNCHANGED downloadVars
  <2>1. /\ UNCHANGED <<queues, mapNodeState>>
        /\ sending' \in mapNodeState' \cup {NoNode} /\ mapNodeState \subseteq Node
    <3>1. sending \in mapNodeState \cup {NoNode} /\ mapNodeState \subseteq Node
      BY Zenon DEF ListInv, QueueType
    <3>2. /\ UNCHANGED <<queues, mapNodeState>>
          /\ sending' \in {sending, NoNode}
      BY <1>2, Zenon DEF OtherBlock, SendDone, Tick, downloadVars, peers
    <3> QED
      BY <3>1, <3>2, Zenon
  <2> QED
    BY <2>1, QuietStep, Zenon
<1> QED
  BY <1>1, <1>2, InvStep, BlockMessageStep, RequestStep, FinalizeStep, Zenon
  DEF DownloadNext, SendStep

\* ListInv and CountInv always hold.
LEMMA DownloadInvariant == DownloadSpec => [](ListInv /\ CountInv)
<1>1. DownloadInit => ListInv /\ CountInv
  BY DownloadStart
<1>2. (ListInv /\ CountInv) /\ [DownloadNext]_downloadVars => (ListInv /\ CountInv)'
  BY DownloadStep
<1> QED
  BY <1>1, <1>2, PTL DEF DownloadSpec

\* For any peers that come and go and any blocks they announce and send, the maps
\* point into the lists of peers that are there, the lists have nothing else, and
\* the counters that SendMessages relies on count them.
THEOREM MapsAndListsAgree == DownloadSpec => []MapsMatchLists
<1>1. ListInv /\ CountInv => MapsMatchLists
  BY DownloadAssumption DEF ListInv, QueueType, CountInv, MapsMatchLists
<1> QED
  BY <1>1, DownloadInvariant, PTL

\* No block is in the lists of two peers, or in both lists of one, at a time.
THEOREM AskedForOnce == DownloadSpec => []ListedOnce
<1>1. ListInv => ListedOnce
  BY DownloadAssumption DEF ListInv, QueueType, ListedOnce
<1> QED
  BY <1>1, DownloadInvariant, PTL

\* For every MAX_BLOCKS_IN_TRANSIT_PER_PEER, no peer exceeds it.
THEOREM TransitLimit == DownloadSpec => []TransitBounded
<1>1. CountInv => TransitBounded
  BY Zenon DEF CountInv, TransitBounded
<1> QED
  BY <1>1, DownloadInvariant, PTL

-----------------------------------------------------------------------------
(* Orphan blocks.                                                          *)

ProcType ==
    [op : {"idle", "first", "orphans"}, cur : Block \cup {NoBlock},
     queue : Seq(Block), at : Nat, left : SUBSET Block]

\* The block whose orphans the inner loop runs over.
Parent == proc.queue[proc.at]

\* The inner loop has left or cur still to erase from the first map, and the
\* second map has the others of Parent, too.
MapsInv ==
    /\ mapOrphanBlocks \subseteq mapOrphanBlocksByPrev
    /\ mapOrphanBlocksByPrev \subseteq Block
    /\ proc \in ProcType
    /\ proc.op = "idle" => proc = Waiting
    /\ proc.op = "first" => proc.cur \in Block
    /\ proc.op # "orphans" => mapOrphanBlocksByPrev = mapOrphanBlocks
    /\ proc.op = "orphans" =>
        /\ proc.at \in 1 .. Len(proc.queue)
        /\ proc.left \subseteq mapOrphanBlocks
        /\ proc.cur \notin proc.left
        /\ proc.cur # NoBlock => proc.cur \in mapOrphanBlocks
        /\ \A c \in mapOrphanBlocksByPrev :
              c \in proc.left \cup {proc.cur} \/ c \notin mapOrphanBlocks
                  <=> Prev[c] = Parent

\* An orphan whose parent is known waits for a block the loop has not finished.
WaitInv ==
    \A c \in mapOrphanBlocks : Prev[c] \in mapBlockIndex =>
        \/ Prev[c] \in failed
        \/ proc.op # "idle" /\ proc.cur # NoBlock /\ Prev[c] = proc.cur
        \/ /\ proc.op = "orphans"
           /\ \E j \in proc.at .. Len(proc.queue) : Prev[c] = proc.queue[j]

BoundInv == IsFiniteSet(mapOrphanBlocks) /\ OrphanBlocksBounded

-----------------------------------------------------------------------------

\* AcceptBlock adds its block to mapBlockIndex, and only that.
LEMMA AcceptAdds ==
    ASSUME NEW b, NEW demi, AcceptBlock(b, demi)
    PROVE  mapBlockIndex' = mapBlockIndex \cup {b}
BY Zenon DEF AcceptBlock

\* The steps of ChainState that are not AcceptBlock or Restart leave
\* mapBlockIndex alone.
LEMMA ChainKeepsIndex ==
    ASSUME ChainStep
    PROVE  mapBlockIndex' = mapBlockIndex
BY Zenon DEF ChainStep, SetBestChainStep, CreateNewBlock, VerifyBlocks, FinishInit,
       BackToBlock, ExtendChain, Reorganize, AbortReorganize, DisconnectBlock,
       DisconnectDone, ConnectBlock, CommitReorganize, ConnectFurther, NewBestBlock

\* Refusing a block leaves mapBlockIndex alone.
LEMMA RefuseKeepsIndex ==
    ASSUME NEW demi, RefuseBlock(demi)
    PROVE  mapBlockIndex' = mapBlockIndex
BY Zenon DEF RefuseBlock

-----------------------------------------------------------------------------
(* The two maps.                                                           *)

\* Outside the loop of ProcessBlock, MapsInv says that the maps are equal.
LEMMA WaitingMaps ==
    ASSUME proc' = Waiting, mapOrphanBlocks' \subseteq Block,
           mapOrphanBlocksByPrev' = mapOrphanBlocks'
    PROVE  MapsInv'
<1>1. proc' \in ProcType /\ proc'.op = "idle"
  BY DEF Waiting, ProcType
<1> QED
  BY <1>1, Zenon DEF MapsInv

\* MapsInv is inductive.
LEMMA MapsStep ==
    ASSUME MapsInv, [OrphanNext]_<<vars, orphanVars>>
    PROVE  MapsInv'
<1> USE TreeAssumption
<1>1. ASSUME NEW b \in Block \ {Root}, NEW demi \in BOOLEAN, StoreOrphan(b, demi)
      PROVE  MapsInv'
  <2>1. PICK gone \in Pruned :
            /\ mapOrphanBlocks' = (mapOrphanBlocks \ gone) \cup {b}
            /\ mapOrphanBlocksByPrev' = (mapOrphanBlocksByPrev \ gone) \cup {b}
    BY <1>1 DEF StoreOrphan
  <2>2. proc = Waiting /\ proc' = proc
    BY <1>1, Zenon DEF StoreOrphan
  <2>3. mapOrphanBlocksByPrev = mapOrphanBlocks /\ mapOrphanBlocks \subseteq Block
    BY <2>2 DEF MapsInv, Waiting
  <2> QED
    BY <2>1, <2>2, <2>3, WaitingMaps, Zenon
<1>2. ASSUME NEW b \in Block \ {Root}, NEW demi \in BOOLEAN, RefuseReceived(b, demi)
      PROVE  MapsInv'
  BY <1>2, Zenon DEF RefuseReceived, orphanVars, MapsInv, Parent
<1>3. ASSUME NEW b \in Block \ {Root}, NEW demi \in BOOLEAN, AcceptReceived(b, demi)
      PROVE  MapsInv'
  BY <1>3, Zenon DEF AcceptReceived, MapsInv, Waiting, ProcType
<1>4. CASE FirstReturns
  <2>1. /\ proc.op = "first" /\ proc.cur \in Block /\ proc \in ProcType
        /\ mapOrphanBlocksByPrev = mapOrphanBlocks /\ mapOrphanBlocks \subseteq Block
        /\ UNCHANGED <<mapOrphanBlocks, mapOrphanBlocksByPrev>>
    BY <1>4 DEF FirstReturns, MapsInv
  <2>2. CASE proc' = Waiting
    BY <2>1, <2>2, WaitingMaps, Zenon
  <2>3. CASE proc' = [op |-> "orphans", cur |-> NoBlock, queue |-> <<proc.cur>>,
                      at |-> 1, left |-> Children(mapOrphanBlocksByPrev, proc.cur)]
    <3>1. /\ proc'.op = "orphans" /\ proc'.cur = NoBlock /\ proc'.at = 1
          /\ Len(proc'.queue) = 1 /\ Parent' = proc.cur
          /\ proc'.left = Children(mapOrphanBlocksByPrev, proc.cur)
      BY <2>3, Zenon DEF Parent
    <3>2. proc'.left = {c \in mapOrphanBlocks : Prev[c] = proc.cur}
      BY <2>1, <3>1, Zenon DEF Children
    <3>3. <<proc.cur>> \in Seq(Block) /\ 1 \in Nat /\ 1 \in 1 .. 1
      BY <2>1
    <3>4. proc' \in ProcType
      BY <2>1, <2>3, <3>1, <3>2, <3>3, Zenon DEF ProcType
    <3>5. /\ proc'.left \subseteq mapOrphanBlocks /\ NoBlock \notin proc'.left
          /\ \A c \in mapOrphanBlocks : c \in proc'.left <=> Prev[c] = Parent'
          /\ \A c \in mapOrphanBlocks : c # NoBlock
      BY <2>1, <3>1, <3>2, TreeAssumption, Zenon
    <3>6. proc'.at \in 1 .. Len(proc'.queue)
      BY <3>1, <3>3, Zenon
    <3>7. \A c \in mapOrphanBlocks :
              c \in proc'.left \cup {proc'.cur} \/ c \notin mapOrphanBlocks
                  <=> Prev[c] = Parent'
      BY <3>1, <3>5, Zenon
    <3>8. /\ mapOrphanBlocks' = mapOrphanBlocks /\ mapOrphanBlocksByPrev' = mapOrphanBlocks
          /\ mapOrphanBlocks \subseteq Block
      BY <2>1, Zenon
    <3> QED
      BY <3>1, <3>4, <3>5, <3>6, <3>7, <3>8, Zenon DEF MapsInv
  <2> QED
    BY <1>4, <2>2, <2>3, ZenonT(60) DEF FirstReturns
<1>5. CASE OrphanReturns
  <2>1. /\ proc.op = "orphans" /\ proc.cur \in mapOrphanBlocks /\ proc \in ProcType
        /\ mapOrphanBlocks' = mapOrphanBlocks \ {proc.cur}
        /\ mapOrphanBlocksByPrev' = mapOrphanBlocksByPrev
    BY <1>5 DEF OrphanReturns, Forget, MapsInv
  <2>2. PICK q \in {proc.queue, Append(proc.queue, proc.cur)} :
            proc' = [proc EXCEPT !.cur = NoBlock, !.queue = q]
    BY <1>5, Zenon DEF OrphanReturns
  <2>3. /\ proc.cur \in Block /\ proc.queue \in Seq(Block) /\ proc.at \in Nat
        /\ proc.at \in 1 .. Len(proc.queue)
    BY <2>1, Zenon DEF MapsInv, ProcType
  <2>4. /\ q \in Seq(Block) /\ proc.at \in 1 .. Len(q)
        /\ q[proc.at] = proc.queue[proc.at]
    <3>1. CASE q = proc.queue
      BY <2>3, <3>1, Zenon
    <3>2. CASE q = Append(proc.queue, proc.cur)
      <4>1. Len(q) = Len(proc.queue) + 1 /\ Len(proc.queue) \in Nat
        BY <2>3, <3>2
      <4>2. q \in Seq(Block)
        BY <2>3, <3>2
      <4>3. q[proc.at] = proc.queue[proc.at]
        BY <2>3, <3>2
      <4>4. proc.at \in 1 .. Len(q)
        BY <2>3, <4>1
      <4> QED
        BY <4>2, <4>3, <4>4, Zenon
    <3> QED
      BY <3>1, <3>2, Zenon
  <2>5. /\ proc' \in ProcType /\ proc'.op = "orphans" /\ proc'.cur = NoBlock
        /\ proc'.left = proc.left /\ proc'.at = proc.at /\ proc'.queue = q
        /\ Parent' = Parent
    BY <2>1, <2>2, <2>4, Zenon DEF ProcType, Parent
  <2> QED
    <3>1. /\ proc.left \subseteq mapOrphanBlocks /\ proc.cur \notin proc.left
          /\ mapOrphanBlocks \subseteq mapOrphanBlocksByPrev
          /\ mapOrphanBlocksByPrev \subseteq Block
          /\ \A c \in mapOrphanBlocksByPrev :
                c \in proc.left \cup {proc.cur} \/ c \notin mapOrphanBlocks
                    <=> Prev[c] = Parent
      BY <2>1, Zenon DEF MapsInv
    <3>2. /\ proc.left \subseteq mapOrphanBlocks' /\ NoBlock \notin proc.left
          /\ mapOrphanBlocks' \subseteq mapOrphanBlocksByPrev
      BY <2>1, <3>1, Zenon
    <3>3. \A c \in mapOrphanBlocksByPrev :
              c \in proc.left \cup {NoBlock} \/ c \notin mapOrphanBlocks'
                  <=> Prev[c] = Parent
      <4> SUFFICES ASSUME NEW c \in mapOrphanBlocksByPrev
                   PROVE  c \in proc.left \cup {NoBlock} \/ c \notin mapOrphanBlocks'
                              <=> Prev[c] = Parent
        BY Zenon
      <4>1. c # NoBlock
        BY <3>1, Zenon
      <4>2. c \in mapOrphanBlocks' <=> c \in mapOrphanBlocks /\ c # proc.cur
        BY <2>1, Zenon
      <4> QED
        BY <3>1, <4>1, <4>2, Zenon
    <3> QED
      BY <2>1, <2>4, <2>5, <3>1, <3>2, <3>3, Zenon DEF MapsInv
<1>6. CASE NextInQueue
  <2>1. /\ proc.op = "orphans" /\ proc.cur = NoBlock /\ proc.left = {}
        /\ proc \in ProcType /\ proc.at \in 1 .. Len(proc.queue)
        /\ mapOrphanBlocks' = mapOrphanBlocks
        /\ mapOrphanBlocksByPrev' = {c \in mapOrphanBlocksByPrev : Prev[c] # Parent}
        /\ mapOrphanBlocks \subseteq mapOrphanBlocksByPrev
        /\ mapOrphanBlocksByPrev \subseteq Block
    BY <1>6, ZenonT(60) DEF NextInQueue, MapsInv, Children, Parent
  <2>2. mapOrphanBlocksByPrev' = mapOrphanBlocks
    BY <2>1 DEF MapsInv
  <2>3. CASE proc.at = Len(proc.queue)
    <3>1. proc' = Waiting
      BY <1>6, <2>3, Zenon DEF NextInQueue
    <3> QED
      BY <2>1, <2>2, <3>1, WaitingMaps, Zenon
  <2>4. CASE proc.at # Len(proc.queue)
    <3> DEFINE kids == Children(mapOrphanBlocksByPrev', proc.queue[proc.at + 1])
    <3>1. proc' = [proc EXCEPT !.at = @ + 1, !.left = kids]
      BY <1>6, <2>4, Zenon DEF NextInQueue
    <3>2. kids = {c \in mapOrphanBlocks : Prev[c] = proc.queue[proc.at + 1]}
      BY <2>2, Zenon DEF Children
    <3> HIDE DEF kids
    <3>3. proc.queue \in Seq(Block) /\ proc.at \in Nat /\ Len(proc.queue) \in Nat
      BY <2>1 DEF ProcType
    <3>4. kids \in SUBSET Block
      BY <2>1, <3>2
    <3>5. /\ proc'.op = "orphans" /\ proc'.cur = NoBlock
          /\ proc'.left = kids /\ proc'.at = proc.at + 1 /\ proc'.queue = proc.queue
      BY <2>1, <3>1 DEF ProcType
    <3>6. proc' \in ProcType
      <4>1. proc.at + 1 \in Nat
        BY <3>3
      <4> QED
        BY <2>1, <3>1, <3>4, <4>1, Zenon DEF ProcType
    <3>7. Parent' = proc.queue[proc.at + 1]
      BY <3>5, ZenonT(60) DEF Parent
    <3>8. proc'.at \in 1 .. Len(proc'.queue)
      BY <2>1, <2>4, <3>3, <3>5
    <3> QED
      BY <2>1, <2>2, <3>2, <3>5, <3>6, <3>7, <3>8, Zenon DEF MapsInv
  <2> QED
    BY <2>3, <2>4
<1>7. ASSUME NEW c \in Block, AcceptOrphan(c)
      PROVE  MapsInv'
  <2>1. /\ proc.op = "orphans" /\ proc.cur = NoBlock /\ c \in proc.left
        /\ proc' = [proc EXCEPT !.cur = c, !.left = @ \ {c}]
        /\ UNCHANGED <<mapOrphanBlocks, mapOrphanBlocksByPrev>>
    BY <1>7, Zenon DEF AcceptOrphan
  <2>2. /\ proc' \in ProcType /\ proc'.op = "orphans" /\ proc'.cur = c
        /\ proc'.left = proc.left \ {c} /\ proc'.at = proc.at /\ proc'.queue = proc.queue
    BY <2>1, Zenon DEF MapsInv, ProcType
  <2> QED
    BY <2>1, <2>2 DEF MapsInv, Parent
<1>8. ASSUME NEW c \in Block, RefuseOrphan(c)
      PROVE  MapsInv'
  BY <1>8, Zenon DEF RefuseOrphan, Forget, MapsInv, Waiting, ProcType, Parent
<1>9. CASE LoseOrphans
  BY <1>9, WaitingMaps, Zenon DEF LoseOrphans
<1>10. CASE ChainStep \/ UNCHANGED <<vars, orphanVars>>
  BY <1>10, Zenon DEF ChainStep, orphanVars, MapsInv, Parent
<1>11. CASE \E b \in Block \ {Root}, demi \in BOOLEAN :
              \/ StoreOrphan(b, demi) \/ RefuseReceived(b, demi)
              \/ AcceptReceived(b, demi)
  BY <1>1, <1>2, <1>3, <1>11, ZenonT(60)
<1>12. CASE \E c \in Block : AcceptOrphan(c) \/ RefuseOrphan(c)
  BY <1>7, <1>8, <1>12, Zenon
<1> QED
  BY <1>4, <1>5, <1>6, <1>9, <1>10, <1>11, <1>12, Zenon DEF OrphanNext

-----------------------------------------------------------------------------
(* The orphans that wait for a known block.                                *)

\* WaitInv is preserved: the loop comes to the orphans of every block that it,
\* or the received block, has added to the index.
LEMMA WaitStep ==
    ASSUME MapsInv, WaitInv, [OrphanNext]_<<vars, orphanVars>>
    PROVE  WaitInv'
<1> USE TreeAssumption
<1>1. ASSUME NEW b \in Block \ {Root}, NEW demi \in BOOLEAN, StoreOrphan(b, demi)
      PROVE  WaitInv'
  <2>1. PICK gone \in Pruned : mapOrphanBlocks' = (mapOrphanBlocks \ gone) \cup {b}
    BY <1>1, ZenonT(60) DEF StoreOrphan
  <2>2. /\ proc.op = "idle" /\ proc' = proc /\ failed' = failed
        /\ mapBlockIndex' = mapBlockIndex /\ Prev[b] \notin mapBlockIndex
    BY <1>1, RefuseKeepsIndex DEF StoreOrphan, Waiting
  <2> QED
    BY <2>1, <2>2, Zenon DEF WaitInv
<1>2. ASSUME NEW b \in Block \ {Root}, NEW demi \in BOOLEAN, RefuseReceived(b, demi)
      PROVE  WaitInv'
  <2>1. mapBlockIndex' = mapBlockIndex
    BY <1>2, RefuseKeepsIndex DEF RefuseReceived
  <2> QED
    BY <1>2, <2>1, ZenonT(60) DEF RefuseReceived, orphanVars, WaitInv
<1>3. ASSUME NEW b \in Block \ {Root}, NEW demi \in BOOLEAN, AcceptReceived(b, demi)
      PROVE  WaitInv'
  <2>1. mapBlockIndex' = mapBlockIndex \cup {b}
    BY <1>3, AcceptAdds DEF AcceptReceived
  <2>2. /\ proc.op = "idle" /\ proc'.op = "first" /\ proc'.cur = b
        /\ UNCHANGED <<mapOrphanBlocks, failed>>
    BY <1>3, Zenon DEF AcceptReceived, Waiting
  <2> QED
    BY <2>1, <2>2, Zenon DEF WaitInv
<1>4. CASE FirstReturns
  <2>1. /\ proc.op = "first" /\ UNCHANGED <<mapOrphanBlocks, mapBlockIndex>>
    BY <1>4, Zenon DEF FirstReturns, vars
  <2>2. CASE proc' = Waiting /\ failed' = failed \cup {proc.cur}
    BY <2>1, <2>2 DEF WaitInv
  <2>3. CASE /\ proc' = [op |-> "orphans", cur |-> NoBlock, queue |-> <<proc.cur>>,
                         at |-> 1, left |-> Children(mapOrphanBlocksByPrev, proc.cur)]
             /\ UNCHANGED failed
    <3>1. /\ proc'.op = "orphans" /\ proc'.at = 1 /\ Len(proc'.queue) = 1
          /\ proc'.queue[1] = proc.cur
      BY <2>3, Zenon
    <3>2. 1 \in proc'.at .. Len(proc'.queue)
      BY <3>1
    <3> QED
      BY <2>1, <2>3, <3>1, <3>2, Zenon DEF WaitInv
  <2> QED
    BY <1>4, <2>2, <2>3, Zenon DEF FirstReturns
<1>5. CASE OrphanReturns
  <2>1. /\ proc.op = "orphans" /\ proc.cur \in Block /\ proc \in ProcType
        /\ mapOrphanBlocks' = mapOrphanBlocks \ {proc.cur}
        /\ mapBlockIndex' = mapBlockIndex
        /\ proc.queue \in Seq(Block) /\ proc.at \in 1 .. Len(proc.queue)
        /\ proc.at \in Nat /\ Len(proc.queue) \in Nat
    BY <1>5 DEF OrphanReturns, Forget, MapsInv, ProcType, vars
  <2>2. CASE Returned(proc.cur)
    <3>1. /\ proc' = [proc EXCEPT !.cur = NoBlock, !.queue = Append(@, proc.cur)]
          /\ failed' = failed
      BY <1>5, <2>2 DEF OrphanReturns
    <3>2. /\ proc'.op = "orphans" /\ proc'.at = proc.at
          /\ proc'.queue = Append(proc.queue, proc.cur)
      BY <2>1, <3>1, ZenonT(60) DEF ProcType
    <3>3. /\ Len(proc'.queue) = Len(proc.queue) + 1
          /\ proc'.queue[Len(proc.queue) + 1] = proc.cur
          /\ \A j \in 1 .. Len(proc.queue) : proc'.queue[j] = proc.queue[j]
      BY <2>1, <3>2
    <3>4. Len(proc.queue) + 1 \in proc'.at .. Len(proc'.queue)
      <4>1. Len(proc.queue) + 1 \in proc.at .. (Len(proc.queue) + 1)
        BY <2>1
      <4> QED
        BY <3>2, <3>3, <4>1, ZenonT(60)
    <3>5. \A j \in proc.at .. Len(proc.queue) :
              j \in proc'.at .. Len(proc'.queue) /\ proc'.queue[j] = proc.queue[j]
      BY <2>1, <3>2, <3>3
    <3> SUFFICES ASSUME NEW c \in mapOrphanBlocks', Prev[c] \in mapBlockIndex',
                        Prev[c] \notin failed'
                 PROVE  \E j \in proc'.at .. Len(proc'.queue) : Prev[c] = proc'.queue[j]
      BY <3>2, Zenon DEF WaitInv
    <3>6. \/ Prev[c] = proc.cur
          \/ \E j \in proc.at .. Len(proc.queue) : Prev[c] = proc.queue[j]
      BY <2>1, <3>1, Zenon DEF WaitInv
    <3> QED
      BY <3>3, <3>4, <3>5, <3>6, Zenon
  <2>3. CASE ~ Returned(proc.cur)
    <3>1. /\ proc' = [proc EXCEPT !.cur = NoBlock]
          /\ failed' = failed \cup {proc.cur}
      BY <1>5, <2>1, <2>3, Zenon DEF OrphanReturns, ProcType
    <3>2. /\ proc'.op = "orphans" /\ proc'.at = proc.at /\ proc'.queue = proc.queue
      BY <2>1, <3>1, Zenon DEF ProcType
    <3> SUFFICES ASSUME NEW c \in mapOrphanBlocks', Prev[c] \in mapBlockIndex',
                        Prev[c] \notin failed'
                 PROVE  \E j \in proc'.at .. Len(proc'.queue) : Prev[c] = proc'.queue[j]
      BY <3>2, Zenon DEF WaitInv
    <3>3. Prev[c] \notin failed /\ Prev[c] # proc.cur /\ c \in mapOrphanBlocks
      BY <2>1, <3>1, Zenon
    <3>4. \E j \in proc.at .. Len(proc.queue) : Prev[c] = proc.queue[j]
      BY <2>1, <3>3, Zenon DEF WaitInv
    <3> QED
      BY <3>2, <3>4, Zenon
  <2> QED
    BY <2>2, <2>3, Zenon
<1>6. CASE NextInQueue
  <2>1. /\ proc.op = "orphans" /\ proc.cur = NoBlock /\ proc.left = {}
        /\ proc \in ProcType /\ proc.at \in 1 .. Len(proc.queue)
        /\ UNCHANGED <<mapOrphanBlocks, mapBlockIndex, failed>>
        /\ proc.at \in Nat /\ Len(proc.queue) \in Nat
    <3>1. /\ proc.op = "orphans" /\ proc.cur = NoBlock /\ proc.left = {}
          /\ UNCHANGED <<mapOrphanBlocks, mapBlockIndex, failed>>
      BY <1>6, Zenon DEF NextInQueue, vars
    <3>2. proc \in ProcType /\ proc.at \in 1 .. Len(proc.queue)
      BY <3>1, Zenon DEF MapsInv
    <3>3. proc.at \in Nat /\ proc.queue \in Seq(Block)
      BY <3>2, Zenon DEF ProcType
    <3>4. Len(proc.queue) \in Nat
      BY <3>3
    <3> QED
      BY <3>1, <3>2, <3>3, <3>4, Zenon
  <2>2. \A c \in mapOrphanBlocks : Prev[c] # proc.queue[proc.at]
    <3> SUFFICES ASSUME NEW c \in mapOrphanBlocks, Prev[c] = Parent
                 PROVE  FALSE
      BY Zenon DEF Parent
    <3>1. c \in mapOrphanBlocksByPrev /\ c \in Block
      BY Zenon DEF MapsInv
    <3>2. c \in proc.left \cup {proc.cur}
      BY <2>1, <3>1, Zenon DEF MapsInv
    <3>3. c = NoBlock
      BY <2>1, <3>2, Zenon
    <3> QED
      BY <3>1, <3>3, TreeAssumption, Zenon
  <2>3. ASSUME NEW c \in mapOrphanBlocks, Prev[c] \in mapBlockIndex,
               Prev[c] \notin failed
        PROVE  \E j \in (proc.at + 1) .. Len(proc.queue) : Prev[c] = proc.queue[j]
    <3>1. PICK j \in proc.at .. Len(proc.queue) : Prev[c] = proc.queue[j]
      BY <2>1, <2>3, Zenon DEF WaitInv
    <3>2. j # proc.at
      BY <2>2, <3>1, ZenonT(60)
    <3>3. j \in (proc.at + 1) .. Len(proc.queue)
      BY <2>1, <3>2
    <3> QED
      BY <3>1, <3>3, Zenon
  <2>4. CASE proc.at = Len(proc.queue)
    <3>1. (proc.at + 1) .. Len(proc.queue) = {}
      <4> DEFINE k == proc.at
      <4>1. k \in Nat /\ Len(proc.queue) = k
        BY <2>1, <2>4, Zenon DEF ProcType
      <4> HIDE DEF k
      <4>2. (k + 1) .. k = {}
        BY <4>1
      <4> QED
        BY <4>1, <4>2, Zenon DEF k
    <3> QED
      BY <2>1, <2>3, <3>1, Zenon DEF WaitInv
  <2>5. CASE proc.at # Len(proc.queue)
    <3>1. /\ proc'.op = "orphans" /\ proc'.at = proc.at + 1
          /\ proc'.queue = proc.queue
      BY <1>6, <2>1, <2>5, ZenonT(60) DEF NextInQueue, ProcType
    <3> QED
      BY <2>1, <2>3, <3>1 DEF WaitInv
  <2> QED
    BY <2>4, <2>5, Zenon
<1>7. ASSUME NEW c \in Block, AcceptOrphan(c)
      PROVE  WaitInv'
  <2>1. mapBlockIndex' = mapBlockIndex \cup {c}
    BY <1>7, AcceptAdds, Zenon DEF AcceptOrphan
  <2>2. /\ proc.op = "orphans" /\ proc.cur = NoBlock /\ proc \in ProcType
        /\ proc'.op = "orphans" /\ proc'.cur = c /\ proc'.at = proc.at
        /\ proc'.queue = proc.queue
        /\ UNCHANGED <<mapOrphanBlocks, failed>>
    BY <1>7, Zenon DEF AcceptOrphan, MapsInv, ProcType
  <2> QED
    BY <2>1, <2>2 DEF WaitInv
<1>8. ASSUME NEW c \in Block, RefuseOrphan(c)
      PROVE  WaitInv'
  <2>1. /\ proc.op = "orphans" /\ proc.cur = NoBlock /\ proc \in ProcType
        /\ proc'.op = "orphans" /\ proc'.at = proc.at /\ proc'.queue = proc.queue
        /\ mapOrphanBlocks' = mapOrphanBlocks \ {c}
        /\ UNCHANGED <<mapBlockIndex, failed>>
    BY <1>8, ZenonT(60) DEF RefuseOrphan, Forget, MapsInv, ProcType, vars
  <2> QED
    BY <2>1 DEF WaitInv
<1>9. CASE LoseOrphans
  BY <1>9 DEF LoseOrphans, WaitInv
<1>10. CASE ChainStep
  BY <1>10, ChainKeepsIndex, ZenonT(30) DEF ChainStep, orphanVars, WaitInv
<1>11. CASE UNCHANGED <<vars, orphanVars>>
  <2>1. UNCHANGED <<mapBlockIndex, mapOrphanBlocks, failed, proc>>
    BY <1>11, Zenon DEF vars, orphanVars
  <2> QED
    BY <2>1, Zenon DEF WaitInv
<1>12. CASE \E b \in Block \ {Root}, demi \in BOOLEAN :
              \/ StoreOrphan(b, demi) \/ RefuseReceived(b, demi)
              \/ AcceptReceived(b, demi)
  BY <1>1, <1>2, <1>3, <1>12, Zenon
<1>13. CASE \E c \in Block : AcceptOrphan(c) \/ RefuseOrphan(c)
  BY <1>7, <1>8, <1>13, Zenon
<1> QED
  BY <1>4, <1>5, <1>6, <1>9, <1>10, <1>11, <1>12, <1>13, Zenon DEF OrphanNext

-----------------------------------------------------------------------------
(* Stakes and the number of orphans.                                       *)

\* No step but StoreOrphan adds an orphan, and a stake goes with its orphan.
LEMMA OthersShrink ==
    ASSUME NoStaleStake, [OrphanNext]_<<vars, orphanVars>>,
           ~ \E b \in Block \ {Root}, demi \in BOOLEAN : StoreOrphan(b, demi)
    PROVE  mapOrphanBlocks' \subseteq mapOrphanBlocks /\ NoStaleStake'
<1>1. ASSUME NEW c, Forget(c)
      PROVE  mapOrphanBlocks' \subseteq mapOrphanBlocks /\ NoStaleStake'
  BY <1>1, Zenon DEF Forget, NoStaleStake, StakesOf
<1>2. CASE UNCHANGED <<mapOrphanBlocks, setStakeSeenOrphan>>
  BY <1>2, Zenon DEF NoStaleStake, StakesOf
<1>3. CASE LoseOrphans
  BY <1>3, Zenon DEF LoseOrphans, NoStaleStake, StakesOf
<1> QED
  BY <1>1, <1>2, <1>3, Zenon
  DEF OrphanNext, RefuseReceived, AcceptReceived, FirstReturns, OrphanReturns,
      NextInQueue, AcceptOrphan, RefuseOrphan, ChainStep, orphanVars

\* Storing an orphan enters its stake and takes out that of the pruned one.
LEMMA StoreKeepsStakes ==
    ASSUME NoStaleStake, NEW b \in Block, NEW demi, StoreOrphan(b, demi)
    PROVE  NoStaleStake'
<1>1. PICK gone \in Pruned :
        /\ mapOrphanBlocks' = (mapOrphanBlocks \ gone) \cup {b}
        /\ setStakeSeenOrphan' = (setStakeSeenOrphan \ StakesOf(gone))
                                 \cup StakesOf({b})
  BY Zenon DEF StoreOrphan
<1> QED
  BY <1>1, Zenon DEF NoStaleStake, StakesOf

-----------------------------------------------------------------------------
(* The walk of PruneOrphanBlocks.                                          *)

\* Where one turn leads from the entries of S.
Turn(S) ==
    {c \in mapOrphanBlocksByPrev : \E b \in S :
        IF Children(mapOrphanBlocksByPrev, b) = {} THEN c = b ELSE Prev[c] = b}

WalkRun(it, n) ==
    /\ it \in [0..n -> SUBSET mapOrphanBlocksByPrev]
    /\ it[0] = mapOrphanBlocksByPrev /\ Walked(n) = it[n]
    /\ \A k \in 1..n : it[k] = Turn(it[k - 1])

\* The walk has a run, so its equation may be used.
LEMMA WalkRuns ==
    ASSUME NEW n \in Nat
    PROVE  \E it : WalkRun(it, n)
<1> DEFINE M == mapOrphanBlocksByPrev
           S == SUBSET M
           f == [x \in S |-> Turn(x)]
           F == [k \in 1..n |-> f]
           E(it) == [k \in 0..n |-> IF k = 0 THEN M ELSE Turn(it[k - 1])]
<1>1. \A x : Turn(x) \in S
  BY Zenon DEF Turn
<1>2. F \in [1..n -> [S -> S]] /\ M \in S
  <2> HIDE DEF S
  <2>1. M \in S
    BY Zenon DEF S
  <2> QED
    BY <1>1, <2>1, Zenon
<1>3. PICK q : /\ q \in [0..n -> S] /\ q[0] = M
               /\ \A i \in 1..n : q[i] = F[i][q[i - 1]]
  <2>1. \E q : LoopRun(q, n, S, M, F)
    <3> HIDE DEF F, S
    <3> QED
      BY <1>2, LoopRuns, ZenonT(60)
  <2> QED
    BY <2>1, Zenon DEF LoopRun
<1>4. \A i \in 1..n : q[i] = Turn(q[i - 1])
  <2> SUFFICES ASSUME NEW i \in 1..n
               PROVE  q[i] = Turn(q[i - 1])
    OBVIOUS
  <2>1. i - 1 \in 0..n
    OBVIOUS
  <2>2. q[i - 1] \in S
    BY <1>3, <2>1, Zenon
  <2>3. q[i] = f[q[i - 1]]
    BY <1>3, Zenon
  <2> QED
    BY <2>2, <2>3, Zenon
<1>5. q = E(q)
  <2>1. \A k \in 0..n : k # 0 => k \in 1..n
    OBVIOUS
  <2> HIDE DEF S
  <2> QED
    BY <1>3, <1>4, <2>1, Zenon
<1> DEFINE it == CHOOSE u : u = E(u)
<1>6. it = E(it)
  <2> HIDE DEF E
  <2> QED
    BY <1>5, Zenon
<1>7. Walked(n) = it[n]
  BY Zenon DEF Walked, Turn
<1> HIDE DEF it
<1>8. /\ it \in [0..n -> S] /\ it[0] = M
      /\ \A k \in 1..n : it[k] = Turn(it[k - 1])
  <2>1. 0 \in 0..n /\ \A k \in 1..n : k \in 0..n /\ k # 0
    OBVIOUS
  <2> HIDE DEF S, M
  <2> QED
    BY <1>1, <1>2, <1>6, <2>1, Zenon
<1>9. WalkRun(it, n)
  BY <1>7, <1>8, Zenon DEF WalkRun
<1> QED
  BY <1>9, Zenon

\* The orphans of less height than b.
Lower(b) == {x \in mapOrphanBlocksByPrev : Height[x] < Height[b]}

\* A turn that goes on has more orphans below it.
LEMMA TurnClimbs ==
    ASSUME mapOrphanBlocksByPrev \subseteq Block, IsFiniteSet(mapOrphanBlocksByPrev),
           NEW b \in mapOrphanBlocksByPrev, NEW c \in mapOrphanBlocksByPrev,
           Prev[c] = b
    PROVE  /\ Cardinality(Lower(b)) \in Nat /\ Cardinality(Lower(c)) \in Nat
           /\ Cardinality(Lower(b)) + 1 <= Cardinality(Lower(c))
<1>1. /\ c \in Block /\ b \in Block /\ c # Root
      /\ Height[c] = Height[b] + 1
  BY TreeAssumption
<1>2. \A x \in Block : Height[x] \in Nat
  BY TreeAssumption
<1>3. b \notin Lower(b) /\ Lower(b) \cup {b} \subseteq Lower(c)
  BY <1>1, <1>2 DEF Lower
<1>4. \A y : IsFiniteSet(Lower(y))
  <2>1. \A y : Lower(y) \subseteq mapOrphanBlocksByPrev
    BY Zenon DEF Lower
  <2> QED
    BY <2>1, FS_Subset, Zenon
<1>5. /\ Cardinality(Lower(b)) \in Nat /\ Cardinality(Lower(c)) \in Nat
  BY <1>4, FS_CardinalityType, Zenon
<1>6. /\ IsFiniteSet(Lower(b) \cup {b})
      /\ Cardinality(Lower(b) \cup {b}) = Cardinality(Lower(b)) + 1
  BY <1>3, <1>4, FS_AddElement, Zenon
<1>7. Cardinality(Lower(b) \cup {b}) <= Cardinality(Lower(c))
  BY <1>3, <1>4, FS_Subset, Zenon
<1> QED
  BY <1>5, <1>6, <1>7, Zenon

\* The walk of PruneOrphanBlocks ends at an entry that nothing waits for.
LEMMA WalkEndsAtLeaf ==
    ASSUME mapOrphanBlocksByPrev \subseteq Block, IsFiniteSet(mapOrphanBlocksByPrev),
           NEW b \in Walked(Cardinality(mapOrphanBlocksByPrev))
    PROVE  /\ b \in mapOrphanBlocksByPrev
           /\ Children(mapOrphanBlocksByPrev, b) = {}
<1> DEFINE M == mapOrphanBlocksByPrev
           n == Cardinality(M)
           Leaf(x) == Children(M, x) = {}
<1>1. n \in Nat
  BY FS_CardinalityType, Zenon
<1>2. PICK it : WalkRun(it, n)
  <2> HIDE DEF n
  <2> QED
    BY <1>1, WalkRuns, Zenon
<1> DEFINE T == {k \in 0..n : \A x \in it[k] : Leaf(x) \/ k <= Cardinality(Lower(x))}
<1>3. \A x \in M : Cardinality(Lower(x)) \in Nat
  <2>1. \A x : Lower(x) \subseteq M
    BY Zenon DEF Lower
  <2> QED
    BY <2>1, FS_Subset, FS_CardinalityType, Zenon
<1>4. \A k \in 0..n : it[k] \subseteq M
  BY <1>2, Zenon DEF WalkRun
<1> HIDE DEF n, M, Leaf
<1>5. 0 \in T
  <2>1. 0 \in 0..n /\ \A m \in Nat : 0 <= m
    BY <1>1
  <2> QED
    BY <1>3, <1>4, <2>1, Zenon
<1>6. ASSUME NEW k \in 1..n, k - 1 \in T
      PROVE  k \in T
  <2>1. k \in 0..n /\ k - 1 \in 0..n
    BY <1>1
  <2>2. it[k] = Turn(it[k - 1])
    BY <1>2, Zenon DEF WalkRun
  <2> SUFFICES ASSUME NEW c \in it[k]
               PROVE  Leaf(c) \/ k <= Cardinality(Lower(c))
    BY <2>1, Zenon
  <2>3. PICK x \in it[k - 1] : IF Leaf(x) THEN c = x ELSE Prev[c] = x
    BY <2>2, Zenon DEF Turn, Leaf, M
  <2>4. c \in M /\ x \in M
    BY <1>4, <2>1, Zenon
  <2>5. CASE Leaf(x)
    BY <2>3, <2>5, Zenon
  <2>6. CASE ~ Leaf(x)
    <3>1. Prev[c] = x /\ k - 1 <= Cardinality(Lower(x))
      BY <1>6, <2>3, <2>6, Zenon
    <3>2. /\ Cardinality(Lower(x)) \in Nat /\ Cardinality(Lower(c)) \in Nat
          /\ Cardinality(Lower(x)) + 1 <= Cardinality(Lower(c))
      BY <2>4, <3>1, TurnClimbs, Zenon DEF M
    <3> QED
      BY <1>1, <3>1, <3>2
  <2> QED
    BY <2>5, <2>6, Zenon
<1>7. n \in T
  <2>1. 0..n \subseteq T
    <3> HIDE DEF T
    <3> QED
      BY <1>1, <1>5, <1>6, UpTo, Zenon
  <2>2. n \in 0..n
    BY <1>1
  <2> QED
    BY <2>1, <2>2, Zenon
<1>8. b \in it[n] /\ b \in M
  <2>1. n \in 0..n
    BY <1>1
  <2> QED
    BY <1>2, <1>4, <2>1, Zenon DEF WalkRun, n, M
<1>9. ASSUME ~ Leaf(b)
      PROVE  FALSE
  <2>1. n <= Cardinality(Lower(b))
    BY <1>7, <1>8, <1>9, Zenon
  <2>2. IsFiniteSet(M \ {b}) /\ Cardinality(M \ {b}) = n - 1
    BY <1>8, FS_RemoveElement, Zenon DEF n, M
  <2>3. Lower(b) \subseteq M \ {b}
    <3>1. Height[b] \in Nat
      BY <1>8, TreeAssumption DEF M
    <3> QED
      BY <3>1 DEF Lower, M
  <2>4. Cardinality(Lower(b)) <= Cardinality(M \ {b})
    BY <2>2, <2>3, FS_Subset, Zenon
  <2>5. Cardinality(Lower(b)) \in Nat
    BY <1>3, <1>8, Zenon
  <2> QED
    BY <1>1, <2>1, <2>2, <2>4, <2>5
<1> QED
  BY <1>8, <1>9, Zenon DEF Leaf, M

\* What PruneOrphanBlocks removes: nothing, or one orphan that none waits for.
LEMMA PrunedIsLeaf ==
    ASSUME mapOrphanBlocksByPrev \subseteq Block, IsFiniteSet(mapOrphanBlocksByPrev),
           NEW gone \in Pruned
    PROVE  IF Cardinality(mapOrphanBlocksByPrev) <= MaxOrphanBlocks THEN gone = {}
           ELSE \E b \in mapOrphanBlocksByPrev :
                    gone = {b} /\ Children(mapOrphanBlocksByPrev, b) = {}
  BY WalkEndsAtLeaf, Zenon DEF Pruned

-----------------------------------------------------------------------------
(* The limit.                                                              *)

\* Storing an orphan keeps the bound: at the limit one is pruned first.
LEMMA StoreKeepsBound ==
    ASSUME MapsInv, BoundInv, NEW b \in Block, NEW demi, StoreOrphan(b, demi)
    PROVE  BoundInv'
<1>1. PICK gone \in Pruned : mapOrphanBlocks' = (mapOrphanBlocks \ gone) \cup {b}
  BY DEF StoreOrphan
<1>2. /\ mapOrphanBlocksByPrev = mapOrphanBlocks /\ IsFiniteSet(mapOrphanBlocks)
      /\ MaxOrphanBlocks \in Nat
      /\ Cardinality(mapOrphanBlocks) <= MaxOrphanBlocks + 1
      /\ b \notin mapOrphanBlocks /\ mapOrphanBlocks \subseteq Block
  BY StakeAssumption, Zenon
  DEF StoreOrphan, Fresh, MapsInv, Waiting, BoundInv, OrphanBlocksBounded
<1>3. Cardinality(mapOrphanBlocks) \in Nat
  BY <1>2, FS_CardinalityType, Zenon
<1>4. /\ IsFiniteSet(mapOrphanBlocks \ gone)
      /\ Cardinality(mapOrphanBlocks \ gone) \in Nat
      /\ Cardinality(mapOrphanBlocks \ gone) <= MaxOrphanBlocks
  <2>1. CASE Cardinality(mapOrphanBlocks) <= MaxOrphanBlocks
    <3>1. mapOrphanBlocks \ gone = mapOrphanBlocks
      BY <1>2, <2>1, PrunedIsLeaf, Zenon
    <3> QED
      BY <1>2, <1>3, <2>1, <3>1, Zenon
  <2>2. CASE ~ (Cardinality(mapOrphanBlocks) <= MaxOrphanBlocks)
    <3>1. PICK c \in mapOrphanBlocks : gone = {c}
      BY <1>2, <2>2, PrunedIsLeaf, Zenon
    <3>2. /\ IsFiniteSet(mapOrphanBlocks \ {c})
          /\ Cardinality(mapOrphanBlocks \ {c}) = Cardinality(mapOrphanBlocks) - 1
      BY <1>2, <3>1, FS_RemoveElement, ZenonT(30)
    <3>3. Cardinality(mapOrphanBlocks \ {c}) \in Nat
      BY <3>2, FS_CardinalityType, Zenon
    <3> QED
      BY <1>2, <1>3, <3>1, <3>2, <3>3
  <2> QED
    BY <2>1, <2>2, Zenon
<1>5. b \notin mapOrphanBlocks \ gone
  BY <1>2
<1>6. /\ IsFiniteSet(mapOrphanBlocks')
      /\ Cardinality(mapOrphanBlocks') = Cardinality(mapOrphanBlocks \ gone) + 1
  BY <1>1, <1>4, <1>5, FS_AddElement, Zenon
<1> QED
  BY <1>2, <1>4, <1>6 DEF BoundInv, OrphanBlocksBounded

\* A smaller set of orphans keeps the bound.
LEMMA FewerKeepsBound ==
    ASSUME BoundInv, mapOrphanBlocks' \subseteq mapOrphanBlocks
    PROVE  BoundInv'
<1>1. /\ IsFiniteSet(mapOrphanBlocks) /\ MaxOrphanBlocks \in Nat
      /\ Cardinality(mapOrphanBlocks) <= MaxOrphanBlocks + 1
      /\ Cardinality(mapOrphanBlocks) \in Nat
  BY StakeAssumption, FS_CardinalityType, Zenon DEF BoundInv, OrphanBlocksBounded
<1>2. /\ IsFiniteSet(mapOrphanBlocks')
      /\ Cardinality(mapOrphanBlocks') <= Cardinality(mapOrphanBlocks)
      /\ Cardinality(mapOrphanBlocks') \in Nat
  BY <1>1, FS_Subset, FS_CardinalityType, Zenon
<1> QED
  BY <1>1, <1>2 DEF BoundInv, OrphanBlocksBounded

-----------------------------------------------------------------------------
(* The invariants.                                                         *)

OrphanBlockInv == MapsInv /\ WaitInv /\ NoStaleStake /\ BoundInv

\* The start: no orphans.
LEMMA OrphanBlockStart ==
    ASSUME OrphanInit
    PROVE  OrphanBlockInv
<1>1. MapsInv /\ WaitInv /\ NoStaleStake
  <2>1. /\ mapOrphanBlocks = {} /\ mapOrphanBlocksByPrev = {} /\ proc = Waiting
        /\ NoStaleStake
    BY Zenon DEF OrphanInit, NoStaleStake
  <2>2. Waiting \in ProcType /\ Waiting.op = "idle"
    BY DEF Waiting, ProcType
  <2> QED
    BY <2>1, <2>2, Zenon DEF MapsInv, WaitInv
<1>2. BoundInv
  BY FS_EmptySet, StakeAssumption DEF OrphanInit, BoundInv, OrphanBlocksBounded
<1> QED
  BY <1>1, <1>2, Zenon DEF OrphanBlockInv

\* OrphanBlockInv is inductive.
LEMMA OrphanBlockStep ==
    ASSUME OrphanBlockInv, [OrphanNext]_<<vars, orphanVars>>
    PROVE  OrphanBlockInv'
<1>1. MapsInv' /\ WaitInv'
  BY MapsStep, WaitStep, Zenon DEF OrphanBlockInv
<1>2. NoStaleStake' /\ BoundInv'
  <2>1. CASE \E b \in Block \ {Root}, demi \in BOOLEAN : StoreOrphan(b, demi)
    BY <2>1, StoreKeepsStakes, StoreKeepsBound, Zenon DEF OrphanBlockInv
  <2>2. CASE ~ \E b \in Block \ {Root}, demi \in BOOLEAN : StoreOrphan(b, demi)
    BY <2>2, OthersShrink, FewerKeepsBound DEF OrphanBlockInv
  <2> QED
    BY <2>1, <2>2, Zenon
<1> QED
  BY <1>1, <1>2 DEF OrphanBlockInv

\* OrphanBlockInv always holds.
LEMMA OrphanBlockInvariant == OrphanSpec => []OrphanBlockInv
<1>1. OrphanInit => OrphanBlockInv
  BY OrphanBlockStart
<1>2. OrphanBlockInv /\ [OrphanNext]_<<vars, orphanVars>> => OrphanBlockInv'
  BY OrphanBlockStep
<1> QED
  BY <1>1, <1>2, PTL DEF OrphanSpec

\* For every block tree, whatever AcceptBlock does with the orphans and
\* wherever the process stops: between blocks mapOrphanBlocksByPrev points to
\* the orphans of mapOrphanBlocks and to nothing else.
THEOREM OrphanMapsCorrect == OrphanSpec => []OrphanMapsAgree
<1>1. OrphanBlockInv => OrphanMapsAgree
  BY DEF OrphanBlockInv, MapsInv, OrphanMapsAgree, Waiting
<1> QED
  BY <1>1, OrphanBlockInvariant, PTL

\* For every limit, PruneOrphanBlocks keeps the orphans to one above it.
THEOREM OrphanBlockLimit == OrphanSpec => []OrphanBlocksBounded
<1>1. OrphanBlockInv => OrphanBlocksBounded
  BY Zenon DEF OrphanBlockInv, BoundInv
<1> QED
  BY <1>1, OrphanBlockInvariant, PTL

\* For every tree, every set of orphans and every limit: wherever
\* PruneOrphanBlocks begins its walk, no orphan loses the orphan it waits for.
THEOREM PruneKeepsChains == OrphanSpec => OrphanChainsWhole
<1> DEFINE Whole == \A c \in mapOrphanBlocks \cap mapOrphanBlocks' :
                        Prev[c] \in mapOrphanBlocks => Prev[c] \in mapOrphanBlocks'
<1>1. ASSUME OrphanBlockInv, [OrphanNext]_<<vars, orphanVars>>,
             proc.op # "orphans"
      PROVE  Whole
  <2>1. ASSUME NEW b \in Block \ {Root}, NEW demi \in BOOLEAN, StoreOrphan(b, demi)
        PROVE  Whole
    <3>1. PICK gone \in Pruned : mapOrphanBlocks' = (mapOrphanBlocks \ gone) \cup {b}
      BY <2>1, ZenonT(60) DEF StoreOrphan
    <3>2. /\ mapOrphanBlocksByPrev = mapOrphanBlocks
          /\ mapOrphanBlocks \subseteq Block /\ IsFiniteSet(mapOrphanBlocks)
      BY <1>1, <2>1, Zenon
      DEF StoreOrphan, OrphanBlockInv, MapsInv, BoundInv, Waiting
    <3>3. \A c \in mapOrphanBlocks : Prev[c] \notin gone
      <4>1. gone = {} \/ \E x : gone = {x} /\ Children(mapOrphanBlocks, x) = {}
        BY <3>2, PrunedIsLeaf, ZenonT(60)
      <4>2. ASSUME NEW c \in mapOrphanBlocks, NEW x, gone = {x}, Prev[c] \in gone
            PROVE  c \in Children(mapOrphanBlocks, x)
        BY <4>2, Zenon DEF Children
      <4> QED
        BY <4>1, <4>2, Zenon
    <3> QED
      BY <3>1, <3>3, Zenon
  <2>2. CASE mapOrphanBlocks' = mapOrphanBlocks
    BY <2>2, Zenon
  <2>3. CASE LoseOrphans
    BY <2>3, Zenon DEF LoseOrphans
  <2> QED
    BY <1>1, <2>1, <2>2, <2>3, Zenon
    DEF OrphanNext, RefuseReceived, AcceptReceived, FirstReturns, OrphanReturns,
        NextInQueue, AcceptOrphan, RefuseOrphan, ChainStep, orphanVars
<1>2. OrphanBlockInv /\ [OrphanNext]_<<vars, orphanVars>>
        => [boot' = "run" /\ proc.op # "orphans" => Whole]_<<vars, orphanVars>>
  BY <1>1, Zenon
<1> QED
  BY <1>2, OrphanBlockInvariant, PTL DEF OrphanSpec, OrphanChainsWhole

\* For every assignment of stakes to blocks, setStakeSeenOrphan never refuses a
\* block for the stake of an orphan that is gone.
THEOREM StakesHaveOrphans == OrphanSpec => []NoStaleStake
<1>1. OrphanBlockInv => NoStaleStake
  BY ZenonT(60) DEF OrphanBlockInv
<1> QED
  BY <1>1, OrphanBlockInvariant, PTL

\* For every block tree, however deep the orphans are stacked and in whatever
\* order they came: ProcessBlock leaves no orphan waiting for a block that
\* AcceptBlock has accepted.
THEOREM OrphansFollowParents == OrphanSpec => []AcceptedParentsHaveNoOrphans
<1>1. OrphanBlockInv => AcceptedParentsHaveNoOrphans
  BY DEF OrphanBlockInv, WaitInv, AcceptedParentsHaveNoOrphans, Waiting
<1> QED
  BY <1>1, OrphanBlockInvariant, PTL

=============================================================================
