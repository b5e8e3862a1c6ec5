---------------------------- MODULE BlockDownload ---------------------------
(***************************************************************************)
(* Which block is asked for from which peer: CNodeState and the maps       *)
(* mapBlocksToDownload and mapBlocksInFlight of core/main.cpp, with the    *)
(* "inv" and "block" messages and the part of SendMessages that asks for   *)
(* blocks. Each map holds, per block, the peer and an iterator into that   *)
(* peer's list; the lists have counters of their own. Peers come and go    *)
(* with blocks queued or in flight. The message thread holds cs_main in    *)
(* each handler and through the loop of SendMessages; the socket thread    *)
(* may disconnect a peer at any time.                                      *)
(*                                                                         *)
(* The lists are sets: which block of a list comes first is left open, and *)
(* the front of vBlocksInFlight is its oldest entry. A peer is one that    *)
(* has sent its version. Ids are not reused by the code; here they are,    *)
(* which is the same because nothing is left of a peer that is gone.       *)
(***************************************************************************)
EXTENDS Integers, FiniteSets

CONSTANTS
    Node, NoNode, Hash,
    LocalNode,      \* peers with a local address, never banned
    QueueLimit,     \* of vBlocksToDownload, before it counts as misbehaviour (5000)
    BanScore,       \* -banscore
    MAX_BLOCKS_IN_TRANSIT_PER_PEER,
    BLOCK_DOWNLOAD_TIMEOUT,
    MaxTime         \* bound of the clock

ASSUME DownloadAssumption ==
    /\ NoNode \notin Node /\ LocalNode \subseteq Node
    /\ QueueLimit \in Nat /\ BanScore \in Nat /\ MaxTime \in Nat
    /\ MAX_BLOCKS_IN_TRANSIT_PER_PEER \in Nat
    /\ BLOCK_DOWNLOAD_TIMEOUT \in Nat

VARIABLES
    mapNodeState,        \* the peers that have a CNodeState
    vBlocksToDownload, nBlocksToDownload,
    vBlocksInFlight, nBlocksInFlight,
    nTime,               \* QueuedBlock::nTime, per peer and block; 0 if there is none
    nLastBlockReceive,
    nMisbehavior, fShouldBan,
    mapBlocksToDownload, mapBlocksInFlight,  \* the peer; the iterator is the block
    fDisconnect,         \* peers about to be removed
    have,                \* mapBlockIndex and mapOrphanBlocks
    sending,             \* the peer whose SendMessages is asking for blocks
    now,
    nLastProcessed       \* history: when a "block" message was last processed

queues == <<vBlocksToDownload, nBlocksToDownload, mapBlocksToDownload,
            vBlocksInFlight, nBlocksInFlight, mapBlocksInFlight>>
peers == <<mapNodeState, nMisbehavior, fShouldBan, fDisconnect>>
clocks == <<nTime, nLastBlockReceive, now, nLastProcessed>>
downloadVars == <<queues, peers, clocks, have, sending>>

\* CNodeState::nLastBlockProcess: the constructor sets it and nothing else does.
nLastBlockProcess == 0

-----------------------------------------------------------------------------

DownloadInit ==
    /\ mapNodeState = {} /\ fDisconnect = {} /\ fShouldBan = {} /\ have = {}
    /\ vBlocksToDownload = [n \in Node |-> {}]
    /\ nBlocksToDownload = [n \in Node |-> 0]
    /\ vBlocksInFlight = [n \in Node |-> {}]
    /\ nBlocksInFlight = [n \in Node |-> 0]
    /\ nTime = [n \in Node |-> [h \in Hash |-> 0]]
    /\ nLastBlockReceive = [n \in Node |-> 0]
    /\ nMisbehavior = [n \in Node |-> 0]
    /\ mapBlocksToDownload = [h \in Hash |-> NoNode]
    /\ mapBlocksInFlight = [h \in Hash |-> NoNode]
    /\ sending = NoNode /\ now = 1 /\ nLastProcessed = 0

LockFree == sending = NoNode

\* Misbehaving. The score is kept up to the limit, beyond which nothing differs.
Misbehaving(n, howmuch) ==
    LET score == nMisbehavior[n] + howmuch
    IN  /\ nMisbehavior' = [nMisbehavior EXCEPT ![n] =
                                IF score >= BanScore THEN BanScore ELSE score]
        /\ fShouldBan' = IF howmuch # 0 /\ score >= BanScore
                         THEN fShouldBan \cup {n} ELSE fShouldBan

\* The constructor of CNode. A CNodeState that is not there has its first values.
InitializeNode(n) ==
    /\ LockFree /\ n \notin mapNodeState
    /\ mapNodeState' = mapNodeState \cup {n}
    /\ UNCHANGED <<queues, nMisbehavior, fShouldBan, fDisconnect, clocks, have,
                   sending>>

\* The socket thread, or the peer itself, ends the connection.
Disconnect(n) ==
    /\ n \in mapNodeState \ fDisconnect
    /\ fDisconnect' = fDisconnect \cup {n}
    /\ UNCHANGED <<queues, mapNodeState, nMisbehavior, fShouldBan, clocks, have,
                   sending>>

\* For FinalizeNode: what was in flight stays in the map.
FinalizeNodeQueueOnly(n) ==
    /\ LockFree /\ n \in mapNodeState \cap fDisconnect
    /\ mapBlocksToDownload' = [h \in Hash |-> IF h \in vBlocksToDownload[n]
                                              THEN NoNode ELSE mapBlocksToDownload[h]]
    /\ vBlocksInFlight' = [vBlocksInFlight EXCEPT ![n] = {}]
    /\ nBlocksInFlight' = [nBlocksInFlight EXCEPT ![n] = 0]
    /\ vBlocksToDownload' = [vBlocksToDownload EXCEPT ![n] = {}]
    /\ nBlocksToDownload' = [nBlocksToDownload EXCEPT ![n] = 0]
    /\ mapNodeState' = mapNodeState \ {n}
    /\ fDisconnect' = fDisconnect \ {n} /\ fShouldBan' = fShouldBan \ {n}
    /\ nTime' = [nTime EXCEPT ![n] = [h \in Hash |-> 0]]
    /\ nLastBlockReceive' = [nLastBlockReceive EXCEPT ![n] = 0]
    /\ nMisbehavior' = [nMisbehavior EXCEPT ![n] = 0]
    /\ UNCHANGED <<mapBlocksInFlight, now, nLastProcessed, have, sending>>

\* The destructor of CNode, when nobody uses the peer any more.
FinalizeNode(n) ==
    /\ LockFree /\ n \in mapNodeState \cap fDisconnect
    /\ mapBlocksInFlight' = [h \in Hash |-> IF h \in vBlocksInFlight[n]
                                            THEN NoNode ELSE mapBlocksInFlight[h]]
    /\ mapBlocksToDownload' = [h \in Hash |-> IF h \in vBlocksToDownload[n]
                                              THEN NoNode ELSE mapBlocksToDownload[h]]
    /\ vBlocksInFlight' = [vBlocksInFlight EXCEPT ![n] = {}]
    /\ nBlocksInFlight' = [nBlocksInFlight EXCEPT ![n] = 0]
    /\ vBlocksToDownload' = [vBlocksToDownload EXCEPT ![n] = {}]
    /\ nBlocksToDownload' = [nBlocksToDownload EXCEPT ![n] = 0]
    /\ mapNodeState' = mapNodeState \ {n}
    /\ fDisconnect' = fDisconnect \ {n} /\ fShouldBan' = fShouldBan \ {n}
    /\ nTime' = [nTime EXCEPT ![n] = [h \in Hash |-> 0]]
    /\ nLastBlockReceive' = [nLastBlockReceive EXCEPT ![n] = 0]
    /\ nMisbehavior' = [nMisbehavior EXCEPT ![n] = 0]
    /\ UNCHANGED <<now, nLastProcessed, have, sending>>

-----------------------------------------------------------------------------

\* MarkBlockAsReceived, first half: h is no longer to be asked for.
NotQueued(h) ==
    LET n == mapBlocksToDownload[h]
    IN  /\ mapBlocksToDownload' = [mapBlocksToDownload EXCEPT ![h] = NoNode]
        /\ vBlocksToDownload' = IF n = NoNode THEN vBlocksToDownload
                                ELSE [vBlocksToDownload EXCEPT ![n] = @ \ {h}]
        /\ nBlocksToDownload' = IF n = NoNode THEN nBlocksToDownload
                                ELSE [nBlocksToDownload EXCEPT ![n] = @ - 1]

\* MarkBlockAsReceived, second half: the lists of blocks in flight without h.
Landed(h) ==
    LET n == mapBlocksInFlight[h]
    IN  IF n = NoNode THEN [list |-> vBlocksInFlight, count |-> nBlocksInFlight]
        ELSE [list |-> [vBlocksInFlight EXCEPT ![n] = @ \ {h}],
              count |-> [nBlocksInFlight EXCEPT ![n] = @ - 1]]

\* AddBlockToQueue: a block that is listed, for whichever peer, is left where it is.
AddBlockToQueue(n, h) ==
    IF mapBlocksToDownload[h] # NoNode \/ mapBlocksInFlight[h] # NoNode
    THEN UNCHANGED <<queues, nMisbehavior, fShouldBan>>
    ELSE /\ vBlocksToDownload' = [vBlocksToDownload EXCEPT ![n] = @ \cup {h}]
         /\ nBlocksToDownload' = [nBlocksToDownload EXCEPT ![n] = @ + 1]
         /\ mapBlocksToDownload' = [mapBlocksToDownload EXCEPT ![h] = n]
         /\ Misbehaving(n, IF nBlocksToDownload[n] + 1 > QueueLimit THEN 10 ELSE 0)
         /\ UNCHANGED <<vBlocksInFlight, nBlocksInFlight, mapBlocksInFlight>>

\* An "inv" message with a block that AlreadyHave does not find.
Inv(n, h) ==
    /\ LockFree /\ n \in mapNodeState \ fDisconnect /\ h \notin have
    /\ AddBlockToQueue(n, h)
    /\ UNCHANGED <<mapNodeState, fDisconnect, clocks, have, sending>>

\* A "block" message, asked for or not: MarkBlockAsReceived, then ProcessBlock,
\* which takes the block or does not, and may find the peer at fault.
BlockMessage(n, h, taken, nDoS) ==
    /\ LockFree /\ n \in mapNodeState \ fDisconnect
    /\ NotQueued(h)
    /\ vBlocksInFlight' = Landed(h).list /\ nBlocksInFlight' = Landed(h).count
    /\ mapBlocksInFlight' = [mapBlocksInFlight EXCEPT ![h] = NoNode]
    /\ nLastBlockReceive' = IF mapBlocksInFlight[h] = n
                            THEN [nLastBlockReceive EXCEPT ![n] = now]
                            ELSE nLastBlockReceive
    /\ nTime' = [m \in Node |-> [nTime[m] EXCEPT ![h] = 0]]
    /\ have' = IF taken THEN have \cup {h} ELSE have
    /\ nLastProcessed' = now
    /\ Misbehaving(n, nDoS)
    /\ UNCHANGED <<mapNodeState, fDisconnect, now, sending>>

\* A block comes another way: mined, submitted over RPC or imported.
OtherBlock(h) ==
    /\ LockFree /\ h \notin have
    /\ have' = have \cup {h}
    /\ UNCHANGED <<queues, peers, clocks, sending>>

-----------------------------------------------------------------------------
(* SendMessages.                                                           *)

\* "Detect stalled peers".
Stalling(n) ==
    /\ nBlocksInFlight[n] # 0
    /\ nLastBlockReceive[n] < nLastBlockProcess - BLOCK_DOWNLOAD_TIMEOUT
    /\ \E h \in vBlocksInFlight[n] :
           nTime[n][h] < nLastBlockProcess - 2 * BLOCK_DOWNLOAD_TIMEOUT

\* SendMessages up to the loop: a peer that should be banned or that is
\* stalling is to be disconnected.
SendMessages(n) ==
    /\ LockFree /\ n \in mapNodeState
    /\ fShouldBan' = fShouldBan \ {n}
    /\ fDisconnect' = IF Stalling(n) \/ (n \in fShouldBan \ LocalNode)
                      THEN fDisconnect \cup {n} ELSE fDisconnect
    /\ sending' = n
    /\ UNCHANGED <<queues, mapNodeState, nMisbehavior, clocks, have>>

MoreToAsk ==
    /\ sending \notin fDisconnect
    /\ nBlocksToDownload[sending] # 0
    /\ nBlocksInFlight[sending] < MAX_BLOCKS_IN_TRANSIT_PER_PEER

\* For MarkBlockAsInFlight: the block stays where it was listed.
MarkBlockAsInFlightToo(n, h) ==
    /\ nTime' = [nTime EXCEPT ![n][h] = now]
    /\ nLastBlockReceive' = IF nBlocksInFlight[n] = 0
                            THEN [nLastBlockReceive EXCEPT ![n] = now]
                            ELSE nLastBlockReceive
    /\ vBlocksInFlight' = [vBlocksInFlight EXCEPT ![n] = @ \cup {h}]
    /\ nBlocksInFlight' = [nBlocksInFlight EXCEPT ![n] = @ + 1]
    /\ mapBlocksInFlight' = [mapBlocksInFlight EXCEPT ![h] = n]
    /\ UNCHANGED <<vBlocksToDownload, nBlocksToDownload, mapBlocksToDownload>>

MarkBlockAsInFlight(n, h) ==
    LET was == Landed(h)
    IN  /\ NotQueued(h)
        /\ nTime' = [nTime EXCEPT ![n][h] = now]
        /\ nLastBlockReceive' = IF was.count[n] = 0
                                THEN [nLastBlockReceive EXCEPT ![n] = now]
                                ELSE nLastBlockReceive
        /\ vBlocksInFlight' = [was.list EXCEPT ![n] = @ \cup {h}]
        /\ nBlocksInFlight' = [was.count EXCEPT ![n] = @ + 1]
        /\ mapBlocksInFlight' = [mapBlocksInFlight EXCEPT ![h] = n]

\* One turn of the loop.
RequestBlock(h) ==
    /\ ~ LockFree /\ MoreToAsk
    /\ h \in vBlocksToDownload[sending]
    /\ MarkBlockAsInFlight(sending, h)
    /\ UNCHANGED <<peers, now, nLastProcessed, have, sending>>

\* For SendDone: the loop is left only when nothing is queued.
SendDoneWhenEmpty ==
    /\ ~ LockFree /\ (sending \in fDisconnect \/ nBlocksToDownload[sending] = 0)
    /\ sending' = NoNode
    /\ UNCHANGED <<queues, peers, clocks, have>>

\* The loop ends.
SendDone ==
    /\ ~ LockFree /\ ~ MoreToAsk
    /\ sending' = NoNode
    /\ UNCHANGED <<queues, peers, clocks, have>>

Tick ==
    /\ now < MaxTime
    /\ now' = now + 1
    /\ UNCHANGED <<queues, peers, nTime, nLastBlockReceive, nLastProcessed, have,
                   sending>>

SendStep == SendDone \/ \E h \in Hash : RequestBlock(h)

DownloadNext ==
    \/ \E n \in Node : InitializeNode(n) \/ Disconnect(n) \/ FinalizeNode(n)
                       \/ SendMessages(n)
    \/ \E n \in Node, h \in Hash : Inv(n, h)
    \/ \E n \in Node, h \in Hash, taken \in BOOLEAN, nDoS \in {0, BanScore} :
            BlockMessage(n, h, taken, nDoS)
    \/ \E h \in Hash : OtherBlock(h)
    \/ SendStep
    \/ Tick

DownloadSpec == DownloadInit /\ [][DownloadNext]_downloadVars

\* The message thread goes on while it holds cs_main.
DownloadFairSpec == DownloadSpec /\ WF_downloadVars(SendStep)

-----------------------------------------------------------------------------
(* Properties.                                                             *)

\* The maps and the lists say the same, also when peers leave with blocks
\* queued or in flight and blocks come from peers that were not asked: a map
\* names a peer that is there and has the block in its list, so that State is
\* not NULL and the iterator valid, and a list has nothing the map does not name.
\* The counters are the lengths of the lists: SendMessages takes the front of a
\* list because its counter is not zero.
MapsMatchLists ==
    /\ \A n \in Node : /\ nBlocksToDownload[n] = Cardinality(vBlocksToDownload[n])
                       /\ nBlocksInFlight[n] = Cardinality(vBlocksInFlight[n])
    /\ \A h \in Hash, n \in Node :
        /\ mapBlocksToDownload[h] = n
               <=> n \in mapNodeState /\ h \in vBlocksToDownload[n]
        /\ mapBlocksInFlight[h] = n
               <=> n \in mapNodeState /\ h \in vBlocksInFlight[n]

\* "Make sure it's not listed somewhere already": of the lists of blocks to be
\* downloaded and in flight, of all peers, at most one has a given block. Blocks
\* that other code asks for (AskFor, getblocks) are not in these lists.
ListedOnce ==
    \A h \in Hash :
        /\ mapBlocksToDownload[h] = NoNode \/ mapBlocksInFlight[h] = NoNode
        /\ \A m, n \in Node :
               /\ h \in vBlocksToDownload[m] \cup vBlocksInFlight[m]
               /\ h \in vBlocksToDownload[n] \cup vBlocksInFlight[n]
               => m = n

\* MAX_BLOCKS_IN_TRANSIT_PER_PEER: no peer has more requests to answer.
TransitBounded ==
    \A n \in Node :
        Cardinality(vBlocksInFlight[n]) <= MAX_BLOCKS_IN_TRANSIT_PER_PEER

\* The loop of SendMessages ends, whatever the socket thread does meanwhile.
SendMessagesReturns == (sending # NoNode) ~> (sending = NoNode)

-----------------------------------------------------------------------------
(* What a comment of the code says, and its steps refute.                  *)

\* SendMessages: "Detect stalled peers. Require that blocks are in flight, we
\* haven't received a (requested) block in one minute, and that all blocks are
\* in flight for over two minutes, since we first had a chance to process an
\* incoming block". A peer to which that applies is disconnected.
StalledPeerDisconnected ==
    [][\A n \in Node :
           /\ LockFree /\ sending' = n
           /\ vBlocksInFlight[n] # {}
           /\ nLastBlockReceive[n] < nLastProcessed - BLOCK_DOWNLOAD_TIMEOUT
           /\ \A h \in vBlocksInFlight[n] :
                  nTime[n][h] < nLastProcessed - 2 * BLOCK_DOWNLOAD_TIMEOUT
           => n \in fDisconnect']_downloadVars

=============================================================================
