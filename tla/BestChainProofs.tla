-------------------------- MODULE BestChainProofs --------------------------
(***************************************************************************)
(* For every block tree: the chain on disk moves as BestChain promises,    *)
(* is cut back only by -backtoblock, and keeps what is buried below the    *)
(* rolling checkpoint.                                                     *)
(*                                                                         *)
(* The last section has the facts about chains and their forks that the    *)
(* proofs about memory rest on.                                            *)
(***************************************************************************)
EXTENDS ChainStateProofs

USE SMTT(30)

-----------------------------------------------------------------------------
(* More about the tree.                                                    *)

\* Of two blocks of a chain, the lower is an ancestor of the higher.
LEMMA ChainIsLinear ==
    ASSUME NEW b \in Block, NEW a \in Anc[b], NEW c \in Anc[b],
           Height[a] <= Height[c]
    PROVE  a \in Anc[c]
<1> DEFINE S == {d \in Anc[b] : Height[a] <= Height[d] /\ a \notin Anc[d]}
<1> SUFFICES ASSUME a \notin Anc[c]
             PROVE  FALSE
  OBVIOUS
<1>1. S \subseteq Anc[b] /\ c \in S
  OBVIOUS
<1>2. PICK d \in S : \A g \in S : Height[g] <= Height[d]
  <2> HIDE DEF S
  <2> QED
    BY <1>1, HighestExists, Zenon
<1>3. d \in Anc[b] /\ d # b /\ d \in Block /\ Height[a] <= Height[d] /\ a \notin Anc[d]
  BY <1>2, OwnChain
<1> DEFINE e == Toward(d, b)
<1>4. e \in Anc[b] /\ e \in Block /\ Prev[e] = d /\ e # Root
  BY <1>3, TowardOnChain
<1> HIDE DEF e
<1>5. Height[e] = Height[d] + 1 /\ Anc[e] = {e} \cup Anc[d]
  BY <1>4, TreeAssumption, ChainsNest
<1>6. Height[d] \in Nat /\ Height[a] \in Nat /\ Height[e] \in Nat
  BY <1>3, <1>4, OwnChain, TreeAssumption
<1>7. a # e
  BY <1>3, <1>5, <1>6
<1>8. e \in S
  BY <1>3, <1>4, <1>5, <1>6, <1>7
<1> QED
  BY <1>2, <1>5, <1>6, <1>8

\* Trust grows along a chain.
LEMMA TrustGrows ==
    ASSUME NEW b \in Block, NEW a \in Anc[b]
    PROVE  ChainTrust[a] <= ChainTrust[b]
<1> DEFINE S == {d \in Anc[b] : ChainTrust[d] > ChainTrust[b]}
<1>0. \A d \in Anc[b] : d \in Block /\ ChainTrust[d] \in Nat /\ Height[d] \in Nat
  BY OwnChain, TrustAssumption, TreeAssumption
<1>1. ChainTrust[b] \in Nat
  BY TrustAssumption
<1> SUFFICES ASSUME S # {}
             PROVE  FALSE
  BY <1>0, <1>1
<1>2. PICK d \in S : \A g \in S : Height[g] <= Height[d]
  <2>1. S \subseteq Anc[b]
    OBVIOUS
  <2> HIDE DEF S
  <2> QED
    BY <2>1, HighestExists
<1>3. d \in Anc[b] /\ d # b /\ d \in Block /\ ChainTrust[d] > ChainTrust[b]
  BY <1>0, <1>1, <1>2
<1> DEFINE e == Toward(d, b)
<1>4. e \in Anc[b] /\ e \in Block /\ Prev[e] = d /\ e # Root
  BY <1>3, TowardOnChain
<1> HIDE DEF e
<1>5. Height[e] = Height[d] + 1 /\ ChainTrust[e] > ChainTrust[d]
  BY <1>4, TreeAssumption, TrustAssumption
<1>6. e \in S
  BY <1>0, <1>1, <1>3, <1>4, <1>5
<1> QED
  BY <1>0, <1>2, <1>3, <1>5, <1>6

\* What SetBestChain reorganises to outweighs the best block as soon as the new
\* block does, and is the new block itself when that one is on the best chain.
LEMMA IntermediateTrust ==
    ASSUME TypeOK, NEW b \in Block
    PROVE  /\ ChainTrust[b] > ChainTrust[pindexBest] =>
                    ChainTrust[Intermediate(b)] > ChainTrust[pindexBest]
           /\ b \in Anc[pindexBest] => Intermediate(b) = b
<1> DEFINE S == {a \in Anc[b] :
                    a = Root \/ ChainTrust[Prev[a]] <= ChainTrust[pindexBest]}
           m == Intermediate(b)
<1>1. m \in S /\ \A g \in S : Height[g] <= Height[m]
  <2>1. S \subseteq Anc[b] /\ Root \in S
    BY OwnChain
  <2>2. m = Highest(S)
    BY DEF Intermediate
  <2> HIDE DEF S, m
  <2> QED
    BY <2>1, <2>2, HighestExists
<1>2. m \in Anc[b] /\ m \in Block
  BY <1>1, OwnChain
<1>3. ASSUME m # b
      PROVE  ChainTrust[m] > ChainTrust[pindexBest]
  <2> DEFINE e == Toward(m, b)
  <2>1. e \in Anc[b] /\ e \in Block /\ Prev[e] = m /\ e # Root
    BY <1>2, <1>3, TowardOnChain
  <2>2. Height[e] = Height[m] + 1 /\ Height[m] \in Nat
    BY <1>2, <2>1, TreeAssumption
  <2>3. e \notin S
    BY <1>1, <2>2
  <2>4. ~ (ChainTrust[m] <= ChainTrust[pindexBest])
    BY <2>1, <2>3
  <2>5. ChainTrust[m] \in Nat /\ ChainTrust[pindexBest] \in Nat
    BY <1>2, TrustAssumption DEF TypeOK
  <2> QED
    BY <2>4, <2>5
<1>4. ASSUME b \in Anc[pindexBest]
      PROVE  m = b
  <2>1. pindexBest \in Block
    BY DEF TypeOK
  <2>2. b = Root \/ ChainTrust[Prev[b]] <= ChainTrust[pindexBest]
    <3> SUFFICES ASSUME b # Root
                 PROVE  ChainTrust[Prev[b]] <= ChainTrust[pindexBest]
      OBVIOUS
    <3>1. Prev[b] \in Anc[b]
      BY ParentChain, OwnChain
    <3>2. Prev[b] \in Anc[pindexBest]
      BY <1>4, <2>1, <3>1, ChainsNest
    <3> QED
      BY <2>1, <3>2, TrustGrows
  <2>3. b \in S
    BY <2>2, OwnChain
  <2>4. Height[b] <= Height[m] /\ Height[m] <= Height[b]
    BY <1>1, <1>2, <2>3, ChainsNest
  <2>5. Height[b] \in Nat /\ Height[m] \in Nat
    BY <1>2, TreeAssumption
  <2> HIDE DEF S, m
  <2>6. Height[m] = Height[b]
    BY <2>4, <2>5
  <2> QED
    BY <1>2, <2>6, ChainsNest
<1> QED
  BY <1>3, <1>4

-----------------------------------------------------------------------------
(* The inductive invariant.                                                *)

\* The index is the same in memory and on disk and has whole chains.
IndexWhole ==
    /\ mapBlockIndex = db.index /\ batch.index = db.index
    /\ db.best \in db.index /\ pindexBest \in db.index /\ call.new \in db.index
    /\ \A b \in db.index : Anc[b] \subseteq db.index

\* Whatever failed before, the disk is never ahead of memory; while the node
\* starts the two are equal, and SetBestChain is called only to go back.
NotBehind ==
    /\ call.op \in {"idle", "extend", "reorganize", "disconnect", "connect"} =>
            ChainTrust[db.best] <= ChainTrust[pindexBest]
    /\ call.op = "further" => call.at = db.best
    /\ call.op = "finish" => ChainTrust[db.best] <= ChainTrust[call.new]
    /\ boot # "run" => /\ call.op \notin {"extend", "finish"}
                       /\ call.op # "further" => pindexBest = db.best
                       /\ call.op = "further" => call.at = call.new

\* What holds once the conditions of Reorganize have been met.
Authorised ==
    /\ call.op \in {"reorganize", "disconnect", "connect"} =>
            IF boot = "run" THEN ChainTrust[call.mid] > ChainTrust[pindexBest]
            ELSE call.mid = call.new /\ call.new \in Anc[pindexBest]
    /\ call.op \in {"disconnect", "connect"} =>
            /\ boot = "run" \/ call.rollback
            /\ \A b \in Anc[pindexBest] :
                    Final(b, pindexBest) /\ Final(b, call.mid) => b \in Anc[call.mid]

BestInv == IndexWhole /\ NotBehind /\ Authorised

\* "Verify chain quality" does what it is for: with the rolling checkpoint on
\* both chains, so is all that lies below it.
LEMMA QualityKeepsBuried ==
    ASSUME TypeOK, ChainQuality,
           NEW b \in Anc[pindexBest], Final(b, pindexBest), Final(b, call.mid)
    PROVE  b \in Anc[call.mid]
<1>0. /\ pindexBest \in Block /\ call.mid \in Block /\ b \in Block
      /\ TempDepth \in Nat
  BY OwnChain, ParameterAssumption DEF TypeOK, CallType
<1>1. /\ Height[b] \in Nat /\ Height[pindexBest] \in Nat /\ Height[call.mid] \in Nat
      /\ Height[Root] \in Nat
  BY <1>0, TreeAssumption
<1>2. /\ RollingHeight \in Int /\ Height[b] <= RollingHeight
      /\ RollingHeight <= Height[pindexBest]
  BY <1>0, <1>1
  DEF Final, RollingHeight, HeightShorter, BLOCK_REORG_THRESHOLD,
      BLOCK_REORG_MAX_DEPTH, BLOCK_REORG_OVERRIDE_DEPTH
<1>3. CASE RollingHeight <= Height[Root]
  <2>1. Root \in Anc[b]
    BY <1>0, ChainsNest
  <2>2. Height[Root] <= Height[b]
    BY <1>0, <2>1, ChainsNest
  <2>3. Height[Root] = Height[b]
    BY <1>1, <1>2, <1>3, <2>2
  <2>4. b = Root
    BY <1>0, <2>1, <2>3, ChainsNest
  <2> QED
    BY <1>0, <2>4, ChainsNest
<1>4. CASE ~ (RollingHeight <= Height[Root])
  <2> DEFINE c == AtHeight(pindexBest, RollingHeight)
  <2>1. c \in Anc[call.mid]
    BY <1>4 DEF ChainQuality, RollingBlock
  <2>2. c \in Anc[pindexBest] /\ Height[c] = RollingHeight
    BY <1>0, <1>1, <1>2, <1>4, ChainHeights
  <2> HIDE DEF c
  <2>3. b \in Anc[c]
    BY <1>0, <1>2, <2>2, ChainIsLinear
  <2> QED
    BY <1>0, <2>1, <2>3, ChainsNest
<1> QED
  BY <1>3, <1>4

\* Going to a block of the best chain is a step back: Reorganize lets it pass
\* only for -backtoblock, as long as no demi-node relays.
LEMMA BackNeedsRollback ==
    ASSUME TypeOK, boot # "run", call.mid \in Anc[pindexBest], DirectionSane
    PROVE  fRollbacktoBlock
<1>1. Height[call.mid] <= Height[pindexBest]
  BY ChainsNest DEF TypeOK
<1>2. Height[call.mid] \in Nat /\ Height[pindexBest] \in Nat
  BY OwnChain, TreeAssumption DEF TypeOK
<1> QED
  BY <1>1, <1>2 DEF DirectionSane, DemiRelay, DemiNodesOn, PEER_REORG_TYPE

\* The start, from an empty database, satisfies BestInv.
LEMMA BestInit == Init => BestInv
<1> SUFFICES ASSUME Init
             PROVE  BestInv
  OBVIOUS
<1>1. /\ InitialDb.index = {Root} /\ InitialDb.best = Root
      /\ Idle.op = "idle" /\ Idle.new = Root
  BY DEF InitialDb, Idle
<1>2. Anc[Root] = {Root} /\ ChainTrust[Root] \in Nat
  BY ChainsNest, TrustAssumption, TreeAssumption, Zenon
<1> QED
  BY <1>1, <1>2 DEF Init, BestInv, IndexWhole, NotBehind, Authorised

\* A call that starts while the node runs, for a block that outweighs the best.
LEMMA NetworkCall ==
    ASSUME TypeOK, boot = "run", NEW b \in Block,
           ChainTrust[b] > ChainTrust[pindexBest]
    PROVE  /\ SetBestChain(b).new = b
           /\ SetBestChain(b).op \in {"extend", "reorganize"}
           /\ ChainTrust[SetBestChain(b).mid] > ChainTrust[pindexBest]
<1>1. ChainTrust[Intermediate(b)] > ChainTrust[pindexBest]
  BY IntermediateTrust
<1>2. SetBestChain(b).mid = Intermediate(b)
  BY DEF SetBestChain, Idle
<1> QED
  BY <1>1, <1>2, SetBestChainTyped

\* A call that starts before that, for a block of the best chain.
LEMMA StartUpCall ==
    ASSUME TypeOK, NEW b \in Anc[pindexBest]
    PROVE  /\ SetBestChain(b).new = b /\ SetBestChain(b).mid = b
           /\ SetBestChain(b).op = "reorganize"
<1>1. pindexBest \in Block /\ b \in Block
  BY OwnChain DEF TypeOK
<1>2. Intermediate(b) = b
  BY <1>1, IntermediateTrust
<1>3. Prev[b] # pindexBest
  <2>1. CASE b = Root
    BY <1>1, <2>1, TreeAssumption
  <2>2. CASE b # Root
    <3>1. Height[b] = Height[Prev[b]] + 1 /\ Height[b] <= Height[pindexBest]
      BY <1>1, <2>2, TreeAssumption, ChainsNest, Zenon
    <3>2. Height[b] \in Nat /\ Height[pindexBest] \in Nat
      BY <1>1, TreeAssumption
    <3> QED
      BY <3>1, <3>2
  <2> QED
    BY <2>1, <2>2
<1> QED
  BY <1>2, <1>3 DEF SetBestChain, Idle

\* SetBestChainInner leaves the index alone and, on success, moves the tip.
LEMMA AttachMoves ==
    ASSUME TypeOK, NEW b \in Block, b # Root, Attached(b) \/ NotAttached(b)
    PROVE  /\ db'.index = db.index
           /\ batch'.index = batch.index \/ batch'.index = db.index
           /\ Attached(b) => db'.best = b
           /\ NotAttached(b) => db' = db
<1>1. CASE Attached(b)
  <2>1. db' = [Connected(db, b) EXCEPT !.best = b] /\ batch' = db' /\ CanConnect(db, b)
    BY <1>1 DEF Attached
  <2>2. db'.index = db.index /\ db'.best = b
    BY <2>1 DEF Connected
  <2>3. ASSUME NotAttached(b)
        PROVE  db' = db
    BY <2>3 DEF NotAttached
  <2> QED
    BY <2>1, <2>2, <2>3
<1>2. CASE NotAttached(b) /\ ~ Attached(b)
  BY <1>2 DEF NotAttached
<1> QED
  BY <1>1, <1>2

\* Each step of SetBestChain keeps the invariant.
LEMMA BestCallStep == TypeInv /\ BestInv /\ SetBestChainStep => BestInv'
<1> SUFFICES ASSUME TypeOK, CallOnTree, IndexWhole, NotBehind, Authorised,
                    SetBestChainStep
             PROVE  IndexWhole' /\ NotBehind' /\ Authorised'
  BY Zenon DEF TypeInv, BestInv
<1>0. /\ call \in CallType /\ pindexBest \in Block /\ db \in ViewType
      /\ batch \in ViewType /\ db.best \in Block
      /\ call.new \in Block /\ call.mid \in Block /\ call.at \in Block
      /\ call.mid \in Anc[call.new]
      /\ Idle.op = "idle" /\ Idle.new = Root /\ Root \in db.index
  <2>1. Root \in db.index
    BY OwnChain, Zenon DEF IndexWhole, TypeOK
  <2> QED
    BY <2>1, Zenon DEF TypeOK, CallType, ViewType, CallOnTree, Idle
<1>t. \A b \in Block : ChainTrust[b] \in Nat
  BY TrustAssumption
<1>1. CASE ExtendChain
  <2>0. /\ call.op = "extend" /\ boot' = boot
        /\ pindexBest' = pindexBest /\ mapBlockIndex' = mapBlockIndex
    BY <1>1, Zenon DEF ExtendChain
  <2>p. Prev[call.new] = pindexBest
    BY <2>0, Zenon DEF CallOnTree
  <2>a. Prev[call.new] = pindexBest /\ call.new # Root
    <3>1. Prev[Root] \notin Block
      BY TreeAssumption, Zenon
    <3> QED
      BY <1>0, <2>p, <3>1, Zenon
  <2>b. boot = "run"
    BY <2>0, Zenon DEF NotBehind, TypeOK
  <2>1. /\ call.op = "extend" /\ Prev[call.new] = pindexBest /\ call.new # Root
        /\ boot = "run" /\ boot' = boot
        /\ pindexBest' = pindexBest /\ mapBlockIndex' = mapBlockIndex
    BY <2>0, <2>a, <2>b, Zenon
  <2>2. CASE Attached(call.new) /\ call' = [call EXCEPT !.op = "finish"]
    <3>1. call'.op = "finish" /\ call'.new = call.new
      BY <1>0, <2>2 DEF CallType
    <3>2. db'.index = db.index /\ batch'.index = db.index /\ db'.best = call.new
      BY <1>0, <2>1, <2>2, AttachMoves, Zenon DEF IndexWhole
    <3>3. ChainTrust[call.new] <= ChainTrust[call.new]
      BY <1>0, <1>t
    <3>4. IndexWhole'
      BY <2>1, <3>1, <3>2, Zenon DEF IndexWhole
    <3>5. NotBehind'
      BY <2>1, <3>1, <3>2, <3>3, ZenonT(60) DEF NotBehind
    <3> QED
      BY <3>1, <3>4, <3>5, Zenon DEF Authorised
  <2>3. CASE NotAttached(call.new) /\ call' = Idle
    <3>1. db' = db /\ batch' = batch
      BY <2>3 DEF NotAttached
    <3> QED
      BY <1>0, <2>1, <2>3, <3>1 DEF IndexWhole, NotBehind, Authorised
  <2> QED
    BY <1>1, <2>2, <2>3 DEF ExtendChain
<1>2. CASE Reorganize
  <2>1. call.op = "reorganize" /\ UNCHANGED <<mapBlockIndex, pindexBest, boot, db>>
    BY <1>2, Zenon DEF Reorganize
  <2>2. CASE call' = Idle /\ batch' = db
    BY <1>0, <2>1, <2>2 DEF IndexWhole, NotBehind, Authorised
  <2>3. CASE /\ DirectionSane /\ ChainQuality
             /\ call' = [call EXCEPT !.op = "disconnect",
                                     !.fork = Fork(pindexBest, call.mid),
                                     !.rollback = fRollbacktoBlock]
             /\ UNCHANGED batch
    <3>1. /\ call'.op = "disconnect" /\ call'.new = call.new /\ call'.mid = call.mid
          /\ call'.rollback = fRollbacktoBlock
      BY <1>0, <2>3 DEF CallType
    <3>2. boot # "run" => fRollbacktoBlock
      BY <2>1, <2>3, BackNeedsRollback DEF Authorised
    <3>3. \A b \in Anc[pindexBest] :
              Final(b, pindexBest) /\ Final(b, call.mid) => b \in Anc[call.mid]
      BY <2>3, QualityKeepsBuried, Zenon
    <3>4. Authorised'
      BY <2>1, <3>1, <3>2, <3>3 DEF Authorised, Final
    <3> QED
      BY <2>1, <2>3, <3>1, <3>4 DEF IndexWhole, NotBehind
  <2> QED
    BY <1>2, <2>2, <2>3 DEF Reorganize, AbortReorganize
<1>3. CASE DisconnectBlock
  <2>1. /\ call.op = "disconnect"
        /\ UNCHANGED <<mapBlockIndex, pindexBest, boot, db>>
    BY <1>3, Zenon DEF DisconnectBlock
  <2>2. CASE call' = Idle /\ batch' = db
    BY <1>0, <2>1, <2>2, Zenon DEF IndexWhole, NotBehind, Authorised
  <2>3. CASE /\ batch' = Disconnected(batch, call.at)
             /\ call' = [call EXCEPT !.at = Prev[call.at]]
    <3>1. /\ call'.op = call.op /\ call'.new = call.new /\ call'.mid = call.mid
          /\ call'.rollback = call.rollback /\ batch'.index = batch.index
      BY <1>0, <2>3, Zenon DEF CallType, Disconnected
    <3> QED
      BY <2>1, <3>1 DEF IndexWhole, NotBehind, Authorised, Final
  <2> QED
    BY <1>3, <2>2, <2>3 DEF DisconnectBlock, AbortReorganize
<1>4. CASE DisconnectDone
  <2>1. /\ call.op = "disconnect" /\ call'.op = "connect" /\ call'.new = call.new
        /\ call'.mid = call.mid /\ call'.rollback = call.rollback
        /\ UNCHANGED <<mapBlockIndex, pindexBest, boot, db, batch>>
    BY <1>0, <1>4 DEF DisconnectDone, CallType
  <2> QED
    BY <2>1 DEF IndexWhole, NotBehind, Authorised, Final
<1>5. CASE ConnectBlock
  <2> DEFINE b == Toward(call.at, call.mid)
  <2>1. /\ call.op = "connect"
        /\ UNCHANGED <<mapBlockIndex, pindexBest, boot, db>>
    BY <1>5, Zenon DEF ConnectBlock
  <2>2. CASE call' = Idle /\ batch' = db
    BY <1>0, <2>1, <2>2, Zenon DEF IndexWhole, NotBehind, Authorised
  <2>3. CASE batch' = Connected(batch, b) /\ call' = [call EXCEPT !.at = b]
    <3> HIDE DEF b
    <3>1. /\ call'.op = call.op /\ call'.new = call.new /\ call'.mid = call.mid
          /\ call'.rollback = call.rollback /\ batch'.index = batch.index
      BY <1>0, <2>3 DEF CallType, Connected
    <3> QED
      BY <2>1, <3>1 DEF IndexWhole, NotBehind, Authorised, Final
  <2> QED
    BY <1>5, <2>2, <2>3 DEF ConnectBlock, AbortReorganize
<1>6. CASE CommitReorganize
  <2>1. /\ call.op = "connect" /\ call.at = call.mid
        /\ UNCHANGED <<mapBlockIndex, pindexBest, boot>>
    BY <1>6, Zenon DEF CommitReorganize
  <2>2. CASE call' = Idle /\ batch' = db /\ UNCHANGED db
    BY <1>0, <2>1, <2>2, Zenon DEF IndexWhole, NotBehind, Authorised
  <2>3. CASE /\ call' = [call EXCEPT !.op = "further"]
             /\ db' = [batch EXCEPT !.best = call.mid] /\ batch' = db'
    <3>1. call'.op = "further" /\ call'.new = call.new /\ call'.at = call.mid
      BY <1>0, <2>1, <2>3 DEF CallType
    <3>2. db'.index = db.index /\ db'.best = call.mid /\ batch'.index = db.index
      BY <1>0, <2>3 DEF IndexWhole, ViewType
    <3>3. call.mid \in db.index
      BY <1>0 DEF IndexWhole
    <3> QED
      BY <1>0, <2>1, <3>1, <3>2, <3>3, Zenon DEF IndexWhole, NotBehind, Authorised
  <2> QED
    BY <1>6, <2>2, <2>3, Zenon DEF CommitReorganize, AbortReorganize
<1>7. CASE ConnectFurther
  <2> DEFINE b == Toward(call.at, call.new)
  <2>1. /\ call.op = "further" /\ call.at # call.new /\ call.at \in Anc[call.new]
        /\ b \in Anc[call.new] /\ b \in Block /\ b # Root
        /\ UNCHANGED <<mapBlockIndex, pindexBest, boot>>
    BY <1>0, <1>7, TowardOnChain DEF ConnectFurther, CallOnTree
  <2>2. boot = "run"
    BY <2>1, Zenon DEF NotBehind
  <2>3. CASE Attached(b) /\ call' = [call EXCEPT !.at = b]
    <3> HIDE DEF b
    <3>1. call'.op = "further" /\ call'.new = call.new /\ call'.at = b
      BY <1>0, <2>1, <2>3 DEF CallType
    <3>2. db'.index = db.index /\ batch'.index = db.index /\ db'.best = b
      BY <1>0, <2>1, <2>3, AttachMoves, Zenon DEF IndexWhole
    <3>3. b \in db.index
      BY <1>0, <2>1 DEF IndexWhole
    <3>4. IndexWhole'
      BY <2>1, <3>1, <3>2, <3>3, Zenon DEF IndexWhole
    <3>5. NotBehind'
      BY <2>1, <2>2, <3>1, <3>2, Zenon DEF NotBehind
    <3> QED
      BY <3>1, <3>4, <3>5, Zenon DEF Authorised
  <2>4. CASE UNCHANGED <<db, batch>> /\ call' = [call EXCEPT !.op = "finish"]
    <3>1. call'.op = "finish" /\ call'.new = call.new
      BY <1>0, <2>4 DEF CallType
    <3>2. ChainTrust[db.best] <= ChainTrust[call.new]
      BY <1>0, <2>1, TrustGrows, ZenonT(60) DEF NotBehind
    <3> HIDE DEF b
    <3> QED
      BY <2>1, <2>2, <2>4, <3>1, <3>2 DEF IndexWhole, NotBehind, Authorised
  <2> QED
    BY <1>7, <2>3, <2>4 DEF ConnectFurther, NotAttached
<1>8. CASE NewBestBlock
  <2>1. /\ pindexBest' = call.new /\ call' = Idle
        /\ UNCHANGED <<mapBlockIndex, boot, db, batch>>
        /\ call.op = "finish" \/ (call.op = "further" /\ call.at = call.new)
    BY <1>8 DEF NewBestBlock
  <2>2. ChainTrust[db.best] <= ChainTrust[call.new]
    <3>1. CASE call.op = "finish"
      BY <3>1, Zenon DEF NotBehind
    <3>2. CASE call.op = "further" /\ call.at = call.new
      <4>1. call.new = db.best /\ ChainTrust[call.new] \in Nat
        BY <1>0, <1>t, <3>2, Zenon DEF NotBehind
      <4> QED
        BY <4>1
    <3> QED
      BY <2>1, <3>1, <3>2, Zenon
  <2>3. boot # "run" => call.new = db.best
    BY <2>1 DEF NotBehind
  <2> QED
    BY <1>0, <2>1, <2>2, <2>3, ZenonT(60) DEF IndexWhole, NotBehind, Authorised
<1> QED
  BY <1>1, <1>2, <1>3, <1>4, <1>5, <1>6, <1>7, <1>8 DEF SetBestChainStep

\* So does every other step.
LEMMA BestOtherStep ==
    TypeInv /\ BestInv /\ [Next]_vars /\ ~ SetBestChainStep => BestInv'
<1> SUFFICES ASSUME TypeOK, IndexWhole, NotBehind, Authorised,
                    [Next]_vars, ~ SetBestChainStep
             PROVE  IndexWhole' /\ NotBehind' /\ Authorised'
  BY Zenon DEF TypeInv, BestInv
<1>0. /\ pindexBest \in Block /\ db \in ViewType /\ db.best \in Block
      /\ Idle.op = "idle" /\ Idle.new = Root /\ Root \in db.index
  <2>1. Root \in db.index
    BY OwnChain, Zenon DEF IndexWhole, TypeOK
  <2> QED
    BY <2>1 DEF TypeOK, ViewType, Idle
<1>t. \A b \in Block : ChainTrust[b] \in Nat
  BY TrustAssumption, Zenon
<1>1. ASSUME NEW b \in Block \ {Root}, NEW demi \in BOOLEAN, AcceptBlock(b, demi)
      PROVE  IndexWhole' /\ NotBehind' /\ Authorised'
  <2>1. /\ db'.best = db.best /\ db'.index = db.index \cup {b} /\ batch' = db'
        /\ mapBlockIndex' = mapBlockIndex \cup {b} /\ Prev[b] \in mapBlockIndex
        /\ pindexBest' = pindexBest /\ boot = "run" /\ boot' = boot /\ call = Idle
    BY <1>1, Zenon DEF AcceptBlock
  <2>2. Anc[b] = {b} \cup Anc[Prev[b]]
    BY ChainsNest
  <2>3. \A c \in db'.index : Anc[c] \subseteq db'.index
    BY <2>1, <2>2, Zenon DEF IndexWhole
  <2>4. CASE call' = Idle
    BY <1>0, <2>1, <2>3, <2>4, Zenon DEF IndexWhole, NotBehind, Authorised
  <2>5. CASE call' = SetBestChain(b) /\ ChainTrust[b] > ChainTrust[pindexBest]
    <3>1. /\ call'.new = b /\ call'.op \in {"extend", "reorganize"}
          /\ ChainTrust[call'.mid] > ChainTrust[pindexBest]
      BY <2>1, <2>5, NetworkCall, Zenon
    <3> QED
      BY <1>0, <2>1, <2>3, <3>1, Zenon DEF IndexWhole, NotBehind, Authorised
  <2> QED
    BY <1>1, <2>4, <2>5, Zenon DEF AcceptBlock
<1>2. ASSUME NEW demi \in BOOLEAN, RefuseBlock(demi)
      PROVE  IndexWhole' /\ NotBehind' /\ Authorised'
  BY <1>2, Zenon DEF RefuseBlock, IndexWhole, NotBehind, Authorised, Final
<1>3. CASE CreateNewBlock
  BY <1>3, ZenonT(60) DEF CreateNewBlock, IndexWhole, NotBehind, Authorised, Final
<1>4. CASE Restart
  <2>1. /\ mapBlockIndex' = db.index /\ pindexBest' = db.best /\ batch' = db
        /\ call' = Idle /\ UNCHANGED db
    BY <1>4, Zenon DEF Restart
  <2>2. ChainTrust[db.best] <= ChainTrust[db.best]
    BY <1>0, <1>t
  <2>3. IndexWhole'
    BY <1>0, <2>1, Zenon DEF IndexWhole
  <2>4. NotBehind'
    BY <1>0, <2>1, <2>2, Zenon DEF NotBehind
  <2> QED
    BY <1>0, <2>1, <2>3, <2>4, Zenon DEF Authorised
<1>5. ASSUME NEW f \in Anc[pindexBest], call' = SetBestChain(f), boot # "run",
             boot' # "run", call = Idle,
             UNCHANGED <<mapBlockIndex, pindexBest, db, batch>>
      PROVE  IndexWhole' /\ NotBehind' /\ Authorised'
  <2>1. call'.new = f /\ call'.mid = f /\ call'.op = "reorganize"
    BY <1>5, StartUpCall, Zenon
  <2>2. f \in db.index
    BY DEF IndexWhole
  <2> QED
    BY <1>0, <1>5, <2>1, <2>2, ZenonT(60) DEF IndexWhole, NotBehind, Authorised
<1>6. CASE VerifyBlocks
  <2>1. CASE UNCHANGED call
    BY <1>6, <2>1, <1>0, Zenon DEF VerifyBlocks, IndexWhole, NotBehind, Authorised
  <2>2. CASE \E f \in Anc[pindexBest] : call' = SetBestChain(f)
    BY <1>5, <1>6, <2>2, Zenon DEF VerifyBlocks
  <2> QED
    BY <1>6, <2>1, <2>2, Zenon DEF VerifyBlocks
<1>7. CASE FinishInit
  BY <1>0, <1>7, Zenon DEF FinishInit, IndexWhole, NotBehind, Authorised
<1>8. ASSUME NEW h \in RollbackHeights, BackToBlock(h)
      PROVE  IndexWhole' /\ NotBehind' /\ Authorised'
  <2>1. CASE h < 0
    BY <1>0, <1>8, <2>1, Zenon DEF BackToBlock, IndexWhole, NotBehind, Authorised
  <2>2. CASE ~ (h < 0)
    <3>1. /\ h \in Int /\ Height[Root] <= h
          /\ Height[pindexBest] \in Int /\ Height[Root] \in Int
      <4>1. h \in Int
        BY <1>8, ParameterAssumption, Zenon
      <4>2. Height[Root] \in Nat /\ Height[pindexBest] \in Nat
        BY <1>0, TreeAssumption, Zenon
      <4>3. h > Height[Root]
        BY <1>8, <2>2, Zenon DEF BackToBlock
      <4> QED
        BY <4>1, <4>2, <4>3
    <3>2. \E f \in Anc[pindexBest] : call' = SetBestChain(f)
      <4>1. CASE h < Height[pindexBest]
        <5>1. AtHeight(pindexBest, h) \in Anc[pindexBest]
          BY <1>0, <3>1, <4>1, ChainHeights
        <5> QED
          BY <1>8, <2>2, <4>1, <5>1, Zenon DEF BackToBlock
      <4>2. CASE ~ (h < Height[pindexBest])
        BY <1>0, <1>8, <2>2, <4>2, OwnChain, Zenon DEF BackToBlock
      <4> QED
        BY <4>1, <4>2, Zenon
    <3> QED
      BY <1>5, <1>8, <3>2, Zenon DEF BackToBlock
  <2> QED
    BY <2>1, <2>2, Zenon
<1>9. CASE UNCHANGED vars
  BY <1>9, Zenon DEF vars, IndexWhole, NotBehind, Authorised, Final
<1> QED
  BY <1>1, <1>2, <1>3, <1>4, <1>6, <1>7, <1>8, <1>9 DEF Next

-----------------------------------------------------------------------------
(* How a step may move the chain on disk.                                  *)

\* A block is recorded; one is attached on top; or a reorganisation commits.
TipStays == db'.index = db.index /\ db'.best = db.best
Recorded == \E b \in Block : /\ b \notin db.index /\ Prev[b] \in db.index
                             /\ db'.index = db.index \cup {b}
                             /\ db'.best = db.best
OnTop == /\ db'.index = db.index /\ db'.best \in db.index
         /\ ChainTrust[db'.best] > ChainTrust[db.best]
         /\ damage = "none" => db'.best # Root /\ Prev[db'.best] = db.best
Switched == /\ call.op = "connect" /\ db'.index = db.index
            /\ db'.best = call.mid

\* What one step does to the best block on disk: nothing, it records a block in the
\* index, SetBestChainInner puts a block on top, or Reorganize commits a switch.
LEMMA TipMoves ==
    ASSUME TypeInv, TxInv, BestInv, [Next]_vars
    PROVE  TipStays \/ Recorded \/ OnTop \/ Switched
<1>0. /\ TypeOK /\ CallOnTree /\ IndexWhole /\ NotBehind
      /\ call \in CallType /\ pindexBest \in Block /\ db \in ViewType
      /\ batch \in ViewType /\ db.best \in Block
      /\ call.new \in Block /\ call.mid \in Block /\ call.at \in Block
  BY DEF TypeInv, TypeOK, BestInv, CallType, ViewType
<1>1. CASE ExtendChain
  <2>1. /\ call.op = "extend" /\ Prev[call.new] = pindexBest /\ call.new # Root
    BY <1>0, <1>1, TreeAssumption, Zenon DEF ExtendChain, CallOnTree
  <2>2. CASE Attached(call.new)
    <3>1. db'.index = db.index /\ db'.best = call.new
      BY <1>0, <2>1, <2>2, AttachMoves, Zenon
    <3>2. /\ ChainTrust[call.new] > ChainTrust[pindexBest]
          /\ ChainTrust[db.best] <= ChainTrust[pindexBest]
      BY <1>0, <2>1, TrustAssumption, Zenon DEF NotBehind
    <3>3. ChainTrust[call.new] > ChainTrust[db.best]
      BY <1>0, <3>2, TrustAssumption
    <3>4. damage = "none" => pindexBest = db.best
      BY <2>1 DEF TxInv
    <3> QED
      BY <1>0, <2>1, <3>1, <3>3, <3>4, Zenon DEF OnTop, IndexWhole
  <2>3. CASE NotAttached(call.new)
    BY <2>3, Zenon DEF NotAttached, TipStays
  <2> QED
    BY <1>1, <2>2, <2>3 DEF ExtendChain
<1>2. CASE Reorganize \/ DisconnectBlock \/ DisconnectDone \/ ConnectBlock
           \/ NewBestBlock \/ CreateNewBlock \/ Restart \/ VerifyBlocks \/ FinishInit
           \/ UNCHANGED vars
  BY <1>2, Zenon DEF Reorganize, DisconnectBlock, DisconnectDone, ConnectBlock,
      NewBestBlock, CreateNewBlock, Restart, VerifyBlocks, FinishInit, vars, TipStays
<1>3. CASE CommitReorganize
  <2>1. CASE UNCHANGED db
    BY <2>1 DEF TipStays
  <2>2. CASE db' = [batch EXCEPT !.best = call.mid]
    BY <1>0, <1>3, <2>2 DEF CommitReorganize, Switched, IndexWhole, ViewType
  <2> QED
    BY <1>3, <2>1, <2>2 DEF CommitReorganize
<1>4. CASE ConnectFurther
  <2> DEFINE b == Toward(call.at, call.new)
  <2>1. /\ call.op = "further" /\ b \in Anc[call.new] /\ b \in Block /\ b # Root
        /\ Prev[b] = call.at
    BY <1>0, <1>4, TowardOnChain, Zenon DEF ConnectFurther, CallOnTree
  <2>2. Prev[b] = db.best
    BY <1>0, <2>1, Zenon DEF NotBehind
  <2>3. CASE Attached(b)
    <3> HIDE DEF b
    <3>1. db'.index = db.index /\ db'.best = b
      BY <1>0, <2>1, <2>3, AttachMoves, Zenon
    <3>2. b \in db.index
      BY <1>0, <2>1 DEF IndexWhole
    <3>3. ChainTrust[b] > ChainTrust[db.best]
      BY <2>1, <2>2, TrustAssumption, Zenon
    <3> QED
      BY <2>1, <2>2, <3>1, <3>2, <3>3, Zenon DEF OnTop
  <2>4. CASE UNCHANGED db
    BY <2>4 DEF TipStays
  <2> QED
    BY <1>4, <2>3, <2>4 DEF ConnectFurther, NotAttached
<1>5. ASSUME NEW b \in Block \ {Root}, NEW demi \in BOOLEAN, AcceptBlock(b, demi)
      PROVE  Recorded
  BY <1>0, <1>5, Zenon DEF AcceptBlock, Recorded, IndexWhole
<1>6. ASSUME NEW demi \in BOOLEAN, RefuseBlock(demi)
      PROVE  TipStays
  BY <1>6 DEF RefuseBlock, TipStays
<1>7. ASSUME NEW h \in RollbackHeights, BackToBlock(h)
      PROVE  TipStays
  BY <1>7 DEF BackToBlock, TipStays
<1> QED
  BY <1>1, <1>2, <1>3, <1>4, <1>5, <1>6, <1>7, Zenon DEF Next, SetBestChainStep

\* A committed reorganisation leads to a known block: one of more trust, or one
\* of the chain itself when the user asked for that.
LEMMA SwitchedTo ==
    ASSUME TypeInv, BestInv, Switched
    PROVE  /\ db'.best \in db.index /\ db'.best \in Block
           /\ \/ ChainTrust[db'.best] > ChainTrust[db.best]
              \/ db'.best \in Anc[db.best] /\ call.rollback
<1>0. /\ call.op = "connect" /\ db'.best = call.mid
      /\ call.mid \in Block /\ pindexBest \in Block /\ db.best \in Block
      /\ call.mid \in Anc[call.new] /\ call.mid \in db.index
  BY DEF Switched, TypeInv, TypeOK, CallType, ViewType, CallOnTree, BestInv,
         IndexWhole
<1>1. CASE boot = "run"
  <2>1. /\ ChainTrust[call.mid] > ChainTrust[pindexBest]
        /\ ChainTrust[db.best] <= ChainTrust[pindexBest]
    BY <1>0, <1>1 DEF BestInv, NotBehind, Authorised
  <2>2. /\ ChainTrust[call.mid] \in Nat /\ ChainTrust[pindexBest] \in Nat
        /\ ChainTrust[db.best] \in Nat
    BY <1>0, TrustAssumption, Zenon
  <2>3. ChainTrust[call.mid] > ChainTrust[db.best]
    BY <2>1, <2>2
  <2> QED
    BY <1>0, <2>3, Zenon
<1>2. CASE boot # "run"
  BY <1>0, <1>2, Zenon DEF BestInv, NotBehind, Authorised
<1> QED
  BY <1>0, <1>1, <1>2, Zenon

-----------------------------------------------------------------------------
(* The fork that Reorganize works from.                                    *)

\* A chain has one block at a height.
LEMMA AtOwnHeight ==
    ASSUME NEW b \in Block, NEW a \in Anc[b]
    PROVE  AtHeight(b, Height[a]) = a
<1>1. AtHeight(b, Height[a]) \in Anc[b] /\ Height[AtHeight(b, Height[a])] = Height[a]
  BY DEF AtHeight
<1>2. a \in Block /\ Height[a] \in Nat
  BY OwnChain, TreeAssumption
<1>3. AtHeight(b, Height[a]) \in Anc[a]
  BY <1>1, <1>2, ChainIsLinear
<1> QED
  BY <1>1, <1>2, <1>3, ChainsNest, Zenon

\* Reorganize has found the fork of the two chains, and goes up from it.
ForkKnown ==
    /\ call.op \in {"disconnect", "connect"} => call.fork = Fork(pindexBest, call.mid)
    /\ call.op = "connect" => call.fork \in Anc[call.at]

\* Only Reorganize sets the fork, and ConnectBlock goes up from it.
LEMMA ForkStep == TypeInv /\ ForkKnown /\ [Next]_vars => ForkKnown'
<1> SUFFICES ASSUME TypeOK, CallOnTree, ForkKnown, [Next]_vars
             PROVE  ForkKnown'
  BY DEF TypeInv
<1>0. /\ call \in CallType /\ call.new \in Block /\ call.mid \in Block
      /\ call.at \in Block /\ call.fork \in Block /\ Idle.op = "idle"
      /\ \A b : SetBestChain(b).op \in {"extend", "reorganize"}
  BY DEF TypeOK, CallType, Idle, SetBestChain
<1>1. ASSUME call'.op \notin {"disconnect", "connect"}
      PROVE  ForkKnown'
  BY <1>1 DEF ForkKnown
<1>2. ASSUME call' = Idle
      PROVE  ForkKnown'
  BY <1>0, <1>1, <1>2, Zenon
<1>3. ASSUME UNCHANGED <<pindexBest, call>>
      PROVE  ForkKnown'
  BY <1>3 DEF ForkKnown
<1>4. CASE ExtendChain
  <2>1. call' = Idle \/ call' = [call EXCEPT !.op = "finish"]
    BY <1>4 DEF ExtendChain
  <2> QED
    BY <1>0, <1>1, <2>1 DEF CallType
<1>5. CASE Reorganize
  <2>1. CASE call' = Idle
    BY <1>2, <2>1
  <2>2. CASE call' = [call EXCEPT !.op = "disconnect",
                                  !.fork = Fork(pindexBest, call.mid),
                                  !.rollback = fRollbacktoBlock]
    <3>1. /\ call'.op = "disconnect" /\ call'.fork = Fork(pindexBest, call'.mid)
          /\ pindexBest' = pindexBest
      BY <1>0, <1>5, <2>2 DEF CallType, Reorganize
    <3> QED
      BY <3>1 DEF ForkKnown
  <2> QED
    BY <1>5, <2>1, <2>2 DEF Reorganize, AbortReorganize
<1>6. CASE DisconnectBlock
  <2>1. call.op = "disconnect" /\ pindexBest' = pindexBest
    BY <1>6 DEF DisconnectBlock
  <2>2. CASE call' = Idle
    BY <1>2, <2>2
  <2>3. CASE call' = [call EXCEPT !.at = Prev[call.at]]
    <3>1. call'.op = "disconnect" /\ call'.fork = call.fork /\ call'.mid = call.mid
      BY <1>0, <2>1, <2>3, Zenon DEF CallType
    <3> QED
      BY <2>1, <3>1 DEF ForkKnown
  <2> QED
    BY <1>6, <2>2, <2>3 DEF DisconnectBlock, AbortReorganize
<1>7. CASE DisconnectDone
  <2>1. /\ call.op = "disconnect" /\ call'.op = "connect" /\ call.at = call.fork
        /\ call'.at = call.at /\ call'.fork = call.fork /\ call'.mid = call.mid
        /\ pindexBest' = pindexBest
    BY <1>0, <1>7, Zenon DEF DisconnectDone, CallType
  <2>2. call.fork \in Anc[call.at]
    BY <1>0, <2>1, OwnChain
  <2> QED
    BY <2>1, <2>2 DEF ForkKnown
<1>8. CASE ConnectBlock
  <2> DEFINE b == Toward(call.at, call.mid)
  <2>1. /\ call.op = "connect" /\ b \in Block /\ b # Root /\ Prev[b] = call.at
        /\ pindexBest' = pindexBest
    BY <1>0, <1>8, TowardOnChain DEF ConnectBlock, CallOnTree
  <2>2. call' = Idle \/ call' = [call EXCEPT !.at = b]
    BY <1>8, Zenon DEF ConnectBlock, AbortReorganize
  <2> HIDE DEF b
  <2>3. CASE call' = [call EXCEPT !.at = b]
    <3>1. /\ call'.op = "connect" /\ call'.at = b
          /\ call'.fork = call.fork /\ call'.mid = call.mid
      BY <1>0, <2>1, <2>3 DEF CallType
    <3>2. call.fork \in Anc[Prev[b]]
      BY <2>1, Zenon DEF ForkKnown
    <3>3. call.fork \in Anc[b]
      BY <2>1, <3>2, ParentChain
    <3> QED
      BY <2>1, <3>1, <3>3 DEF ForkKnown
  <2> QED
    BY <1>2, <2>2, <2>3
<1>9. CASE CommitReorganize
  <2>1. call' = Idle \/ call' = [call EXCEPT !.op = "further"]
    BY <1>9 DEF CommitReorganize, AbortReorganize
  <2> QED
    BY <1>0, <1>1, <2>1 DEF CallType
<1>10. CASE ConnectFurther
  <2>1. \/ call' = [call EXCEPT !.at = Toward(call.at, call.new)]
        \/ call' = [call EXCEPT !.op = "finish"]
    BY <1>10 DEF ConnectFurther, NotAttached
  <2>2. call'.op \in {"further", "finish"}
    BY <1>0, <1>10, <2>1 DEF CallType, ConnectFurther
  <2> QED
    BY <1>1, <2>2
<1>11. CASE NewBestBlock
  BY <1>2, <1>11, Zenon DEF NewBestBlock
<1>12. ASSUME NEW b \in Block \ {Root}, NEW demi \in BOOLEAN, AcceptBlock(b, demi)
       PROVE  ForkKnown'
  <2>1. call' = Idle \/ call' = SetBestChain(b)
    BY <1>12, Zenon DEF AcceptBlock
  <2>2. call'.op \notin {"disconnect", "connect"}
    BY <1>0, <2>1, Zenon
  <2> QED
    BY <1>1, <2>2, Zenon
<1>13. ASSUME NEW demi \in BOOLEAN, RefuseBlock(demi)
       PROVE  ForkKnown'
  BY <1>3, <1>13, Zenon DEF RefuseBlock
<1>14. ASSUME NEW h \in RollbackHeights, BackToBlock(h)
       PROVE  ForkKnown'
  BY <1>0, <1>1, <1>14, Zenon DEF BackToBlock
<1>15. CASE CreateNewBlock \/ FinishInit \/ UNCHANGED vars
  BY <1>3, <1>15, Zenon DEF CreateNewBlock, FinishInit, vars
<1>16. CASE VerifyBlocks
  BY <1>0, <1>1, <1>3, <1>16, Zenon DEF VerifyBlocks
<1>17. CASE Restart
  BY <1>2, <1>17 DEF Restart
<1> QED
  BY <1>4, <1>5, <1>6, <1>7, <1>8, <1>9, <1>10, <1>11, <1>12, <1>13, <1>14, <1>15,
     <1>16, <1>17 DEF Next, SetBestChainStep

-----------------------------------------------------------------------------

\* The four invariants together are inductive.
LEMMA AllInvariants == Spec => [](TypeInv /\ TxInv /\ BestInv /\ ForkKnown)
<1>1. Init => TypeInv /\ TxInv /\ BestInv
  BY TypeInit, TxInit, BestInit
<1>2. Init => ForkKnown
  BY IdleOnTree DEF Init, ForkKnown
<1>3. (TypeInv /\ TxInv /\ BestInv /\ ForkKnown) /\ [Next]_vars
          => (TypeInv /\ TxInv /\ BestInv /\ ForkKnown)'
  BY TypeCallStep, TypeOtherStep, TxCallStep, TxOtherStep, BestCallStep,
     BestOtherStep, ForkStep
<1> QED
  BY <1>1, <1>2, <1>3, PTL DEF Spec

\* For every block tree, the chain on disk is one that BestChain allows: blocks
\* are recorded after their parents, and the best chain moves, in one commit,
\* to a known chain of more trust or back along itself.
THEOREM ImplementsBestChain == Spec => FollowsBestChain
<1>1. Init => Promise!Init
  BY DEF Init, InitialDb, Promise!Init
<1>2. ASSUME TypeInv, TxInv, BestInv, [Next]_vars
      PROVE  [Promise!Next]_<<db.index, db.best>>
  <2>1. CASE TipStays
    BY <2>1 DEF TipStays
  <2>2. CASE Recorded
    BY <2>2 DEF Recorded, Promise!Next, Promise!Learn
  <2>3. CASE OnTop
    <3>1. db'.best \in Block
      BY <1>2, <2>3 DEF OnTop, TypeInv, TypeOK, ViewType
    <3>2. Promise!Adopt(db'.best)
      BY <2>3 DEF OnTop, Promise!Adopt
    <3> QED
      BY <3>1, <3>2, ZenonT(60) DEF Promise!Next
  <2>4. CASE Switched
    <3>1. db'.index = db.index
      BY <2>4 DEF Switched
    <3>2. db'.best \in Block /\ (Promise!Adopt(db'.best) \/ Promise!CutBack(db'.best))
      BY <1>2, <2>4, <3>1, SwitchedTo, Zenon DEF Promise!Adopt, Promise!CutBack
    <3> QED
      BY <3>2 DEF Promise!Next
  <2> QED
    BY <1>2, <2>1, <2>2, <2>3, <2>4, TipMoves, ZenonT(60)
<1> QED
  BY <1>1, <1>2, AllInvariants, PTL DEF Spec, FollowsBestChain, Promise!Spec

\* For every block tree, the trust of the chain on disk falls only in a
\* reorganisation that -backtoblock authorised: neither the start-up repair nor
\* a relaying demi-node can make it fall.
THEOREM CutBackNeedsRollback == Spec => OnlyRollbackCutsBack
<1>1. ASSUME TypeInv, TxInv, BestInv, [Next]_vars
      PROVE  ChainTrust[db'.best] < ChainTrust[db.best] => call.rollback
  <2>0. db.best \in Block /\ db.index \subseteq Block /\ ChainTrust[db.best] \in Nat
    BY <1>1, TrustAssumption, Zenon DEF TypeInv, TypeOK, ViewType
  <2>1. CASE TipStays \/ Recorded
    <3>1. db'.best = db.best
      BY <2>1, Zenon DEF TipStays, Recorded
    <3> QED
      BY <2>0, <3>1
  <2>2. CASE OnTop
    <3>1. db'.best \in Block /\ ChainTrust[db'.best] > ChainTrust[db.best]
      BY <2>0, <2>2, Zenon DEF OnTop
    <3>2. ChainTrust[db'.best] \in Nat
      BY <3>1, TrustAssumption, Zenon
    <3> QED
      BY <2>0, <3>1, <3>2
  <2>3. CASE Switched
    <3>1. ChainTrust[db'.best] > ChainTrust[db.best] \/ call.rollback
      BY <1>1, <2>3, SwitchedTo, Zenon
    <3>2. ChainTrust[db'.best] \in Nat
      BY <1>1, <2>3, SwitchedTo, TrustAssumption, Zenon
    <3> QED
      BY <2>0, <3>1, <3>2
  <2> QED
    BY <1>1, <2>1, <2>2, <2>3, TipMoves, Zenon
<1> QED
  BY <1>1, AllInvariants, PTL DEF Spec, OnlyRollbackCutsBack

\* For every block tree and every depth of the rolling checkpoint: a block that
\* lies deep enough below the old and the new tip is never taken off the chain
\* on disk, by a heavier branch, a demi-node or a rollback.
THEOREM BuriedBlocksAreFinal == Spec => BuriedBlocksStay
<1>1. ASSUME TypeInv, TxInv, BestInv, [Next]_vars
      PROVE  \A b \in Anc[db.best] :
                 damage = "none" /\ Final(b, db.best) /\ Final(b, db'.best)
                     => b \in Anc[db'.best]
  <2>0. db.best \in Block /\ db.index \subseteq Block
    BY <1>1, Zenon DEF TypeInv, TypeOK, ViewType
  <2>1. CASE TipStays \/ Recorded
    <3>1. db'.best = db.best
      BY <2>1, Zenon DEF TipStays, Recorded
    <3> QED
      BY <3>1, Zenon
  <2>2. CASE OnTop
    <3>1. damage = "none" => Anc[db.best] \subseteq Anc[db'.best]
      <4>1. db'.best \in Block /\ (damage = "none" => db'.best # Root /\ Prev[db'.best] = db.best)
        BY <2>0, <2>2, Zenon DEF OnTop
      <4> QED
        BY <4>1, ParentChain, Zenon
    <3> QED
      BY <3>1, Zenon
  <2>3. CASE Switched
    <3>1. damage = "none" => pindexBest = db.best
      BY <1>1, <2>3, Zenon DEF Switched, TxInv
    <3>2. db'.best = call.mid /\ call.op \in {"disconnect", "connect"}
      BY <2>3, Zenon DEF Switched
    <3>3. \A b \in Anc[pindexBest] :
              Final(b, pindexBest) /\ Final(b, call.mid) => b \in Anc[call.mid]
      BY <1>1, <3>2, Zenon DEF BestInv, Authorised
    <3> QED
      BY <3>1, <3>2, <3>3, Zenon
  <2> QED
    BY <1>1, <2>1, <2>2, <2>3, TipMoves, Zenon
<1> QED
  BY <1>1, AllInvariants, PTL DEF Spec, BuriedBlocksStay

-----------------------------------------------------------------------------
(* The links and the supplies of a chain, for the proofs about memory.     *)

\* The pnext pointers of the chain that ends in b, and no others.
LinksTo(b) ==
    [a \in Block |-> IF a \in Anc[b] \ {b} THEN Toward(a, b) ELSE NoBlock]

\* The supplies s add up along the chain that ends in b.
Along(s, b) == \A a \in Anc[b] \ {Root} : s[a] = s[Prev[a]] + Minted[a]

\* s and t have the same supplies along it.
Agree(s, t, b) == \A a \in Anc[b] : s[a] = t[a]

\* A chain has one block after a.
LEMMA TowardUnique ==
    ASSUME NEW b \in Block, NEW c \in Anc[b], c # Root
    PROVE  Toward(Prev[c], b) = c
<1> DEFINE a == Prev[c]
           d == Toward(a, b)
<1>1. c \in Block /\ a \in Block /\ Height[c] = Height[a] + 1
  BY OwnChain, TreeAssumption
<1>2. a \in Anc[b] /\ Height[a] < Height[b]
  <2>1. a \in Anc[c] /\ Anc[c] \subseteq Anc[b] /\ Height[c] <= Height[b]
    BY <1>1, ParentChain, OwnChain, ChainsNest, Zenon
  <2>2. Height[a] \in Nat /\ Height[b] \in Nat
    BY <1>1, TreeAssumption, Zenon
  <2> QED
    BY <1>1, <2>1, <2>2
<1>3. a # b
  BY <1>1, <1>2, TreeAssumption
<1>4. d \in Anc[b] /\ d \in Block /\ Prev[d] = a /\ d # Root
  BY <1>2, <1>3, TowardOnChain, Zenon
<1> HIDE DEF d
<1>5. Height[d] = Height[c] /\ Height[c] <= Height[d]
  BY <1>1, <1>4, TreeAssumption
<1>6. c \in Anc[d]
  BY <1>4, <1>5, ChainIsLinear, Zenon
<1>7. c = d
  BY <1>4, <1>5, <1>6, ChainsNest, Zenon
<1> QED
  BY <1>7 DEF d

\* The block after a is the same on every chain that goes on from it.
LEMMA TowardInner ==
    ASSUME NEW b \in Block, NEW c \in Anc[b], NEW a \in Anc[c], a # c
    PROVE  Toward(a, b) = Toward(a, c)
<1>1. c \in Block
  BY OwnChain
<1>2. /\ Toward(a, c) \in Anc[c] /\ Toward(a, c) # Root
      /\ Prev[Toward(a, c)] = a
  BY <1>1, TowardOnChain, Zenon
<1>3. Toward(a, c) \in Anc[b]
  BY <1>2, ChainsNest, Zenon
<1> QED
  BY <1>2, <1>3, TowardUnique, Zenon

\* The links of b's chain and those of its parent's differ in one pointer.
LEMMA LinksStep ==
    ASSUME NEW b \in Block, b # Root
    PROVE  /\ LinksTo(Prev[b])[b] = NoBlock
           /\ LinksTo(b) = [LinksTo(Prev[b]) EXCEPT ![Prev[b]] = b]
           /\ LinksTo(b) = [LinksTo(Prev[b]) EXCEPT ![b] = NoBlock, ![Prev[b]] = b]
           /\ LinksTo(Prev[b]) = [LinksTo(b) EXCEPT ![Prev[b]] = NoBlock]
<1> DEFINE p == Prev[b]
<1>1. /\ p \in Block /\ Anc[b] = {b} \cup Anc[p] /\ b \notin Anc[p] /\ p \in Anc[p]
      /\ p # b
  BY ParentChain, OwnChain
<1>2. Toward(p, b) = b
  BY OwnChain, TowardUnique, Zenon
<1>3. \A a \in Anc[p] \ {p} : Toward(a, b) = Toward(a, p)
  BY <1>1, TowardInner, Zenon
<1>4. /\ DOMAIN LinksTo(b) = Block /\ DOMAIN LinksTo(p) = Block
      /\ LinksTo(p)[b] = NoBlock /\ LinksTo(p)[p] = NoBlock
      /\ LinksTo(b)[b] = NoBlock /\ LinksTo(b)[p] = b
  BY <1>1, <1>2, Zenon DEF LinksTo
<1>5. ASSUME NEW a \in Block, a # b, a # p
      PROVE  LinksTo(b)[a] = LinksTo(p)[a]
  BY <1>1, <1>3, <1>5, ZenonT(60) DEF LinksTo
<1>6. LinksTo(b) = [a \in Block |-> LinksTo(b)[a]]
      /\ LinksTo(p) = [a \in Block |-> LinksTo(p)[a]]
  BY DEF LinksTo
<1> HIDE DEF p
<1>7. LinksTo(b) = [LinksTo(p) EXCEPT ![p] = b]
  BY <1>1, <1>4, <1>5, <1>6
<1>8. LinksTo(b) = [LinksTo(p) EXCEPT ![b] = NoBlock, ![p] = b]
  BY <1>1, <1>4, <1>5, <1>6, Zenon
<1>9. LinksTo(p) = [LinksTo(b) EXCEPT ![p] = NoBlock]
  BY <1>1, <1>4, <1>5, <1>6, Zenon
<1> QED
  BY <1>4, <1>7, <1>8, <1>9, ZenonT(60) DEF p

\* Of the blocks of two chains, those up to their fork are on both.
LEMMA ForkIsHighest ==
    ASSUME NEW a \in Block, NEW b \in Block, NEW g \in Anc[a] \cap Anc[b]
    PROVE  g \in Anc[Fork(a, b)] /\ Height[g] <= Height[Fork(a, b)]
<1> DEFINE S == Anc[a] \cap Anc[b]
<1>1. S \subseteq Anc[a] /\ g \in S
  OBVIOUS
<1>2. Highest(S) \in S /\ \A h \in S : Height[h] <= Height[Highest(S)]
  <2> HIDE DEF S
  <2> QED
    BY <1>1, HighestExists
<1>3. Fork(a, b) = Highest(S)
  BY Zenon DEF Fork
<1>4. Fork(a, b) \in Anc[a] /\ Height[g] <= Height[Fork(a, b)]
  BY <1>2, <1>3, ZenonT(60)
<1> QED
  BY <1>4, ChainIsLinear, Zenon

\* A block of the new branch above the fork is not on the old chain.
LEMMA BranchesApart ==
    ASSUME NEW p \in Block, NEW m \in Block, NEW b \in Anc[m], b # Root,
           Fork(p, m) \in Anc[Prev[b]]
    PROVE  b \notin Anc[p]
<1>1. b \in Block /\ Prev[b] \in Block /\ Height[b] = Height[Prev[b]] + 1
  BY OwnChain, TreeAssumption, Zenon
<1>2. Height[Fork(p, m)] <= Height[Prev[b]]
  BY <1>1, ChainsNest, Zenon
<1>3. Fork(p, m) \in Block
  BY <1>1, OwnChain, Zenon
<1>4. Height[b] \in Nat /\ Height[Prev[b]] \in Nat /\ Height[Fork(p, m)] \in Nat
  BY <1>1, <1>3, TreeAssumption, Zenon
<1>5. ASSUME b \in Anc[p]
      PROVE  Height[b] <= Height[Fork(p, m)]
  BY <1>5, ForkIsHighest, Zenon
<1> QED
  BY <1>1, <1>2, <1>4, <1>5

\* The end of Reorganize: unlinking the old branch and linking the new one
\* turns the links of the old chain into those of the new.
LEMMA LinksCommit ==
    ASSUME NEW p \in Block, NEW m \in Block
    PROVE  LinksTo(m) =
               [a \in Block |->
                    IF a \in Anc[m] \ {m} /\ Fork(p, m) \in Anc[a]
                    THEN Toward(a, m)
                    ELSE IF a \in Anc[p] \ {p} /\ Fork(p, m) \in Anc[a]
                    THEN NoBlock ELSE LinksTo(p)[a]]
<1> DEFINE f == Fork(p, m)
<1>0. f \in Anc[p] /\ f \in Anc[m] /\ f \in Block
  BY ForkOnBoth, OwnChain, Zenon
<1> SUFFICES ASSUME NEW a \in Block
             PROVE  LinksTo(m)[a] =
                        IF a \in Anc[m] \ {m} /\ f \in Anc[a]
                        THEN Toward(a, m)
                        ELSE IF a \in Anc[p] \ {p} /\ f \in Anc[a]
                        THEN NoBlock ELSE LinksTo(p)[a]
  BY Zenon DEF LinksTo
<1>1. CASE f \in Anc[a]
  <2>1. a \in Anc[p] /\ a \in Anc[m] => a = f
    <3> SUFFICES ASSUME a \in Anc[p], a \in Anc[m]
                 PROVE  a = f
      BY Zenon
    <3>1. Height[a] <= Height[f] /\ Height[f] <= Height[a]
      BY <1>1, ForkIsHighest, ChainsNest, Zenon
    <3>2. Height[a] \in Nat /\ Height[f] \in Nat
      BY <1>0, TreeAssumption, Zenon
    <3>3. Height[a] = Height[f]
      BY <3>1, <3>2
    <3> QED
      BY <1>1, <3>3, ChainsNest, Zenon
  <2>2. CASE a \in Anc[m] \ {m}
    BY <1>1, <2>2, Zenon DEF LinksTo
  <2>3. CASE a \notin Anc[m] \ {m}
    BY <1>1, <2>3, Zenon DEF LinksTo
  <2> QED
    BY <2>2, <2>3, Zenon
<1>2. CASE f \notin Anc[a]
  <2>1. CASE a \in Anc[f]
    <3>1. a # f /\ a \in Anc[m] /\ a \in Anc[p]
      BY <1>0, <1>2, <2>1, OwnChain, ChainsNest, Zenon
    <3>2. a # m /\ a # p
      BY <1>0, <1>2, Zenon
    <3>3. Toward(a, m) = Toward(a, f) /\ Toward(a, p) = Toward(a, f)
      BY <1>0, <2>1, <3>1, TowardInner, Zenon
    <3> QED
      BY <1>2, <3>1, <3>2, <3>3, Zenon DEF LinksTo
  <2>2. CASE a \notin Anc[f]
    <3>1. ~ (a \in Anc[p] /\ a \in Anc[m])
      BY <2>2, ForkIsHighest, Zenon
    <3>2. a \notin Anc[p] /\ a \notin Anc[m]
      <4>1. ASSUME NEW q \in {p, m}, a \in Anc[q]
            PROVE  FALSE
        <5>1. Height[a] \in Nat /\ Height[f] \in Nat
          BY <1>0, TreeAssumption, Zenon
        <5>2. q \in Block /\ f \in Anc[q]
          BY <1>0, Zenon
        <5>3. CASE Height[a] <= Height[f]
          BY <2>2, <4>1, <5>2, <5>3, ChainIsLinear, Zenon
        <5>4. CASE Height[f] <= Height[a]
          BY <1>2, <4>1, <5>2, <5>4, ChainIsLinear, Zenon
        <5> QED
          BY <5>1, <5>3, <5>4
      <4> QED
        BY <4>1
    <3> QED
      BY <1>2, <3>2, Zenon DEF LinksTo
  <2> QED
    BY <2>1, <2>2, Zenon
<1> QED
  BY <1>1, <1>2, Zenon

\* The supplies r are those of s with the one of b written, as ConnectBlock does.
WrittenFor(r, s, b) == r = [s EXCEPT ![b] = s[Prev[b]] + Minted[b]]

\* Writing the supply of b, as ConnectBlock does in memory before anything is
\* committed, disturbs no chain along which supplies add up, b's own included.
LEMMA SupplyWritten ==
    ASSUME NEW s \in [Block -> Int], NEW b \in Block, b # Root,
           NEW c \in Block, Along(s, c),
           NEW r, WrittenFor(r, s, b)
    PROVE  Along(r, c) /\ \A a \in Anc[c] : r[a] = s[a]
<1>1. Anc[c] \subseteq Block
  BY OwnChain, Zenon
<1>2. ASSUME NEW a \in Anc[c]
      PROVE  r[a] = s[a]
  <2>1. CASE a = b
    BY <1>1, <2>1, Zenon DEF Along, WrittenFor
  <2>2. CASE a # b
    BY <1>1, <2>2, Zenon DEF WrittenFor
  <2> QED
    BY <2>1, <2>2, Zenon
<1>3. \A a \in Anc[c] \ {Root} : Prev[a] \in Anc[c]
  <2> SUFFICES ASSUME NEW a \in Anc[c], a # Root
               PROVE  Prev[a] \in Anc[c]
    BY Zenon
  <2>1. Prev[a] \in Anc[a]
    BY <1>1, ParentChain, OwnChain, Zenon
  <2> QED
    BY <2>1, ChainsNest, Zenon
<1>4. Along(r, c)
  BY <1>2, <1>3, Zenon DEF Along
<1> QED
  BY <1>2, <1>4, Zenon

\* The supply of b, written on top of its parent's.
LEMMA SupplyExtended ==
    ASSUME NEW s \in [Block -> Int], NEW b \in Block, b # Root, Along(s, Prev[b])
    PROVE  /\ Along([s EXCEPT ![b] = s[Prev[b]] + Minted[b]], b)
           /\ [s EXCEPT ![b] = s[Prev[b]] + Minted[b]][b] = s[Prev[b]] + Minted[b]
<1> DEFINE r == [s EXCEPT ![b] = s[Prev[b]] + Minted[b]]
<1>1. /\ Prev[b] \in Block /\ Prev[b] # b /\ Anc[b] = {b} \cup Anc[Prev[b]]
  BY ParentChain, OwnChain
<1>2. WrittenFor(r, s, b)
  BY Zenon DEF WrittenFor
<1>3. r[b] = s[Prev[b]] + Minted[b] /\ r[Prev[b]] = s[Prev[b]]
  BY <1>1, Zenon
<1> HIDE DEF r
<1>a. Along(r, Prev[b])
  BY <1>1, <1>2, SupplyWritten, Zenon
<1>4. Along(r, b)
  BY <1>1, <1>a, <1>3, Zenon DEF Along
<1> QED
  BY <1>3, <1>4, Zenon DEF r

\* Supplies that add up along a chain do so in every copy of them.
LEMMA AlongCopied ==
    ASSUME NEW s, NEW t, NEW b \in Block, Along(s, b), Agree(s, t, b)
    PROVE  Along(t, b)
<1> SUFFICES ASSUME NEW a \in Anc[b], a # Root
             PROVE  t[a] = t[Prev[a]] + Minted[a]
  BY Zenon DEF Along
<1>1. Prev[a] \in Anc[b]
  <2>1. a \in Block /\ Prev[a] \in Anc[a]
    BY ParentChain, OwnChain
  <2> QED
    BY <2>1, ChainsNest, Zenon
<1> QED
  BY <1>1, Zenon DEF Along, Agree

=============================================================================
