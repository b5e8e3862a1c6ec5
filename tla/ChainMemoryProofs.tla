------------------------- MODULE ChainMemoryProofs --------------------------
(***************************************************************************)
(* What the node has in memory, against its database, for any tree of      *)
(* blocks, any failures of commits and any restarts.                       *)
(*                                                                         *)
(* In the first part the pnext pointers and nMoneySupply of CBlockIndex.   *)
(* MemoryInv says how far memory may be from the database in the middle of *)
(* SetBestChain.                                                           *)
(*                                                                         *)
(* In the second part FindBlockByHeight, which finds the block of a height *)
(* on the best chain although it starts from a block that an earlier call  *)
(* left in pblockindexFBBHLast. LookupInv is about that block.             *)
(***************************************************************************)
EXTENDS ChainLookups, BestChainProofs

USE SMTT(30)

-----------------------------------------------------------------------------
(* The inductive invariant.                                                *)

\* The links and supplies on disk are those of its best chain; those of memory
\* are the same, except that the commit of a reorganisation comes before
\* pindexBest; and the batch has those of the chain it has got to.
MemoryInv ==
    /\ damage # "disk" => db.next = LinksTo(db.best) /\ Along(db.supply, db.best)
    /\ damage = "none" =>
        /\ Along(nMoneySupply, pindexBest) /\ Along(nMoneySupply, db.best)
        /\ Agree(nMoneySupply, db.supply, db.best)
        /\ pnext = LinksTo(db.best)
        /\ call.op \in {"disconnect", "connect"} =>
              /\ batch.next = LinksTo(call.at) /\ Along(nMoneySupply, call.at)
              /\ Agree(nMoneySupply, batch.supply, call.at)

\* The start, from an empty database, satisfies it.
LEMMA MemoryInit == Init => MemoryInv
<1> SUFFICES ASSUME Init
             PROVE  MemoryInv
  OBVIOUS
<1>1. Anc[Root] = {Root}
  BY AncAssumption
<1>2. /\ db.best = Root /\ pindexBest = Root /\ db.next = [b \in Block |-> NoBlock]
      /\ pnext = db.next /\ nMoneySupply = db.supply /\ call.op = "idle"
  BY IdleOnTree DEF Init, InitialDb
<1>3. LinksTo(Root) = [b \in Block |-> NoBlock]
  BY <1>1 DEF LinksTo
<1>4. \A s : Along(s, Root)
  BY <1>1 DEF Along
<1> QED
  BY <1>2, <1>3, <1>4 DEF MemoryInv, Agree

\* ConnectBlock into a view: its links and supplies go from the parent's chain
\* to b's, and memory gets the supply of b.
LEMMA ConnectLinks ==
    ASSUME TypeOK, NEW v \in ViewType, NEW b \in Block, b # Root,
           v.next = LinksTo(Prev[b]), pnext[b] = NoBlock,
           Along(nMoneySupply, Prev[b]), Agree(nMoneySupply, v.supply, Prev[b])
    PROVE  /\ Connected(v, b).next = LinksTo(b)
           /\ Along(SupplyWith(b), b)
           /\ Agree(SupplyWith(b), Connected(v, b).supply, b)
           /\ Along(Connected(v, b).supply, b)
<1>1. nMoneySupply \in [Block -> Int] /\ v.supply \in [Block -> Int]
  BY DEF TypeOK, ViewType
<1>2. /\ Prev[b] \in Block /\ Prev[b] # b /\ Anc[b] = {b} \cup Anc[Prev[b]]
      /\ b \notin Anc[Prev[b]] /\ Anc[Prev[b]] \subseteq Block
  BY ParentChain, OwnChain
<1>3. Connected(v, b).next = LinksTo(b)
  BY LinksStep, Zenon DEF Connected
<1>4. Along(SupplyWith(b), b) /\ SupplyWith(b)[b] = nMoneySupply[Prev[b]] + Minted[b]
  BY <1>1, SupplyExtended, Zenon DEF SupplyWith
<1>5. \A a \in Anc[Prev[b]] : SupplyWith(b)[a] = nMoneySupply[a]
  BY <1>1, <1>2, Zenon DEF SupplyWith
<1>6. /\ Connected(v, b).supply[b] = SupplyWith(b)[b]
      /\ \A a \in Anc[Prev[b]] : Connected(v, b).supply[a] =
                IF a = Prev[b] THEN nMoneySupply[a] ELSE v.supply[a]
  BY <1>1, <1>2, Zenon DEF Connected
<1>7. Agree(SupplyWith(b), Connected(v, b).supply, b)
  BY <1>2, <1>5, <1>6, Zenon DEF Agree
<1> QED
  BY <1>3, <1>4, <1>7, AlongCopied, ZenonT(60)

\* DisconnectBlock in a view: from b's chain to its parent's.
LEMMA DisconnectLinks ==
    ASSUME TypeOK, NEW v \in ViewType, NEW b \in Block, b # Root,
           v.next = LinksTo(b),
           Along(nMoneySupply, b), Agree(nMoneySupply, v.supply, b)
    PROVE  /\ Disconnected(v, b).next = LinksTo(Prev[b])
           /\ Along(nMoneySupply, Prev[b])
           /\ Agree(nMoneySupply, Disconnected(v, b).supply, Prev[b])
<1>1. nMoneySupply \in [Block -> Int] /\ v.supply \in [Block -> Int]
  BY DEF TypeOK, ViewType
<1>2. Prev[b] \in Block /\ Anc[b] = {b} \cup Anc[Prev[b]] /\ Anc[Prev[b]] \subseteq Block
  BY ParentChain, OwnChain, Zenon
<1>3. Disconnected(v, b).next = LinksTo(Prev[b])
  BY LinksStep DEF Disconnected
<1>4. Along(nMoneySupply, Prev[b])
  BY <1>2 DEF Along
<1>5. \A a \in Anc[Prev[b]] : Disconnected(v, b).supply[a] =
            IF a = Prev[b] THEN nMoneySupply[a] ELSE v.supply[a]
  BY <1>1, <1>2 DEF Disconnected
<1> QED
  BY <1>2, <1>3, <1>4, <1>5, Zenon DEF Agree

\* The supply that memory gets for b, whether or not b stays.
LEMMA MemorySupply ==
    ASSUME TypeOK, NEW b \in Block, b # Root, NEW c \in Block, Along(nMoneySupply, c)
    PROVE  /\ Along(SupplyWith(b), c)
           /\ \A t : Agree(nMoneySupply, t, c) => Agree(SupplyWith(b), t, c)
<1>1. nMoneySupply \in [Block -> Int]
  BY DEF TypeOK
<1>2. Along(SupplyWith(b), c) /\ \A a \in Anc[c] : SupplyWith(b)[a] = nMoneySupply[a]
  <2>1. WrittenFor(SupplyWith(b), nMoneySupply, b)
    BY Zenon DEF SupplyWith, WrittenFor
  <2> QED
    BY <1>1, <2>1, SupplyWritten
<1> QED
  BY <1>2 DEF Agree

\* SetBestChainInner attaches b to the best chain of memory and disk.
LEMMA AttachLinks ==
    ASSUME TypeOK, NEW b \in Block, b # Root, Attached(b), Prev[b] = db.best,
           db.next = LinksTo(db.best), pnext = LinksTo(db.best),
           Along(nMoneySupply, db.best), Along(nMoneySupply, pindexBest),
           Agree(nMoneySupply, db.supply, db.best)
    PROVE  /\ db'.best = b /\ db'.next = LinksTo(b) /\ pnext' = LinksTo(b)
           /\ Along(db'.supply, b) /\ Along(nMoneySupply', b)
           /\ Agree(nMoneySupply', db'.supply, b)
           /\ Along(nMoneySupply', pindexBest)
<1>0. db \in ViewType /\ pindexBest \in Block
  BY DEF TypeOK
<1>1. pnext[b] = NoBlock
  BY LinksStep, Zenon
<1>2. /\ db' = [Connected(db, b) EXCEPT !.best = b]
      /\ nMoneySupply' = SupplyWith(b)
      /\ pnext' = [pnext EXCEPT ![Prev[b]] = b]
  BY DEF Attached
<1>3. /\ db'.best = b /\ db'.next = Connected(db, b).next
      /\ db'.supply = Connected(db, b).supply
  BY <1>2 DEF Connected
<1>4. /\ Connected(db, b).next = LinksTo(b) /\ Along(SupplyWith(b), b)
      /\ Agree(SupplyWith(b), Connected(db, b).supply, b)
      /\ Along(Connected(db, b).supply, b)
  BY <1>0, <1>1, ConnectLinks
<1>5. pnext' = LinksTo(b)
  BY <1>2, LinksStep, Zenon
<1>6. Along(SupplyWith(b), pindexBest)
  BY <1>0, MemorySupply
<1> QED
  BY <1>2, <1>3, <1>4, <1>5, <1>6

\* Each step of SetBestChain keeps the links and the supplies.
LEMMA MemoryCallStep ==
    TypeInv /\ TxInv /\ ForkKnown /\ MemoryInv /\ SetBestChainStep => MemoryInv'
<1> SUFFICES ASSUME TypeOK, CallOnTree, TxInv, ForkKnown, MemoryInv,
                    SetBestChainStep
             PROVE  MemoryInv'
  BY DEF TypeInv
<1>0. /\ call \in CallType /\ pindexBest \in Block /\ db \in ViewType
      /\ batch \in ViewType /\ damage \in {"none", "memory", "disk"}
      /\ db.best \in Block /\ call.fork \in Block
      /\ call.new \in Block /\ call.mid \in Block /\ call.at \in Block
      /\ Idle.op = "idle"
  BY DEF TypeOK, CallType, ViewType, Idle
<1>1. CASE ExtendChain
  <2>1. /\ call.op = "extend" /\ Prev[call.new] = pindexBest /\ call.new # Root
        /\ pindexBest' = pindexBest
    BY <1>0, <1>1, TreeAssumption, Zenon DEF ExtendChain, CallOnTree
  <2>2. CASE Attached(call.new) /\ call' = [call EXCEPT !.op = "finish"]
    <3>1. call'.op = "finish"
      BY <1>0, <2>2, Zenon DEF CallType
    <3>2. damage' # "disk" => damage = "none"
      BY <1>0, <2>2 DEF Attached, Committed
    <3>3. damage = "none" =>
              /\ db'.next = LinksTo(db'.best) /\ pnext' = LinksTo(db'.best)
              /\ Along(db'.supply, db'.best) /\ Along(nMoneySupply', db'.best)
              /\ Agree(nMoneySupply', db'.supply, db'.best)
              /\ Along(nMoneySupply', pindexBest)
      BY <1>0, <2>1, <2>2, AttachLinks, Zenon DEF TxInv, MemoryInv
    <3> QED
      BY <2>1, <3>1, <3>2, <3>3, Zenon DEF MemoryInv
  <2>3. CASE NotAttached(call.new) /\ call' = Idle /\ UNCHANGED damage
    <3>1. /\ nMoneySupply' = nMoneySupply \/ nMoneySupply' = SupplyWith(call.new)
          /\ db' = db /\ pnext' = pnext /\ call'.op = "idle" /\ damage' = damage
      BY <1>0, <2>3, Zenon DEF NotAttached
    <3>2. damage = "none" =>
              /\ Along(nMoneySupply', pindexBest) /\ Along(nMoneySupply', db.best)
              /\ Agree(nMoneySupply', db.supply, db.best)
      BY <1>0, <2>1, <3>1, MemorySupply, Zenon DEF MemoryInv
    <3> QED
      BY <2>1, <3>1, <3>2, Zenon DEF MemoryInv
  <2> QED
    BY <1>1, <2>2, <2>3, Zenon DEF ExtendChain
<1>2. CASE Reorganize
  <2>1. /\ call.op = "reorganize"
        /\ UNCHANGED <<pindexBest, pnext, nMoneySupply, db, damage>>
    BY <1>2 DEF Reorganize
  <2>2. CASE call' = Idle
    BY <1>0, <2>1, <2>2, Zenon DEF MemoryInv
  <2>3. CASE call' = [call EXCEPT !.op = "disconnect",
                                  !.fork = Fork(pindexBest, call.mid),
                                  !.rollback = fRollbacktoBlock]
             /\ UNCHANGED batch
    <3>1. call'.op = "disconnect" /\ call'.at = call.at
      BY <1>0, <2>3, Zenon DEF CallType
    <3>2. damage = "none" => batch = db /\ call.at = db.best
      BY <2>1 DEF TxInv, CallOnTree
    <3> QED
      BY <2>1, <2>3, <3>1, <3>2, Zenon DEF MemoryInv
  <2> QED
    BY <1>2, <2>2, <2>3, Zenon DEF Reorganize, AbortReorganize
<1>3. CASE DisconnectBlock
  <2>1. /\ call.op = "disconnect" /\ call.at # Root
        /\ UNCHANGED <<pindexBest, pnext, nMoneySupply, db, damage>>
    BY <1>0, <1>3, ChainsNest, Zenon DEF DisconnectBlock, CallOnTree
  <2>2. CASE call' = Idle
    BY <1>0, <2>1, <2>2, Zenon DEF MemoryInv
  <2>3. CASE /\ batch' = Disconnected(batch, call.at)
             /\ call' = [call EXCEPT !.at = Prev[call.at]]
    <3>1. /\ call'.op = "disconnect" /\ call'.at = Prev[call.at]
          /\ call'.fork = call.fork /\ call'.mid = call.mid
      BY <1>0, <2>1, <2>3, Zenon DEF CallType
    <3>2. damage = "none" =>
              /\ batch'.next = LinksTo(call'.at) /\ Along(nMoneySupply, call'.at)
              /\ Agree(nMoneySupply, batch'.supply, call'.at)
      BY <1>0, <2>1, <2>3, <3>1, DisconnectLinks, Zenon DEF MemoryInv
    <3> QED
      BY <2>1, <3>1, <3>2, Zenon DEF MemoryInv
  <2> QED
    BY <1>3, <2>2, <2>3, Zenon DEF DisconnectBlock, AbortReorganize
<1>4. CASE DisconnectDone
  <2>1. /\ call.op = "disconnect" /\ call'.op = "connect" /\ call.at = call.fork
        /\ call'.at = call.at /\ call'.fork = call.fork /\ call'.mid = call.mid
        /\ UNCHANGED <<pindexBest, pnext, nMoneySupply, db, batch, damage>>
    BY <1>0, <1>4 DEF DisconnectDone, CallType
  <2> QED
    BY <2>1 DEF MemoryInv
<1>5. CASE ConnectBlock
  <2> DEFINE b == Toward(call.at, call.mid)
  <2>1. /\ call.op = "connect" /\ b \in Block /\ b # Root /\ Prev[b] = call.at
        /\ b \in Anc[call.mid]
        /\ UNCHANGED <<pindexBest, pnext, db, damage>>
    BY <1>0, <1>5, TowardOnChain, Zenon DEF ConnectBlock, CallOnTree
  <2>2. nMoneySupply' = nMoneySupply \/ nMoneySupply' = SupplyWith(b)
    BY <1>5 DEF ConnectBlock
  <2>3. \/ call' = Idle
        \/ /\ batch' = Connected(batch, b) /\ nMoneySupply' = SupplyWith(b)
           /\ call' = [call EXCEPT !.at = b]
    BY <1>5 DEF ConnectBlock, AbortReorganize
  <2> HIDE DEF b
  <2>4. damage = "none" =>
            /\ Along(nMoneySupply', pindexBest) /\ Along(nMoneySupply', db.best)
            /\ Agree(nMoneySupply', db.supply, db.best)
    BY <1>0, <2>1, <2>2, MemorySupply, Zenon DEF MemoryInv
  <2>5. CASE call' = Idle
    BY <1>0, <2>1, <2>4, <2>5, Zenon DEF MemoryInv
  <2>6. CASE /\ batch' = Connected(batch, b) /\ nMoneySupply' = SupplyWith(b)
             /\ call' = [call EXCEPT !.at = b]
    <3>1. /\ call'.op = "connect" /\ call'.at = b
          /\ call'.fork = call.fork /\ call'.mid = call.mid
      BY <1>0, <2>1, <2>6, ZenonT(60) DEF CallType
    <3>2. b \notin Anc[pindexBest]
      <4>1. call.fork \in Anc[Prev[b]] /\ call.fork = Fork(pindexBest, call.mid)
        BY <2>1, Zenon DEF ForkKnown
      <4> QED
        BY <1>0, <2>1, <4>1, BranchesApart, ParentChain
    <3>3. damage = "none" => pnext[b] = NoBlock
      BY <2>1, <3>2, Zenon DEF MemoryInv, TxInv, LinksTo
    <3>4. damage = "none" =>
              /\ batch'.next = LinksTo(b) /\ Along(nMoneySupply', b)
              /\ Agree(nMoneySupply', batch'.supply, b)
      BY <1>0, <2>1, <2>6, <3>3, ConnectLinks, Zenon DEF MemoryInv
    <3> QED
      BY <2>1, <2>4, <3>1, <3>2, <3>4, Zenon DEF MemoryInv
  <2> QED
    BY <2>3, <2>5, <2>6, Zenon
<1>6. CASE CommitReorganize
  <2>1. /\ call.op = "connect" /\ call.at = call.mid
        /\ UNCHANGED <<pindexBest, nMoneySupply>>
    BY <1>6, Zenon DEF CommitReorganize
  <2>2. CASE call' = Idle /\ UNCHANGED <<db, pnext, damage>>
    BY <1>0, <2>1, <2>2, Zenon DEF MemoryInv
  <2>3. CASE /\ call' = [call EXCEPT !.op = "further"]
             /\ db' = [batch EXCEPT !.best = call.mid]
             /\ damage' = Committed
             /\ pnext' = [a \in Block |->
                    IF a \in Anc[call.mid] \ {call.mid} /\ call.fork \in Anc[a]
                    THEN Toward(a, call.mid)
                    ELSE IF a \in Anc[pindexBest] \ {pindexBest} /\ call.fork \in Anc[a]
                    THEN NoBlock ELSE pnext[a]]
    <3>1. call'.op = "further"
      BY <1>0, <2>3, Zenon DEF CallType
    <3>2. /\ db'.best = call.mid /\ db'.next = batch.next
          /\ db'.supply = batch.supply
      BY <1>0, <2>3 DEF ViewType
    <3>3. damage' # "disk" => damage = "none"
      BY <1>0, <2>3, Zenon DEF Committed
    <3>4. damage = "none" =>
              /\ db'.next = LinksTo(db'.best) /\ Along(nMoneySupply, db'.best)
              /\ Agree(nMoneySupply, db'.supply, db'.best)
      BY <2>1, <3>2, Zenon DEF MemoryInv
    <3>5. damage = "none" => Along(db'.supply, db'.best)
      BY <1>0, <3>2, <3>4, AlongCopied, Zenon
    <3>6. damage = "none" => pnext' = LinksTo(db'.best)
      <4>1. call.fork = Fork(pindexBest, call.mid)
        BY <2>1, Zenon DEF ForkKnown
      <4>2. damage = "none" => pnext = LinksTo(pindexBest)
        BY <2>1 DEF MemoryInv, TxInv
      <4> DEFINE L(f) == [a \in Block |->
                    IF a \in Anc[call.mid] \ {call.mid} /\ f \in Anc[a]
                    THEN Toward(a, call.mid)
                    ELSE IF a \in Anc[pindexBest] \ {pindexBest} /\ f \in Anc[a]
                    THEN NoBlock ELSE LinksTo(pindexBest)[a]]
      <4>3. LinksTo(call.mid) = L(Fork(pindexBest, call.mid))
        BY <1>0, LinksCommit, Zenon
      <4>4. damage = "none" => pnext' = L(call.fork)
        BY <2>3, <4>2, Zenon
      <4> HIDE DEF L
      <4> QED
        BY <3>2, <4>1, <4>3, <4>4, Zenon
    <3> QED
      BY <2>1, <3>1, <3>3, <3>4, <3>5, <3>6, Zenon DEF MemoryInv
  <2> QED
    BY <1>6, <2>2, <2>3, Zenon DEF CommitReorganize, AbortReorganize
<1>7. CASE ConnectFurther
  <2> DEFINE b == Toward(call.at, call.new)
  <2>1. /\ call.op = "further" /\ b \in Block /\ b # Root /\ Prev[b] = call.at
        /\ pindexBest' = pindexBest
    BY <1>0, <1>7, TowardOnChain, Zenon DEF ConnectFurther, CallOnTree
  <2>2. CASE Attached(b) /\ call' = [call EXCEPT !.at = b]
    <3> HIDE DEF b
    <3>1. call'.op = "further"
      BY <1>0, <2>1, <2>2, Zenon DEF CallType
    <3>2. damage' # "disk" => damage = "none"
      BY <1>0, <2>2, Zenon DEF Attached, Committed
    <3>3. damage = "none" =>
              /\ db'.next = LinksTo(db'.best) /\ pnext' = LinksTo(db'.best)
              /\ Along(db'.supply, db'.best) /\ Along(nMoneySupply', db'.best)
              /\ Agree(nMoneySupply', db'.supply, db'.best)
              /\ Along(nMoneySupply', pindexBest)
      BY <1>0, <2>1, <2>2, AttachLinks, Zenon DEF TxInv, MemoryInv
    <3> QED
      BY <2>1, <3>1, <3>2, <3>3, Zenon DEF MemoryInv
  <2>3. CASE /\ UNCHANGED db /\ call' = [call EXCEPT !.op = "finish"]
             /\ damage' = IF damage = "none" THEN "memory" ELSE damage
    <3>1. call'.op = "finish"
      BY <1>0, <2>3, Zenon DEF CallType
    <3> QED
      BY <1>0, <2>3, <3>1 DEF MemoryInv
  <2> QED
    BY <1>7, <2>2, <2>3, Zenon DEF ConnectFurther, NotAttached
<1>8. CASE NewBestBlock
  <2>1. /\ pindexBest' = call.new /\ call'.op = "idle"
        /\ UNCHANGED <<pnext, nMoneySupply, db, damage>>
        /\ call.op = "finish" \/ (call.op = "further" /\ call.at = call.new)
    BY <1>0, <1>8, Zenon DEF NewBestBlock
  <2>2. damage = "none" => db.best = call.new
    BY <2>1, Zenon DEF TxInv
  <2> QED
    BY <2>1, <2>2, Zenon DEF MemoryInv
<1> QED
  BY <1>1, <1>2, <1>3, <1>4, <1>5, <1>6, <1>7, <1>8, Zenon DEF SetBestChainStep

\* A block that the index does not have gets its entry: no chain notices.
LEMMA NewEntry ==
    ASSUME NEW s \in [Block -> Int], NEW t \in [Block -> Int],
           NEW c \in Block, NEW b \in Block, b \notin Anc[c]
    PROVE  /\ [LinksTo(c) EXCEPT ![b] = NoBlock] = LinksTo(c)
           /\ Along(s, c) => Along([s EXCEPT ![b] = 0], c)
           /\ Agree(s, t, c) => Agree([s EXCEPT ![b] = 0], [t EXCEPT ![b] = 0], c)
<1>1. Anc[c] \subseteq Block /\ \A a \in Anc[c] \ {Root} : Prev[a] \in Anc[c]
  BY OwnChain, ParentChain, ChainsNest
<1>2. [LinksTo(c) EXCEPT ![b] = NoBlock] = LinksTo(c)
  BY DEF LinksTo
<1>3. \A a \in Anc[c] : [s EXCEPT ![b] = 0][a] = s[a] /\ [t EXCEPT ![b] = 0][a] = t[a]
  BY <1>1
<1> QED
  BY <1>1, <1>2, <1>3, Zenon DEF Along, Agree

\* What SetBestChain is not running in: a new entry, start-up, or nothing.
LEMMA MemoryOtherStep ==
    TypeInv /\ TxInv /\ BestInv /\ MemoryInv /\ [Next]_vars /\ ~ SetBestChainStep
        => MemoryInv'
<1> SUFFICES ASSUME TypeOK, TxInv, IndexWhole, MemoryInv,
                    [Next]_vars, ~ SetBestChainStep
             PROVE  MemoryInv'
  BY DEF TypeInv, BestInv
<1>0. /\ pindexBest \in Block /\ db \in ViewType /\ db.best \in Block
      /\ damage \in {"none", "memory", "disk"} /\ Idle.op = "idle"
      /\ \A b : SetBestChain(b).op \in {"extend", "reorganize"}
  BY Zenon DEF TypeOK, ViewType, Idle, SetBestChain
<1>1. ASSUME NEW b \in Block \ {Root}, NEW demi \in BOOLEAN, AcceptBlock(b, demi)
      PROVE  MemoryInv'
  <2>1. /\ db'.best = db.best /\ db'.next = [db.next EXCEPT ![b] = NoBlock]
        /\ db'.supply = [db.supply EXCEPT ![b] = 0]
        /\ pnext' = [pnext EXCEPT ![b] = NoBlock]
        /\ nMoneySupply' = [nMoneySupply EXCEPT ![b] = 0]
        /\ b \notin mapBlockIndex /\ call = Idle
        /\ UNCHANGED <<pindexBest, damage>>
        /\ call' = Idle \/ call' = SetBestChain(b)
    BY <1>1, Zenon DEF AcceptBlock
  <2>2. b \notin Anc[db.best] /\ call'.op \in {"idle", "extend", "reorganize"}
    BY <1>0, <2>1 DEF IndexWhole
  <2>3. nMoneySupply \in [Block -> Int] /\ db.supply \in [Block -> Int]
    BY Zenon DEF TypeOK, ViewType
  <2>a. /\ [LinksTo(db.best) EXCEPT ![b] = NoBlock] = LinksTo(db.best)
        /\ Along(db.supply, db.best) => Along(db'.supply, db.best)
        /\ Along(nMoneySupply, db.best) => Along(nMoneySupply', db.best)
        /\ Agree(nMoneySupply, db.supply, db.best)
               => Agree(nMoneySupply', db'.supply, db.best)
    <3> DEFINE M == [nMoneySupply EXCEPT ![b] = 0]
               D == [db.supply EXCEPT ![b] = 0]
    <3>1. /\ [LinksTo(db.best) EXCEPT ![b] = NoBlock] = LinksTo(db.best)
          /\ Along(nMoneySupply, db.best) => Along(M, db.best)
          /\ Agree(nMoneySupply, db.supply, db.best) => Agree(M, D, db.best)
      BY <1>0, <2>2, <2>3, NewEntry, Zenon
    <3>2. Along(db.supply, db.best) => Along(D, db.best)
      BY <1>0, <2>2, <2>3, NewEntry, Zenon
    <3>3. nMoneySupply' = M /\ db'.supply = D
      BY <2>1, Zenon
    <3> HIDE DEF M, D
    <3> QED
      BY <3>1, <3>2, <3>3
  <2>4. damage # "disk" =>
            /\ db'.next = LinksTo(db.best) /\ Along(db'.supply, db.best)
    BY <2>1, <2>a DEF MemoryInv
  <2>5. damage = "none" =>
            /\ pnext' = LinksTo(db.best) /\ Along(nMoneySupply', db.best)
            /\ Agree(nMoneySupply', db'.supply, db.best) /\ pindexBest = db.best
    BY <1>0, <2>1, <2>a, ZenonT(30) DEF MemoryInv, TxInv
  <2> QED
    BY <2>1, <2>2, <2>4, <2>5, Zenon DEF MemoryInv
<1>2. CASE Restart
  <2>1. /\ pindexBest' = db.best /\ pnext' = db.next /\ nMoneySupply' = db.supply
        /\ call' = Idle /\ UNCHANGED db
        /\ damage' = "none" => damage # "disk"
        /\ damage' # "disk" => damage # "disk"
    BY <1>0, <1>2, Zenon DEF Restart
  <2> QED
    BY <1>0, <2>1 DEF MemoryInv, Agree
<1>3. ASSUME UNCHANGED <<pindexBest, pnext, nMoneySupply, db, batch, damage>>,
             UNCHANGED call \/ call'.op \in {"idle", "extend", "reorganize"}
      PROVE  MemoryInv'
  BY <1>3 DEF MemoryInv
<1>4. ASSUME NEW demi \in BOOLEAN, RefuseBlock(demi)
      PROVE  MemoryInv'
  BY <1>3, <1>4 DEF RefuseBlock
<1>5. CASE CreateNewBlock
  BY <1>3, <1>5, Zenon DEF CreateNewBlock
<1>6. CASE VerifyBlocks
  BY <1>0, <1>3, <1>6, Zenon DEF VerifyBlocks
<1>7. CASE FinishInit
  BY <1>3, <1>7, Zenon DEF FinishInit
<1>8. ASSUME NEW h \in RollbackHeights, BackToBlock(h)
      PROVE  MemoryInv'
  BY <1>0, <1>3, <1>8, Zenon DEF BackToBlock
<1>9. CASE UNCHANGED vars
  BY <1>3, <1>9 DEF vars
<1> QED
  BY <1>1, <1>2, <1>4, <1>5, <1>6, <1>7, <1>8, <1>9, Zenon DEF Next

\* The links and the supplies are as MemoryInv says.
LEMMA MemoryInvariant == Spec => []MemoryInv
<1>1. TypeInv /\ TxInv /\ BestInv /\ ForkKnown /\ MemoryInv /\ [Next]_vars => MemoryInv'
  BY MemoryCallStep, MemoryOtherStep
<1> QED
  BY <1>1, MemoryInit, AllInvariants, PTL DEF Spec

-----------------------------------------------------------------------------

\* For every block tree: whenever SetBestChain has returned, memory and disk have
\* the same best block, main chain and money supply, whatever failed on the way.
THEOREM MemoryIsDisk == Spec => []MemoryMatchesDisk
<1>1. TypeInv /\ TxInv /\ MemoryInv => MemoryMatchesDisk
  <2> SUFFICES ASSUME TypeInv, TxInv, MemoryInv, call = Idle, damage = "none"
               PROVE  /\ pindexBest = db.best /\ pnext = db.next
                      /\ \A a \in Anc[db.best] : nMoneySupply[a] = db.supply[a]
    BY DEF MemoryMatchesDisk
  <2>1. call.op = "idle"
    BY Zenon DEF Idle
  <2> QED
    BY <2>1, Zenon DEF TxInv, MemoryInv, Agree
<1> QED
  BY <1>1, AllInvariants, MemoryInvariant, PTL

\* For every block tree: CBlockIndex::IsInMainChain holds of the blocks of the
\* best chain and of no other, after any number of reorganisations.
THEOREM MainChainIsMarked == Spec => []MainChainMarked
<1>1. TypeInv /\ TxInv /\ MemoryInv => MainChainMarked
  <2> SUFFICES ASSUME TypeInv, TxInv, MemoryInv, call = Idle, damage = "none"
               PROVE  {b \in Block : IsInMainChain(b)} = Anc[pindexBest]
    BY Zenon DEF MainChainMarked
  <2>1. pindexBest \in Block /\ pindexBest = db.best /\ pnext = LinksTo(pindexBest)
    BY DEF TypeInv, TypeOK, TxInv, MemoryInv, Idle
  <2>2. Anc[pindexBest] \subseteq Block /\ pindexBest \in Anc[pindexBest]
    BY <2>1, OwnChain, Zenon
  <2>3. \A b \in Anc[pindexBest] \ {pindexBest} : Toward(b, pindexBest) # NoBlock
    BY <2>1, TowardOnChain, TreeAssumption
  <2> QED
    BY <2>1, <2>2, <2>3, Zenon DEF IsInMainChain, LinksTo
<1> QED
  BY <1>1, AllInvariants, MemoryInvariant, PTL

\* For every block tree: along the best chain each block's nMoneySupply is its
\* parent's plus what it minted, at every moment of a reorganisation too.
THEOREM SupplyIsExact == Spec => []SupplyExact
<1>1. MemoryInv => SupplyExact
  BY DEF MemoryInv, SupplyExact, Along
<1> QED
  BY <1>1, MemoryInvariant, PTL

-----------------------------------------------------------------------------
(* FindBlockByHeight.                                                      *)

\* The places that the loop along pnext passes on its way up from b.
ClimbRun(up, b, n) ==
    /\ up \in [0..n -> Block \cup {NoBlock}]
    /\ up[0] = b /\ Climb(b, n) = up[n]
    /\ \A k \in 1..n : up[k] = IF up[k - 1] = NoBlock THEN NoBlock
                               ELSE pnext[up[k - 1]]

\* The loop has a run, so its equation may be used.
LEMMA ClimbRuns ==
    ASSUME TypeOK, NEW b \in Block, NEW n \in Nat
    PROVE  \E up : ClimbRun(up, b, n)
<1> DEFINE S == Block \cup {NoBlock}
           f == [x \in S |-> IF x = NoBlock THEN NoBlock ELSE pnext[x]]
           F == [k \in 1..n |-> f]
           E(up) == [k \in 0..n |->
                       IF k = 0 THEN b
                       ELSE IF up[k - 1] = NoBlock THEN NoBlock ELSE pnext[up[k - 1]]]
<1>1. f \in [S -> S]
  BY DEF TypeOK
<1>2. F \in [1..n -> [S -> S]] /\ b \in S
  BY <1>1
<1>3. PICK q : /\ q \in [0..n -> S] /\ q[0] = b
               /\ \A i \in 1..n : q[i] = F[i][q[i - 1]]
  <2>1. \E q : LoopRun(q, n, S, b, F)
    <3> HIDE DEF F, S
    <3> QED
      BY <1>2, LoopRuns, ZenonT(60)
  <2> QED
    BY <2>1, Zenon DEF LoopRun
<1>4. \A i \in 1..n : q[i] = IF q[i - 1] = NoBlock THEN NoBlock ELSE pnext[q[i - 1]]
  <2> SUFFICES ASSUME NEW i \in 1..n
               PROVE  q[i] = IF q[i - 1] = NoBlock THEN NoBlock ELSE pnext[q[i - 1]]
    OBVIOUS
  <2>1. i - 1 \in 0..n /\ q[i - 1] \in S
    BY <1>3
  <2>2. q[i] = f[q[i - 1]]
    BY <1>3, Zenon
  <2> QED
    BY <2>1, <2>2
<1>5. q = E(q)
  <2>1. \A k \in 0..n : k # 0 => k \in 1..n
    OBVIOUS
  <2> QED
    BY <1>3, <1>4, <2>1
<1> DEFINE up == CHOOSE u : u = E(u)
<1>6. up = E(up)
  <2> HIDE DEF E
  <2> QED
    BY <1>5
<1>7. Climb(b, n) = up[n]
  BY Zenon DEF Climb
<1> HIDE DEF up, E
<1>8. /\ DOMAIN up = 0..n /\ up[0] = b
      /\ \A k \in 1..n : up[k] = IF up[k - 1] = NoBlock THEN NoBlock
                                 ELSE pnext[up[k - 1]]
  BY <1>6 DEF E
<1> DEFINE T == {k \in 0..n : up[k] \in S}
<1>9. 0..n \subseteq T
  <2>1. 0 \in T
    BY <1>8
  <2>2. ASSUME NEW k \in 1..n, k - 1 \in T
        PROVE  k \in T
    <3>1. k \in 0..n /\ up[k - 1] \in S
      BY <2>2
    <3> QED
      BY <1>8, <3>1, Zenon DEF TypeOK
  <2> HIDE DEF T
  <2> QED
    BY <2>1, <2>2, UpTo, Zenon
<1>10. up = [k \in 0..n |-> up[k]]
  BY <1>6 DEF E
<1>11. up \in [0..n -> S]
  BY <1>9, <1>10, Zenon
<1>12. ClimbRun(up, b, n)
  BY <1>7, <1>8, <1>11, Zenon DEF ClimbRun
<1> QED
  BY <1>12, Zenon

\* The links of t's chain lead to its blocks.
LEMMA LinksOnChain ==
    ASSUME NEW t \in Block, pnext = LinksTo(t), NEW a \in Block
    PROVE  pnext[a] \in Anc[t] \cup {NoBlock}
  BY TowardOnChain DEF LinksTo

\* Climbing along the links of t's chain stays on it, or falls off the end.
LEMMA ClimbStays ==
    ASSUME TypeOK, NEW t \in Block, pnext = LinksTo(t), NEW b \in Block, NEW n \in Nat
    PROVE  Climb(b, n) \in Anc[t] \cup {b, NoBlock}
<1>0. PICK up : ClimbRun(up, b, n)
  BY ClimbRuns, Zenon
<1>1. /\ up \in [0..n -> Block \cup {NoBlock}]
      /\ up[0] = b /\ Climb(b, n) = up[n]
      /\ \A k \in 1..n : up[k] = IF up[k - 1] = NoBlock THEN NoBlock
                                 ELSE pnext[up[k - 1]]
  BY <1>0, Zenon DEF ClimbRun
<1>2. \A a \in Block : pnext[a] \in Anc[t] \cup {NoBlock}
  BY LinksOnChain, Zenon
<1>3. CASE n = 0
  BY <1>1, <1>3
<1>4. CASE n # 0
  <2>1. n \in 1..n /\ n - 1 \in 0..n
    BY <1>4
  <2>2. up[n - 1] \in Block \cup {NoBlock}
    BY <1>1, <2>1, Zenon
  <2> QED
    BY <1>1, <1>2, <2>1, <2>2
<1> QED
  BY <1>3, <1>4

\* Climbing from a block of t's chain reaches the block of that chain.
LEMMA ClimbReaches ==
    ASSUME TypeOK, NEW t \in Block, pnext = LinksTo(t),
           NEW c \in Anc[t], NEW b \in Anc[c]
    PROVE  Climb(b, Height[c] - Height[b]) = c
<1> DEFINE n == Height[c] - Height[b]
<1>0. b \in Block /\ c \in Block
  BY OwnChain, Zenon
<1>1. Height[b] \in Nat /\ Height[c] \in Nat /\ n \in Nat
  BY <1>0, ChainsNest, TreeAssumption
<1>r. PICK up : ClimbRun(up, b, n)
  <2> HIDE DEF n
  <2> QED
    BY <1>0, <1>1, ClimbRuns, Zenon
<1>2. /\ up[0] = b /\ Climb(b, n) = up[n]
      /\ \A k \in 1..n : up[k] = IF up[k - 1] = NoBlock THEN NoBlock
                                 ELSE pnext[up[k - 1]]
  <2> HIDE DEF n
  <2> QED
    BY <1>r, Zenon DEF ClimbRun
<1> DEFINE Right(k) == up[k] \in Anc[c] /\ Height[up[k]] = Height[b] + k
           T == {k \in 0..n : Right(k)}
<1>3. 0..n \subseteq T
  <2>1. 0 \in T
    <3>1. Height[b] \in Nat /\ b \in Anc[c]
      BY <1>1, Zenon
    <3>2. Height[b] = Height[b] + 0 /\ 0 \in 0..n
      BY <1>1, <3>1
    <3> QED
      BY <1>2, <3>1, <3>2, Zenon
  <2>2. ASSUME NEW m \in 1..n, m - 1 \in T
        PROVE  m \in T
    <3> DEFINE x == up[m - 1]
    <3>1. m \in 0..n /\ m \in Nat /\ m <= n /\ m - 1 \in 0..n
      BY <1>1
    <3>2. x \in Anc[c] /\ x \in Block /\ Height[x] = Height[b] + m - 1
      BY <1>0, <1>1, <2>2, <3>1, OwnChain, Zenon
    <3>3. x # c /\ x # NoBlock
      BY <1>1, <3>1, <3>2, TreeAssumption
    <3>4. up[m] = pnext[x]
      BY <1>2, <3>3, Zenon
    <3> HIDE DEF x
    <3>5. x \in Anc[t] /\ x # t
      <4>1. Height[c] <= Height[t] /\ Anc[c] \subseteq Anc[t] /\ Height[t] \in Nat
        BY ChainsNest, TreeAssumption, Zenon
      <4> QED
        BY <1>1, <3>1, <3>2, <4>1
    <3>6. pnext[x] = Toward(x, c)
      BY <3>2, <3>3, <3>5, TowardInner, Zenon DEF LinksTo
    <3>7. /\ Toward(x, c) \in Anc[c] /\ Toward(x, c) \in Block
          /\ Prev[Toward(x, c)] = x /\ Toward(x, c) # Root
      BY <1>0, <3>2, <3>3, TowardOnChain, Zenon
    <3>8. Height[Toward(x, c)] = Height[x] + 1
      BY <3>7, TreeAssumption, ZenonT(60)
    <3>9. Height[up[m]] = Height[b] + m
      BY <1>1, <3>1, <3>2, <3>4, <3>6, <3>8
    <3> QED
      BY <3>1, <3>4, <3>6, <3>7, <3>9, Zenon
  <2> HIDE DEF T
  <2> QED
    BY <1>1, <2>1, <2>2, UpTo, Zenon
<1>4. up[n] \in Anc[c] /\ Height[up[n]] = Height[c]
  <2>1. n \in 0..n
    BY <1>1
  <2>2. Right(n)
    BY <1>3, <2>1, ZenonT(60)
  <2> QED
    BY <1>1, <2>2
<1>5. up[n] = c
  BY <1>0, <1>4, ChainsNest
<1> QED
  BY <1>2, <1>5, Zenon

\* The blocks that a search starts from or finds: those of the best chains of
\* memory and of disk.
Reach == Anc[pindexBest] \cup Anc[db.best]

\* Where a search starts.
LEMMA SearchStart ==
    ASSUME TypeOK, pblockindexFBBHLast \in Reach \cup {NoBlock}, NEW h
    PROVE  SearchFrom(h) \in Reach
<1>1. pindexBest \in Block /\ Root \in Anc[pindexBest] /\ pindexBest \in Anc[pindexBest]
  BY OwnChain DEF TypeOK
<1> QED
  BY <1>1, Zenon DEF SearchFrom, Reach

\* A search finds a block of those chains, or runs into a null pointer.
LEMMA FindStays ==
    ASSUME TypeOK, pnext = LinksTo(db.best), NEW h \in Int,
           pblockindexFBBHLast \in Reach \cup {NoBlock}
    PROVE  FindBlockByHeight(h) \in Reach \cup {NoBlock}
<1> DEFINE g == IF h < Height[Root] THEN Height[Root] ELSE h
           from == SearchFrom(g)
<1>0. db.best \in Block /\ pindexBest \in Block /\ Height[Root] \in Nat
  BY TreeAssumption DEF TypeOK, ViewType
<1>1. g \in Int /\ Height[Root] <= g
  BY <1>0
<1>2. from \in Reach
  BY SearchStart, Zenon
<1>3. FindBlockByHeight(h) = IF Height[from] >= g THEN AtHeight(from, g)
                                                  ELSE Climb(from, g - Height[from])
  BY Zenon DEF FindBlockByHeight
<1> HIDE DEF from, g
<1>4. from \in Block /\ Height[from] \in Nat /\ Anc[from] \subseteq Reach
  BY <1>0, <1>2, OwnChain, ChainsNest, TreeAssumption, Zenon DEF Reach
<1>5. CASE Height[from] >= g
  <2>1. AtHeight(from, g) \in Anc[from]
    BY <1>1, <1>4, <1>5, ChainHeights, Zenon
  <2> QED
    BY <1>3, <1>4, <1>5, <2>1, Zenon
<1>6. CASE ~ (Height[from] >= g)
  <2>1. g - Height[from] \in Nat
    BY <1>1, <1>4, <1>6
  <2>2. Climb(from, g - Height[from]) \in Anc[db.best] \cup {from, NoBlock}
    BY <1>0, <1>4, <2>1, ClimbStays, Zenon
  <2> QED
    BY <1>2, <1>3, <1>6, <2>2, Zenon DEF Reach
<1> QED
  BY <1>5, <1>6, ZenonT(60)

\* A search for a block that both chains have finds it, wherever it starts.
LEMMA FindRight ==
    ASSUME TypeOK, pnext = LinksTo(db.best),
           pblockindexFBBHLast \in Reach \cup {NoBlock},
           NEW c \in Anc[pindexBest] \cap Anc[db.best]
    PROVE  FindBlockByHeight(Height[c]) = c
<1> DEFINE h == Height[c]
           from == SearchFrom(h)
<1>0. db.best \in Block /\ pindexBest \in Block /\ c \in Block
  BY OwnChain, Zenon DEF TypeOK, ViewType
<1>1. h \in Nat /\ Height[Root] \in Nat /\ Height[Root] <= h
  BY <1>0, OwnChain, ChainsNest, TreeAssumption, Zenon
<1>2. from \in Reach
  BY SearchStart, Zenon
<1>3. FindBlockByHeight(h) = IF Height[from] >= h THEN AtHeight(from, h)
                                                  ELSE Climb(from, h - Height[from])
  <2>1. ~ (h < Height[Root])
    BY <1>1
  <2> QED
    BY <2>1, Zenon DEF FindBlockByHeight
<1> HIDE DEF from
<1>4. from \in Block /\ Height[from] \in Nat
  BY <1>0, <1>2, OwnChain, TreeAssumption, Zenon DEF Reach
<1>5. PICK t \in {pindexBest, db.best} : from \in Anc[t]
  BY <1>2, Zenon DEF Reach
<1>6. CASE Height[from] >= h
  <2>1. c \in Anc[from]
    BY <1>0, <1>1, <1>4, <1>5, <1>6, ChainIsLinear
  <2> QED
    BY <1>3, <1>4, <1>6, <2>1, AtOwnHeight, Zenon
<1>7. CASE ~ (Height[from] >= h)
  <2>1. Height[from] <= Height[c]
    BY <1>1, <1>4, <1>7
  <2>2. from \in Anc[c]
    BY <1>0, <1>5, <2>1, ChainIsLinear, Zenon
  <2>3. Climb(from, h - Height[from]) = c
    BY <1>0, <2>2, ClimbReaches, Zenon
  <2> QED
    BY <1>3, <1>7, <2>3, Zenon
<1> QED
  BY <1>6, <1>7, Zenon

\* While the blocks after the first are connected, the new chain has more trust
\* than the best block that memory still has.
FurtherAhead ==
    boot = "run" /\ call.op = "further" => ChainTrust[call.at] > ChainTrust[pindexBest]

\* The block found last is on a best chain, and so is the block that a search
\* without cs_main has come to.
CacheOnChain == ~ stray => pblockindexFBBHLast \in Reach \cup {NoBlock}
SearchOnChain == search # NoSearch /\ ~ search.lost => search.at \in Reach
LookupInv ==
    damage = "none" =>
        /\ search = [at |-> search.at, height |-> search.height, lost |-> search.lost]
        /\ CacheOnChain /\ SearchOnChain

\* FurtherAhead begins with the commit of a reorganisation and goes on with
\* every block on top.
LEMMA FurtherStep ==
    TypeInv /\ BestInv /\ FurtherAhead /\ [Next]_vars => FurtherAhead'
<1> SUFFICES ASSUME TypeOK, CallOnTree, Authorised, FurtherAhead, [Next]_vars,
                    call'.op = "further", boot' = "run"
             PROVE  ChainTrust[call'.at] > ChainTrust[pindexBest']
  BY DEF TypeInv, BestInv, FurtherAhead
<1>0. /\ call \in CallType /\ pindexBest \in Block /\ Idle.op = "idle"
      /\ call.new \in Block /\ call.mid \in Block /\ call.at \in Block
      /\ \A b : SetBestChain(b).op \in {"extend", "reorganize"}
  BY DEF TypeOK, CallType, Idle, SetBestChain
<1>1. CASE CommitReorganize
  <2>1. /\ call.op = "connect" /\ call.at = call.mid /\ boot = boot'
        /\ pindexBest' = pindexBest
        /\ call' = Idle \/ call' = [call EXCEPT !.op = "further"]
    BY <1>1 DEF CommitReorganize, AbortReorganize
  <2>2. call'.at = call.mid
    BY <1>0, <2>1, ZenonT(60) DEF CallType
  <2> QED
    BY <2>1, <2>2 DEF Authorised
<1>2. CASE ConnectFurther
  <2> DEFINE b == Toward(call.at, call.new)
  <2>1. /\ call.op = "further" /\ b \in Block /\ b # Root /\ Prev[b] = call.at
        /\ pindexBest' = pindexBest /\ boot = boot'
    BY <1>0, <1>2, TowardOnChain DEF ConnectFurther, CallOnTree
  <2>2. \/ call' = [call EXCEPT !.at = b]
        \/ call' = [call EXCEPT !.op = "finish"]
    BY <1>2 DEF ConnectFurther
  <2> HIDE DEF b
  <2>3. call'.at = b
    BY <1>0, <2>1, <2>2, Zenon DEF CallType
  <2>4. ChainTrust[b] > ChainTrust[call.at] /\ ChainTrust[call.at] > ChainTrust[pindexBest]
    BY <2>1, TrustAssumption, Zenon DEF FurtherAhead
  <2>5. /\ ChainTrust[b] \in Nat /\ ChainTrust[call.at] \in Nat
        /\ ChainTrust[pindexBest] \in Nat
    BY <1>0, <2>1, TrustAssumption, Zenon
  <2> QED
    BY <2>1, <2>3, <2>4, <2>5
<1>3. CASE UNCHANGED <<call, boot, pindexBest>>
  BY <1>3 DEF FurtherAhead
<1>4. CASE ExtendChain \/ Reorganize \/ DisconnectBlock \/ DisconnectDone
           \/ ConnectBlock \/ NewBestBlock
  BY <1>0, <1>4, ZenonT(30) DEF ExtendChain, Reorganize, DisconnectBlock, DisconnectDone,
                    ConnectBlock, NewBestBlock, AbortReorganize, CallType
<1>5. CASE Restart \/ VerifyBlocks \/ FinishInit
  BY <1>0, <1>5 DEF Restart, VerifyBlocks, FinishInit
<1>6. ASSUME NEW b \in Block \ {Root}, NEW demi \in BOOLEAN, AcceptBlock(b, demi)
      PROVE  FALSE
  BY <1>0, <1>6, Zenon DEF AcceptBlock
<1>7. ASSUME NEW h \in RollbackHeights, BackToBlock(h)
      PROVE  FALSE
  BY <1>0, <1>7, Zenon DEF BackToBlock
<1>8. CASE CreateNewBlock \/ (\E demi \in BOOLEAN : RefuseBlock(demi)) \/ UNCHANGED vars
  BY <1>3, <1>8, Zenon DEF CreateNewBlock, RefuseBlock, vars
<1> QED
  BY <1>1, <1>2, <1>4, <1>5, <1>6, <1>7, <1>8, Zenon DEF Next, SetBestChainStep

\* The chains that a search may use only grow, until the new best block is
\* published or the process stops.
LEMMA ReachGrows ==
    ASSUME TypeInv, TxInv, BestInv, damage' = "none",
           \/ ExtendChain \/ ConnectBlock \/ ConnectFurther
           \/ \E b \in Block \ {Root}, demi \in BOOLEAN : AcceptBlock(b, demi)
           \/ \E demi \in BOOLEAN : RefuseBlock(demi)
           \/ CreateNewBlock
           \/ Reorganize \/ DisconnectBlock \/ DisconnectDone \/ CommitReorganize
           \/ VerifyBlocks \/ FinishInit
           \/ \E h \in RollbackHeights : BackToBlock(h)
           \/ UNCHANGED vars
    PROVE  damage = "none" /\ Reach \subseteq Reach'
<1>0. [Next]_vars /\ TypeOK
  BY DEF Next, SetBestChainStep, TypeInv
<1>1. pindexBest' = pindexBest /\ damage = "none"
  <2>1. CASE ExtendChain \/ ConnectFurther
    BY <1>0, <2>1, Zenon DEF ExtendChain, ConnectFurther, Attached, Committed, TypeOK
  <2>2. CASE ConnectBlock \/ Reorganize \/ DisconnectBlock \/ DisconnectDone
             \/ VerifyBlocks \/ FinishInit \/ CreateNewBlock \/ UNCHANGED vars
    BY <2>2, Zenon DEF ConnectBlock, Reorganize, DisconnectBlock, DisconnectDone,
                VerifyBlocks, FinishInit, CreateNewBlock, vars
  <2>3. CASE CommitReorganize
    BY <1>0, <2>3, Zenon DEF CommitReorganize, Committed, TypeOK
  <2>4. CASE \/ \E b \in Block \ {Root}, demi \in BOOLEAN : AcceptBlock(b, demi)
             \/ \E demi \in BOOLEAN : RefuseBlock(demi)
             \/ \E h \in RollbackHeights : BackToBlock(h)
    BY <2>4, ZenonT(30) DEF AcceptBlock, RefuseBlock, BackToBlock
  <2> QED
    BY <2>1, <2>2, <2>3, <2>4, Zenon
<1>2. CASE TipStays \/ Recorded
  BY <1>1, <1>2, Zenon DEF TipStays, Recorded, Reach
<1>3. CASE OnTop
  <2>1. db'.best \in Block /\ db'.best # Root /\ Prev[db'.best] = db.best
    BY <1>0, <1>1, <1>3, ZenonT(30) DEF OnTop, TypeOK, ViewType
  <2>2. Anc[db.best] \subseteq Anc[db'.best]
    BY <2>1, ParentChain, Zenon
  <2> QED
    BY <1>1, <2>2 DEF Reach
<1>4. CASE Switched
  BY <1>1, <1>4, Zenon DEF Switched, TxInv, Reach
<1> QED
  BY <1>0, <1>1, <1>2, <1>3, <1>4, TipMoves, Zenon

\* The caches only watch the chain state.
LEMMA LookupsWatch == LookupSpec => Spec
<1>1. LookupInit => Init
  BY DEF LookupInit
<1>2. [LookupNext]_lookupVars => [Next]_vars
  <2> SUFFICES ASSUME [LookupNext]_lookupVars
               PROVE  [Next]_vars
    OBVIOUS
  <2>1. CASE ConnectStep
    BY <2>1, Zenon DEF ConnectStep, Connecting, Next, SetBestChainStep
  <2>2. CASE PublishBest
    BY <2>2 DEF PublishBest, Next, SetBestChainStep
  <2>3. CASE LookupOtherStep
    BY <2>3 DEF LookupOtherStep, Next, SetBestChainStep
  <2>4. CASE Restart /\ CachesLost
    BY <2>4 DEF Next
  <2>5. CASE \E b \in Block : Query(Height[b])
    BY <2>5 DEF Query, Next
  <2>6. CASE \E b \in Confirming : BeginSearch(Height[b])
    BY <2>6, Zenon DEF BeginSearch
  <2>7. CASE ClimbSearch
    BY <2>7, Zenon DEF ClimbSearch, Next
  <2>8. CASE EndSearch \/ UNCHANGED lookupVars
    BY <2>8, Zenon DEF EndSearch, lookupVars
  <2> QED
    BY <2>1, <2>2, <2>3, <2>4, <2>5, <2>6, <2>7, <2>8, Zenon DEF LookupNext
<1> QED
  BY <1>1, <1>2, PTL DEF LookupSpec, Spec

\* What a step leaves alone stays on the chains while they grow.
LEMMA LookupKept ==
    ASSUME LookupInv, damage = "none", Reach \subseteq Reach', UNCHANGED search,
           CacheOnChain'
    PROVE  LookupInv'
  BY Zenon DEF LookupInv, SearchOnChain

\* The search without cs_main keeps to the best chains, whatever happens to
\* them, until a chain is published that its block is not on.
LEMMA SearchStep ==
    ASSUME TypeInv, TxInv, BestInv, MemoryInv, LookupInv, damage' = "none",
           (\E b \in Confirming : BeginSearch(Height[b])) \/ ClimbSearch \/ EndSearch
    PROVE  LookupInv'
<1>0. TypeOK /\ db.best \in Block /\ pindexBest \in Block
  BY Zenon DEF TypeInv, TypeOK, ViewType
<1>1. CASE CachesLost
  BY <1>1, Zenon DEF CachesLost, LookupInv, CacheOnChain, SearchOnChain, NoSearch
<1>2. CASE UNCHANGED vars
  <2>1. damage = "none" /\ Reach' = Reach
    BY <1>2, Zenon DEF vars, Reach
  <2>2. CacheOnChain /\ SearchOnChain
    BY <2>1, Zenon DEF LookupInv
  <2>3. ASSUME NEW b \in Confirming, BeginSearch(Height[b])
        PROVE  LookupInv'
    <3> DEFINE h == Height[b]
    <3>1. PICK from \in {Root, pindexBest, pblockindexFBBHLast} \ {NoBlock} :
              search' = [at |-> IF Height[from] >= h THEN AtHeight(from, h) ELSE from,
                         height |-> h, lost |-> stray /\ from = pblockindexFBBHLast]
      BY <2>3, Zenon DEF BeginSearch
    <3>2. UNCHANGED cacheVars
      BY <2>3, Zenon DEF BeginSearch
    <3>3. h \in Int /\ Height[Root] <= h
      <4>1. b \in Block
        BY LookupAssumption, Zenon
      <4>2. Root \in Anc[b] /\ Height[b] \in Nat /\ Height[Root] \in Nat
        BY <4>1, OwnChain, TreeAssumption, Zenon
      <4> QED
        BY <4>1, <4>2, ChainsNest
    <3> HIDE DEF h
    <3>4. ASSUME from \in Reach
          PROVE  search'.at \in Reach
      <4>1. from \in Block /\ Height[from] \in Nat /\ Anc[from] \subseteq Reach
        BY <1>0, <3>4, OwnChain, ChainsNest, TreeAssumption, Zenon DEF Reach
      <4>2. Height[from] >= h => AtHeight(from, h) \in Anc[from]
        BY <3>3, <4>1, ChainHeights, Zenon
      <4> QED
        BY <3>1, <3>4, <4>1, <4>2, Zenon
    <3>5. Root \in Reach /\ pindexBest \in Reach
      BY <1>0, OwnChain, Zenon DEF Reach
    <3>6. ~ search'.lost => from \in Reach
      BY <2>2, <3>1, <3>5, Zenon DEF CacheOnChain
    <3>7. CacheOnChain' /\ SearchOnChain'
      BY <2>1, <2>2, <3>2, <3>4, <3>6, Zenon DEF cacheVars, CacheOnChain, SearchOnChain
    <3> QED
      BY <3>1, <3>7, Zenon DEF LookupInv
  <2>4. CASE ClimbSearch /\ ~ CachesLost
    <3>1. /\ search # NoSearch /\ pnext[search.at] # NoBlock
          /\ search' = [search EXCEPT !.at = pnext[search.at]]
          /\ UNCHANGED cacheVars
      BY <2>4, Zenon DEF ClimbSearch
    <3>2. /\ search'.at = pnext[search.at] /\ search'.lost = search.lost
          /\ search' = [at |-> search'.at, height |-> search'.height,
                        lost |-> search'.lost]
      BY <2>1, <3>1 DEF LookupInv
    <3>3. ~ search.lost => pnext[search.at] \in Reach
      <4>1. ~ search.lost => search.at \in Block
        BY <1>0, <2>2, <3>1, OwnChain, Zenon DEF SearchOnChain, Reach
      <4>2. pnext = LinksTo(db.best)
        BY <2>1, Zenon DEF MemoryInv
      <4> QED
        BY <1>0, <3>1, <4>1, <4>2, LinksOnChain, Zenon DEF Reach
    <3>4. CacheOnChain' /\ SearchOnChain'
      BY <2>1, <2>2, <3>1, <3>2, <3>3, Zenon DEF cacheVars, CacheOnChain, SearchOnChain
    <3> QED
      BY <3>2, <3>4, Zenon DEF LookupInv
  <2>5. CASE EndSearch
    <3>1. search' = NoSearch /\ search # NoSearch
      BY <2>5, Zenon DEF EndSearch
    <3>2. CASE pblockindexFBBHLast' = search.at /\ stray' = search.lost
      BY <2>1, <2>2, <3>1, <3>2, Zenon DEF CacheOnChain, SearchOnChain, LookupInv, NoSearch
    <3>3. CASE UNCHANGED <<pblockindexFBBHLast, stray>>
      BY <2>1, <2>2, <3>1, <3>3, Zenon DEF CacheOnChain, SearchOnChain, LookupInv, NoSearch
    <3> QED
      BY <2>5, <3>2, <3>3, Zenon DEF EndSearch
  <2> QED
    BY <1>1, <2>3, <2>4, <2>5, Zenon
<1> QED
  BY <1>1, <1>2, Zenon DEF BeginSearch, ClimbSearch, EndSearch

\* Whatever is searched for, the block found last stays on a best chain.
LEMMA LookupStep ==
    TypeInv /\ TxInv /\ BestInv /\ MemoryInv /\ LookupInv /\ [LookupNext]_lookupVars
        => LookupInv'
<1> SUFFICES ASSUME TypeInv, TxInv, BestInv, MemoryInv, LookupInv,
                    [LookupNext]_lookupVars, damage' = "none"
             PROVE  LookupInv'
  BY DEF LookupInv
<1>0. TypeOK /\ CallOnTree
  BY Zenon DEF TypeInv
<1>f. ASSUME damage = "none", ~ stray, NEW h \in Int
      PROVE  FindBlockByHeight(h) \in Reach \cup {NoBlock}
  BY <1>0, <1>f, FindStays DEF MemoryInv, LookupInv, CacheOnChain
<1>1. CASE CachesLost
  BY <1>1, Zenon DEF CachesLost, LookupInv, CacheOnChain, SearchOnChain, NoSearch
<1>2. ASSUME NEW b \in Block, NEW step, Connecting(b, step),
             step => ExtendChain \/ ConnectBlock \/ ConnectFurther
      PROVE  LookupInv'
  <2>1. Height[b] - NUM_BLOCKS_FOR_MEDIAN_BLOCK \in Int
    BY TreeAssumption, LookupAssumption
  <2>2. CASE /\ step /\ UNCHANGED <<search, stray>>
             /\ \/ pblockindexFBBHLast' = pblockindexFBBHLast
                \/ pblockindexFBBHLast' = Oldest(b)
    <3>1. damage = "none" /\ Reach \subseteq Reach'
      BY <1>2, <2>2, ReachGrows, Zenon
    <3>2. ~ stray => Oldest(b) \in Reach \cup {NoBlock}
      BY <1>f, <2>1, <3>1, Zenon DEF Oldest
    <3>3. CacheOnChain'
      BY <2>2, <3>1, <3>2, Zenon DEF LookupInv, CacheOnChain
    <3> QED
      BY <2>2, <3>1, <3>3, LookupKept, Zenon
  <2> QED
    BY <1>1, <1>2, <2>2, Zenon DEF Connecting, ComputeBlockSize, cacheVars
<1>3. CASE ConnectStep
  <2>1. CASE call.op = "extend" /\ Connecting(call.new, ExtendChain)
    BY <1>0, <1>2, <2>1, Zenon DEF TypeOK, CallType
  <2>2. CASE /\ call.op = "connect" /\ call.at # call.mid
             /\ Connecting(Toward(call.at, call.mid), ConnectBlock)
    <3>1. Toward(call.at, call.mid) \in Block
      BY <1>0, <2>2, TowardOnChain, Zenon DEF TypeOK, CallType, CallOnTree
    <3> QED
      BY <1>2, <2>2, <3>1
  <2>3. CASE /\ call.op = "further" /\ call.at # call.new
             /\ Connecting(Toward(call.at, call.new), ConnectFurther)
    <3>1. Toward(call.at, call.new) \in Block
      BY <1>0, <2>3, TowardOnChain, Zenon DEF TypeOK, CallType, CallOnTree
    <3> QED
      BY <1>2, <2>3, <3>1
  <2> QED
    BY <1>3, <2>1, <2>2, <2>3, Zenon DEF ConnectStep
<1>4. CASE PublishBest
  <2>1. /\ damage = "none" /\ Anc[call.new] \subseteq Reach'
    BY <1>4, Zenon DEF PublishBest, NewBestBlock, Reach
  <2>2. CacheOnChain'
    BY <1>4, Zenon DEF PublishBest, CacheOnChain
  <2>3. CASE search = NoSearch
    BY <1>4, <2>2, <2>3, Zenon DEF PublishBest, SearchOvertaken, LookupInv, SearchOnChain,
                                   NoSearch
  <2>4. CASE search # NoSearch
    <3>1. search' = [search EXCEPT !.lost = search.at \notin Anc[call.new]]
      BY <1>4, <2>4, Zenon DEF PublishBest, SearchOvertaken
    <3>2. /\ search'.at = search.at /\ search'.lost = (search.at \notin Anc[call.new])
          /\ search' = [at |-> search'.at, height |-> search'.height,
                        lost |-> search'.lost]
      BY <2>1, <3>1 DEF LookupInv
    <3> QED
      BY <2>1, <2>2, <3>2, Zenon DEF LookupInv, SearchOnChain
  <2> QED
    BY <2>3, <2>4, Zenon
<1>5. CASE LookupOtherStep \/ UNCHANGED lookupVars
  <2>1. damage = "none" /\ Reach \subseteq Reach'
    BY <1>5, ReachGrows, Zenon DEF LookupOtherStep, lookupVars
  <2>2. UNCHANGED <<pblockindexFBBHLast, stray, search>>
    BY <1>5, Zenon DEF LookupOtherStep, lookupVars, cacheVars
  <2>3. CacheOnChain'
    BY <2>1, <2>2, Zenon DEF LookupInv, CacheOnChain
  <2> QED
    BY <2>1, <2>2, <2>3, LookupKept, Zenon
<1>6. ASSUME NEW b \in Block, Query(Height[b])
      PROVE  LookupInv'
  <2>1. CASE /\ pblockindexFBBHLast' = FindBlockByHeight(Height[b])
             /\ UNCHANGED <<vars, blocksizes, stray, search>>
    <3>1. damage = "none" /\ Reach \subseteq Reach'
      BY <2>1, ReachGrows, Zenon
    <3>2. Height[b] \in Int
      BY TreeAssumption
    <3>3. CacheOnChain'
      BY <1>f, <2>1, <3>1, <3>2, Zenon DEF CacheOnChain
    <3> QED
      BY <2>1, <3>1, <3>3, LookupKept, Zenon
  <2> QED
    BY <1>1, <1>6, <2>1, Zenon DEF Query
<1> QED
  BY <1>1, <1>3, <1>4, <1>5, <1>6, SearchStep, Zenon DEF LookupNext

\* For every block tree, size of window and search before it: FindBlockByHeight
\* finds the block of the best chain at each height; in the middle of a
\* reorganisation, at each height up to the fork. Searches without cs_main may
\* run at any time; only one that SetBestChain leaves behind is excepted.
THEOREM SearchIsRight == LookupSpec => []FindsMainChain
<1>1. LookupInit => FurtherAhead /\ LookupInv
  BY DEF LookupInit, Init, Idle, FurtherAhead, LookupInv, CacheOnChain, SearchOnChain,
         NoSearch
<1>2. /\ TypeInv /\ TxInv /\ BestInv /\ MemoryInv /\ FurtherAhead /\ LookupInv
      => FindsMainChain
  <2> SUFFICES ASSUME TypeInv, TxInv, BestInv, MemoryInv, FurtherAhead, LookupInv,
                      damage = "none", ~ stray
               PROVE  \A b \in Anc[IF call.op \in {"disconnect", "connect", "further",
                                                   "finish"}
                                   THEN Fork(pindexBest, call.new) ELSE pindexBest] :
                          FindBlockByHeight(Height[b]) = b
    BY DEF FindsMainChain
  <2>0. /\ TypeOK /\ CallOnTree /\ pindexBest \in Block /\ call.new \in Block
        /\ call.at \in Block /\ call.op \in {"idle", "extend", "reorganize",
                  "disconnect", "connect", "further", "finish"}
    BY Zenon DEF TypeInv, TypeOK, CallType
  <2> DEFINE f == Fork(pindexBest, call.new)
  <2>1. \A b \in Anc[pindexBest] \cap Anc[db.best] : FindBlockByHeight(Height[b]) = b
    BY <2>0, FindRight, Zenon DEF MemoryInv, LookupInv, CacheOnChain
  <2>2. /\ f \in Anc[pindexBest] /\ f \in Anc[call.new] /\ f \in Block
        /\ Anc[f] \subseteq Anc[pindexBest] /\ Anc[f] \subseteq Anc[call.new]
    <3>1. f \in Anc[pindexBest] /\ f \in Anc[call.new]
      BY <2>0, ForkOnBoth, Zenon
    <3> HIDE DEF f
    <3> QED
      BY <2>0, <3>1, OwnChain, ChainsNest, Zenon
  <2> HIDE DEF f
  <2>3. CASE call.op \notin {"further", "finish"}
    BY <2>0, <2>1, <2>2, <2>3, Zenon DEF TxInv, f
  <2>4. CASE call.op = "finish"
    BY <2>0, <2>1, <2>2, <2>4, Zenon DEF TxInv, f
  <2>5. CASE call.op = "further"
    <3>1. db.best = call.at /\ call.at \in Anc[call.new]
      BY <2>0, <2>5 DEF TxInv, CallOnTree
    <3>2. f \in Anc[call.at]
      <4>1. CASE boot # "run"
        BY <2>2, <2>5, <4>1, Zenon DEF BestInv, NotBehind
      <4>2. CASE boot = "run"
        <5>1. ChainTrust[call.at] > ChainTrust[pindexBest]
          BY <2>5, <4>2, Zenon DEF FurtherAhead
        <5>2. /\ Height[f] \in Nat /\ Height[call.at] \in Nat
              /\ ChainTrust[call.at] \in Nat /\ ChainTrust[pindexBest] \in Nat
          BY <2>0, <2>2, TreeAssumption, TrustAssumption, Zenon
        <5>3. call.at \notin Anc[f]
          <6>1. CASE call.at \in Anc[f]
            <7>1. call.at \in Anc[pindexBest]
              BY <2>2, <6>1, Zenon
            <7>2. ChainTrust[call.at] <= ChainTrust[pindexBest]
              BY <2>0, <7>1, TrustGrows, Zenon
            <7> QED
              BY <5>1, <5>2, <7>2
          <6> QED
            BY <6>1, Zenon
        <5>4. Height[f] <= Height[call.at]
          BY <2>0, <2>2, <3>1, <5>2, <5>3, ChainIsLinear
        <5> QED
          BY <2>0, <2>2, <3>1, <5>4, ChainIsLinear, Zenon
      <4> QED
        BY <4>1, <4>2, Zenon
    <3>3. Anc[f] \subseteq Anc[db.best]
      BY <2>0, <3>1, <3>2, ChainsNest, Zenon
    <3> QED
      BY <2>1, <2>2, <2>5, <3>3, Zenon DEF f
  <2> QED
    BY <2>0, <2>3, <2>4, <2>5, Zenon
<1>3. [LookupNext]_lookupVars /\ [Next]_vars /\ TypeInv /\ TxInv /\ BestInv
      /\ MemoryInv /\ FurtherAhead /\ LookupInv => (FurtherAhead /\ LookupInv)'
  BY FurtherStep, LookupStep
<1>4. LookupSpec => [][Next]_vars
  BY LookupsWatch, PTL DEF Spec
<1> QED
  BY <1>1, <1>2, <1>3, <1>4, LookupsWatch, AllInvariants, MemoryInvariant, PTL
     DEF LookupSpec

=============================================================================
