-------------------------- MODULE ChainStateProofs -------------------------
(***************************************************************************)
(* Proofs about ChainState, for every block tree: type correctness, and    *)
(* that the transaction index on disk describes exactly the chain of       *)
(* hashBestChain.                                                          *)
(***************************************************************************)
EXTENDS ChainState, NaturalLemmas

USE SMTT(30)

-----------------------------------------------------------------------------
(* The tree.                                                               *)

\* What is true of the chain of b, and passes from a chain to the next block's.
Nested(b) ==
    /\ Root \in Anc[b]
    /\ \A a \in Anc[b] : /\ Anc[a] \subseteq Anc[b]
                         /\ Height[a] <= Height[b]
                         /\ Height[a] = Height[b] => a = b
    /\ \A a \in Anc[b] \ {b} : \E c \in Anc[b] : Prev[c] = a

\* Chains are nested and go back to Root without a gap. By induction along
\* pprev: a lowest block whose chain is not so has a parent whose chain is.
LEMMA ChainsNest ==
    /\ Anc \in [Block -> SUBSET Block]
    /\ Anc[Root] = {Root}
    /\ \A b \in Block \ {Root} : Anc[b] = {b} \cup Anc[Prev[b]]
    /\ \A b \in Block : \A a \in Anc[b] :
            /\ Anc[a] \subseteq Anc[b]
            /\ Height[a] <= Height[b]
            /\ Height[a] = Height[b] => a = b
    /\ \A b \in Block : \A a \in Anc[b] \ {b} : \E c \in Anc[b] : Prev[c] = a
    /\ \A b \in Block : Root \in Anc[b]
<1> DEFINE T == {n \in Nat : \E b \in Block : Height[b] = n /\ ~ Nested(b)}
<1>1. T = {}
  <2> SUFFICES ASSUME T # {}
               PROVE  FALSE
    OBVIOUS
  <2>1. PICK n \in T : \A m \in T : n <= m
    <3>1. T \subseteq Nat
      OBVIOUS
    <3> HIDE DEF T
    <3> QED
      BY <3>1, LeastNatural, Zenon
  <2>2. PICK b \in Block : Height[b] = n /\ ~ Nested(b)
    BY <2>1, Zenon
  <2>3. Nested(Root)
    BY TreeAssumption, AncAssumption DEF Nested
  <2>4. b # Root
    BY <2>2, <2>3
  <2> DEFINE p == Prev[b]
  <2>5. /\ p \in Block /\ Height[b] = Height[p] + 1
        /\ Height[p] \in Nat /\ Height[b] \in Nat
        /\ Anc[b] = {b} \cup Anc[p]
    BY <2>4, TreeAssumption, AncAssumption
  <2>6. Nested(p)
    <3>1. Height[p] \notin T
      BY <2>1, <2>2, <2>5
    <3> QED
      BY <3>1, <2>5
  <2> HIDE DEF p
  <2>7. p \in Anc[p] /\ Anc[p] \subseteq Block
    <3>1. CASE p = Root
      BY <3>1, AncAssumption, TreeAssumption
    <3>2. CASE p # Root
      BY <3>2, <2>5, AncAssumption
    <3> QED
      BY <3>1, <3>2
  <2>8. ASSUME NEW a \in Anc[b]
        PROVE  /\ Anc[a] \subseteq Anc[b]
               /\ Height[a] <= Height[b]
               /\ Height[a] = Height[b] => a = b
    <3>1. CASE a = b
      BY <3>1, <2>5
    <3>2. CASE a \in Anc[p]
      <4>1. Anc[a] \subseteq Anc[p] /\ Height[a] <= Height[p] /\ Height[a] \in Nat
        BY <3>2, <2>6, <2>7, TreeAssumption DEF Nested
      <4> QED
        BY <4>1, <2>5
    <3> QED
      BY <3>1, <3>2, <2>5
  <2>9. ASSUME NEW a \in Anc[b], a # b
        PROVE  \E c \in Anc[b] : Prev[c] = a
    <3>1. CASE a = p
      BY <3>1, <2>5 DEF p
    <3>2. CASE a # p
      BY <3>2, <2>5, <2>6, <2>9 DEF Nested
    <3> QED
      BY <3>1, <3>2
  <2> QED
    BY <2>2, <2>5, <2>6, <2>8, <2>9 DEF Nested
<1>2. \A b \in Block : Nested(b)
  BY <1>1, TreeAssumption
<1> QED
  BY <1>2, AncAssumption DEF Nested

\* A block ends its own chain, and every block of the chain is a block.
LEMMA OwnChain ==
    ASSUME NEW b \in Block
    PROVE  b \in Anc[b] /\ Anc[b] \subseteq Block /\ Root \in Anc[b]
<1>1. CASE b = Root
  BY <1>1, TreeAssumption, ChainsNest
<1>2. CASE b # Root
  BY <1>2, ChainsNest
<1> QED
  BY <1>1, <1>2

\* Among some blocks of one chain there is a highest.
LEMMA HighestExists ==
    ASSUME NEW b \in Block, NEW S, S \subseteq Anc[b], S # {}
    PROVE  Highest(S) \in S /\ \A g \in S : Height[g] <= Height[Highest(S)]
<1> DEFINE T == {Height[b] - Height[a] : a \in S}
<1>1. \A a \in S : a \in Block /\ Height[a] \in Nat /\ Height[a] <= Height[b]
  BY OwnChain, ChainsNest, TreeAssumption
<1>2. Height[b] \in Nat
  BY TreeAssumption
<1>3. T \subseteq Nat /\ T # {}
  BY <1>1, <1>2
<1>4. PICK n \in T : \A m \in T : n <= m
  <2> HIDE DEF T
  <2> QED
    BY <1>3, LeastNatural
<1>5. PICK f \in S : n = Height[b] - Height[f]
  BY <1>4
<1>6. \A g \in S : Height[g] <= Height[f]
  <2> SUFFICES ASSUME NEW g \in S
               PROVE  Height[g] <= Height[f]
    OBVIOUS
  <2>1. n <= Height[b] - Height[g]
    BY <1>4
  <2> QED
    BY <2>1, <1>1, <1>2, <1>5
<1> QED
  BY <1>5, <1>6 DEF Highest

\* Below its end, a chain has a next block.
LEMMA TowardOnChain ==
    ASSUME NEW b \in Block, NEW a \in Anc[b], a # b
    PROVE  /\ Toward(a, b) \in Anc[b] /\ Toward(a, b) \in Block
           /\ Prev[Toward(a, b)] = a /\ Toward(a, b) # Root
<1>1. \E c \in Anc[b] : Prev[c] = a
  BY ChainsNest
<1>2. Toward(a, b) \in Anc[b] /\ Prev[Toward(a, b)] = a
  BY <1>1 DEF Toward
<1>3. a \in Block /\ Toward(a, b) \in Block
  BY <1>2, OwnChain
<1> QED
  BY <1>2, <1>3, TreeAssumption

\* What SetBestChain picks to reorganise to is on the new chain.
LEMMA IntermediateOnChain ==
    ASSUME NEW b \in Block
    PROVE  Intermediate(b) \in Anc[b]
<1> DEFINE S == {a \in Anc[b] :
                    a = Root \/ ChainTrust[Prev[a]] <= ChainTrust[pindexBest]}
<1>1. S \subseteq Anc[b] /\ Root \in S
  BY OwnChain
<1>2. Highest(S) \in S
  <2> HIDE DEF S
  <2> QED
    BY <1>1, HighestExists
<1> QED
  BY <1>2 DEF Intermediate

\* The fork of two chains is on both.
LEMMA ForkOnBoth ==
    ASSUME NEW a \in Block, NEW b \in Block
    PROVE  Fork(a, b) \in Anc[a] /\ Fork(a, b) \in Anc[b]
<1>1. Anc[a] \cap Anc[b] \subseteq Anc[a] /\ Root \in Anc[a] \cap Anc[b]
  BY OwnChain
<1>2. Highest(Anc[a] \cap Anc[b]) \in Anc[a] \cap Anc[b]
  BY <1>1, HighestExists
<1> QED
  BY <1>2 DEF Fork

\* A chain has a block at every height from Root's to its own.
LEMMA ChainHeights ==
    ASSUME NEW b \in Block, NEW h \in Int, Height[Root] <= h, h <= Height[b]
    PROVE  AtHeight(b, h) \in Anc[b] /\ Height[AtHeight(b, h)] = h
<1> DEFINE T == {n \in Nat : n >= h /\ \E a \in Anc[b] : Height[a] = n}
<1>1. Height[b] \in T
  BY OwnChain, TreeAssumption
<1>2. PICK n \in T : \A m \in T : n <= m
  <2>1. T \subseteq Nat /\ T # {}
    BY <1>1
  <2> HIDE DEF T
  <2> QED
    BY <2>1, LeastNatural, Zenon
<1>3. PICK a \in Anc[b] : Height[a] = n
  BY <1>2
<1>4. a \in Block
  BY OwnChain
<1>5. n = h
  <2> SUFFICES ASSUME n # h
               PROVE  FALSE
    OBVIOUS
  <2>1. n > h
    BY <1>2
  <2>2. a # Root
    BY <2>1, <1>3, TreeAssumption
  <2>3. Prev[a] \in Anc[a] /\ Prev[a] \in Block /\ Height[a] = Height[Prev[a]] + 1
    BY <2>2, <1>4, OwnChain, TreeAssumption, ChainsNest
  <2>4. Prev[a] \in Anc[b]
    BY <2>3, ChainsNest
  <2>5. Height[Prev[a]] \in Nat
    BY <2>3, TreeAssumption
  <2>6. Height[Prev[a]] \in T
    BY <2>1, <2>3, <2>4, <2>5, <1>3
  <2> QED
    BY <2>6, <2>3, <2>5, <1>2, <1>3
<1> QED
  BY <1>3, <1>5 DEF AtHeight

-----------------------------------------------------------------------------
(* Type correctness. It needs to know where a running SetBestChain stands  *)
(* in the tree, since each step follows pprev or a list made from it.      *)

CallOnTree ==
    /\ call.mid \in Anc[call.new]
    /\ call.op = "extend" => Prev[call.new] = pindexBest
    /\ call.op = "reorganize" => call.at = pindexBest
    /\ call.op = "disconnect" => /\ call.at \in Anc[pindexBest]
                                 /\ call.fork \in Anc[call.at]
                                 /\ call.fork \in Anc[call.mid]
    /\ call.op = "connect" => call.at \in Anc[call.mid]
    /\ call.op = "further" => call.at \in Anc[call.new]

TypeInv == TypeOK /\ CallOnTree

\* A transaction index stays one through ConnectBlock and DisconnectBlock.
LEMMA ViewsTyped ==
    ASSUME TypeOK, NEW v \in ViewType, NEW b \in Block, b # Root
    PROVE  /\ Connected(v, b) \in ViewType
           /\ Disconnected(v, b) \in ViewType
           /\ SupplyWith(b) \in [Block -> Int]
<1>1. Prev[b] \in Block /\ Minted[b] \in Int
  BY TreeAssumption, TxAssumption
<1>2. SupplyWith(b) \in [Block -> Int]
  BY <1>1 DEF SupplyWith, TypeOK
<1>3. TxsOf(b) \subseteq Tx
  BY TxAssumption DEF TxsOf
<1>4. \A o \in Outpoint : SpentIn(b, o) => SpenderIn(b, o) \in Tx
  BY <1>3, Zenon DEF SpentIn, SpenderIn
<1>5. Connected(v, b) \in ViewType
  BY <1>1, <1>2, <1>3, <1>4, Zenon DEF Connected, ViewType, TypeOK
<1>6. Disconnected(v, b) \in ViewType
  BY <1>1 DEF Disconnected, ViewType, TypeOK
<1> QED
  BY <1>2, <1>5, <1>6

\* SetBestChain starts on the tree.
LEMMA SetBestChainTyped ==
    ASSUME TypeOK, NEW b \in Block
    PROVE  /\ SetBestChain(b) \in CallType
           /\ SetBestChain(b).mid \in Anc[SetBestChain(b).new]
           /\ SetBestChain(b).op \in {"extend", "reorganize"}
           /\ SetBestChain(b).new = b
           /\ SetBestChain(b).op = "extend" => Prev[b] = pindexBest
           /\ SetBestChain(b).at = pindexBest
<1>1. Intermediate(b) \in Anc[b] /\ Intermediate(b) \in Block
  BY IntermediateOnChain, OwnChain
<1> QED
  BY <1>1, TreeAssumption, Zenon DEF SetBestChain, Idle, CallType, TypeOK

\* With no call running there is nothing to place.
LEMMA IdleOnTree ==
    /\ Idle \in CallType /\ Idle.mid \in Anc[Idle.new] /\ Idle.op = "idle"
BY TreeAssumption, ChainsNest DEF Idle, CallType

\* InvalidChainFound keeps nBestInvalidTrust a trust.
LEMMA InvalidTrustTyped ==
    ASSUME TypeOK, NEW b \in Block, InvalidChainFound(b)
    PROVE  nBestInvalidTrust' \in Nat
BY TrustAssumption DEF TypeOK, InvalidChainFound

\* The start from an empty database is well typed.
LEMMA TypeInit == Init => TypeInv
<1> SUFFICES ASSUME Init
             PROVE  TypeInv
  OBVIOUS
<1>1. TxsOf(Root) \subseteq Tx /\ Minted[Root] \in Int
  BY TreeAssumption, TxAssumption DEF TxsOf
<1>2. InitialDb \in ViewType
  BY <1>1, TreeAssumption DEF InitialDb, ViewType
<1>3. InitialDb.next \in [Block -> Block \cup {NoBlock}]
      /\ InitialDb.supply \in [Block -> Int]
  BY <1>2 DEF ViewType
<1>4. TypeOK
  BY <1>2, <1>3, IdleOnTree, TreeAssumption, Zenon DEF Init, TypeOK
<1>5. CallOnTree
  BY IdleOnTree DEF Init, CallOnTree
<1> QED
  BY <1>4, <1>5 DEF TypeInv

\* SetBestChainInner keeps the types, whether it attaches its block or not.
LEMMA AttachTyped ==
    ASSUME TypeOK, NEW b \in Block, b # Root, Attached(b) \/ NotAttached(b)
    PROVE  /\ nMoneySupply' \in [Block -> Int] /\ nBestInvalidTrust' \in Nat
           /\ db' \in ViewType /\ batch' \in ViewType
           /\ pnext' \in [Block -> Block \cup {NoBlock}]
           /\ refunded' \subseteq Block
<1>1. /\ Connected(db, b) \in ViewType
      /\ SupplyWith(b) \in [Block -> Int]
  BY ViewsTyped DEF TypeOK
<1>2. Prev[b] \in Block
  BY TreeAssumption
<1>3. CASE Attached(b)
  <2>1. [Connected(db, b) EXCEPT !.best = b] \in ViewType
    BY <1>1 DEF ViewType
  <2> QED
    BY <1>1, <1>2, <1>3, <2>1 DEF Attached, Respend, TypeOK
<1>4. CASE NotAttached(b)
  <2>1. nBestInvalidTrust' \in Nat
    BY <1>4, InvalidTrustTyped DEF NotAttached, TypeOK
  <2> QED
    BY <1>1, <1>4, <2>1 DEF NotAttached, Respend, TypeOK
<1> QED
  BY <1>3, <1>4

\* Each step of SetBestChain keeps the types and its own place in the tree.
LEMMA TypeCallStep == TypeInv /\ SetBestChainStep => TypeInv'
<1> SUFFICES ASSUME TypeOK, CallOnTree, SetBestChainStep
             PROVE  TypeOK' /\ CallOnTree'
  BY DEF TypeInv
<1>0. /\ call \in CallType /\ pindexBest \in Block
      /\ call.new \in Block /\ call.mid \in Block /\ call.at \in Block
      /\ call.fork \in Block
  BY DEF TypeOK, CallType
<1>1. CASE ExtendChain
  <2>1. call.new # Root
    BY <1>0, <1>1, TreeAssumption DEF ExtendChain, CallOnTree
  <2>2. Attached(call.new) \/ NotAttached(call.new)
    BY <1>1 DEF ExtendChain
  <2>3. damage' \in {"none", "memory", "disk"}
    BY <1>1 DEF ExtendChain, Attached, Committed, TypeOK
  <2>4. call' \in CallType /\ call'.mid \in Anc[call'.new]
        /\ call'.op \in {"idle", "finish"}
    BY <1>0, <1>1, IdleOnTree DEF ExtendChain, CallType, CallOnTree
  <2>5. TypeOK'
    BY <1>0, <1>1, <2>1, <2>2, <2>3, <2>4, AttachTyped DEF ExtendChain, TypeOK
  <2> QED
    BY <2>4, <2>5 DEF CallOnTree
<1>2. CASE Reorganize
  <2>1. /\ Fork(pindexBest, call.mid) \in Anc[pindexBest]
        /\ Fork(pindexBest, call.mid) \in Anc[call.mid]
        /\ Fork(pindexBest, call.mid) \in Block
    BY <1>0, ForkOnBoth, OwnChain, Zenon
  <2>2. CASE call' = Idle
    <3>1. nBestInvalidTrust' \in Nat
      BY <1>0, <1>2, InvalidTrustTyped DEF Reorganize, AbortReorganize, TypeOK
    <3> QED
      BY <1>2, <2>2, <3>1, IdleOnTree, Zenon
      DEF Reorganize, AbortReorganize, TypeOK, CallOnTree
  <2>3. CASE call' = [call EXCEPT !.op = "disconnect",
                                  !.fork = Fork(pindexBest, call.mid),
                                  !.rollback = fRollbacktoBlock]
             /\ UNCHANGED <<batch, nBestInvalidTrust>>
    <3>1. call' \in CallType
      BY <1>0, <2>1, <2>3, Zenon DEF CallType, TypeOK
    <3>2. CallOnTree'
      BY <1>0, <1>2, <2>1, <2>3, OwnChain DEF Reorganize, CallType, CallOnTree
    <3> QED
      BY <1>2, <2>3, <3>1, <3>2, Zenon DEF Reorganize, TypeOK
  <2> QED
    BY <1>2, <2>2, <2>3 DEF Reorganize, AbortReorganize
<1>3. CASE DisconnectBlock
  <2>1. /\ call.op = "disconnect" /\ call.at # call.fork
        /\ call.at \in Anc[pindexBest] /\ call.fork \in Anc[call.at]
        /\ call.fork \in Anc[call.mid]
    BY <1>3 DEF DisconnectBlock, CallOnTree
  <2>2. call.at # Root
    BY <2>1, ChainsNest
  <2>3. /\ Prev[call.at] \in Block /\ Prev[call.at] \in Anc[pindexBest]
        /\ call.fork \in Anc[Prev[call.at]]
    <3>1. Prev[call.at] \in Block /\ Anc[call.at] = {call.at} \cup Anc[Prev[call.at]]
      BY <1>0, <2>2, TreeAssumption, ChainsNest, Zenon
    <3>2. Prev[call.at] \in Anc[call.at]
      BY <3>1, OwnChain
    <3> QED
      BY <1>0, <2>1, <3>1, <3>2, ChainsNest
  <2>4. CASE call' = Idle
    <3>1. nBestInvalidTrust' \in Nat
      BY <1>0, <1>3, InvalidTrustTyped DEF DisconnectBlock, AbortReorganize, TypeOK
    <3>2. refunded' \subseteq Block /\ batch' \in ViewType
      BY <1>0, <1>3, <2>2, ViewsTyped DEF DisconnectBlock, AbortReorganize, Refund, TypeOK
    <3> QED
      BY <1>3, <2>4, <3>1, <3>2, IdleOnTree DEF DisconnectBlock, TypeOK, CallOnTree
  <2>5. CASE /\ batch' = Disconnected(batch, call.at)
             /\ refunded' = Refund(call.at)
             /\ call' = [call EXCEPT !.at = Prev[call.at]]
             /\ UNCHANGED nBestInvalidTrust
    <3>1. call' \in CallType /\ CallOnTree'
      BY <1>0, <1>3, <2>1, <2>3, <2>5 DEF DisconnectBlock, CallType, CallOnTree
    <3>2. batch' \in ViewType /\ refunded' \subseteq Block
      BY <1>0, <2>2, <2>5, ViewsTyped DEF Refund, TypeOK
    <3> QED
      BY <1>3, <2>5, <3>1, <3>2 DEF DisconnectBlock, TypeOK
  <2> QED
    BY <1>3, <2>4, <2>5 DEF DisconnectBlock, AbortReorganize
<1>4. CASE DisconnectDone
  <2>1. call' \in CallType /\ CallOnTree'
    BY <1>0, <1>4 DEF DisconnectDone, CallType, CallOnTree
  <2> QED
    BY <1>4, <2>1 DEF DisconnectDone, TypeOK
<1>5. CASE ConnectBlock
  <2> DEFINE b == Toward(call.at, call.mid)
  <2>1. /\ call.op = "connect" /\ call.at # call.mid
        /\ b \in Anc[call.mid] /\ b \in Block /\ b # Root
    BY <1>0, <1>5, TowardOnChain DEF ConnectBlock, CallOnTree
  <2>2. /\ nMoneySupply' \in [Block -> Int] /\ refunded' \subseteq Block
    BY <1>0, <1>5, <2>1, ViewsTyped DEF ConnectBlock, Respend, TypeOK
  <2>3. CASE AbortReorganize
    <3>1. nBestInvalidTrust' \in Nat
      BY <1>0, <2>3, InvalidTrustTyped DEF AbortReorganize
    <3> QED
      BY <1>5, <2>2, <2>3, <3>1, IdleOnTree
      DEF ConnectBlock, AbortReorganize, TypeOK, CallOnTree
  <2>4. CASE /\ batch' = Connected(batch, b)
             /\ call' = [call EXCEPT !.at = b]
             /\ UNCHANGED nBestInvalidTrust
    <3> HIDE DEF b
    <3>1. call' \in CallType /\ CallOnTree'
      BY <1>0, <2>1, <2>4 DEF CallType, CallOnTree
    <3>2. batch' \in ViewType
      BY <2>1, <2>4, ViewsTyped DEF TypeOK
    <3> QED
      BY <1>5, <2>2, <2>4, <3>1, <3>2 DEF ConnectBlock, TypeOK
  <2> QED
    BY <1>5, <2>3, <2>4 DEF ConnectBlock
<1>6. CASE CommitReorganize
  <2>1. call.op = "connect" /\ call.at = call.mid
    BY <1>6 DEF CommitReorganize
  <2>2. CASE AbortReorganize /\ UNCHANGED <<db, pnext, damage>>
    <3>1. nBestInvalidTrust' \in Nat
      BY <1>0, <2>2, InvalidTrustTyped DEF AbortReorganize
    <3> QED
      BY <1>6, <2>2, <3>1, IdleOnTree
      DEF CommitReorganize, AbortReorganize, TypeOK, CallOnTree
  <2>3. CASE call' = [call EXCEPT !.op = "further"]
             /\ UNCHANGED nBestInvalidTrust
             /\ db' = [batch EXCEPT !.best = call.mid] /\ batch' = db'
             /\ damage' = Committed
             /\ pnext' = [a \in Block |->
                    IF a \in Anc[call.mid] \ {call.mid} /\ call.fork \in Anc[a]
                    THEN Toward(a, call.mid)
                    ELSE IF a \in Anc[pindexBest] \ {pindexBest} /\ call.fork \in Anc[a]
                    THEN NoBlock ELSE pnext[a]]
    <3>1. call' \in CallType /\ CallOnTree'
      BY <1>0, <2>1, <2>3 DEF CallType, CallOnTree
    <3>2. db' \in ViewType /\ damage' \in {"none", "memory", "disk"}
      BY <1>0, <2>3, Zenon DEF ViewType, TypeOK, Committed
    <3>3. pnext' \in [Block -> Block \cup {NoBlock}]
      <4>1. \A a \in Anc[call.mid] \ {call.mid} : Toward(a, call.mid) \in Block
        BY <1>0, TowardOnChain
      <4> QED
        BY <2>3, <4>1 DEF TypeOK
    <3> QED
      BY <1>6, <2>3, <3>1, <3>2, <3>3 DEF CommitReorganize, TypeOK
  <2> QED
    BY <1>6, <2>2, <2>3 DEF CommitReorganize
<1>7. CASE ConnectFurther
  <2> DEFINE b == Toward(call.at, call.new)
  <2>1. /\ call.op = "further" /\ call.at # call.new
        /\ b \in Anc[call.new] /\ b \in Block /\ b # Root
    BY <1>0, <1>7, TowardOnChain DEF ConnectFurther, CallOnTree
  <2>2. /\ nMoneySupply' \in [Block -> Int] /\ nBestInvalidTrust' \in Nat
        /\ db' \in ViewType /\ batch' \in ViewType
        /\ pnext' \in [Block -> Block \cup {NoBlock}]
        /\ refunded' \subseteq Block
    <3>1. CASE Attached(b) \/ NotAttached(b)
      <4> HIDE DEF b
      <4> QED
        BY <2>1, <3>1, AttachTyped
    <3>2. CASE UNCHANGED <<nMoneySupply, refunded, db, batch, pnext, nBestInvalidTrust>>
      BY <3>2 DEF TypeOK
    <3> QED
      BY <1>7, <3>1, <3>2 DEF ConnectFurther
  <2>3. damage' \in {"none", "memory", "disk"}
    BY <1>7 DEF ConnectFurther, Attached, Committed, TypeOK
  <2>4. call' \in CallType /\ CallOnTree'
    <3>1. call' = [call EXCEPT !.at = b] \/ call' = [call EXCEPT !.op = "finish"]
      BY <1>7, Zenon DEF ConnectFurther
    <3> HIDE DEF b
    <3> QED
      BY <1>0, <2>1, <3>1 DEF CallType, CallOnTree
  <2> QED
    BY <1>7, <2>2, <2>3, <2>4 DEF ConnectFurther, TypeOK
<1>8. CASE NewBestBlock
  BY <1>0, <1>8, IdleOnTree DEF NewBestBlock, TypeOK, CallOnTree
<1> QED
  BY <1>1, <1>2, <1>3, <1>4, <1>5, <1>6, <1>7, <1>8 DEF SetBestChainStep

\* Every other step keeps them too.
LEMMA TypeOtherStep == TypeInv /\ [Next]_vars /\ ~ SetBestChainStep => TypeInv'
<1> SUFFICES ASSUME TypeOK, CallOnTree, [Next]_vars, ~ SetBestChainStep
             PROVE  TypeOK' /\ CallOnTree'
  BY Zenon DEF TypeInv
<1>1. ASSUME NEW b \in Block \ {Root}, NEW demi \in BOOLEAN, AcceptBlock(b, demi)
      PROVE  TypeOK' /\ CallOnTree'
  <2>1. db' \in ViewType
    <3>1. db \in ViewType
      BY Zenon DEF TypeOK
    <3>2. db' = [index |-> db.index \cup {b}, best |-> db.best,
                 next |-> [db.next EXCEPT ![b] = NoBlock],
                 supply |-> [db.supply EXCEPT ![b] = 0],
                 txs |-> db.txs, spent |-> db.spent]
      BY <1>1, Zenon DEF AcceptBlock
    <3> QED
      BY <3>1, <3>2 DEF ViewType
  <2>2. /\ mapBlockIndex' \subseteq Block
        /\ pnext' \in [Block -> Block \cup {NoBlock}] /\ nMoneySupply' \in [Block -> Int]
    <3>1. /\ mapBlockIndex' = mapBlockIndex \cup {b} /\ pnext' = [pnext EXCEPT ![b] = NoBlock]
          /\ nMoneySupply' = [nMoneySupply EXCEPT ![b] = 0]
      BY <1>1, Zenon DEF AcceptBlock
    <3>2. /\ mapBlockIndex \subseteq Block
          /\ pnext \in [Block -> Block \cup {NoBlock}] /\ nMoneySupply \in [Block -> Int]
      BY Zenon DEF TypeOK
    <3> QED
      BY <3>1, <3>2
  <2>3. call' \in CallType /\ CallOnTree'
    <3>1. CASE call' = Idle
      <4>1. call'.op = "idle" /\ call'.mid \in Anc[call'.new] /\ call' \in CallType
        BY <3>1, IdleOnTree, Zenon
      <4> QED
        BY <4>1, ZenonT(60) DEF CallOnTree
    <3>2. CASE call' = SetBestChain(b)
      <4>1. /\ call' \in CallType /\ call'.mid \in Anc[call'.new]
            /\ call'.op \in {"extend", "reorganize"} /\ call'.new = b
            /\ call'.op = "extend" => Prev[b] = pindexBest
            /\ call'.at = pindexBest /\ pindexBest' = pindexBest
        BY <1>1, <3>2, SetBestChainTyped, Zenon DEF AcceptBlock
      <4> QED
        BY <4>1 DEF CallOnTree
    <3> QED
      BY <1>1, <3>1, <3>2, Zenon DEF AcceptBlock
  <2>4. batch' = db'
    BY <1>1, Zenon DEF AcceptBlock
  <2> QED
    BY <1>1, <2>1, <2>2, <2>3, <2>4, Zenon DEF AcceptBlock, TypeOK
<1>2. ASSUME NEW demi \in BOOLEAN, RefuseBlock(demi)
      PROVE  TypeOK' /\ CallOnTree'
  BY <1>2 DEF RefuseBlock, TypeOK, CallOnTree
<1>3. CASE CreateNewBlock
  <2>1. TypeOK'
    BY <1>3, Zenon DEF CreateNewBlock, TypeOK
  <2>2. CallOnTree'
    BY <1>3, Zenon DEF CreateNewBlock, CallOnTree
  <2> QED
    BY <2>1, <2>2, Zenon
<1>4. CASE Restart
  BY <1>4, IdleOnTree, Zenon DEF Restart, TypeOK, ViewType, CallOnTree
<1>5. CASE VerifyBlocks
  <2>1. CASE UNCHANGED call
    BY <1>5, <2>1, Zenon DEF VerifyBlocks, TypeOK, CallOnTree
  <2>2. ASSUME NEW f \in Anc[pindexBest], call' = SetBestChain(f)
        PROVE  TypeOK' /\ CallOnTree'
    <3>1. f \in Block
      BY OwnChain, Zenon DEF TypeOK
    <3>2. call' \in CallType /\ CallOnTree'
      BY <1>5, <2>2, <3>1, SetBestChainTyped, Zenon DEF VerifyBlocks, CallOnTree
    <3> QED
      BY <1>5, <3>2 DEF VerifyBlocks, TypeOK
  <2> QED
    BY <1>5, <2>1, <2>2, Zenon DEF VerifyBlocks
<1>6. CASE FinishInit
  BY <1>6 DEF FinishInit, TypeOK, CallOnTree
<1>7. ASSUME NEW h \in RollbackHeights, BackToBlock(h)
      PROVE  TypeOK' /\ CallOnTree'
  <2>1. CASE h < 0
    BY <1>7, <2>1, Zenon DEF BackToBlock, TypeOK, CallOnTree
  <2>2. CASE ~ (h < 0)
    <3>1. /\ h \in Int /\ Height[Root] <= h /\ pindexBest \in Block
          /\ Height[pindexBest] \in Int /\ Height[Root] \in Int
      BY <1>7, <2>2, ParameterAssumption, TreeAssumption DEF BackToBlock, TypeOK
    <3>2. PICK f \in Block : call' = SetBestChain(f)
      <4>1. CASE h < Height[pindexBest]
        <5>1. AtHeight(pindexBest, h) \in Block
          BY <3>1, <4>1, ChainHeights, OwnChain
        <5> QED
          BY <1>7, <2>2, <4>1, <5>1, Zenon DEF BackToBlock
      <4> QED
        BY <1>7, <2>2, <3>1, <4>1 DEF BackToBlock
    <3>3. call' \in CallType /\ CallOnTree'
      BY <1>7, <3>2, SetBestChainTyped, Zenon DEF BackToBlock, CallOnTree
    <3> QED
      BY <1>7, <3>3, Zenon DEF BackToBlock, TypeOK
  <2> QED
    BY <2>1, <2>2, Zenon
<1>8. CASE UNCHANGED vars
  BY <1>8 DEF vars, TypeOK, CallOnTree
<1> QED
  BY <1>1, <1>2, <1>3, <1>4, <1>5, <1>6, <1>7, <1>8 DEF Next

\* Type correctness of ChainState for every block tree: SetBestChain and
\* Reorganize never follow a pprev that is not there.
THEOREM TypeCorrect == Spec => []TypeOK
<1>1. TypeInv /\ [Next]_vars => TypeInv'
  BY TypeCallStep, TypeOtherStep
<1>2. TypeInv => TypeOK
  BY Zenon DEF TypeInv
<1> QED
  BY <1>1, <1>2, TypeInit, PTL DEF Spec

-----------------------------------------------------------------------------
(***************************************************************************)
(* The transaction index. The induction follows one SetBestChain call      *)
(* block by block: what the batch describes moves down to the fork and up  *)
(* the new branch, one pprev at a time.                                    *)
(***************************************************************************)

\* The strengthening for one view: besides describing b's chain, no two blocks
\* of the chain carry the same transaction.
Faithful(v, b) ==
    /\ Describes(v, b)
    /\ \A c, d \in Anc[b] : c # d => TxsOf(c) \cap TxsOf(d) = {}

\* A chain is its last block and the chain of that block's parent.
LEMMA ParentChain ==
    ASSUME NEW b \in Block, b # Root
    PROVE  /\ Prev[b] \in Block /\ Anc[b] = {b} \cup Anc[Prev[b]]
           /\ b \notin Anc[Prev[b]] /\ Anc[Prev[b]] \subseteq Anc[b]
           /\ \A c \in Anc[Prev[b]] : c \in Block /\ Anc[c] \subseteq Anc[Prev[b]]
<1>1. Prev[b] \in Block /\ Height[b] = Height[Prev[b]] + 1
  BY TreeAssumption
<1>2. Height[b] \in Nat /\ Height[Prev[b]] \in Nat
  BY <1>1, TreeAssumption
<1>3. b \notin Anc[Prev[b]]
  BY <1>1, <1>2, ChainsNest
<1> QED
  BY <1>1, <1>3, OwnChain, ChainsNest

\* The transactions of a chain are those of its last block and of its parent's chain.
LEMMA TxsOnParts ==
    ASSUME NEW b \in Block, b # Root
    PROVE  TxsOn(Anc[b]) = TxsOf(b) \cup TxsOn(Anc[Prev[b]])
BY ParentChain DEF TxsOn

\* The transactions of a block and of a chain are transactions.
LEMMA TxsTyped ==
    ASSUME NEW b \in Block
    PROVE  /\ DOMAIN Vtx[b] \subseteq Nat
           /\ TxsOf(b) \subseteq Tx
           /\ TxsOn(Anc[b]) \subseteq Tx
<1>1. \A c \in Block : Vtx[c] \in Seq(Tx)
  BY TxAssumption, Zenon
<1>2. ASSUME NEW c \in Block
      PROVE  TxsOf(c) \subseteq Tx
  BY TxAssumption DEF TxsOf
<1>3. DOMAIN Vtx[b] \subseteq Nat
  <2>1. DOMAIN Vtx[b] = 1..Len(Vtx[b]) /\ Len(Vtx[b]) \in Nat
    BY <1>1
  <2> QED
    BY <2>1
<1> QED
  BY <1>2, <1>3, OwnChain, Zenon DEF TxsOn

\* ConnectBlock never brings a transaction in twice: the check against
\* overwriting lets a fully spent transaction return, but the prevouts of that
\* transaction are spent already, back to a coinbase, and coinbases differ.
LEMMA NoReplay ==
    ASSUME NEW v \in ViewType, NEW b \in Block, b # Root,
           Faithful(v, Prev[b]), CanConnect(v, b)
    PROVE  TxsOf(b) \cap v.txs = {}
<1> DEFINE I == {i \in DOMAIN Vtx[b] : Vtx[b][i] \in v.txs}
<1> SUFFICES ASSUME TxsOf(b) \cap v.txs # {}
             PROVE  FALSE
  BY Zenon
<1>1. I \subseteq Nat /\ I # {}
  BY TxsTyped DEF TxsOf
<1>2. PICK n \in I : \A m \in I : n <= m
  <2> HIDE DEF I
  <2> QED
    BY <1>1, LeastNatural, Zenon
<1> DEFINE t == Vtx[b][n]
<1>3. n \in DOMAIN Vtx[b] /\ t \in v.txs /\ t \in Tx /\ n \in Nat
  BY <1>1, <1>2, TxsTyped, Zenon DEF ViewType
<1>4. PICK a \in Anc[Prev[b]] : t \in TxsOf(a)
  <2>1. v.txs = TxsOn(Anc[Prev[b]])
    BY Zenon DEF Faithful, Describes
  <2> HIDE DEF t
  <2> QED
    BY <1>3, <2>1 DEF TxsOn
<1>5. a \in Anc[b] /\ a # b /\ a \in Block
  BY <1>4, ParentChain, Zenon
<1>6. PICK o \in Ins[t] : TRUE
  <2>1. PICK k \in DOMAIN Vtx[a] : Vtx[a][k] = t
    BY <1>4, Zenon DEF TxsOf
  <2>2. \A i \in DOMAIN Vtx[a], j \in DOMAIN Vtx[b] :
            Vtx[a][i] = Vtx[b][j] /\ Ins[Vtx[b][j]] = {} => a = b
    <3>1. \A c \in Block : \A d \in Anc[c] :
              \A i \in DOMAIN Vtx[d], j \in DOMAIN Vtx[c] :
                  Vtx[d][i] = Vtx[c][j] /\ Ins[Vtx[c][j]] = {} => d = c
      BY TxAssumption, Zenon
    <3> QED
      BY <1>5, <3>1, Zenon
  <2>3. Ins[t] # {}
    BY <2>1, <2>2, <1>3, <1>5, Zenon
  <2> QED
    BY <2>3
<1>7. v.spent[o] = t /\ t # NoTx
  <2>1. o \in Outpoint /\ t # NoTx
    BY <1>3, <1>6, TxAssumption, Zenon
  <2> HIDE DEF t
  <2> QED
    BY <1>3, <1>6, <2>1, Zenon DEF Faithful, Describes
<1>8. TxOf[o] \in v.txs
  <2>1. TxOf[o] \in TxsOn(Anc[a])
    BY <1>4, <1>6, Zenon DEF Faithful, Describes
  <2>2. TxsOn(Anc[a]) \subseteq TxsOn(Anc[Prev[b]])
    BY <1>4, ParentChain DEF TxsOn
  <2>3. v.txs = TxsOn(Anc[Prev[b]])
    BY Zenon DEF Faithful, Describes
  <2> QED
    BY <2>1, <2>2, <2>3, Zenon
<1>9. PICK j \in 1..(n - 1) : Vtx[b][j] = TxOf[o]
  BY <1>3, <1>6, <1>7, Zenon DEF CanConnect, InputsFound, InputsConnect
<1>10. j \in I /\ j < n
  <2>1. Vtx[b] \in Seq(Tx)
    BY TxAssumption, Zenon
  <2>2. DOMAIN Vtx[b] = 1..Len(Vtx[b]) /\ Len(Vtx[b]) \in Nat
    BY <2>1
  <2>3. j \in DOMAIN Vtx[b] /\ j < n
    <3> HIDE DEF I, t
    <3> QED
      BY <2>2, <1>3, <1>9
  <2> QED
    BY <2>3, <1>8, <1>9, Zenon
<1> QED
  BY <1>2, <1>3, <1>10

\* Within a block, a prevout has one spender.
LEMMA OneSpender ==
    ASSUME NEW v, NEW b \in Block, CanConnect(v, b),
           NEW t \in TxsOf(b), NEW u \in TxsOf(b), NEW o,
           o \in Ins[t], o \in Ins[u]
    PROVE  t = u
<1>1. PICK i \in DOMAIN Vtx[b] : t = Vtx[b][i]
  BY Zenon DEF TxsOf
<1>2. PICK j \in DOMAIN Vtx[b] : u = Vtx[b][j]
  BY Zenon DEF TxsOf
<1>3. i \in Nat /\ j \in Nat /\ i >= 1 /\ j >= 1
  <2>0. Vtx[b] \in Seq(Tx)
    BY TxAssumption, Zenon
  <2>1. DOMAIN Vtx[b] = 1..Len(Vtx[b]) /\ Len(Vtx[b]) \in Nat
    BY <2>0
  <2>2. i \in 1..Len(Vtx[b]) /\ j \in 1..Len(Vtx[b])
    BY <2>1, Zenon
  <2> QED
    BY <2>1, <2>2
<1>0. \A k \in DOMAIN Vtx[b] : \A p \in Ins[Vtx[b][k]] :
          \A l \in 1..(k - 1) : p \notin Ins[Vtx[b][l]]
  BY Zenon DEF CanConnect, InputsConnect
<1>4. CASE i < j
  <2>1. i \in 1..(j - 1)
    BY <1>3, <1>4
  <2> QED
    BY <1>0, <1>1, <1>2, <2>1, Zenon
<1>5. CASE j < i
  <2>1. j \in 1..(i - 1)
    BY <1>3, <1>5
  <2> QED
    BY <1>0, <1>1, <1>2, <2>1, Zenon
<1>6. i < j \/ j < i \/ i = j
  BY <1>3
<1> QED
  BY <1>1, <1>2, <1>4, <1>5, <1>6, ZenonT(30)

\* A prevout that b spends is created in b or is unspent before b.
LEMMA SpendsUnspent ==
    ASSUME NEW v, NEW b \in Block, CanConnect(v, b),
           NEW t \in TxsOf(b), NEW o \in Ins[t]
    PROVE  TxOf[o] \in TxsOf(b) \/ (TxOf[o] \in v.txs /\ v.spent[o] = NoTx)
<1>1. PICK i \in DOMAIN Vtx[b] : t = Vtx[b][i]
  BY Zenon DEF TxsOf
<1>2. DOMAIN Vtx[b] = 1..Len(Vtx[b]) /\ Len(Vtx[b]) \in Nat
  BY TxAssumption
<1>3. CASE \E j \in 1..(i - 1) : Vtx[b][j] = TxOf[o]
  BY <1>1, <1>2, <1>3 DEF TxsOf
<1> QED
  BY <1>1, <1>3 DEF CanConnect, InputsFound, InputsConnect

\* ConnectBlock: from describing the parent's chain to describing b's.
LEMMA ConnectFaithful ==
    ASSUME NEW v \in ViewType, NEW b \in Block, b # Root,
           Faithful(v, Prev[b]), CanConnect(v, b)
    PROVE  Faithful(Connected(v, b), b)
<1> DEFINE w == Connected(v, b)
<1>1. /\ w.txs = v.txs \cup TxsOf(b)
      /\ \A o \in Outpoint : w.spent[o] =
            IF SpentIn(b, o) THEN SpenderIn(b, o)
            ELSE IF TxOf[o] \in TxsOf(b) THEN NoTx ELSE v.spent[o]
  BY Zenon DEF Connected
<1>2. /\ v.txs = TxsOn(Anc[Prev[b]])
      /\ TxsOf(b) \cap v.txs = {}
  BY NoReplay, Zenon DEF Faithful, Describes
<1>3. \A c \in Anc[Prev[b]] : \A t \in TxsOf(c) : \A o \in Ins[t] : TxOf[o] \in v.txs
  <2>1. \A c \in Anc[Prev[b]] : TxsOn(Anc[c]) \subseteq TxsOn(Anc[Prev[b]])
    BY ParentChain DEF TxsOn
  <2>2. \A c \in Anc[Prev[b]] : \A t \in TxsOf(c) : \A o \in Ins[t] :
            TxOf[o] \in TxsOn(Anc[c])
    BY Zenon DEF Faithful, Describes
  <2> QED
    BY <1>2, <2>1, <2>2, Zenon
<1>4. \A t \in v.txs : \A o \in Ins[t] : TxOf[o] \in v.txs
  BY <1>2, <1>3 DEF TxsOn
<1>5. \A t \in Tx : Ins[t] \subseteq Outpoint
  BY TxAssumption, Zenon
<1>6. TxsOf(b) \subseteq Tx /\ v.txs \subseteq Tx /\ NoTx \notin Tx
  BY TxsTyped, TxAssumption, Zenon DEF ViewType
<1>7. w.txs = TxsOn(Anc[b])
  <2>1. TxsOn(Anc[b]) = TxsOn(Anc[Prev[b]]) \cup TxsOf(b)
    BY TxsOnParts, ZenonT(30)
  <2> HIDE DEF w
  <2> QED
    BY <1>1, <1>2, <2>1, ZenonT(30)
<1>8. ASSUME NEW t \in w.txs, NEW o \in Ins[t]
      PROVE  w.spent[o] = t
  <2>1. o \in Outpoint
    BY <1>1, <1>5, <1>6, Zenon
  <2>2. CASE t \in TxsOf(b)
    <3>1. SpentIn(b, o) /\ SpenderIn(b, o) \in TxsOf(b) /\ o \in Ins[SpenderIn(b, o)]
      BY <2>2, Zenon DEF SpentIn, SpenderIn
    <3>2. SpenderIn(b, o) = t
      BY <2>2, <3>1, OneSpender, Zenon
    <3> QED
      BY <1>1, <2>1, <3>1, <3>2, Zenon
  <2>3. CASE t \in v.txs
    <3>1. v.spent[o] = t /\ v.spent[o] # NoTx
      BY <2>3, <1>6, Zenon DEF Faithful, Describes
    <3>2. TxOf[o] \notin TxsOf(b)
      BY <1>2, <1>4, <2>3, Zenon
    <3>3. ~ SpentIn(b, o)
      BY <3>1, <3>2, SpendsUnspent, Zenon DEF SpentIn
    <3> QED
      BY <1>1, <2>1, <3>1, <3>2, <3>3, Zenon
  <2> QED
    BY <1>1, <2>2, <2>3, Zenon
<1>9. ASSUME NEW o \in Outpoint, w.spent[o] # NoTx
      PROVE  w.spent[o] \in w.txs /\ o \in Ins[w.spent[o]]
  <2>1. CASE SpentIn(b, o)
    <3>1. SpenderIn(b, o) \in TxsOf(b) /\ o \in Ins[SpenderIn(b, o)]
      BY <2>1, Zenon DEF SpentIn, SpenderIn
    <3> QED
      BY <1>1, <2>1, <3>1, Zenon
  <2>2. CASE ~ SpentIn(b, o)
    BY <1>1, <1>9, <2>2, Zenon DEF Faithful, Describes
  <2> QED
    BY <2>1, <2>2, Zenon
<1>10. ASSUME NEW c \in Anc[b], NEW t \in TxsOf(c), NEW o \in Ins[t]
       PROVE  TxOf[o] \in TxsOn(Anc[c])
  <2>1. CASE c = b
    BY <1>1, <1>7, <2>1, SpendsUnspent, Zenon
  <2>2. CASE c \in Anc[Prev[b]]
    BY <2>2, Zenon DEF Faithful, Describes
  <2> QED
    BY <2>1, <2>2, ParentChain, Zenon
<1>11. ASSUME NEW c \in Anc[b], NEW d \in Anc[b], c # d
       PROVE  TxsOf(c) \cap TxsOf(d) = {}
  <2>1. \A e \in Anc[Prev[b]] : TxsOf(e) \subseteq v.txs
    BY <1>2, Zenon DEF TxsOn
  <2>2. \A e, f \in Anc[Prev[b]] : e # f => TxsOf(e) \cap TxsOf(f) = {}
    BY Zenon DEF Faithful
  <2>3. \A e \in Anc[b] : e = b \/ e \in Anc[Prev[b]]
    BY ParentChain, Zenon
  <2>4. CASE c = b \/ d = b
    BY <1>2, <1>11, <2>1, <2>3, <2>4
  <2> QED
    BY <1>11, <2>2, <2>3, <2>4, Zenon
<1> HIDE DEF w
<1>12. Faithful(w, b)
  BY <1>7, <1>8, <1>9, <1>10, <1>11, Zenon DEF Faithful, Describes
<1> QED
  BY <1>12, Zenon DEF w

\* DisconnectBlock: from describing b's chain to describing the parent's.
LEMMA DisconnectFaithful ==
    ASSUME NEW v \in ViewType, NEW b \in Block, b # Root, Faithful(v, b)
    PROVE  Faithful(Disconnected(v, b), Prev[b])
<1> DEFINE w == Disconnected(v, b)
<1>1. /\ w.txs = v.txs \ TxsOf(b)
      /\ \A o \in Outpoint : w.spent[o] =
            IF TxOf[o] \in TxsOf(b) \/ SpentIn(b, o) THEN NoTx ELSE v.spent[o]
  BY Zenon DEF Disconnected
<1>2. \A c \in Anc[Prev[b]] : TxsOf(c) \cap TxsOf(b) = {}
  BY ParentChain, OwnChain, Zenon DEF Faithful
<1>3. w.txs = TxsOn(Anc[Prev[b]])
  <2>1. v.txs = TxsOf(b) \cup TxsOn(Anc[Prev[b]])
    BY TxsOnParts DEF Faithful, Describes
  <2>2. TxsOn(Anc[Prev[b]]) \cap TxsOf(b) = {}
    BY <1>2, Zenon DEF TxsOn
  <2> QED
    BY <1>1, <2>1, <2>2, Zenon
<1>4. ASSUME NEW t \in w.txs, NEW o \in Ins[t]
      PROVE  w.spent[o] = t
  <2>1. t \in v.txs /\ t \notin TxsOf(b) /\ v.spent[o] = t /\ o \in Outpoint
    BY <1>1, TxAssumption, Zenon DEF Faithful, Describes, ViewType
  <2>2. PICK c \in Anc[Prev[b]] : t \in TxsOf(c)
    BY <1>3, Zenon DEF TxsOn
  <2>3. TxOf[o] \in TxsOn(Anc[c])
    BY <2>2, ParentChain, Zenon DEF Faithful, Describes
  <2>4. PICK e \in Anc[c] : TxOf[o] \in TxsOf(e)
    BY <2>3, Zenon DEF TxsOn
  <2>5. TxOf[o] \notin TxsOf(b)
    BY <1>2, <2>2, <2>4, ParentChain, Zenon
  <2>6. ~ SpentIn(b, o)
    <3>1. TxsOf(b) \subseteq v.txs
      BY TxsOnParts DEF Faithful, Describes
    <3> QED
      BY <2>1, <3>1, Zenon DEF SpentIn, Faithful, Describes
  <2> QED
    BY <1>1, <2>1, <2>5, <2>6, Zenon
<1>5. ASSUME NEW o \in Outpoint, w.spent[o] # NoTx
      PROVE  w.spent[o] \in w.txs /\ o \in Ins[w.spent[o]]
  <2>1. w.spent[o] = v.spent[o] /\ ~ SpentIn(b, o)
    BY <1>1, <1>5, Zenon
  <2>2. v.spent[o] \in v.txs /\ o \in Ins[v.spent[o]]
    BY <1>5, <2>1, Zenon DEF Faithful, Describes
  <2> QED
    BY <1>1, <2>1, <2>2, Zenon DEF SpentIn
<1>6. \A c \in Anc[Prev[b]] : \A t \in TxsOf(c) : \A o \in Ins[t] :
            TxOf[o] \in TxsOn(Anc[c])
  BY ParentChain, Zenon DEF Faithful, Describes
<1>7. \A c, d \in Anc[Prev[b]] : c # d => TxsOf(c) \cap TxsOf(d) = {}
  BY ParentChain, Zenon DEF Faithful
<1> HIDE DEF w
<1>8. Faithful(w, Prev[b])
  BY <1>3, <1>4, <1>5, <1>6, <1>7, Zenon DEF Faithful, Describes
<1> QED
  BY <1>8, Zenon DEF w

\* Only the transaction index of a view matters.
LEMMA SameIndex ==
    ASSUME NEW v, NEW w, NEW b, v.txs = w.txs, v.spent = w.spent, Faithful(v, b)
    PROVE  Faithful(w, b)
BY Zenon DEF Faithful, Describes

-----------------------------------------------------------------------------
(* The inductive invariant.                                                *)

TxInv ==
    /\ damage # "disk" => Faithful(db, db.best)
    /\ damage = "none" =>
        /\ call.op \notin {"further", "finish"} => pindexBest = db.best
        /\ call.op \notin {"disconnect", "connect"} => batch = db
        /\ call.op \in {"disconnect", "connect"} => Faithful(batch, call.at)
        /\ call.op = "further" => db.best = call.at
        /\ call.op = "finish" => db.best = call.new

\* The start from an empty database satisfies TxInv.
LEMMA TxInit == Init => TxInv
<1> SUFFICES ASSUME Init
             PROVE  TxInv
  OBVIOUS
<1>1. Anc[Root] = {Root}
  BY ChainsNest
<1>2. TxsOn(Anc[Root]) = TxsOf(Root)
  BY <1>1, Zenon DEF TxsOn
<1>3. \A t \in TxsOf(Root) : Ins[t] = {}
  BY TxAssumption, Zenon DEF TxsOf
<1>4. db.txs = TxsOf(Root) /\ db.best = Root /\ db.spent = [o \in Outpoint |-> NoTx]
  BY Zenon DEF Init, InitialDb
<1>5. Faithful(db, db.best)
  <2>1. \A c \in Anc[db.best] : c = Root
    BY <1>1, <1>4
  <2>2. \A o \in Outpoint : db.spent[o] = NoTx
    BY <1>4
  <2>3. \A t \in db.txs : Ins[t] = {}
    BY <1>3, <1>4
  <2>4. db.txs = TxsOn(Anc[db.best])
    BY <1>2, <1>4
  <2>5. \A c \in Anc[db.best] : \A t \in TxsOf(c) : Ins[t] = {}
    BY <1>3, <2>1, Zenon
  <2>6. Describes(db, db.best)
    BY <2>2, <2>3, <2>4, <2>5 DEF Describes
  <2> QED
    BY <2>1, <2>6 DEF Faithful
<1> QED
  BY <1>4, <1>5, IdleOnTree DEF Init, TxInv

\* SetBestChainInner moves the index on disk from its best block to the next.
LEMMA AttachFaithful ==
    ASSUME TypeOK, NEW b \in Block, b # Root, Attached(b),
           Faithful(db, Prev[b])
    PROVE  Faithful(db', b) /\ db'.best = b /\ batch' = db'
<1>1. Faithful(Connected(db, b), b)
  BY ConnectFaithful DEF Attached, TypeOK
<1>2. db' = [Connected(db, b) EXCEPT !.best = b] /\ batch' = db'
  BY DEF Attached
<1>3. /\ db'.best = b /\ db'.txs = Connected(db, b).txs
      /\ db'.spent = Connected(db, b).spent
  BY <1>2 DEF Connected
<1> QED
  BY <1>1, <1>2, <1>3, SameIndex, Zenon

\* Each step of SetBestChain keeps the invariant.
LEMMA TxCallStep == TypeInv /\ TxInv /\ SetBestChainStep => TxInv'
<1> SUFFICES ASSUME TypeOK, CallOnTree, TxInv, SetBestChainStep
             PROVE  TxInv'
  BY DEF TypeInv
<1>0. /\ call \in CallType /\ pindexBest \in Block /\ db \in ViewType
      /\ batch \in ViewType /\ damage \in {"none", "memory", "disk"}
      /\ call.new \in Block /\ call.mid \in Block /\ call.at \in Block
  BY DEF TypeOK, CallType
<1>1. CASE ExtendChain
  <2>1. call.op = "extend" /\ Prev[call.new] = pindexBest /\ call.new # Root
    BY <1>0, <1>1, TreeAssumption, Zenon DEF ExtendChain, CallOnTree
  <2>2. CASE Attached(call.new) /\ call' = [call EXCEPT !.op = "finish"]
    <3>1. call'.op = "finish" /\ call'.new = call.new
      BY <1>0, <2>2, Zenon DEF CallType
    <3>2. damage = "none" => Faithful(db, Prev[call.new])
      BY <2>1 DEF TxInv
    <3>3. damage = "none" => Faithful(db', call.new) /\ db'.best = call.new
                             /\ batch' = db'
      BY <1>0, <2>1, <2>2, <3>2, AttachFaithful
    <3>4. damage' # "disk" => damage = "none"
      BY <1>0, <2>2 DEF Attached, Committed
    <3>5. damage' # "disk" => Faithful(db', db'.best)
      BY <3>3, <3>4
    <3> QED
      BY <3>1, <3>3, <3>4, <3>5 DEF TxInv
  <2>3. CASE NotAttached(call.new) /\ call' = Idle /\ UNCHANGED damage
    BY <1>1, <2>1, <2>3, IdleOnTree DEF ExtendChain, NotAttached, TxInv
  <2> QED
    BY <1>1, <2>2, <2>3 DEF ExtendChain
<1>2. CASE Reorganize
  <2>1. CASE call' = Idle
    BY <1>2, <2>1, IdleOnTree DEF Reorganize, AbortReorganize, TxInv
  <2>2. CASE call' = [call EXCEPT !.op = "disconnect",
                                  !.fork = Fork(pindexBest, call.mid),
                                  !.rollback = fRollbacktoBlock]
             /\ UNCHANGED batch
    <3>1. call'.op = "disconnect" /\ call'.at = call.at /\ call.op = "reorganize"
      BY <1>0, <1>2, <2>2, Zenon DEF CallType, Reorganize
    <3>2. damage = "none" => batch = db /\ pindexBest = db.best /\ call.at = db.best
      BY <3>1 DEF TxInv, CallOnTree
    <3> QED
      BY <1>2, <2>2, <3>1, <3>2 DEF Reorganize, TxInv
  <2> QED
    BY <1>2, <2>1, <2>2 DEF Reorganize, AbortReorganize
<1>3. CASE DisconnectBlock
  <2>1. call.op = "disconnect" /\ call.at # Root
    BY <1>0, <1>3, ChainsNest DEF DisconnectBlock, CallOnTree
  <2>2. CASE call' = Idle /\ batch' = db
    BY <1>3, <2>1, <2>2, IdleOnTree DEF DisconnectBlock, TxInv
  <2>3. CASE /\ batch' = Disconnected(batch, call.at)
             /\ call' = [call EXCEPT !.at = Prev[call.at]]
    <3>1. call'.op = "disconnect" /\ call'.at = Prev[call.at]
      BY <1>0, <2>1, <2>3 DEF CallType
    <3>2. damage = "none" => Faithful(batch', call'.at)
      BY <1>0, <2>1, <2>3, <3>1, DisconnectFaithful DEF TxInv
    <3> QED
      BY <1>3, <2>1, <3>1, <3>2 DEF DisconnectBlock, TxInv
  <2> QED
    BY <1>3, <2>2, <2>3 DEF DisconnectBlock, AbortReorganize
<1>4. CASE DisconnectDone
  <2>1. call'.op = "connect" /\ call'.at = call.at /\ call.op = "disconnect"
    BY <1>0, <1>4 DEF DisconnectDone, CallType
  <2> QED
    BY <1>4, <2>1 DEF DisconnectDone, TxInv
<1>5. CASE ConnectBlock
  <2> DEFINE b == Toward(call.at, call.mid)
  <2>1. /\ call.op = "connect" /\ b \in Block /\ b # Root /\ Prev[b] = call.at
    BY <1>0, <1>5, TowardOnChain DEF ConnectBlock, CallOnTree
  <2>2. CASE call' = Idle /\ batch' = db
    BY <1>5, <2>1, <2>2, IdleOnTree DEF ConnectBlock, TxInv
  <2>3. CASE /\ CanConnect(batch, b)
             /\ batch' = Connected(batch, b)
             /\ call' = [call EXCEPT !.at = b]
    <3> HIDE DEF b
    <3>1. call'.op = "connect" /\ call'.at = b
      BY <1>0, <2>1, <2>3 DEF CallType
    <3>2. damage = "none" => Faithful(batch', call'.at)
      BY <1>0, <2>1, <2>3, <3>1, ConnectFaithful DEF TxInv
    <3> QED
      BY <1>5, <2>1, <3>1, <3>2 DEF ConnectBlock, TxInv
  <2> QED
    BY <1>5, <2>2, <2>3 DEF ConnectBlock, AbortReorganize
<1>6. CASE CommitReorganize
  <2>1. call.op = "connect" /\ call.at = call.mid
    BY <1>6 DEF CommitReorganize
  <2>2. CASE call' = Idle /\ batch' = db /\ UNCHANGED <<db, damage>>
    BY <1>6, <2>1, <2>2, IdleOnTree DEF CommitReorganize, TxInv
  <2>3. CASE /\ call' = [call EXCEPT !.op = "further"]
             /\ db' = [batch EXCEPT !.best = call.mid] /\ batch' = db'
             /\ damage' = Committed
    <3>1. call'.op = "further" /\ call'.at = call.at
      BY <1>0, <2>3 DEF CallType
    <3>2. db'.best = call.at /\ db'.txs = batch.txs /\ db'.spent = batch.spent
      BY <1>0, <2>1, <2>3 DEF ViewType
    <3>3. damage' # "disk" => damage = "none"
      BY <1>0, <2>3, Zenon DEF Committed
    <3>4. damage' # "disk" => Faithful(db', db'.best)
      BY <2>1, <3>2, <3>3, SameIndex DEF TxInv
    <3> QED
      BY <2>3, <3>1, <3>2, <3>3, <3>4 DEF TxInv
  <2> QED
    BY <1>6, <2>2, <2>3 DEF CommitReorganize, AbortReorganize
<1>7. CASE ConnectFurther
  <2> DEFINE b == Toward(call.at, call.new)
  <2>1. /\ call.op = "further" /\ b \in Block /\ b # Root /\ Prev[b] = call.at
    BY <1>0, <1>7, TowardOnChain, ZenonT(60) DEF ConnectFurther, CallOnTree
  <2>2. CASE Attached(b) /\ call' = [call EXCEPT !.at = b]
    <3> HIDE DEF b
    <3>1. call'.op = "further" /\ call'.at = b
      BY <1>0, <2>1, <2>2, Zenon DEF CallType
    <3>2. damage = "none" => Faithful(db, Prev[b])
      BY <2>1 DEF TxInv
    <3>3. damage = "none" => Faithful(db', b) /\ db'.best = b /\ batch' = db'
      BY <2>1, <2>2, <3>2, AttachFaithful
    <3>4. damage' # "disk" => damage = "none"
      BY <1>0, <2>2 DEF Attached, Committed
    <3>5. damage' # "disk" => Faithful(db', db'.best)
      BY <3>3, <3>4, Zenon
    <3> QED
      BY <3>1, <3>3, <3>4, <3>5 DEF TxInv
  <2>3. CASE /\ UNCHANGED db
             /\ damage' = IF damage = "none" THEN "memory" ELSE damage
    BY <1>0, <2>3, Zenon DEF TxInv
  <2> QED
    BY <1>7, <2>2, <2>3 DEF ConnectFurther, NotAttached
<1>8. CASE NewBestBlock
  <2>1. call'.op = "idle"
    BY <1>8, IdleOnTree DEF NewBestBlock
  <2> QED
    BY <1>8, <2>1, Zenon DEF NewBestBlock, TxInv
<1> QED
  BY <1>1, <1>2, <1>3, <1>4, <1>5, <1>6, <1>7, <1>8 DEF SetBestChainStep

\* So does every other step: a stop drops the batch, and what was committed is
\* what the next start finds.
LEMMA TxOtherStep ==
    TypeInv /\ TxInv /\ [Next]_vars /\ ~ SetBestChainStep => TxInv'
<1> SUFFICES ASSUME TypeOK, TxInv, [Next]_vars, ~ SetBestChainStep
             PROVE  TxInv'
  BY Zenon DEF TypeInv
<1>0. pindexBest \in Block /\ damage \in {"none", "memory", "disk"}
      /\ Idle.op = "idle"
  BY IdleOnTree, Zenon DEF TypeOK
<1>1. ASSUME NEW b \in Block \ {Root}, NEW demi \in BOOLEAN, AcceptBlock(b, demi)
      PROVE  TxInv'
  <2>1. /\ db'.best = db.best /\ db'.txs = db.txs /\ db'.spent = db.spent
        /\ batch' = db' /\ damage' = damage /\ pindexBest' = pindexBest
        /\ call = Idle
    BY <1>1, Zenon DEF AcceptBlock
  <2>2. call'.op \in {"idle", "extend", "reorganize"}
    BY <1>0, <1>1, SetBestChainTyped, Zenon DEF AcceptBlock
  <2>3. damage' # "disk" => Faithful(db', db'.best)
    BY <2>1, SameIndex, Zenon DEF TxInv
  <2> QED
    BY <1>0, <2>1, <2>2, <2>3, Zenon DEF TxInv
<1>2. ASSUME NEW demi \in BOOLEAN, RefuseBlock(demi)
      PROVE  TxInv'
  BY <1>2, Zenon DEF RefuseBlock, TxInv
<1>3. CASE CreateNewBlock
  BY <1>3, Zenon DEF CreateNewBlock, TxInv
<1>4. CASE Restart
  BY <1>0, <1>4, Zenon DEF Restart, TxInv
<1>5. CASE VerifyBlocks
  <2>1. call'.op \in {"idle", "extend", "reorganize"} /\ call = Idle
    <3>1. \A f \in Anc[pindexBest] : SetBestChain(f).op \in {"extend", "reorganize"}
      BY <1>0, OwnChain, SetBestChainTyped, Zenon
    <3> QED
      BY <1>0, <1>5, <3>1, Zenon DEF VerifyBlocks
  <2> QED
    BY <1>0, <1>5, <2>1, Zenon DEF VerifyBlocks, TxInv
<1>6. CASE FinishInit
  BY <1>6, Zenon DEF FinishInit, TxInv
<1>7. ASSUME NEW h \in RollbackHeights, BackToBlock(h)
      PROVE  TxInv'
  <2>1. call'.op \in {"idle", "extend", "reorganize"} /\ call = Idle
    <3>1. \A f : SetBestChain(f).op \in {"extend", "reorganize"}
      BY Zenon DEF SetBestChain, Idle
    <3> QED
      BY <1>0, <1>7, <3>1 DEF BackToBlock
  <2> QED
    BY <1>0, <1>7, <2>1, Zenon DEF BackToBlock, TxInv
<1>8. CASE UNCHANGED vars
  BY <1>8 DEF vars, TxInv
<1> QED
  BY <1>1, <1>2, <1>3, <1>4, <1>5, <1>6, <1>7, <1>8, Zenon DEF Next

\* For every block tree, and a stop or a failure at any moment: as long as no
\* batch was committed on top of a best block that was never written, the
\* transaction index on disk describes exactly the chain of hashBestChain.
THEOREM TxIndexCorrect == Spec => []TxIndexExact
<1>1. TypeInv /\ [Next]_vars => TypeInv'
  BY TypeCallStep, TypeOtherStep
<1>2. TypeInv /\ TxInv /\ [Next]_vars => TxInv'
  BY TxCallStep, TxOtherStep, Zenon
<1>3. TxInv => TxIndexExact
  BY Zenon DEF TxInv, TxIndexExact, Faithful
<1> QED
  BY <1>1, <1>2, <1>3, TypeInit, TxInit, PTL DEF Spec

=============================================================================
