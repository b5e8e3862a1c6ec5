----------------------------- MODULE BlockTree -----------------------------
(***************************************************************************)
(* The blocks a node may ever be handed and what is fixed about each one:  *)
(* its place in the tree, its trust, and the transactions it carries.      *)
(* Everything here is determined by the block's own bytes, so it is        *)
(* constant; which of the blocks a node has, and which chain of them it    *)
(* follows, is the state of ChainState.                                    *)
(*                                                                         *)
(* Block holds only blocks that pass the checks a block passes or fails    *)
(* once and for all (CheckBlock, the version, timestamp, target,           *)
(* coinbase-height and hardened-checkpoint tests of AcceptBlock): one that *)
(* fails them leaves no trace in the chain state. Root is the genesis      *)
(* block, or any block below which no fork is modelled.                    *)
(***************************************************************************)
EXTENDS Integers, Sequences, Transactions

CONSTANTS
    Block,       \* every block that may be received
    Root,        \* the block all others descend from
    NoBlock,     \* a null CBlockIndex pointer, a zero hash
    Prev,        \* CBlockIndex::pprev
    Anc,         \* the chain a block ends: itself and what pprev reaches
    Height,      \* CBlockIndex::nHeight
    ChainTrust,  \* CBlockIndex::nChainTrust
    Generated,   \* coinbases and coinstakes, whose outputs must mature
    Vtx,         \* CBlock::vtx
    Sound,       \* blocks whose signatures, values and reward ConnectBlock accepts
    Minted,      \* nValueOut - nValueIn of a block
    OutTotal     \* the sum of all outputs of a block

-----------------------------------------------------------------------------

\* CBlockIndex::pprev and nHeight (AddToBlockIndex): a tree below
\* Root, in which a block is one higher than its parent.
ASSUME TreeAssumption ==
    /\ Root \in Block /\ NoBlock \notin Block
    /\ Prev \in [Block -> Block \cup {NoBlock}]
    /\ Prev[Root] = NoBlock
    /\ Height \in [Block -> Nat]
    /\ \A b \in Block \ {Root} :
            Prev[b] \in Block /\ Height[b] = Height[Prev[b]] + 1

\* Anc is what following pprev down to Root visits.
ASSUME AncAssumption ==
    /\ Anc \in [Block -> SUBSET Block]
    /\ Anc[Root] = {Root}
    /\ \A b \in Block \ {Root} : Anc[b] = {b} \cup Anc[Prev[b]]

\* AddToBlockIndex adds GetBlockTrust to the parent's trust, and every target
\* that passed CheckProofOfWork gives a positive trust.
ASSUME TrustAssumption ==
    /\ ChainTrust \in [Block -> Nat]
    /\ \A b \in Block \ {Root} : ChainTrust[b] > ChainTrust[Prev[b]]

\* What a block carries. CheckBlock refuses a block with two equal
\* transactions; AcceptBlock makes a coinbase start with the block's height,
\* so a coinbase (the one transaction without prevouts) occurs once on a chain.
ASSUME TxAssumption ==
    /\ NoTx \notin Tx
    /\ TxOf \in [Outpoint -> Tx]
    /\ Ins \in [Tx -> SUBSET Outpoint]
    /\ Generated \subseteq Tx
    /\ Vtx \in [Block -> Seq(Tx)]
    /\ \A b \in Block : \A i, j \in DOMAIN Vtx[b] : Vtx[b][i] = Vtx[b][j] => i = j
    /\ \A b \in Block : \A a \in Anc[b] :
            \A i \in DOMAIN Vtx[a], j \in DOMAIN Vtx[b] :
                Vtx[a][i] = Vtx[b][j] /\ Ins[Vtx[b][j]] = {} => a = b
    /\ \A t \in {Vtx[Root][i] : i \in DOMAIN Vtx[Root]} : Ins[t] = {}
    /\ Sound \subseteq Block
    /\ Minted \in [Block -> Int]
    /\ OutTotal \in [Block -> Nat]

-----------------------------------------------------------------------------

TxsOf(b) == {Vtx[b][i] : i \in DOMAIN Vtx[b]}

TxsOn(chain) == UNION {TxsOf(b) : b \in chain}

\* The block after a on the chain that ends in b.
Toward(a, b) == CHOOSE c \in Anc[b] : Prev[c] = a

\* The block of b's chain at height h.
AtHeight(b, h) == CHOOSE a \in Anc[b] : Height[a] = h

\* The highest of some blocks of one chain.
Highest(S) == CHOOSE f \in S : \A g \in S : Height[g] <= Height[f]

\* Reorganize, "Find the fork": the highest block on both chains.
Fork(a, b) == Highest(Anc[a] \cap Anc[b])

=============================================================================
