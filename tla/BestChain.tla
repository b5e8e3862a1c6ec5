----------------------------- MODULE BestChain -----------------------------
(***************************************************************************)
(* What following the best chain promises, without saying how: the chain   *)
(* on record only ever moves to a known chain of more trust, in one step   *)
(* and whole, except that the user may cut it back to one of its own       *)
(* blocks. ChainState implements this with what is on disk: a stop at any  *)
(* moment of a reorganisation leaves one of the two chains, never a part.  *)
(***************************************************************************)
EXTENDS BlockTree

VARIABLES
    known,  \* the blocks on record
    tip     \* the last block of the chain on record

Init == known = {Root} /\ tip = Root

\* A block is recorded after its parent.
Learn(b) ==
    /\ b \notin known /\ Prev[b] \in known
    /\ known' = known \cup {b}
    /\ UNCHANGED tip

\* A chain of more trust takes over.
Adopt(b) ==
    /\ b \in known
    /\ ChainTrust[b] > ChainTrust[tip]
    /\ tip' = b
    /\ UNCHANGED known

\* The chain is cut back.
CutBack(b) ==
    /\ b \in Anc[tip]
    /\ tip' = b
    /\ UNCHANGED known

Next == \E b \in Block : Learn(b) \/ Adopt(b) \/ CutBack(b)

Spec == Init /\ [][Next]_<<known, tip>>

=============================================================================
