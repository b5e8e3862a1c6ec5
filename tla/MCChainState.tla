--------------------------- MODULE MCChainState ----------------------------
(***************************************************************************)
(* A block tree for ChainState. Heights 4 to 8:                            *)
(*                                                                         *)
(*     r --- a1 --- a2 --- a3                                              *)
(*      \--- b1 --- b2 --- b3 --- b4                                       *)
(*                    \--- d3                                              *)
(*                                                                         *)
(* u (in a1) and w (in b1) spend the same output. s, the coinstake of a2,  *)
(* is also in d3, where its prevout does not exist: d3 cannot be connected *)
(* and fails after b1 and b2 have been.                                    *)
(***************************************************************************)
EXTENDS ChainState, TLC

MCBlock == {"r", "a1", "a2", "a3", "b1", "b2", "b3", "b4", "d3"}
MCPrev == ("r" :> "none") @@ ("a1" :> "r") @@ ("a2" :> "a1") @@ ("a3" :> "a2")
          @@ ("b1" :> "r") @@ ("b2" :> "b1") @@ ("b3" :> "b2") @@ ("b4" :> "b3")
          @@ ("d3" :> "b2")
MCAnc == ("r" :> {"r"}) @@ ("a1" :> {"r", "a1"}) @@ ("a2" :> {"r", "a1", "a2"})
         @@ ("a3" :> {"r", "a1", "a2", "a3"}) @@ ("b1" :> {"r", "b1"})
         @@ ("b2" :> {"r", "b1", "b2"}) @@ ("b3" :> {"r", "b1", "b2", "b3"})
         @@ ("b4" :> {"r", "b1", "b2", "b3", "b4"})
         @@ ("d3" :> {"r", "b1", "b2", "d3"})
MCHeight == ("r" :> 4) @@ ("a1" :> 5) @@ ("a2" :> 6) @@ ("a3" :> 7)
            @@ ("b1" :> 5) @@ ("b2" :> 6) @@ ("b3" :> 7) @@ ("b4" :> 8)
            @@ ("d3" :> 7)

\* b3 outweighs a2 but not a3; b4 and d3 outweigh a3, and so would b2 a1.
MCChainTrust == ("r" :> 0) @@ ("a1" :> 2) @@ ("a2" :> 4) @@ ("a3" :> 6)
                @@ ("b1" :> 1) @@ ("b2" :> 3) @@ ("b3" :> 5) @@ ("b4" :> 8)
                @@ ("d3" :> 7)

MCTx == {"base", "u", "w", "s", "v", "x", "y"}
MCOutpoint == {"base1", "base2", "u1", "w1", "s1", "x1"}
MCTxOf == ("base1" :> "base") @@ ("base2" :> "base") @@ ("u1" :> "u")
          @@ ("w1" :> "w") @@ ("s1" :> "s") @@ ("x1" :> "x")
MCIns == ("base" :> {}) @@ ("u" :> {"base1"}) @@ ("w" :> {"base1"})
         @@ ("s" :> {"u1"}) @@ ("v" :> {"s1"}) @@ ("x" :> {"w1", "base2"})
         @@ ("y" :> {"x1"})
MCVtx == ("r" :> <<"base">>) @@ ("a1" :> <<"u">>) @@ ("a2" :> <<"s">>)
         @@ ("a3" :> <<"v">>) @@ ("b1" :> <<"w">>) @@ ("b2" :> <<"x", "y">>)
         @@ ("b3" :> <<>>) @@ ("b4" :> <<>>) @@ ("d3" :> <<"s">>)

MCMinted == [b \in MCBlock |-> IF b = "r" THEN 10 ELSE IF b = "a1" THEN 2 ELSE 1]
MCOutTotal == [b \in MCBlock |-> IF b = "a3" THEN 12 ELSE 2]

\* For MCDiskBeforeMemory: b4 cannot be connected either.
MCSoundBlock == MCBlock \ {"b4"}

\* Back to the second block above r, and a height no block has.
MCRollbackHeights == {6, -1}

=============================================================================
