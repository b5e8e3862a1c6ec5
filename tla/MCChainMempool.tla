--------------------------- MODULE MCChainMempool ---------------------------
(***************************************************************************)
(* A block tree for ChainMempool. Heights 4 to 7:                          *)
(*                                                                         *)
(*     r --- a1 --- a2                                                     *)
(*      \--- b1 --- b2 --- b3                                              *)
(*                                                                         *)
(* base is immature until a block follows r. a2 has u, which spends base,  *)
(* c, which spends u, and g, which spends c. p spends the output of q (in  *)
(* a1) and w (in b1) spend, and k spends p. u is in b3, too.               *)
(***************************************************************************)
EXTENDS ChainMempool, TLC

MCBlock == {"r", "a1", "a2", "b1", "b2", "b3"}
MCPrev == ("r" :> "none") @@ ("a1" :> "r") @@ ("a2" :> "a1")
          @@ ("b1" :> "r") @@ ("b2" :> "b1") @@ ("b3" :> "b2")
MCAnc == ("r" :> {"r"}) @@ ("a1" :> {"r", "a1"}) @@ ("a2" :> {"r", "a1", "a2"})
         @@ ("b1" :> {"r", "b1"}) @@ ("b2" :> {"r", "b1", "b2"})
         @@ ("b3" :> {"r", "b1", "b2", "b3"})
MCHeight == ("r" :> 4) @@ ("a1" :> 5) @@ ("a2" :> 6)
            @@ ("b1" :> 5) @@ ("b2" :> 6) @@ ("b3" :> 7)
MCChainTrust == ("r" :> 0) @@ ("a1" :> 2) @@ ("a2" :> 4)
                @@ ("b1" :> 1) @@ ("b2" :> 3) @@ ("b3" :> 5)

MCTx == {"base", "old", "q", "u", "c", "p", "k", "w", "g"}
MCOutpoint == {"base1", "old1", "u1", "c1", "p1"}
MCTxOf == ("base1" :> "base") @@ ("old1" :> "old") @@ ("u1" :> "u")
          @@ ("c1" :> "c") @@ ("p1" :> "p")
MCIns == ("base" :> {}) @@ ("old" :> {}) @@ ("q" :> {"old1"}) @@ ("u" :> {"base1"})
         @@ ("c" :> {"u1"}) @@ ("p" :> {"old1"}) @@ ("k" :> {"p1"})
         @@ ("w" :> {"old1"}) @@ ("g" :> {"c1"})
MCVtx == ("r" :> <<"base", "old">>) @@ ("a1" :> <<"q">>) @@ ("a2" :> <<"u", "c", "g">>)
         @@ ("b1" :> <<"w">>) @@ ("b2" :> <<>>) @@ ("b3" :> <<"u">>)
MCMinted == [b \in MCBlock |-> 1]
MCOutTotal == [b \in MCBlock |-> 1]

=============================================================================
