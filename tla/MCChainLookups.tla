--------------------------- MODULE MCChainLookups --------------------------
(***************************************************************************)
(* A block tree for ChainLookups. Heights 4 to 10:                         *)
(*                                                                         *)
(*     r --- t --- a1                                                      *)
(*            \--- b1 --- b2 --- b3 --- b4 --- b5                          *)
(*                                                                         *)
(* With -deminodes a reorganisation waits for a block that a Demi-node     *)
(* relays, so the branch of b2 may grow far beyond a1 before it. The       *)
(* window of block sizes is longer than a branch that may be taken off, as *)
(* in the code (125 blocks to 121), and b5 is further above a1 than that.  *)
(***************************************************************************)
EXTENDS ChainLookups, TLC

Bs == <<"b1", "b2", "b3", "b4", "b5">>
Trusts == <<2, 4, 6, 7, 8>>
BSet == {Bs[i] : i \in 1..5}
Nth(b) == CHOOSE i \in 1..5 : Bs[i] = b

MCBlock == {"r", "t", "a1"} \cup BSet
MCPrev == ("r" :> "none") @@ ("t" :> "r") @@ ("a1" :> "t")
          @@ [b \in BSet |-> IF b = "b1" THEN "t" ELSE Bs[Nth(b) - 1]]
MCAnc == ("r" :> {"r"}) @@ ("t" :> {"r", "t"}) @@ ("a1" :> {"r", "t", "a1"})
         @@ [b \in BSet |-> {"r", "t"} \cup {Bs[i] : i \in 1..Nth(b)}]
MCHeight == ("r" :> 4) @@ ("t" :> 5) @@ ("a1" :> 6)
            @@ [b \in BSet |-> 5 + Nth(b)]
MCChainTrust == ("r" :> 0) @@ ("t" :> 1) @@ ("a1" :> 3)
                @@ [b \in BSet |-> Trusts[Nth(b)]]

\* u and w spend the same output.
MCTx == {"base", "u", "w"}
MCOutpoint == {"base1"}
MCTxOf == "base1" :> "base"
MCIns == ("base" :> {}) @@ ("u" :> {"base1"}) @@ ("w" :> {"base1"})
MCVtx == [b \in MCBlock |-> CASE b = "r" -> <<"base">> [] b = "a1" -> <<"u">>
                              [] b = "b2" -> <<"w">> [] OTHER -> <<>>]
MCSound == MCBlock \ {"b5"}
MCMinted == [b \in MCBlock |-> 1]
MCOutTotal == [b \in MCBlock |-> 1]
MCSize == [b \in MCBlock |-> IF b \in {"a1", "b2"} THEN 1 ELSE 0]
MCRollbackHeights == {6}

=============================================================================
