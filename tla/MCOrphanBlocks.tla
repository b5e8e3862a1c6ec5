--------------------------- MODULE MCOrphanBlocks ---------------------------
(***************************************************************************)
(* A block tree for OrphanBlocks. Heights 4 to 8:                          *)
(*                                                                         *)
(*     r --- a1 --- a2                                                     *)
(*      \--- b1 --- b2 --- b3 --- b4                                       *)
(*             \--- z                                                      *)
(*                                                                         *)
(* b2 outweighs a2 at the same height, so a reorganisation to it is not    *)
(* authorised, and z cannot be connected: both are in the index when       *)
(* AcceptBlock fails. b2 and z have the same stake. a2's outputs are more  *)
(* than the supply known after r, so it is refused unless a1 is connected. *)
(***************************************************************************)
EXTENDS OrphanBlocks, TLC

MCBlock == {"r", "a1", "a2", "b1", "b2", "b3", "b4", "z"}
MCPrev == ("r" :> "none") @@ ("a1" :> "r") @@ ("a2" :> "a1") @@ ("b1" :> "r")
          @@ ("b2" :> "b1") @@ ("b3" :> "b2") @@ ("b4" :> "b3") @@ ("z" :> "b1")
MCAnc == ("r" :> {"r"}) @@ ("a1" :> {"r", "a1"}) @@ ("a2" :> {"r", "a1", "a2"})
         @@ ("b1" :> {"r", "b1"}) @@ ("b2" :> {"r", "b1", "b2"})
         @@ ("b3" :> {"r", "b1", "b2", "b3"})
         @@ ("b4" :> {"r", "b1", "b2", "b3", "b4"})
         @@ ("z" :> {"r", "b1", "z"})
MCHeight == ("r" :> 4) @@ ("a1" :> 5) @@ ("a2" :> 6) @@ ("b1" :> 5)
            @@ ("b2" :> 6) @@ ("b3" :> 7) @@ ("b4" :> 8) @@ ("z" :> 6)
MCChainTrust == ("r" :> 0) @@ ("a1" :> 2) @@ ("a2" :> 4) @@ ("b1" :> 1)
                @@ ("b2" :> 5) @@ ("b3" :> 7) @@ ("b4" :> 9) @@ ("z" :> 6)
MCStake == [b \in MCBlock |-> IF b \in {"b2", "z"} THEN "s"
                              ELSE IF b = "b3" THEN "s3" ELSE "pow"]
MCSound == MCBlock \ {"z"}
MCVtx == [b \in MCBlock |-> IF b = "r" THEN <<"base">> ELSE <<>>]
MCTxOf == [o \in {"base1"} |-> "base"]
MCIns == [t \in {"base"} |-> {}]
MCMinted == [b \in MCBlock |-> 1]
MCOutTotal == [b \in MCBlock |-> IF b = "a2" THEN 4 ELSE 1]

=============================================================================
