---------------------------- MODULE MCOrphanTxs -----------------------------
(***************************************************************************)
(* g is in the chain. a spends g; b spends an output of a, c another one   *)
(* and one of b, d those two of a; e spends c and is too large to be       *)
(* stored, f spends a and pays too little.                                 *)
(***************************************************************************)
EXTENDS OrphanTxs, TLC

MCTx == {"g", "a", "b", "c", "d", "e", "f"}
MCOutpoint == {"g1", "a1", "a2", "a3", "b1", "c1"}
MCTxOf == ("g1" :> "g") @@ ("a1" :> "a") @@ ("a2" :> "a") @@ ("a3" :> "a")
          @@ ("b1" :> "b") @@ ("c1" :> "c")
MCIns == ("g" :> {}) @@ ("a" :> {"g1"}) @@ ("b" :> {"a1"}) @@ ("c" :> {"a2", "b1"})
         @@ ("d" :> {"a1", "a2"}) @@ ("e" :> {"c1"}) @@ ("f" :> {"a3"})

=============================================================================
