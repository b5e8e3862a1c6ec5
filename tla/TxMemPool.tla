----------------------------- MODULE TxMemPool ------------------------------
(***************************************************************************)
(* CTxMemPool of subcore/txmempool.cpp as a value p: p.tx is mapTx, p.next *)
(* is mapNextTx, which has the pool transaction that spends an output.     *)
(***************************************************************************)
EXTENDS Transactions

EmptyPool == [tx |-> {}, next |-> [o \in Outpoint |-> NoTx]]

addUnchecked(p, t) ==
    [tx |-> p.tx \cup {t},
     next |-> [o \in Outpoint |-> IF o \in Ins[t] THEN t ELSE p.next[o]]]

\* remove(tx, false): what spends its outputs stays in the pool.
remove(p, t) ==
    IF t \notin p.tx THEN p
    ELSE [tx |-> p.tx \ {t},
          next |-> [o \in Outpoint |-> IF o \in Ins[t] THEN NoTx ELSE p.next[o]]]

\* remove(tx, false) of each transaction of S, in any order.
removeEach(p, S) ==
    [tx |-> p.tx \ S,
     next |-> [o \in Outpoint |-> IF \E t \in S \cap p.tx : o \in Ins[t]
                                  THEN NoTx ELSE p.next[o]]]

\* mapNextTx has an entry for exactly the outputs the pool's transactions
\* spend, each for the one that spends it.
IndexesSpends(p) ==
    /\ p.tx \subseteq Tx
    /\ p.next \in [Outpoint -> p.tx \cup {NoTx}]
    /\ \A t \in p.tx : \A o \in Ins[t] : p.next[o] = t
    /\ \A o \in Outpoint : p.next[o] # NoTx => o \in Ins[p.next[o]]

=============================================================================
