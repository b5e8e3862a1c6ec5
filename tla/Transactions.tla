---------------------------- MODULE Transactions ----------------------------
(***************************************************************************)
(* Transactions, by what connects them: the outputs each one spends and    *)
(* the outputs it has.                                                     *)
(***************************************************************************)

CONSTANTS
    Tx, NoTx,    \* transactions; a null CDiskTxPos
    Outpoint,    \* COutPoint: one output of one transaction
    TxOf,        \* COutPoint::hash
    Ins          \* the prevouts of CTransaction::vin (none for a coinbase)

\* The outputs of t, and the transactions t spends.
OutsOf(t) == {o \in Outpoint : TxOf[o] = t}
PrevTxs(t) == {TxOf[o] : o \in Ins[t]}

=============================================================================
