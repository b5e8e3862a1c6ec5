------------------------------ MODULE OrphanTxs -----------------------------
(***************************************************************************)
(* The "tx" message of ProcessMessage in core/main.cpp: a transaction from *)
(* a peer enters the memory pool, or waits in mapOrphanTransactions until  *)
(* what it spends has come. AlreadyHave is asked before cs_main is taken;  *)
(* in between, and between messages, other threads add transactions to the *)
(* pool and connect blocks. The loop over the waiting transactions runs    *)
(* under cs_main and goes on with those it has itself accepted.            *)
(***************************************************************************)
EXTENDS TxMemPool, Naturals, Sequences, FiniteSets

CONSTANTS
    Standard,   \* pass what AcceptToMemoryPool checks before the inputs
    Paying,     \* pass fees and scripts, which it checks after
    Small,      \* at most 5000 bytes
    MAX_ORPHAN_TRANSACTIONS,
    Genesis     \* the transactions of the chain at first

ASSUME OrphanAssumption ==
    /\ NoTx \notin Tx
    /\ TxOf \in [Outpoint -> Tx]
    /\ Ins \in [Tx -> SUBSET Outpoint]
    /\ Standard \subseteq Tx /\ Paying \subseteq Tx /\ Small \subseteq Tx
    /\ MAX_ORPHAN_TRANSACTIONS \in Nat
    /\ Genesis \subseteq Tx

VARIABLES
    mapTx, mapNextTx,            \* the memory pool
    mapOrphanTransactions,
    mapOrphanTransactionsByPrev, \* per transaction, the orphans that spend it
    confirmed,                   \* the transactions of the best chain
    msg                          \* the message being handled

vars == <<mapTx, mapNextTx, mapOrphanTransactions, mapOrphanTransactionsByPrev,
          confirmed, msg>>

pool == [tx |-> mapTx, next |-> mapNextTx]
PoolBecomes(p) == mapTx' = p.tx /\ mapNextTx' = p.next

\* op is "checked" after AlreadyHave, "orphans" in the loop, where queue is
\* vWorkQueue, at the place in it, left the rest of the inner loop's set and
\* erase is vEraseQueue.
Idle == [op |-> "idle", tx |-> NoTx, queue |-> <<>>, at |-> 0, left |-> {},
         erase |-> {}]

MainLockFree == msg.op # "orphans"

-----------------------------------------------------------------------------

\* FetchInputs does not find something that t spends.
InputMissing(t) == ~ (PrevTxs(t) \subseteq mapTx \cup confirmed)

\* AcceptToMemoryPool, with fMissingInputs.
Outcome(t) ==
    IF \/ t \notin Standard \/ t \in mapTx \cup confirmed
       \/ \E o \in Ins[t] : mapNextTx[o] # NoTx
    THEN "refused"
    ELSE IF InputMissing(t) THEN "missing"
    ELSE IF t \notin Paying \/ \E s \in confirmed : Ins[s] \cap Ins[t] # {}
    THEN "refused" ELSE "accepted"

\* For Indexed: only the first prevout is entered.
IndexedOnce(t) ==
    [h \in Tx |-> mapOrphanTransactionsByPrev[h]
                  \cup (IF PrevTxs(t) # {} /\ h = CHOOSE p \in PrevTxs(t) : TRUE
                        THEN {t} ELSE {})]

\* AddOrphanTx: the entries of the second map.
Indexed(t) ==
    [h \in Tx |-> mapOrphanTransactionsByPrev[h]
                  \cup (IF h \in PrevTxs(t) THEN {t} ELSE {})]

\* EraseOrphanTx for each of E, from an index byPrev.
Erased(byPrev, E) ==
    [h \in Tx |-> byPrev[h] \ {t \in E : h \in PrevTxs(t)}]

\* LimitOrphanTxSize: what random evictions may leave.
Kept(all) ==
    {S \in SUBSET all : Cardinality(S) =
        IF Cardinality(all) > MAX_ORPHAN_TRANSACTIONS
        THEN MAX_ORPHAN_TRANSACTIONS ELSE Cardinality(all)}

-----------------------------------------------------------------------------

Init ==
    /\ mapTx = EmptyPool.tx /\ mapNextTx = EmptyPool.next
    /\ mapOrphanTransactions = {}
    /\ mapOrphanTransactionsByPrev = [h \in Tx |-> {}]
    /\ confirmed = Genesis
    /\ msg = Idle

\* A "tx" message arrives and AlreadyHave says no.
ReceiveTx(t) ==
    /\ msg = Idle
    /\ t \notin mapTx \cup mapOrphanTransactions \cup confirmed
    /\ msg' = [Idle EXCEPT !.op = "checked", !.tx = t]
    /\ UNCHANGED <<mapTx, mapNextTx, mapOrphanTransactions,
                   mapOrphanTransactionsByPrev, confirmed>>

\* It is accepted, and the loop begins.
AcceptTx ==
    /\ msg.op = "checked" /\ Outcome(msg.tx) = "accepted"
    /\ PoolBecomes(addUnchecked(pool, msg.tx))
    /\ msg' = [msg EXCEPT !.op = "orphans", !.queue = <<msg.tx>>, !.at = 1,
                          !.left = mapOrphanTransactionsByPrev[msg.tx],
                          !.erase = {msg.tx}]
    /\ UNCHANGED <<mapOrphanTransactions, mapOrphanTransactionsByPrev, confirmed>>

\* Its inputs are missing: AddOrphanTx, which ignores a large one, and
\* LimitOrphanTxSize.
StoreOrphan ==
    /\ msg.op = "checked" /\ Outcome(msg.tx) = "missing"
    /\ IF msg.tx \in Small
       THEN \E kept \in Kept(mapOrphanTransactions \cup {msg.tx}) :
                /\ mapOrphanTransactions' = kept
                /\ mapOrphanTransactionsByPrev' =
                      Erased(Indexed(msg.tx),
                             (mapOrphanTransactions \cup {msg.tx}) \ kept)
       ELSE UNCHANGED <<mapOrphanTransactions, mapOrphanTransactionsByPrev>>
    /\ msg' = Idle
    /\ UNCHANGED <<mapTx, mapNextTx, confirmed>>

RefuseTx ==
    /\ msg.op = "checked" /\ Outcome(msg.tx) = "refused"
    /\ msg' = Idle
    /\ UNCHANGED <<mapTx, mapNextTx, mapOrphanTransactions,
                   mapOrphanTransactionsByPrev, confirmed>>

\* For TryOrphan: what is accepted is not put into vWorkQueue.
TryOrphanOnly(c) ==
    /\ msg.op = "orphans" /\ c \in msg.left
    /\ PoolBecomes(IF Outcome(c) = "accepted" THEN addUnchecked(pool, c) ELSE pool)
    /\ msg' = [msg EXCEPT !.left = @ \ {c},
                          !.erase = IF Outcome(c) = "missing" THEN @ ELSE @ \cup {c}]
    /\ UNCHANGED <<mapOrphanTransactions, mapOrphanTransactionsByPrev, confirmed>>

\* One orphan of the inner loop, in the order of the hashes.
TryOrphan(c) ==
    /\ msg.op = "orphans" /\ c \in msg.left
    /\ PoolBecomes(IF Outcome(c) = "accepted" THEN addUnchecked(pool, c) ELSE pool)
    /\ msg' = [msg EXCEPT
                 !.left = @ \ {c},
                 !.queue = IF Outcome(c) = "accepted" THEN Append(@, c) ELSE @,
                 !.erase = IF Outcome(c) = "missing" THEN @ ELSE @ \cup {c}]
    /\ UNCHANGED <<mapOrphanTransactions, mapOrphanTransactionsByPrev, confirmed>>

\* For NextInQueue: the place in the queue is not advanced.
SameInQueue ==
    /\ msg.op = "orphans" /\ msg.left = {} /\ msg.at < Len(msg.queue)
    /\ msg' = [msg EXCEPT !.left = mapOrphanTransactionsByPrev[msg.queue[msg.at + 1]]]
    /\ UNCHANGED <<mapTx, mapNextTx, mapOrphanTransactions,
                   mapOrphanTransactionsByPrev, confirmed>>

\* The outer loop goes on.
NextInQueue ==
    /\ msg.op = "orphans" /\ msg.left = {} /\ msg.at < Len(msg.queue)
    /\ msg' = [msg EXCEPT !.at = @ + 1,
                          !.left = mapOrphanTransactionsByPrev[msg.queue[msg.at + 1]]]
    /\ UNCHANGED <<mapTx, mapNextTx, mapOrphanTransactions,
                   mapOrphanTransactionsByPrev, confirmed>>

\* The loop over vEraseQueue; the message is done.
EraseProcessed ==
    /\ msg.op = "orphans" /\ msg.left = {} /\ msg.at = Len(msg.queue)
    /\ mapOrphanTransactions' = mapOrphanTransactions \ msg.erase
    /\ mapOrphanTransactionsByPrev' =
          Erased(mapOrphanTransactionsByPrev, msg.erase \cap mapOrphanTransactions)
    /\ msg' = Idle
    /\ UNCHANGED <<mapTx, mapNextTx, confirmed>>

\* The wallet or an RPC call adds a transaction; waiting orphans are not tried.
AcceptLocal(t) ==
    /\ MainLockFree /\ Outcome(t) = "accepted"
    /\ PoolBecomes(addUnchecked(pool, t))
    /\ UNCHANGED <<mapOrphanTransactions, mapOrphanTransactionsByPrev, confirmed, msg>>

\* A block with t is connected (SetBestChainInner); orphans are not tried.
ConnectBlock(t) ==
    /\ MainLockFree /\ t \notin confirmed
    /\ PrevTxs(t) \subseteq confirmed
    /\ \A s \in confirmed : Ins[s] \cap Ins[t] = {}
    /\ confirmed' = confirmed \cup {t}
    /\ PoolBecomes(remove(pool, t))
    /\ UNCHANGED <<mapOrphanTransactions, mapOrphanTransactionsByPrev, msg>>

\* What the message handler does with a message it has begun.
HandlerStep ==
    \/ AcceptTx \/ StoreOrphan \/ RefuseTx
    \/ \E c \in Tx : TryOrphan(c)
    \/ NextInQueue \/ EraseProcessed

Next ==
    \/ \E t \in Tx : ReceiveTx(t) \/ AcceptLocal(t) \/ ConnectBlock(t)
    \/ HandlerStep

Spec == Init /\ [][Next]_vars

\* The thread that handles messages keeps running.
FairSpec == Spec /\ WF_vars(HandlerStep)

-----------------------------------------------------------------------------
(* Properties.                                                             *)

MsgType ==
    [op : {"idle", "checked", "orphans"}, tx : Tx \cup {NoTx},
     queue : Seq(Tx), at : Nat, left : SUBSET Tx, erase : SUBSET Tx]

\* Every variable holds a value of its kind, and mapNextTx names exactly what
\* the pool spends.
TypeOK ==
    /\ IndexesSpends(pool)
    /\ mapOrphanTransactions \subseteq Tx
    /\ mapOrphanTransactionsByPrev \in [Tx -> SUBSET Tx]
    /\ confirmed \subseteq Tx
    /\ msg \in MsgType

\* The two maps agree: under each transaction are exactly the orphans that
\* spend it. The loop looks an orphan up with operator[], which would make an
\* empty transaction out of an entry with no orphan behind it.
OrphanIndexExact ==
    \A h \in Tx : mapOrphanTransactionsByPrev[h] =
                  {t \in mapOrphanTransactions : h \in PrevTxs(t)}

\* LimitOrphanTxSize: the orphans never exceed the limit between messages.
OrphansBounded == Cardinality(mapOrphanTransactions) <= MAX_ORPHAN_TRANSACTIONS

\* "Recursively process any orphan transactions that depended on this one":
\* when the message is done, an orphan that spends something it brought into
\* the pool is still there only if it misses another input, in whatever order
\* the orphans were tried.
DependantsProcessed ==
    [][msg.op = "orphans" /\ msg' = Idle =>
           \A c \in mapOrphanTransactions' :
               PrevTxs(c) \cap {msg.queue[i] : i \in DOMAIN msg.queue} # {}
               => InputMissing(c)]_vars

\* The loop ends, though it adds to the queue it runs over: cs_main is released.
HandlerReturns == (msg # Idle) ~> (msg = Idle)

=============================================================================
