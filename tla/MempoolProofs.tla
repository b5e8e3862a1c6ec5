--------------------------- MODULE MempoolProofs ----------------------------
(***************************************************************************)
(* What a change of the best chain does to the transactions off it, for    *)
(* any tree of blocks and any transactions.                                *)
(*                                                                         *)
(* In the memory pool mapNextTx is exact through every operation, among    *)
(* them the loops of Reorganize over the branches it leaves and joins;     *)
(* nothing in the pool is on the chain, and what conflicts with a newly    *)
(* connected block is gone. SpendInv: the spender that the database names  *)
(* for an output has that output among its inputs.                         *)
(*                                                                         *)
(* In the wallet the stakes on a branch that was left are refunded.        *)
(* RefundInv says which of them a reorganisation has refunded so far.      *)
(***************************************************************************)
EXTENDS ChainMempool, BestChainProofs

USE SMTT(30)

-----------------------------------------------------------------------------
(* The operations of CTxMemPool.                                           *)

\* The pools whose mapNextTx is exact.
Pools == {p \in [tx : SUBSET Tx, next : [Outpoint -> Tx \cup {NoTx}]] : IndexesSpends(p)}

\* Each transaction of a pool owns the entries of its inputs.
LEMMA PoolSpends ==
    ASSUME NEW p \in Pools
    PROVE  /\ IndexesSpends(p) /\ p.tx \subseteq Tx
           /\ p.next \in [Outpoint -> Tx \cup {NoTx}]
           /\ \A t \in p.tx : \A o \in Ins[t] : o \in Outpoint /\ p.next[o] = t
           /\ \A o \in Outpoint : p.next[o] # NoTx => /\ p.next[o] \in p.tx
                                                      /\ o \in Ins[p.next[o]]
BY TxAssumption DEF Pools, IndexesSpends

\* The empty pool is one of them.
LEMMA EmptyIsPool == EmptyPool \in Pools /\ EmptyPool.tx = {}
BY TxAssumption DEF EmptyPool, Pools, IndexesSpends

\* So is the pool that addUnchecked leaves, when nothing in the pool spends an
\* input of the new transaction.
LEMMA AddIsPool ==
    ASSUME NEW p \in Pools, NEW t \in Tx, \A o \in Ins[t] : p.next[o] = NoTx
    PROVE  addUnchecked(p, t) \in Pools /\ addUnchecked(p, t).tx = p.tx \cup {t}
<1> DEFINE q == [tx |-> p.tx \cup {t},
                 next |-> [o \in Outpoint |-> IF o \in Ins[t] THEN t ELSE p.next[o]]]
<1>1. addUnchecked(p, t) = q
  BY DEF addUnchecked
<1>2. q.tx \subseteq Tx /\ q.next \in [Outpoint -> q.tx \cup {NoTx}]
  BY PoolSpends
<1>3. \A s \in q.tx : \A o \in Ins[s] : q.next[o] = s
  <2> SUFFICES ASSUME NEW s \in p.tx \cup {t}, NEW o \in Ins[s]
               PROVE  q.next[o] = s
    OBVIOUS
  <2>1. s \in Tx /\ o \in Outpoint
    <3>1. p.tx \subseteq Tx
      BY PoolSpends, Zenon
    <3>2. s \in Tx
      BY <3>1, Zenon
    <3> QED
      BY <3>2, TxAssumption, Zenon
  <2>2. s \in p.tx => p.next[o] = s /\ s # NoTx
    BY <2>1, TxAssumption, PoolSpends
  <2> QED
    BY <2>1, <2>2
<1>4. \A o \in Outpoint : q.next[o] # NoTx => o \in Ins[q.next[o]]
  BY PoolSpends
<1>5. q \in [tx : SUBSET Tx, next : [Outpoint -> Tx \cup {NoTx}]]
  BY <1>2, Zenon
<1>6. IndexesSpends(q)
  BY <1>2, <1>3, <1>4, Zenon DEF IndexesSpends
<1> QED
  BY <1>1, <1>5, <1>6 DEF Pools

\* So is the pool without some transactions: no other one has an entry under
\* the inputs of those that go.
LEMMA RemoveEachIsPool ==
    ASSUME NEW p \in Pools, NEW S
    PROVE  removeEach(p, S) \in Pools /\ removeEach(p, S).tx = p.tx \ S
<1> DEFINE gone(o) == \E t \in S \cap p.tx : o \in Ins[t]
           q == [tx |-> p.tx \ S,
                 next |-> [o \in Outpoint |-> IF gone(o) THEN NoTx ELSE p.next[o]]]
<1>1. removeEach(p, S) = q
  BY DEF removeEach
<1>2. \A o \in Outpoint : ~ gone(o) /\ p.next[o] # NoTx => p.next[o] \in p.tx \ S
  BY PoolSpends
<1>3. \A t \in p.tx \ S : \A o \in Ins[t] : o \in Outpoint /\ p.next[o] = t /\ ~ gone(o)
  BY PoolSpends
<1>4. q.tx \subseteq Tx /\ \A o \in Outpoint : q.next[o] \in (p.tx \ S) \cup {NoTx}
  <2> HIDE DEF gone
  <2> QED
    BY <1>2, PoolSpends
<1>5. q.next \in [Outpoint -> q.tx \cup {NoTx}]
  BY <1>4
<1>6. \A t \in q.tx : \A o \in Ins[t] : q.next[o] = t
  <2> HIDE DEF gone
  <2> QED
    BY <1>3
<1>7. \A o \in Outpoint : q.next[o] # NoTx => o \in Ins[q.next[o]]
  <2> HIDE DEF gone
  <2> QED
    BY PoolSpends
<1>8. q \in [tx : SUBSET Tx, next : [Outpoint -> Tx \cup {NoTx}]]
  BY <1>4, <1>5, Zenon
<1>9. IndexesSpends(q)
  BY <1>4, <1>5, <1>6, <1>7, Zenon DEF IndexesSpends
<1> QED
  BY <1>1, <1>8, <1>9 DEF Pools

\* And so is the pool without one.
LEMMA RemoveIsPool ==
    ASSUME NEW p \in Pools, NEW t
    PROVE  remove(p, t) \in Pools /\ remove(p, t).tx = p.tx \ {t}
<1>1. CASE t \notin p.tx
  BY <1>1 DEF remove
<1>2. CASE t \in p.tx
  <2>1. \A o : (\E s \in {t} \cap p.tx : o \in Ins[s]) <=> o \in Ins[t]
    BY <1>2
  <2>2. remove(p, t) = removeEach(p, {t})
    BY <1>2, <2>1, Zenon DEF remove, removeEach
  <2> QED
    BY <2>2, RemoveEachIsPool
<1> QED
  BY <1>1, <1>2

\* Nothing of the pool is t or spends what t spends.
Clear(p, t) == t \notin p.tx /\ \A u \in p.tx : Ins[u] \cap Ins[t] = {}

\* removeConflicts clears the pool of what conflicts with t.
LEMMA ConflictsGo ==
    ASSUME NEW p \in Pools, NEW t \in Tx, t \notin p.tx
    PROVE  /\ removeConflicts(p, t) \in Pools
           /\ removeConflicts(p, t).tx \subseteq p.tx
           /\ Clear(removeConflicts(p, t), t)
<1> DEFINE G == UNION {Dependents(p, c) : c \in Conflicts(p, t)}
<1>1. /\ removeConflicts(p, t) \in Pools
      /\ removeConflicts(p, t).tx = p.tx \ G
  <2> HIDE DEF G
  <2>1. removeConflicts(p, t) = removeEach(p, G)
    BY DEF removeConflicts, G
  <2> QED
    BY <2>1, RemoveEachIsPool
<1>2. ASSUME NEW u \in p.tx, NEW o \in Ins[u] \cap Ins[t]
      PROVE  u \in G
  <2>1. p.next[o] = u /\ u # NoTx /\ u # t
    BY TxAssumption, PoolSpends
  <2>2. u \in Conflicts(p, t)
    BY <2>1 DEF Conflicts
  <2>3. u \in Dependents(p, u)
    BY DEF Dependents
  <2> QED
    BY <2>2, <2>3, Zenon
<1> QED
  BY <1>1, <1>2 DEF Clear

-----------------------------------------------------------------------------
(* The loops of Reorganize. Each has a run over Pools, so that what one    *)
(* turn does can be put together by UpTo.                                  *)

\* AcceptToMemoryPool adds a transaction that the database does not have.
LEMMA AcceptedIsPool ==
    ASSUME NEW p \in Pools, NEW d, NEW t, Acceptable(p, d, t)
    PROVE  /\ addUnchecked(p, t) \in Pools
           /\ addUnchecked(p, t).tx = p.tx \cup {t} /\ t \notin d.txs
<1>1. t \in Tx /\ \A o \in Ins[t] : p.next[o] = NoTx
  BY RelayableAssumption DEF Acceptable
<1> QED
  BY <1>1, AddIsPool DEF Acceptable

\* The transactions of one disconnected block are offered to the pool. What it
\* gains, the database does not have.
LEMMA ResurrectedFromIsPool ==
    ASSUME NEW p \in Pools, NEW d, NEW b \in Block
    PROVE  /\ ResurrectedFrom(p, d, b) \in Pools
           /\ ResurrectedFrom(p, d, b).tx \cap d.txs \subseteq p.tx
<1> DEFINE n == Len(Vtx[b])
           tx(i) == Vtx[b][n + 1 - i]
           turn(q, i) == IF Acceptable(q, d, tx(i)) THEN addUnchecked(q, tx(i)) ELSE q
           F == [i \in 1..n |-> [q \in Pools |-> turn(q, i)]]
           E(u) == [i \in 0..n |-> IF i = 0 THEN p ELSE turn(u[i - 1], i)]
           after == CHOOSE u : u = E(u)
<1>1. n \in Nat
  BY TxAssumption
<1>2. \A i \in 1..n : \A q \in Pools :
          turn(q, i) \in Pools /\ turn(q, i).tx \cap d.txs \subseteq q.tx
  <2> HIDE DEF tx
  <2> QED
    BY AcceptedIsPool
<1>3. ResurrectedFrom(p, d, b) = after[n]
  BY DEF ResurrectedFrom, Loop
<1> HIDE DEF n, turn
<1>4. F \in [1..n -> [Pools -> Pools]]
  BY <1>2
<1>5. PICK run : LoopRun(run, n, Pools, p, F)
  <2> HIDE DEF F
  <2> QED
    BY <1>1, <1>4, LoopRuns, Zenon
<1>6. run = E(run)
  <2>1. \A i \in 1..n : i - 1 \in 0..n /\ run[i - 1] \in Pools /\ run[i] = F[i][run[i - 1]]
    <3> HIDE DEF F
    <3> QED
      BY <1>1, <1>5 DEF LoopRun
  <2>2. \A i \in 1..n : run[i] = turn(run[i - 1], i)
    BY <2>1, Zenon
  <2>3. \A i \in 0..n : i # 0 => i \in 1..n
    BY <1>1
  <2> HIDE DEF F
  <2> QED
    BY <1>5, <2>2, <2>3, Zenon DEF LoopRun
<1>7. after = E(after)
  <2> HIDE DEF E
  <2> QED
    BY <1>6
<1> HIDE DEF after, F
<1>8. after[0] = p /\ \A i \in 1..n : after[i] = turn(after[i - 1], i)
  BY <1>1, <1>7
<1> HIDE DEF E
<1> DEFINE T == {i \in 0..n : after[i] \in Pools /\ after[i].tx \cap d.txs \subseteq p.tx}
<1>9. 0..n \subseteq T
  <2>1. 0 \in T
    BY <1>1, <1>8
  <2>2. ASSUME NEW i \in 1..n, i - 1 \in T
        PROVE  i \in T
    <3> DEFINE q == after[i - 1]
               r == after[i]
    <3>1. q \in Pools /\ q.tx \cap d.txs \subseteq p.tx
      BY <2>2, Zenon
    <3>2. r = turn(q, i)
      BY <1>8, Zenon
    <3>3. r \in Pools /\ r.tx \cap d.txs \subseteq q.tx
      BY <1>2, <3>1, <3>2, Zenon
    <3>4. i \in 0..n
      BY <1>1
    <3> HIDE DEF q, r
    <3>5. r \in Pools /\ r.tx \cap d.txs \subseteq p.tx
      BY <3>1, <3>3, Zenon
    <3> QED
      BY <3>4, <3>5, Zenon DEF r
  <2> HIDE DEF T
  <2> QED
    BY <1>1, <2>1, <2>2, UpTo, Zenon
<1> QED
  BY <1>1, <1>3, <1>9

\* The blocks of a branch that starts at the fork.
LEMMA BranchBlocks ==
    ASSUME TypeOK, NEW b \in Block, call.fork \in Anc[b]
    PROVE  /\ BranchLength(b) \in Nat
           /\ \A i \in 1..BranchLength(b) : Above(b, i) \in Anc[b] /\ Above(b, i) \in Block
           /\ \A a \in Anc[b] \ Anc[call.fork] :
                 \E i \in 1..BranchLength(b) : a = Above(b, i)
<1> DEFINE f == call.fork
<1>1. /\ f \in Block /\ Height[f] \in Nat /\ Height[b] \in Nat /\ Height[Root] \in Nat
      /\ Height[Root] <= Height[f] /\ Height[f] <= Height[b]
  <2>1. f \in Block /\ Root \in Anc[f]
    BY OwnChain, Zenon
  <2>2. Height[Root] <= Height[f] /\ Height[f] <= Height[b]
    BY <2>1, ChainsNest, Zenon
  <2> QED
    BY <2>1, <2>2, TreeAssumption, Zenon
<1>2. BranchLength(b) \in Nat
  BY <1>1 DEF BranchLength
<1>3. ASSUME NEW i \in 1..BranchLength(b)
      PROVE  Above(b, i) \in Anc[b] /\ Above(b, i) \in Block
  <2> DEFINE h == Height[f] + i
  <2>1. h \in Int /\ Height[Root] <= h /\ h <= Height[b]
    BY <1>1 DEF BranchLength
  <2>2. Above(b, i) = AtHeight(b, h)
    BY DEF Above
  <2> HIDE DEF h
  <2> QED
    BY <2>1, <2>2, ChainHeights, OwnChain
<1>4. ASSUME NEW a \in Anc[b] \ Anc[f]
      PROVE  \E i \in 1..BranchLength(b) : a = Above(b, i)
  <2>1. a \in Block /\ Height[a] \in Nat /\ Height[a] <= Height[b]
    BY OwnChain, ChainsNest, TreeAssumption, Zenon
  <2>2. Height[a] > Height[f]
    BY <1>1, <2>1, ChainIsLinear
  <2> DEFINE i == Height[a] - Height[f]
  <2>3. i \in 1..BranchLength(b) /\ Height[f] + i = Height[a]
    BY <1>1, <2>1, <2>2 DEF BranchLength
  <2>4. Above(b, i) = a
    BY <2>3, AtOwnHeight, Zenon DEF Above
  <2> QED
    BY <2>3, <2>4
<1> QED
  BY <1>2, <1>3, <1>4, Zenon

\* The disconnected blocks are offered to the pool.
LEMMA ResurrectedIsPool ==
    ASSUME TypeOK, call.fork \in Anc[pindexBest], NEW p \in Pools, NEW d
    PROVE  /\ Resurrected(p, d) \in Pools
           /\ Resurrected(p, d).tx \cap d.txs \subseteq p.tx
<1> DEFINE n == BranchLength(pindexBest)
           turn(q, i) == IF Height[call.fork] + i > nReorgMax
                         THEN ResurrectedFrom(q, d, Above(pindexBest, i)) ELSE q
           F == [i \in 1..n |-> [q \in Pools |-> turn(q, i)]]
           E(u) == [i \in 0..n |-> IF i = 0 THEN p ELSE turn(u[i - 1], i)]
           after == CHOOSE u : u = E(u)
<1>1. n \in Nat /\ \A i \in 1..n : Above(pindexBest, i) \in Block
  BY BranchBlocks DEF TypeOK
<1>2. \A i \in 1..n : \A q \in Pools :
          turn(q, i) \in Pools /\ turn(q, i).tx \cap d.txs \subseteq q.tx
  <2> HIDE DEF n
  <2> QED
    BY <1>1, ResurrectedFromIsPool, Zenon
<1>3. Resurrected(p, d) = after[n]
  BY DEF Resurrected, Loop
<1> HIDE DEF n, turn
<1>4. F \in [1..n -> [Pools -> Pools]]
  BY <1>2
<1>5. PICK run : LoopRun(run, n, Pools, p, F)
  <2> HIDE DEF F
  <2> QED
    BY <1>1, <1>4, LoopRuns, Zenon
<1>6. run = E(run)
  <2>1. \A i \in 1..n : i - 1 \in 0..n /\ run[i - 1] \in Pools /\ run[i] = F[i][run[i - 1]]
    <3> HIDE DEF F
    <3> QED
      BY <1>1, <1>5 DEF LoopRun
  <2>2. \A i \in 1..n : run[i] = turn(run[i - 1], i)
    BY <2>1, Zenon
  <2>3. \A i \in 0..n : i # 0 => i \in 1..n
    BY <1>1
  <2> HIDE DEF F
  <2> QED
    BY <1>5, <2>2, <2>3, Zenon DEF LoopRun
<1>7. after = E(after)
  <2> HIDE DEF E
  <2> QED
    BY <1>6
<1> HIDE DEF after, F
<1>8. after[0] = p /\ \A i \in 1..n : after[i] = turn(after[i - 1], i)
  BY <1>1, <1>7
<1> HIDE DEF E
<1> DEFINE T == {i \in 0..n : after[i] \in Pools /\ after[i].tx \cap d.txs \subseteq p.tx}
<1>9. 0..n \subseteq T
  <2>1. 0 \in T
    BY <1>1, <1>8
  <2>2. ASSUME NEW i \in 1..n, i - 1 \in T
        PROVE  i \in T
    <3> DEFINE q == after[i - 1]
               r == after[i]
    <3>1. q \in Pools /\ q.tx \cap d.txs \subseteq p.tx
      BY <2>2, Zenon
    <3>2. r = turn(q, i)
      BY <1>8, Zenon
    <3>3. r \in Pools /\ r.tx \cap d.txs \subseteq q.tx
      BY <1>2, <3>1, <3>2, Zenon
    <3>4. i \in 0..n
      BY <1>1
    <3> HIDE DEF q, r
    <3>5. r \in Pools /\ r.tx \cap d.txs \subseteq p.tx
      BY <3>1, <3>3, Zenon
    <3> QED
      BY <3>4, <3>5, Zenon DEF r
  <2> HIDE DEF T
  <2> QED
    BY <1>1, <2>1, <2>2, UpTo
<1> QED
  BY <1>1, <1>3, <1>9

\* The transactions of one connected block go, with what conflicts with them.
LEMMA DeletedByIsPool ==
    ASSUME NEW p \in Pools, NEW b \in Block
    PROVE  /\ DeletedBy(p, b) \in Pools /\ DeletedBy(p, b).tx \subseteq p.tx
           /\ \A t \in TxsOf(b) : Clear(DeletedBy(p, b), t)
<1> DEFINE n == Len(Vtx[b])
           turn(q, i) == removeConflicts(remove(q, Vtx[b][i]), Vtx[b][i])
           F == [i \in 1..n |-> [q \in Pools |-> turn(q, i)]]
           E(u) == [i \in 0..n |-> IF i = 0 THEN p ELSE turn(u[i - 1], i)]
           after == CHOOSE u : u = E(u)
<1>1. n \in Nat /\ \A i \in 1..n : Vtx[b][i] \in Tx
  BY TxAssumption
<1>2. \A i \in 1..n : \A q \in Pools :
          /\ turn(q, i) \in Pools /\ turn(q, i).tx \subseteq q.tx
          /\ Clear(turn(q, i), Vtx[b][i])
  <2> SUFFICES ASSUME NEW i \in 1..n, NEW q \in Pools
               PROVE  /\ turn(q, i) \in Pools /\ turn(q, i).tx \subseteq q.tx
                      /\ Clear(turn(q, i), Vtx[b][i])
    BY Zenon
  <2> DEFINE r == remove(q, Vtx[b][i])
  <2>1. r \in Pools /\ r.tx \subseteq q.tx /\ Vtx[b][i] \notin r.tx
    BY RemoveIsPool
  <2> HIDE DEF r, n
  <2>2. turn(q, i) = removeConflicts(r, Vtx[b][i])
    BY DEF r
  <2> QED
    BY <1>1, <2>1, <2>2, ConflictsGo, Zenon
<1>3. DeletedBy(p, b) = after[n]
  BY DEF DeletedBy, Loop
<1> HIDE DEF n, turn
<1>4. F \in [1..n -> [Pools -> Pools]]
  BY <1>2
<1>5. PICK run : LoopRun(run, n, Pools, p, F)
  <2> HIDE DEF F
  <2> QED
    BY <1>1, <1>4, LoopRuns, Zenon
<1>6. run = E(run)
  <2>1. \A i \in 1..n : i - 1 \in 0..n /\ run[i - 1] \in Pools /\ run[i] = F[i][run[i - 1]]
    <3> HIDE DEF F
    <3> QED
      BY <1>1, <1>5 DEF LoopRun
  <2>2. \A i \in 1..n : run[i] = turn(run[i - 1], i)
    BY <2>1, Zenon
  <2>3. \A i \in 0..n : i # 0 => i \in 1..n
    BY <1>1
  <2> HIDE DEF F
  <2> QED
    BY <1>5, <2>2, <2>3 DEF LoopRun
<1>7. after = E(after)
  <2> HIDE DEF E
  <2> QED
    BY <1>6
<1> HIDE DEF after, F
<1>8. after[0] = p /\ \A i \in 1..n : after[i] = turn(after[i - 1], i)
  BY <1>1, <1>7
<1> HIDE DEF E
<1> DEFINE Done(q, i) == /\ q \in Pools /\ q.tx \subseteq p.tx
                         /\ \A j \in 1..i : Clear(q, Vtx[b][j])
           T == {i \in 0..n : Done(after[i], i)}
<1>9. 0..n \subseteq T
  <2>1. 0 \in T
    BY <1>1, <1>8
  <2>2. ASSUME NEW i \in 1..n, i - 1 \in T
        PROVE  i \in T
    <3>1. Done(after[i - 1], i - 1)
      BY <2>2
    <3> DEFINE q == after[i - 1]
               r == after[i]
    <3>2. r \in Pools /\ r.tx \subseteq q.tx /\ Clear(r, Vtx[b][i])
      BY <1>2, <1>8, <3>1, Zenon
    <3> HIDE DEF r, q
    <3>3. \A j \in 1..i : Clear(r, Vtx[b][j])
      <4> SUFFICES ASSUME NEW j \in 1..i, j # i
                   PROVE  Clear(r, Vtx[b][j])
        BY <3>2
      <4>1. j \in 1..(i - 1)
        BY <1>1
      <4>2. Clear(q, Vtx[b][j])
        BY <3>1, <4>1, Zenon DEF q
      <4> QED
        BY <3>2, <4>2 DEF Clear
    <3>4. q.tx \subseteq p.tx
      BY <3>1 DEF q
    <3>5. Done(r, i)
      BY <3>2, <3>3, <3>4
    <3>6. i \in 0..n
      BY <1>1
    <3> QED
      BY <3>5, <3>6, Zenon DEF r
  <2> HIDE DEF T
  <2> QED
    BY <1>1, <2>1, <2>2, UpTo
<1>10. Done(after[n], n)
  <2>1. n \in 0..n
    BY <1>1
  <2> QED
    BY <1>9, <2>1, Zenon
<1>11. \A t \in TxsOf(b) : \E j \in 1..n : t = Vtx[b][j]
  BY TxAssumption DEF TxsOf, n
<1> QED
  BY <1>3, <1>10, <1>11, Zenon

\* The connected blocks go.
LEMMA DeletedIsPool ==
    ASSUME TypeOK, call.fork \in Anc[call.mid], NEW p \in Pools
    PROVE  /\ Deleted(p) \in Pools /\ Deleted(p).tx \subseteq p.tx
           /\ \A t \in TxsOn(Anc[call.mid] \ Anc[call.fork]) : Clear(Deleted(p), t)
<1> DEFINE n == BranchLength(call.mid)
           turn(q, i) == DeletedBy(q, Above(call.mid, i))
           F == [i \in 1..n |-> [q \in Pools |-> turn(q, i)]]
           E(u) == [i \in 0..n |-> IF i = 0 THEN p ELSE turn(u[i - 1], i)]
           after == CHOOSE u : u = E(u)
<1>0. call.mid \in Block
  BY DEF TypeOK, CallType
<1>1. /\ n \in Nat /\ \A i \in 1..n : Above(call.mid, i) \in Block
      /\ \A a \in Anc[call.mid] \ Anc[call.fork] :
            \E i \in 1..n : a = Above(call.mid, i)
  BY <1>0, BranchBlocks, Zenon
<1>2. \A i \in 1..n : \A q \in Pools :
          /\ turn(q, i) \in Pools /\ turn(q, i).tx \subseteq q.tx
          /\ \A t \in TxsOf(Above(call.mid, i)) : Clear(turn(q, i), t)
  <2> HIDE DEF n
  <2> QED
    BY <1>1, DeletedByIsPool, Zenon
<1>3. Deleted(p) = after[n]
  BY DEF Deleted, Loop
<1> HIDE DEF n, turn
<1>4. F \in [1..n -> [Pools -> Pools]]
  BY <1>2
<1>5. PICK run : LoopRun(run, n, Pools, p, F)
  <2> HIDE DEF F
  <2> QED
    BY <1>1, <1>4, LoopRuns, Zenon
<1>6. run = E(run)
  <2>1. \A i \in 1..n : i - 1 \in 0..n /\ run[i - 1] \in Pools /\ run[i] = F[i][run[i - 1]]
    <3> HIDE DEF F
    <3> QED
      BY <1>1, <1>5 DEF LoopRun
  <2>2. \A i \in 1..n : run[i] = turn(run[i - 1], i)
    BY <2>1, Zenon
  <2>3. \A i \in 0..n : i # 0 => i \in 1..n
    BY <1>1
  <2> HIDE DEF F
  <2> QED
    BY <1>5, <2>2, <2>3, Zenon DEF LoopRun
<1>7. after = E(after)
  <2> HIDE DEF E
  <2> QED
    BY <1>6
<1> HIDE DEF after, F
<1>8. after[0] = p /\ \A i \in 1..n : after[i] = turn(after[i - 1], i)
  BY <1>1, <1>7
<1> HIDE DEF E
<1> DEFINE Done(q, i) == /\ q \in Pools /\ q.tx \subseteq p.tx
                         /\ \A j \in 1..i : \A t \in TxsOf(Above(call.mid, j)) : Clear(q, t)
           T == {i \in 0..n : Done(after[i], i)}
<1>9. 0..n \subseteq T
  <2>1. 0 \in T
    BY <1>1, <1>8
  <2>2. ASSUME NEW i \in 1..n, i - 1 \in T
        PROVE  i \in T
    <3>1. Done(after[i - 1], i - 1)
      BY <2>2, Zenon
    <3> DEFINE q == after[i - 1]
               r == after[i]
    <3>2. /\ r \in Pools /\ r.tx \subseteq q.tx
          /\ \A t \in TxsOf(Above(call.mid, i)) : Clear(r, t)
      BY <1>2, <1>8, <3>1, Zenon
    <3> HIDE DEF r, q
    <3>3. \A j \in 1..i : \A t \in TxsOf(Above(call.mid, j)) : Clear(r, t)
      <4> SUFFICES ASSUME NEW j \in 1..i, j # i, NEW t \in TxsOf(Above(call.mid, j))
                   PROVE  Clear(r, t)
        BY <3>2
      <4>1. j \in 1..(i - 1)
        BY <1>1
      <4>2. Clear(q, t)
        BY <3>1, <4>1, Zenon DEF q
      <4> QED
        BY <3>2, <4>2, Zenon DEF Clear
    <3>4. q.tx \subseteq p.tx
      BY <3>1 DEF q
    <3>5. Done(r, i)
      BY <3>2, <3>3, <3>4
    <3>6. i \in 0..n
      BY <1>1
    <3> QED
      BY <3>5, <3>6, Zenon DEF r
  <2> HIDE DEF T
  <2> QED
    BY <1>1, <2>1, <2>2, UpTo, Zenon
<1>10. Done(after[n], n)
  <2>1. n \in 0..n
    BY <1>1
  <2> QED
    BY <1>9, <2>1, Zenon
<1> HIDE DEF Done
<1>11. \A t \in TxsOn(Anc[call.mid] \ Anc[call.fork]) :
           \E j \in 1..n : t \in TxsOf(Above(call.mid, j))
  BY <1>1 DEF TxsOn
<1> QED
  BY <1>3, <1>10, <1>11, Zenon DEF Done

-----------------------------------------------------------------------------
(* The steps.                                                              *)

\* Every step of the chain with its pool is a step of the chain.
LEMMA PoolWatches == PoolSpec => Spec
<1>1. PoolInit => Init
  BY DEF PoolInit
<1>2. [PoolNext]_<<vars, poolVars>> => [Next]_vars
  <2> SUFFICES ASSUME [PoolNext]_<<vars, poolVars>>
               PROVE  [Next]_vars
    OBVIOUS
  <2>1. CASE \E t \in Tx : AcceptToMemoryPool(t)
    BY <2>1 DEF AcceptToMemoryPool
  <2>2. CASE AttachStep
    BY <2>2 DEF AttachStep, Next, SetBestChainStep
  <2>3. CASE CommitStep
    BY <2>3 DEF CommitStep, Next, SetBestChainStep
  <2>4. CASE RestartStep
    BY <2>4 DEF RestartStep, Next
  <2>5. CASE PoolOtherStep
    BY <2>5 DEF PoolOtherStep, Next, SetBestChainStep
  <2>6. CASE UNCHANGED <<vars, poolVars>>
    BY <2>6
  <2> QED
    BY <2>1, <2>2, <2>3, <2>4, <2>5, <2>6 DEF PoolNext
<1> QED
  BY <1>1, <1>2, PTL DEF PoolSpec, Spec

\* The steps that leave the pool alone leave the transaction index alone.
LEMMA OthersKeepIndex ==
    ASSUME PoolOtherStep
    PROVE  /\ db'.best = db.best /\ db'.txs = db.txs /\ damage' = damage
           /\ UNCHANGED poolVars
<1>1. ASSUME NEW b \in Block \ {Root}, NEW demi \in BOOLEAN, AcceptBlock(b, demi)
      PROVE  db'.best = db.best /\ db'.txs = db.txs /\ damage' = damage
  BY <1>1 DEF AcceptBlock
<1>2. ASSUME NEW demi \in BOOLEAN, RefuseBlock(demi)
      PROVE  db' = db /\ damage' = damage
  BY <1>2, Zenon DEF RefuseBlock
<1>3. CreateNewBlock \/ VerifyBlocks \/ FinishInit => db' = db /\ damage' = damage
  BY Zenon DEF CreateNewBlock, VerifyBlocks, FinishInit
<1>4. Reorganize \/ DisconnectBlock \/ DisconnectDone \/ ConnectBlock \/ NewBestBlock
      => db' = db /\ damage' = damage
  BY DEF Reorganize, DisconnectBlock, DisconnectDone, ConnectBlock, NewBestBlock
<1>5. ASSUME NEW h \in RollbackHeights, BackToBlock(h)
      PROVE  db' = db /\ damage' = damage
  BY <1>5 DEF BackToBlock
<1> QED
  BY <1>1, <1>2, <1>3, <1>4, <1>5, ZenonT(60) DEF PoolOtherStep

\* An entry of the transaction index names a transaction that spends the output.
SpendsNamed(v) == \A o \in Outpoint : v.spent[o] # NoTx => o \in Ins[v.spent[o]]
SpendInv == SpendsNamed(db) /\ SpendsNamed(batch)

\* ConnectBlock and DisconnectBlock keep it so, whatever the view holds.
LEMMA SpendsStayNamed ==
    ASSUME NEW v, SpendsNamed(v), NEW b
    PROVE  SpendsNamed(Connected(v, b)) /\ SpendsNamed(Disconnected(v, b))
<1>1. \A o : SpentIn(b, o) => o \in Ins[SpenderIn(b, o)]
  BY DEF SpentIn, SpenderIn
<1>2. SpendsNamed(Connected(v, b))
  BY <1>1, Zenon DEF SpendsNamed, Connected
<1>3. SpendsNamed(Disconnected(v, b))
  BY Zenon DEF SpendsNamed, Disconnected
<1> QED
  BY <1>2, <1>3, ZenonT(60)

\* Every step keeps it so.
LEMMA SpendStep == TypeOK /\ SpendInv /\ [Next]_vars => SpendInv'
<1> SUFFICES ASSUME TypeOK, SpendInv, [Next]_vars
             PROVE  SpendInv'
  BY Zenon
<1>1. ASSUME NEW b, Attached(b)
      PROVE  SpendInv'
  <2>1. db'.spent = Connected(db, b).spent /\ batch' = db'
    BY <1>1 DEF Attached, Connected
  <2> QED
    <3>1. SpendsNamed(Connected(db, b))
      BY SpendsStayNamed, Zenon DEF SpendInv
    <3> QED
      BY <2>1, <3>1, Zenon DEF SpendInv, SpendsNamed
<1>2. ASSUME NEW b \in Block \ {Root}, NEW demi \in BOOLEAN, AcceptBlock(b, demi)
      PROVE  SpendInv'
  <2>1. db'.spent = db.spent /\ batch' = db'
    BY <1>2, ZenonT(60) DEF AcceptBlock
  <2> QED
    BY <2>1, Zenon DEF SpendInv, SpendsNamed
<1>3. db' = db /\ (batch' = batch \/ batch' = db) => SpendInv'
  BY DEF SpendInv, SpendsNamed
<1>4. CASE ExtendChain
  BY <1>1, <1>3, <1>4, Zenon DEF ExtendChain, NotAttached
<1>5. CASE Reorganize \/ DisconnectDone \/ NewBestBlock
  BY <1>3, <1>5, Zenon DEF Reorganize, DisconnectDone, NewBestBlock, AbortReorganize
<1>6. CASE DisconnectBlock
  <2>1. db' = db /\ (batch' = Disconnected(batch, call.at) \/ batch' = db)
    BY <1>6, Zenon DEF DisconnectBlock, AbortReorganize
  <2>2. SpendsNamed(Disconnected(batch, call.at))
    BY SpendsStayNamed, Zenon DEF SpendInv
  <2> QED
    BY <1>3, <2>1, <2>2, Zenon DEF SpendInv, SpendsNamed
<1>7. CASE ConnectBlock
  <2> DEFINE b == Toward(call.at, call.mid)
  <2>1. db' = db /\ (batch' = Connected(batch, b) \/ batch' = db)
    BY <1>7, Zenon DEF ConnectBlock, AbortReorganize
  <2>2. SpendsNamed(Connected(batch, b))
    BY SpendsStayNamed, Zenon DEF SpendInv
  <2> QED
    BY <1>3, <2>1, <2>2, Zenon DEF SpendInv, SpendsNamed
<1>8. CASE CommitReorganize
  <2>1. CASE db' = [batch EXCEPT !.best = call.mid] /\ batch' = db'
    <3>1. db'.spent = batch.spent
      BY <2>1 DEF TypeOK, ViewType
    <3> QED
      BY <2>1, <3>1 DEF SpendInv, SpendsNamed
  <2> QED
    BY <1>3, <1>8, <2>1 DEF CommitReorganize, AbortReorganize
<1>9. CASE ConnectFurther
  BY <1>1, <1>3, <1>9, Zenon DEF ConnectFurther, NotAttached
<1>10. CASE (\E demi \in BOOLEAN : RefuseBlock(demi)) \/ CreateNewBlock \/ UNCHANGED vars
  BY <1>3, <1>10, Zenon DEF RefuseBlock, CreateNewBlock, vars
<1>11. CASE Restart \/ VerifyBlocks \/ FinishInit
  BY <1>3, <1>11, ZenonT(60) DEF Restart, VerifyBlocks, FinishInit
<1>12. CASE \E h \in RollbackHeights : BackToBlock(h)
  BY <1>3, <1>12, Zenon DEF BackToBlock
<1> QED
  BY <1>2, <1>4, <1>5, <1>6, <1>7, <1>8, <1>9, <1>10, <1>11, <1>12
     DEF Next, SetBestChainStep

\* The pool as a value is the pool in the variables.
LEMMA PoolValue ==
    /\ pool.tx = mapTx /\ pool.next = mapNextTx
    /\ \A p \in Pools : PoolBecomes(p) => pool' = p
<1>1. ASSUME NEW p \in Pools, PoolBecomes(p)
      PROVE  pool' = p
  <2>1. p = [tx |-> p.tx, next |-> p.next]
    BY DEF Pools
  <2> QED
    BY <1>1, <2>1, Zenon DEF PoolBecomes, pool
<1> QED
  BY <1>1 DEF pool

\* What the end of Reorganize leaves of the pool.
LEMMA CommittedPool ==
    ASSUME TypeInv, ForkKnown, pool \in Pools, CommitStep, db'.best # db.best
    PROVE  /\ db' = [batch EXCEPT !.best = call.mid] /\ db'.best = call.mid
           /\ damage' = Committed
           /\ pool' \in Pools /\ mapTx' \cap db'.txs \subseteq mapTx
           /\ \A t \in TxsOn(Anc[call.mid] \ Anc[call.fork]) : Clear(pool', t)
           /\ Anc[call.fork] \subseteq Anc[pindexBest]
<1>1. /\ call.op = "connect" /\ call.mid \in Block /\ pindexBest \in Block
      /\ batch \in ViewType /\ db \in ViewType
  BY DEF TypeInv, TypeOK, CallType, CommitStep, CommitReorganize
<1>2. call.fork \in Anc[pindexBest] /\ call.fork \in Anc[call.mid]
  BY <1>1, ForkOnBoth, Zenon DEF ForkKnown
<1>3. /\ db' = [batch EXCEPT !.best = call.mid] /\ db'.best = call.mid
      /\ damage' = Committed
  BY <1>1 DEF CommitStep, CommitReorganize, ViewType
<1> DEFINE r == Resurrected(pool, db')
           q == Deleted(r)
<1>4. r \in Pools /\ r.tx \cap db'.txs \subseteq mapTx
  BY <1>2, ResurrectedIsPool, PoolValue, Zenon DEF TypeInv
<1>5. PoolBecomes(q)
  BY DEF CommitStep
<1> HIDE DEF r
<1>6. /\ q \in Pools /\ q.tx \subseteq r.tx
      /\ \A t \in TxsOn(Anc[call.mid] \ Anc[call.fork]) : Clear(q, t)
  BY <1>2, <1>4, DeletedIsPool, Zenon DEF TypeInv
<1> HIDE DEF q
<1>7. pool' = q /\ mapTx' = q.tx
  BY <1>5, <1>6, PoolValue, Zenon DEF PoolBecomes
<1> QED
  BY <1>1, <1>2, <1>3, <1>4, <1>6, <1>7, ChainsNest, Zenon

\* What connecting one block does to the index and the pool.
LEMMA AttachedPool ==
    ASSUME pool \in Pools, AttachStep
    PROVE  /\ pool' \in Pools /\ mapTx' \subseteq mapTx
           /\ damage' = "none" => damage = "none"
           /\ db'.best # db.best => /\ db'.txs = db.txs \cup TxsOf(db'.best)
                                    /\ mapTx' \cap TxsOf(db'.best) = {}
<1> DEFINE r == Redundant(pool, db'.best)
<1>1. r \in Pools /\ r.tx = mapTx \ TxsOf(db'.best)
  BY RemoveEachIsPool, PoolValue DEF Redundant
<1> HIDE DEF r
<1>2. PoolBecomes(IF db'.best = db.best THEN pool ELSE r)
  BY DEF AttachStep, r
<1>3. CASE db'.best = db.best
  <2>1. pool' = pool /\ mapTx' = mapTx
    BY <1>2, <1>3, PoolValue DEF PoolBecomes
  <2>2. damage' = "none" => damage = "none"
    BY DEF AttachStep, ExtendChain, ConnectFurther, Attached, Committed
  <2> QED
    BY <1>3, <2>1, <2>2, Zenon
<1>4. CASE db'.best # db.best
  <2>1. pool' = r /\ mapTx' = r.tx
    BY <1>1, <1>2, <1>4, PoolValue DEF PoolBecomes
  <2>2. PICK b : Attached(b)
    BY <1>4 DEF AttachStep, ExtendChain, ConnectFurther, NotAttached
  <2>3. /\ db'.best = b /\ db'.txs = db.txs \cup TxsOf(b)
        /\ damage' = "none" => damage = "none"
    BY <2>2 DEF Attached, Connected, Committed
  <2> QED
    BY <1>1, <2>1, <2>3, Zenon
<1> QED
  BY <1>3, <1>4, ZenonT(60)

\* Every step keeps mapNextTx exact.
LEMMA PoolStep ==
    TypeInv /\ ForkKnown /\ pool \in Pools /\ [PoolNext]_<<vars, poolVars>>
        => pool' \in Pools
<1> SUFFICES ASSUME TypeInv, ForkKnown, pool \in Pools, [PoolNext]_<<vars, poolVars>>
             PROVE  pool' \in Pools
  OBVIOUS
<1>1. UNCHANGED poolVars => pool' = pool
  BY Zenon DEF poolVars, pool
<1>2. ASSUME NEW t \in Tx, AcceptToMemoryPool(t)
      PROVE  pool' \in Pools
  BY <1>2, AcceptedIsPool, PoolValue DEF AcceptToMemoryPool
<1>3. CASE AttachStep
  BY <1>3, AttachedPool
<1>4. CASE CommitStep
  <2>1. CASE db'.best = db.best
    BY <1>4, <2>1, PoolValue, Zenon DEF CommitStep
  <2> QED
    BY <1>4, <2>1, CommittedPool, Zenon
<1>5. CASE RestartStep
  BY <1>5, EmptyIsPool, PoolValue, Zenon DEF RestartStep
<1>6. CASE PoolOtherStep
  BY <1>1, <1>6 DEF PoolOtherStep
<1>7. CASE UNCHANGED <<vars, poolVars>>
  BY <1>1, <1>7, ZenonT(60)
<1> QED
  BY <1>2, <1>3, <1>4, <1>5, <1>6, <1>7, Zenon DEF PoolNext

\* Every step keeps the pool off the chain.
LEMMA OffChainStep ==
    TypeInv /\ TxInv /\ TxInv' /\ ForkKnown /\ pool \in Pools /\ PoolOffChain
        /\ [PoolNext]_<<vars, poolVars>> => PoolOffChain'
<1> SUFFICES ASSUME TypeInv, TxInv, TxInv', ForkKnown, pool \in Pools, PoolOffChain,
                    [PoolNext]_<<vars, poolVars>>, damage' = "none"
             PROVE  mapTx' \cap db'.txs = {}
  BY DEF PoolOffChain
<1>0. damage = "none" => db.txs = TxsOn(Anc[db.best]) /\ db'.txs = TxsOn(Anc[db'.best])
  BY Zenon DEF TxInv, Faithful, Describes
<1>1. UNCHANGED poolVars => mapTx' = mapTx
  BY DEF poolVars
<1>2. ASSUME NEW t \in Tx, AcceptToMemoryPool(t)
      PROVE  mapTx' \cap db'.txs = {}
  <2>1. mapTx' = mapTx \cup {t} /\ t \notin db.txs
    <3>1. Acceptable(pool, db, t) /\ mapTx' = addUnchecked(pool, t).tx
      BY <1>2, Zenon DEF AcceptToMemoryPool, PoolBecomes
    <3> QED
      BY <3>1, AcceptedIsPool, PoolValue, Zenon
  <2>2. db' = db /\ damage' = damage
    BY <1>2, Zenon DEF AcceptToMemoryPool, vars
  <2> QED
    BY <2>1, <2>2, ZenonT(60) DEF PoolOffChain
<1>3. CASE AttachStep
  <2>1. damage = "none" /\ mapTx' \subseteq mapTx
    BY <1>3, AttachedPool, Zenon
  <2>2. CASE db'.best = db.best
    BY <1>0, <2>1, <2>2, Zenon DEF PoolOffChain
  <2>3. CASE db'.best # db.best
    BY <1>3, <2>1, <2>3, AttachedPool, Zenon DEF PoolOffChain
  <2> QED
    BY <2>2, <2>3, Zenon
<1>4. CASE CommitStep
  <2>1. damage = "none"
    BY <1>4 DEF CommitStep, CommitReorganize, Committed
  <2>2. CASE db'.best = db.best
    <3>1. mapTx' = mapTx
      BY <1>4, <2>2, PoolValue, ZenonT(60) DEF CommitStep, PoolBecomes
    <3> QED
      BY <1>0, <2>1, <2>2, <3>1, Zenon DEF PoolOffChain
  <2>3. CASE db'.best # db.best
    <3>1. /\ mapTx' \cap db'.txs \subseteq mapTx /\ db'.best = call.mid
          /\ \A t \in TxsOn(Anc[call.mid] \ Anc[call.fork]) : Clear(pool', t)
          /\ Anc[call.fork] \subseteq Anc[pindexBest]
      BY <1>4, <2>3, CommittedPool, ZenonT(60)
    <3>2. pindexBest = db.best
      BY <1>4, <2>1 DEF TxInv, CommitStep, CommitReorganize
    <3> SUFFICES ASSUME NEW t \in mapTx' \cap db'.txs
                 PROVE  FALSE
      OBVIOUS
    <3>3. t \notin db.txs
      BY <2>1, <3>1, Zenon DEF PoolOffChain
    <3>4. t \in TxsOn(Anc[call.mid]) /\ t \notin TxsOn(Anc[call.fork])
      BY <1>0, <2>1, <3>1, <3>2, <3>3 DEF TxsOn
    <3>5. t \in TxsOn(Anc[call.mid] \ Anc[call.fork])
      BY <3>4, Zenon DEF TxsOn
    <3>6. t \notin mapTx'
      BY <3>1, <3>5, Zenon DEF Clear, pool
    <3> QED
      BY <3>6
  <2> QED
    BY <2>2, <2>3
<1>5. CASE RestartStep
  BY <1>5, EmptyIsPool DEF RestartStep, PoolBecomes
<1>6. CASE PoolOtherStep
  BY <1>1, <1>6, OthersKeepIndex, ZenonT(60) DEF PoolOffChain
<1>7. CASE UNCHANGED <<vars, poolVars>>
  BY <1>1, <1>7 DEF vars, PoolOffChain
<1> QED
  BY <1>2, <1>3, <1>4, <1>5, <1>6, <1>7, ZenonT(60) DEF PoolNext

\* The invariants of the chain hold with the pool beside it.
LEMMA PoolChainInvariants ==
    PoolSpec => [](TypeInv /\ TxInv /\ ForkKnown /\ SpendInv)
<1>1. Init => SpendInv
  <2>1. \A o \in Outpoint : InitialDb.spent[o] = NoTx
    BY Zenon DEF InitialDb
  <2> QED
    BY <2>1, Zenon DEF Init, SpendInv, SpendsNamed
<1>2. Spec => []SpendInv
  BY <1>1, SpendStep, TypeCorrect, PTL DEF Spec
<1> QED
  BY <1>2, PoolWatches, AllInvariants, PTL

PoolInv == pool \in Pools

\* mapNextTx is exact throughout.
LEMMA PoolInvariant == PoolSpec => [](pool \in Pools)
<1>1. PoolInit => PoolInv
  <2>1. EmptyPool = [tx |-> EmptyPool.tx, next |-> EmptyPool.next]
    BY Zenon DEF EmptyPool
  <2> QED
    BY <2>1, EmptyIsPool DEF PoolInit, pool, PoolInv
<1>2. TypeInv /\ ForkKnown /\ PoolInv /\ [PoolNext]_<<vars, poolVars>> => PoolInv'
  BY PoolStep DEF PoolInv
<1>3. PoolInv => pool \in Pools
  BY DEF PoolInv
<1> QED
  BY <1>1, <1>2, <1>3, PoolChainInvariants, PTL DEF PoolSpec

-----------------------------------------------------------------------------

\* For every set of transactions and every block tree: after any mixture of
\* addUnchecked, remove, recursive remove and removeConflicts, mapNextTx has an
\* entry for exactly the outputs that the pool's transactions spend.
THEOREM PoolIndexCorrect == PoolSpec => []PoolIndexExact
<1>1. pool \in Pools => PoolIndexExact
  BY DEF Pools, PoolIndexExact
<1> QED
  BY <1>1, PoolInvariant, PTL

\* For every block tree: no transaction is both in the pool and in the best
\* chain, whichever block, reorganisation or rollback brought it there.
THEOREM PoolIsOffChain == PoolSpec => []PoolOffChain
<1>1. PoolInit => PoolOffChain
  BY DEF PoolInit, EmptyPool, PoolOffChain
<1> QED
  BY <1>1, OffChainStep, PoolInvariant, PoolChainInvariants, PTL DEF PoolSpec

\* For every block tree: when a reorganisation has been committed, nothing in
\* the pool spends an output that the connected branch spends.
THEOREM CommitClearsConflicts == PoolSpec => ReorganizeClearsConflicts
<1>1. ASSUME TypeInv, ForkKnown, SpendInv, pool \in Pools, [PoolNext]_<<vars, poolVars>>
      PROVE  call.op = "connect" /\ db'.best # db.best =>
                 \A t \in mapTx' : \A o \in Ins[t] :
                     db'.spent[o] \notin TxsOn(Anc[db'.best] \ Anc[call.fork])
  <2> SUFFICES ASSUME call.op = "connect", db'.best # db.best,
                      NEW t \in mapTx', NEW o \in Ins[t],
                      db'.spent[o] \in TxsOn(Anc[db'.best] \ Anc[call.fork])
               PROVE  FALSE
    BY Zenon
  <2>1. CommitStep
    <3>1. ~ AttachStep
      BY Zenon DEF AttachStep, ExtendChain, ConnectFurther
    <3>2. ~ RestartStep
      BY Zenon DEF RestartStep, Restart
    <3>3. ~ \E u \in Tx : AcceptToMemoryPool(u)
      BY Zenon DEF AcceptToMemoryPool, vars
    <3>4. ~ UNCHANGED <<vars, poolVars>>
      BY DEF vars
    <3> QED
      BY <1>1, <3>1, <3>2, <3>3, <3>4, OthersKeepIndex, Zenon DEF PoolNext
  <2>2. /\ db' = [batch EXCEPT !.best = call.mid] /\ db'.best = call.mid
        /\ pool' \in Pools
        /\ \A u \in TxsOn(Anc[call.mid] \ Anc[call.fork]) : Clear(pool', u)
    BY <1>1, <2>1, CommittedPool, Zenon
  <2> DEFINE s == batch.spent[o]
  <2>3. db'.spent[o] = s
    BY <1>1, <2>2, Zenon DEF TypeInv, TypeOK, ViewType
  <2>4. Clear(pool', s) /\ t \in pool'.tx
    BY <2>2, <2>3, Zenon DEF pool
  <2>5. s \in Tx /\ o \in Outpoint
    <3>1. call.mid \in Block /\ Anc[call.mid] \subseteq Block
      BY <1>1, OwnChain, ZenonT(60) DEF TypeInv, TypeOK, CallType
    <3>2. s \in Tx
      BY <2>2, <2>3, <3>1, TxAssumption DEF TxsOn, TxsOf
    <3>3. t \in Tx
      BY <2>2, <2>4, Zenon DEF Pools
    <3> QED
      BY <3>2, <3>3, TxAssumption, Zenon
  <2>6. o \in Ins[s]
    <3>1. s # NoTx
      BY <2>5, TxAssumption, Zenon
    <3> QED
      BY <1>1, <2>5, <3>1, Zenon DEF SpendInv, SpendsNamed
  <2> QED
    BY <2>4, <2>6, Zenon DEF Clear
<1> QED
  BY <1>1, PoolInvariant, PoolChainInvariants, PTL DEF PoolSpec, ReorganizeClearsConflicts

-----------------------------------------------------------------------------
(* The wallet's refunds.                                                   *)

\* While the node runs, every own stake that a reorganisation has taken off its
\* view of the chain has been refunded.
RefundInv ==
    boot = "run" =>
        /\ call.op = "disconnect" =>
                MyStakes \cap Anc[pindexBest] \subseteq Anc[call.at] \cup refunded
        /\ call.op = "connect" =>
                MyStakes \cap Anc[pindexBest] \subseteq Anc[call.fork] \cup refunded


\* There is nothing to refund at the start.
LEMMA RefundInit == Init => RefundInv
BY IdleOnTree, Zenon DEF Init, RefundInv

\* Each step keeps the refunds: only Reorganize starts to disconnect, a block
\* is refunded as it is disconnected, and a connected block is on the other
\* branch.
LEMMA RefundStep ==
    TypeInv /\ ForkKnown /\ RefundInv /\ [Next]_vars => RefundInv'
<1> SUFFICES ASSUME TypeOK, CallOnTree, ForkKnown, RefundInv, [Next]_vars
             PROVE  RefundInv'
  BY DEF TypeInv
<1>0. /\ call \in CallType /\ pindexBest \in Block
      /\ call.fork \in Block /\ call.mid \in Block /\ call.at \in Block
      /\ Idle.op = "idle"
      /\ \A b : SetBestChain(b).op \in {"extend", "reorganize"}
  BY DEF TypeOK, CallType, Idle, SetBestChain
<1>1. ASSUME call'.op \notin {"disconnect", "connect"}
      PROVE  RefundInv'
  BY <1>1, ZenonT(60) DEF RefundInv
<1>2. CASE Reorganize
  <2>1. /\ call.op = "reorganize" /\ UNCHANGED <<pindexBest, boot, refunded>>
        /\ \/ call' = Idle
           \/ call'.op = "disconnect" /\ call'.at = call.at
    BY <1>0, <1>2, Zenon DEF Reorganize, AbortReorganize, CallType
  <2>2. call.at = pindexBest
    BY <2>1, Zenon DEF CallOnTree
  <2> QED
    BY <1>0, <1>1, <2>1, <2>2 DEF RefundInv
<1>3. CASE DisconnectBlock
  <2>1. /\ call.op = "disconnect" /\ call.at # Root /\ UNCHANGED <<pindexBest, boot>>
        /\ \/ call' = Idle
           \/ /\ refunded' = Refund(call.at) /\ call'.op = "disconnect"
              /\ call'.at = Prev[call.at]
    BY <1>0, <1>3, ChainsNest DEF DisconnectBlock, AbortReorganize, CallType, CallOnTree
  <2>2. CASE call' = Idle
    BY <1>0, <1>1, <2>2, Zenon
  <2>3. CASE /\ refunded' = Refund(call.at) /\ call'.op = "disconnect"
             /\ call'.at = Prev[call.at]
    <3>1. Anc[call.at] = {call.at} \cup Anc[Prev[call.at]]
      BY <1>0, <2>1, ChainsNest, ZenonT(60)
    <3> QED
      BY <2>1, <2>3, <3>1, Zenon DEF RefundInv, Refund
  <2> QED
    BY <2>1, <2>2, <2>3, Zenon
<1>4. CASE DisconnectDone
  <2>1. /\ call.op = "disconnect" /\ call'.op = "connect" /\ call.at = call.fork
        /\ call'.fork = call.fork /\ UNCHANGED <<pindexBest, boot, refunded>>
    BY <1>0, <1>4, Zenon DEF DisconnectDone, CallType
  <2> QED
    BY <2>1 DEF RefundInv
<1>5. CASE ConnectBlock
  <2> DEFINE b == Toward(call.at, call.mid)
  <2>1. /\ call.op = "connect" /\ b \in Block /\ b # Root /\ Prev[b] = call.at
        /\ b \in Anc[call.mid] /\ UNCHANGED <<pindexBest, boot>>
    BY <1>0, <1>5, TowardOnChain DEF ConnectBlock, CallOnTree
  <2>2. \/ call' = Idle
        \/ /\ refunded' = Respend(b) /\ call'.op = "connect"
           /\ call'.fork = call.fork
    BY <1>0, <1>5, Zenon DEF ConnectBlock, AbortReorganize, CallType
  <2> HIDE DEF b
  <2>3. b \notin Anc[pindexBest]
    BY <1>0, <2>1, BranchesApart DEF ForkKnown
  <2> QED
    BY <1>0, <1>1, <2>1, <2>2, <2>3, Zenon DEF RefundInv, Respend
<1>6. CASE ExtendChain \/ CommitReorganize \/ ConnectFurther \/ NewBestBlock
  <2>1. call'.op \notin {"disconnect", "connect"}
    BY <1>0, <1>6, Zenon DEF ExtendChain, CommitReorganize, AbortReorganize,
                      ConnectFurther, NewBestBlock, CallType
  <2> QED
    BY <1>1, <2>1
<1>7. ASSUME NEW b \in Block \ {Root}, NEW demi \in BOOLEAN, AcceptBlock(b, demi)
      PROVE  RefundInv'
  BY <1>0, <1>1, <1>7, ZenonT(60) DEF AcceptBlock
<1>8. CASE Restart \/ VerifyBlocks \/ FinishInit
  <2>1. call'.op \notin {"disconnect", "connect"}
    BY <1>0, <1>8, ZenonT(30) DEF Restart, VerifyBlocks, FinishInit
  <2> QED
    BY <1>1, <2>1
<1>9. ASSUME NEW h \in RollbackHeights, BackToBlock(h)
      PROVE  RefundInv'
  BY <1>0, <1>1, <1>9, Zenon DEF BackToBlock
<1>10. ASSUME UNCHANGED <<pindexBest, call, boot, refunded>>
       PROVE  RefundInv'
  BY <1>10, Zenon DEF RefundInv
<1>11. CASE CreateNewBlock \/ (\E demi \in BOOLEAN : RefuseBlock(demi)) \/ UNCHANGED vars
  BY <1>10, <1>11, Zenon DEF CreateNewBlock, RefuseBlock, vars
<1> QED
  BY <1>2, <1>3, <1>4, <1>5, <1>6, <1>7, <1>8, <1>9, <1>11, Zenon
     DEF Next, SetBestChainStep

\* While Reorganize connects, only its commit moves the chain on disk.
LEMMA CommitOnly ==
    ASSUME TypeOK, call.op = "connect", [Next]_vars, db'.best # db.best
    PROVE  CommitReorganize
<1>0. Idle.op = "idle" /\ db \in ViewType
  BY Zenon DEF Idle, TypeOK
<1>1. ~ \E b \in Block \ {Root}, demi \in BOOLEAN : AcceptBlock(b, demi)
  <2>1. call # Idle
    BY <1>0, Zenon
  <2>2. \A b, demi : AcceptBlock(b, demi) => call = Idle
    BY Zenon DEF AcceptBlock
  <2> QED
    BY <2>1, <2>2, Zenon
<1>2. ~ (ExtendChain \/ Reorganize \/ DisconnectBlock \/ DisconnectDone
         \/ ConnectFurther \/ NewBestBlock)
  BY DEF ExtendChain, Reorganize, DisconnectBlock, DisconnectDone,
         ConnectFurther, NewBestBlock
<1>3. ~ ConnectBlock /\ ~ CreateNewBlock /\ ~ Restart /\ ~ UNCHANGED vars
  BY Zenon DEF ConnectBlock, CreateNewBlock, Restart, vars
<1>4. ~ VerifyBlocks /\ ~ FinishInit
  BY Zenon DEF VerifyBlocks, FinishInit
<1>5. ~ (\E h \in RollbackHeights : BackToBlock(h))
      /\ ~ (\E demi \in BOOLEAN : RefuseBlock(demi))
  BY DEF BackToBlock, RefuseBlock
<1> QED
  BY <1>1, <1>2, <1>3, <1>4, <1>5, Zenon DEF Next, SetBestChainStep

\* RefundInv is an invariant.
LEMMA RefundInvariant == Spec => []RefundInv
<1>1. TypeInv /\ ForkKnown /\ RefundInv /\ [Next]_vars => RefundInv'
  BY RefundStep
<1> QED
  BY <1>1, RefundInit, AllInvariants, PTL DEF Spec

\* For every block tree: a coinstake of the wallet that a commit takes off the
\* chain on disk has been refunded by SyncTransaction, wherever it was.
THEOREM StakesAreRefunded == Spec => LostStakesRefunded
<1>1. ASSUME TypeInv, TxInv, BestInv, ForkKnown, RefundInv, [Next]_vars
      PROVE  \A b \in MyStakes :
                 /\ boot = "run" /\ damage = "none"
                 /\ b \in Anc[db.best] /\ b \notin Anc[db'.best]
                 => b \in refunded'
  <2>0. /\ db.best \in Block /\ db.index \subseteq Block /\ call.mid \in Block
        /\ call \in CallType
    BY <1>1, Zenon DEF TypeInv, TypeOK, ViewType, CallType
  <2>1. CASE TipStays \/ Recorded
    BY <2>1, Zenon DEF TipStays, Recorded
  <2>2. CASE OnTop
    <3>1. damage = "none" => Anc[db.best] \subseteq Anc[db'.best]
      <4>1. db'.best \in Block
        BY <2>0, <2>2, Zenon DEF OnTop
      <4>2. damage = "none" => db'.best # Root /\ Prev[db'.best] = db.best
        BY <2>2, Zenon DEF OnTop
      <4> QED
        BY <4>1, <4>2, ParentChain, Zenon
    <3> QED
      BY <3>1, Zenon
  <2>3. CASE Switched
    <3>1. damage = "none" => pindexBest = db.best
      BY <1>1, <2>3, Zenon DEF Switched, TxInv
    <3>2. /\ db'.best = call.mid /\ call.op = "connect"
          /\ call.fork = Fork(pindexBest, call.mid)
      BY <1>1, <2>3, Zenon DEF Switched, ForkKnown
    <3>3. Anc[call.fork] \subseteq Anc[call.mid]
      <4>1. pindexBest \in Block
        BY <1>1, Zenon DEF TypeInv, TypeOK
      <4>2. call.fork \in Anc[call.mid]
        BY <2>0, <3>2, <4>1, ForkOnBoth, Zenon
      <4>3. \A b \in Block : \A a \in Anc[b] : Anc[a] \subseteq Anc[b]
        BY ChainsNest, Zenon
      <4> QED
        BY <2>0, <4>2, <4>3, Zenon
    <3>4. CASE db'.best = db.best
      BY <3>4, Zenon
    <3>5. CASE db'.best # db.best
      <4>1. refunded' = refunded
        BY <1>1, <3>2, <3>5, CommitOnly DEF TypeInv, CommitReorganize
      <4> QED
        BY <1>1, <3>1, <3>2, <3>3, <4>1, Zenon DEF RefundInv
    <3> QED
      BY <3>4, <3>5, Zenon
  <2> QED
    BY <1>1, <2>1, <2>2, <2>3, TipMoves, Zenon
<1> QED
  BY <1>1, AllInvariants, RefundInvariant, PTL DEF Spec, LostStakesRefunded

=============================================================================
