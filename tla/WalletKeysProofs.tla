-------------------------- MODULE WalletKeysProofs --------------------------
(***************************************************************************)
(* For any number of keys and of CReserveKey objects: the file always has  *)
(* the private keys that matter and never a mixture, a kept key leaves the *)
(* pool for good, indexes have their records, and EncryptWallet renews     *)
(* the pool.                                                               *)
(***************************************************************************)
EXTENDS WalletKeys, NaturalLemmas

USE SMTT(30)

USE WalletAssumption DEF NoIndex, NoKey

Pools == UNION {[D -> Key] : D \in SUBSET Index}
Reserved == [nIndex : Index, vchPubKey : Key \cup {NoKey}] \cup {Empty}
Calls == [op : {"none", "topup", "take", "encrypt", "erase", "fill"},
          by : Holder \cup {"address", "refill", "none"},
          at : 0..(MaxKeys + 1), fresh : 0..MaxKeys]

\* The type of the state, with the records spelled out.
Types ==
    /\ setKeyPool \subseteq Index
    /\ mapKeys \subseteq Key /\ mapCryptedKeys \subseteq Key
    /\ fLocked \in BOOLEAN /\ clash \in BOOLEAN
    /\ file \in [pool : Pools, key : SUBSET Key, ckey : SUBSET Key,
                 mkey : BOOLEAN]
    /\ held \in [Holder -> Reserved]
    /\ call \in Calls
    /\ nGenerated \in Key
    /\ used \subseteq Key /\ old \subseteq Key

\* Keys are numbered up to nGenerated. So are indexes, and while a key waits
\* for its pool record there is room for one more.
Room == IF call.fresh = NoKey THEN nGenerated ELSE nGenerated - 1
Numbers ==
    /\ nGenerated > nKeys
    /\ \A i \in setKeyPool \cup DOMAIN file.pool : i <= Room
    /\ \A i \in DOMAIN file.pool : file.pool[i] <= nGenerated
    /\ \A h \in Holder : held[h].nIndex <= Room
    /\ \A h \in Holder : held[h].vchPubKey <= nGenerated
    /\ \A k \in used \cup old : k <= nGenerated
    /\ call.fresh <= nGenerated
    /\ call.fresh # NoKey => call.op \in {"topup", "fill"}
    /\ call.op = "fill" => call.at \in 1..(nKeys + 1)
    /\ call.fresh # NoKey /\ call.op = "fill" => call.at <= nKeys

-----------------------------------------------------------------------------
(* Pool records.                                                           *)

LEMMA PoolFacts ==
    ASSUME NEW f \in Pools
    PROVE  /\ DOMAIN f \subseteq Index
           /\ \A i \in DOMAIN f : f[i] \in Key
BY DEF Pools

\* g is f without i; g is f with k at i.
Cut(g, f, i) ==
    /\ DOMAIN g = DOMAIN f \ {i}
    /\ \A j \in DOMAIN f \ {i} : g[j] = f[j]
Put(g, f, i, k) ==
    /\ DOMAIN g = DOMAIN f \cup {i}
    /\ g[i] = k
    /\ \A j \in DOMAIN f \ {i} : g[j] = f[j]

LEMMA WithoutFacts ==
    ASSUME NEW f \in Pools, NEW i
    PROVE  Without(f, i) \in Pools /\ Cut(Without(f, i), f, i)
<1>1. DOMAIN Without(f, i) = DOMAIN f \ {i} /\ DOMAIN f \subseteq Index
  BY PoolFacts DEF Without
<1>2. \A j \in DOMAIN f \ {i} : Without(f, i)[j] \in Key
  BY PoolFacts DEF Without
<1>3. Without(f, i) \in [DOMAIN f \ {i} -> Key]
  BY <1>1, <1>2 DEF Without
<1> QED
  BY <1>1, <1>3, Zenon DEF Pools, Without, Cut

LEMMA WithFacts ==
    ASSUME NEW f \in Pools, NEW i \in Index, NEW k \in Key
    PROVE  With(f, i, k) \in Pools /\ Put(With(f, i, k), f, i, k)
<1>1. DOMAIN With(f, i, k) = DOMAIN f \cup {i} /\ DOMAIN f \subseteq Index
  BY PoolFacts DEF With
<1>2. \A j \in DOMAIN f \cup {i} : With(f, i, k)[j] \in Key
  BY PoolFacts DEF With
<1>3. With(f, i, k) \in [DOMAIN f \cup {i} -> Key]
  BY <1>1, <1>2, Zenon DEF With
<1> QED
  BY <1>1, <1>3, Zenon DEF Pools, With, Put

\* The least index of a set, and the greatest, are in it.
LEMMA LeastIn ==
    ASSUME NEW S, S \subseteq Index, S # {}
    PROVE  Least(S) \in S /\ \A j \in S : Least(S) <= j
<1>1. S \subseteq Nat
  BY DEF Index
<1> QED
  BY <1>1, LeastNatural, Zenon DEF Least

LEMMA GreatestIn ==
    ASSUME NEW S, S \subseteq Index, S # {}
    PROVE  Greatest(S) \in S
<1>1. S \subseteq Nat /\ MaxKeys \in Nat /\ \A i \in S : i <= MaxKeys
  BY DEF Index
<1> QED
  BY <1>1, GreatestNatural, Zenon DEF Greatest

\* A call record with another step, position and key.
LEMMA CallFacts ==
    ASSUME NEW c \in Calls, NEW a \in 0..(MaxKeys + 1)
    PROVE  /\ c.at \in 0..(MaxKeys + 1) /\ c.fresh \in 0..MaxKeys
           /\ Idle \in Calls
           /\ [c EXCEPT !.fresh = NoKey, !.at = a] \in Calls
           /\ [c EXCEPT !.at = a] \in Calls
           /\ [c EXCEPT !.op = "erase", !.at = a] \in Calls
           /\ [c EXCEPT !.op = "fill", !.at = a] \in Calls
<1>1. 0 \in 0..MaxKeys /\ 0 \in 0..(MaxKeys + 1)
  OBVIOUS
<1>2. c.at \in 0..(MaxKeys + 1) /\ c.fresh \in 0..MaxKeys /\ Idle \in Calls
  BY <1>1 DEF Calls, Idle
<1>3. [c EXCEPT !.fresh = NoKey, !.at = a] \in Calls
  BY <1>1, Zenon DEF Calls
<1>4. [c EXCEPT !.at = a] \in Calls
  BY DEF Calls
<1>5. /\ [c EXCEPT !.op = "erase", !.at = a] \in Calls
      /\ [c EXCEPT !.op = "fill", !.at = a] \in Calls
  BY Zenon DEF Calls
<1> QED
  BY <1>2, <1>3, <1>4, <1>5

-----------------------------------------------------------------------------
(* Types and numbers.                                                      *)

\* The index WritePool uses is a new one below the bound.
LEMMA NextIndexFits ==
    ASSUME Types, Numbers, call.fresh # NoKey
    PROVE  NextIndex \in Index /\ NextIndex <= nGenerated
<1>1. call.fresh \in Nat /\ nGenerated \in Nat /\ nGenerated <= MaxKeys
  BY DEF Types, Calls, Key
<1>2. CASE call.op = "fill"
  <2>1. call.at \in 1..(nKeys + 1) /\ call.at <= nKeys
    BY <1>2 DEF Numbers
  <2> QED
    BY <1>1, <1>2, <2>1 DEF NextIndex, Numbers, Index
<1>3. CASE call.op # "fill" /\ setKeyPool = {}
  BY <1>1, <1>3 DEF NextIndex, Index, Types, Key
<1>4. CASE call.op # "fill" /\ setKeyPool # {}
  <2>1. Greatest(setKeyPool) \in setKeyPool
    BY <1>4, GreatestIn DEF Types
  <2>2. Greatest(setKeyPool) \in Nat /\ Greatest(setKeyPool) >= 1
    <3>1. Greatest(setKeyPool) \in Index
      BY <2>1 DEF Types
    <3> QED
      BY <3>1 DEF Index
  <2>3. Greatest(setKeyPool) <= nGenerated - 1
    BY <2>1 DEF Numbers, Room
  <2> QED
    BY <1>1, <1>4, <2>2, <2>3 DEF NextIndex, Index
<1> QED
  BY <1>2, <1>3, <1>4

\* The types are kept, given the bounds on the numbers.
LEMMA TypesStep ==
    ASSUME Types, Numbers, [Next]_vars
    PROVE  Types'
<1> DEFINE F == [pool : Pools, key : SUBSET Key, ckey : SUBSET Key, mkey : BOOLEAN]
<1>f. file.pool \in Pools /\ file.key \subseteq Key /\ file.ckey \subseteq Key
  BY DEF Types
<1>c. call \in Calls
  BY DEF Types
<1> USE DEF memory, history
<1>1. ASSUME NEW by \in Holder \cup {"address", "refill"}, TopUpKeyPool(by)
      PROVE  Types'
  BY <1>1, Zenon DEF Types, TopUpKeyPool, Idle, Calls
<1>2. CASE GenerateNewKey
  BY <1>2, <1>f DEF Types, GenerateNewKey, Idle, Calls, WantsKey, Key
<1>3. CASE GenerateThrows
  BY <1>3, <1>f DEF Types, GenerateThrows, Idle, Calls, WantsKey, Key
<1>4. CASE WritePool
  <2>1. call.fresh \in Key /\ NextIndex \in Index
    BY <1>4, NextIndexFits DEF WritePool, Types, Calls, Key
  <2>2. With(file.pool, NextIndex, call.fresh) \in Pools
    BY <1>f, <2>1, WithFacts
  <2>3. file' \in F
    BY <1>4, <2>2 DEF WritePool, Types
  <2>4. call' \in Calls
    <3> DEFINE a == IF call.op = "fill" THEN call.at + 1 ELSE call.at
    <3>1. a \in 0..(MaxKeys + 1)
      <4>1. call.op = "fill" => call.at \in 1..(nKeys + 1) /\ call.at <= nKeys
        BY <1>4 DEF WritePool, Numbers
      <4>2. call.at \in 0..(MaxKeys + 1)
        BY <1>c DEF Calls
      <4> QED
        BY <4>1, <4>2
    <3>2. call' = [call EXCEPT !.fresh = NoKey, !.at = a]
      BY <1>4 DEF WritePool
    <3> HIDE DEF a
    <3> QED
      BY <1>c, <3>1, <3>2, CallFacts, Zenon
  <2> QED
    BY <1>4, <2>1, <2>3, <2>4 DEF WritePool, Types
<1>5. CASE TopUpDone
  BY <1>5, <1>f DEF Types, TopUpDone, Idle, Calls, WantsKey, Key
<1>6. CASE ReserveKeyFromKeyPool
  <2>0. call' \in Calls
    BY <1>6 DEF ReserveKeyFromKeyPool, Idle, Calls
  <2>1. CASE setKeyPool = {}
    BY <1>6, <2>0, <2>1 DEF ReserveKeyFromKeyPool, Types
  <2>2. CASE setKeyPool # {}
    <3> DEFINE n == Least(setKeyPool)
    <3>1. n \in setKeyPool /\ n \in Index
      BY <2>2, LeastIn DEF Types
    <3>2. n \in DOMAIN file.pool => file.pool[n] \in Key
      BY <1>f, PoolFacts
    <3>3. Without(file.pool, n) \in Pools
      BY <1>f, WithoutFacts
    <3>4. file' \in F
      BY <1>6, <2>2, <3>3 DEF ReserveKeyFromKeyPool, Types
    <3>5. held' \in [Holder -> Reserved]
      <4> DEFINE k == IF Readable(n) THEN file.pool[n] ELSE NoKey
                 e == [nIndex |-> n, vchPubKey |-> k]
      <4>1. k \in Key \cup {NoKey}
        BY <3>2, Zenon DEF Readable
      <4>2. e \in Reserved
        <5> HIDE DEF k, n
        <5> QED
          BY <3>1, <4>1, Zenon DEF Reserved
      <4>3. held' = held \/ held' = [held EXCEPT ![call.by] = e]
        BY <1>6, <2>2, Zenon DEF ReserveKeyFromKeyPool
      <4>4. held \in [Holder -> Reserved]
        BY Zenon DEF Types
      <4> HIDE DEF e
      <4> QED
        BY <4>2, <4>3, <4>4, Zenon
    <3>6. setKeyPool' \subseteq Index /\ used' \subseteq Key
      BY <1>6, <2>2, <3>2, Zenon DEF ReserveKeyFromKeyPool, Types, Readable
    <3> QED
      BY <1>6, <2>0, <3>4, <3>5, <3>6 DEF ReserveKeyFromKeyPool, Types
  <2> QED
    BY <2>1, <2>2
<1>7. CASE Lock
  BY <1>7, <1>f DEF Types, Lock, Idle, Calls, WantsKey, Key
<1>8. CASE Unlock
  BY <1>8, <1>f, Zenon DEF Types, Unlock, Idle, Calls, WantsKey, Key
<1>9. CASE EncryptKeys
  BY <1>9, <1>f DEF Types, EncryptKeys, Idle, Calls, WantsKey, Key
<1>10. CASE CommitEncryption
  <2>1. file' \in F
    BY <1>10, <1>f, Zenon DEF CommitEncryption, Types
  <2>2. call' \in Calls
    <3>1. 1 \in 0..(MaxKeys + 1)
      OBVIOUS
    <3>2. call' = [call EXCEPT !.op = "erase", !.at = 1]
      BY <1>10 DEF CommitEncryption
    <3> QED
      BY <1>c, <3>1, <3>2, CallFacts, Zenon
  <2> QED
    BY <1>10, <2>1, <2>2, Zenon DEF CommitEncryption, Types
<1>11. CASE ErasePool
  <2> DEFINE left == {i \in setKeyPool : i >= call.at}
  <2>1. left # {} => Least(left) \in left
    BY LeastIn DEF Types
  <2>2. left # {} => Least(left) \in Index
    BY <2>1 DEF Types
  <2>3. Without(file.pool, Least(left)) \in Pools
    BY <1>f, WithoutFacts
  <2> HIDE DEF left
  <2>4. \/ /\ left # {}
           /\ file' = [file EXCEPT !.pool = Without(file.pool, Least(left))]
           /\ call' = [call EXCEPT !.at = Least(left) + 1]
           /\ UNCHANGED setKeyPool
        \/ /\ setKeyPool' = {}
           /\ call' = IF fLocked THEN Idle
                      ELSE [call EXCEPT !.op = "fill", !.at = 1]
           /\ UNCHANGED file
    BY <1>11 DEF ErasePool, left
  <2>5. file' \in F
    BY <2>3, <2>4 DEF Types
  <2>6. call' \in Calls
    <3>1. 1 \in 0..(MaxKeys + 1) /\ (left # {} => Least(left) + 1 \in 0..(MaxKeys + 1))
      BY <2>2 DEF Index
    <3> QED
      BY <1>c, <2>4, <3>1, CallFacts, Zenon
  <2>7. setKeyPool' \subseteq Index
    BY <2>4 DEF Types
  <2> QED
    BY <1>11, <2>5, <2>6, <2>7 DEF ErasePool, Types
<1>12. CASE EncryptDone
  BY <1>12, <1>f DEF Types, EncryptDone, Idle, Calls, WantsKey, Key
<1>13. CASE Restart
  <2>1. DOMAIN file.pool \subseteq Index
    BY <1>f, PoolFacts
  <2>2. held' \in [Holder -> Reserved]
    BY <1>13 DEF Restart, Reserved
  <2>3. call' \in Calls
    BY <1>13 DEF Restart, Calls, Idle
  <2>4. fLocked' \in BOOLEAN /\ clash' \in BOOLEAN
    BY <1>13, Zenon DEF Restart
  <2> QED
    BY <1>13, <1>f, <2>1, <2>2, <2>3, <2>4 DEF Restart, Types
<1>14. ASSUME NEW h \in Holder, KeepKey(h)
      PROVE  Types'
  BY <1>14, <1>f, WithoutFacts DEF Types, KeepKey, Reserved
<1>15. ASSUME NEW h \in Holder, ReturnKey(h)
      PROVE  Types'
  BY <1>15 DEF Types, ReturnKey, Reserved
<1>16. CASE UNCHANGED vars
  BY <1>16 DEF Types, vars
<1> QED
  BY <1>1, <1>2, <1>3, <1>4, <1>5, <1>6, <1>7, <1>8, <1>9, <1>10, <1>11, <1>12,
     <1>13, <1>14, <1>15, <1>16, Zenon DEF Next

-----------------------------------------------------------------------------
(* What the steps that touch the pool do to it.                            *)

KeysSame == file'.key = file.key /\ file'.ckey = file.ckey /\ file'.mkey = file.mkey

LEMMA WriteEffect ==
    ASSUME Types, Numbers, WritePool
    PROVE  /\ NextIndex \in Index /\ NextIndex <= nGenerated
           /\ Put(file'.pool, file.pool, NextIndex, call.fresh)
           /\ KeysSame
           /\ call'.fresh = NoKey /\ call'.op = call.op
           /\ call'.at = IF call.op = "fill" THEN call.at + 1 ELSE call.at
<1>1. NextIndex \in Index /\ NextIndex <= nGenerated /\ call.fresh \in Key
  BY NextIndexFits DEF WritePool, Types, Calls, Key
<1>2. file'.pool = With(file.pool, NextIndex, call.fresh) /\ KeysSame
  BY DEF WritePool, Types, KeysSame
<1>3. file.pool \in Pools /\ call \in Calls
  BY DEF Types
<1>4. Put(With(file.pool, NextIndex, call.fresh), file.pool, NextIndex, call.fresh)
  BY <1>1, <1>3, WithFacts
<1>5. /\ call'.fresh = NoKey /\ call'.op = call.op
      /\ call'.at = IF call.op = "fill" THEN call.at + 1 ELSE call.at
  BY <1>3 DEF WritePool, Calls
<1> QED
  BY <1>1, <1>2, <1>4, <1>5

\* What ReserveKeyFromKeyPool does with index n.
Dropped(n) ==
    /\ n \notin DOMAIN file.pool \/ ~ HaveKey(file.pool[n])
    /\ UNCHANGED <<file, held, used>>
Stuck(n) ==
    /\ n \notin DOMAIN file.pool \/ ~ HaveKey(file.pool[n])
    /\ call.by \in Holder
    /\ held' = [held EXCEPT ![call.by] = [nIndex |-> n, vchPubKey |-> NoKey]]
    /\ UNCHANGED <<file, used>>
Lent(n) ==
    /\ n \in DOMAIN file.pool /\ call.by \in Holder
    /\ held' = [held EXCEPT ![call.by] = [nIndex |-> n, vchPubKey |-> file.pool[n]]]
    /\ UNCHANGED <<file, used>>
Given(n) ==
    /\ n \in DOMAIN file.pool
    /\ Cut(file'.pool, file.pool, n)
    /\ used' = used \cup {file.pool[n]}
    /\ UNCHANGED held

LEMMA TakeEffect ==
    ASSUME Types, ReserveKeyFromKeyPool
    PROVE  /\ KeysSame
           /\ \/ setKeyPool = {} /\ UNCHANGED <<setKeyPool, file, held, used>>
              \/ \E n \in setKeyPool : /\ setKeyPool' = setKeyPool \ {n}
                                       /\ Dropped(n) \/ Stuck(n) \/ Lent(n) \/ Given(n)
<1>1. CASE setKeyPool = {}
  BY <1>1 DEF ReserveKeyFromKeyPool, KeysSame
<1>2. CASE setKeyPool # {}
  <2> DEFINE n == Least(setKeyPool)
  <2>1. n \in setKeyPool
    BY <1>2, LeastIn DEF Types
  <2>2. /\ setKeyPool' = setKeyPool \ {n}
        /\ \/ Dropped(n) \/ Stuck(n)
           \/ Lent(n)
           \/ /\ n \in DOMAIN file.pool
              /\ file' = [file EXCEPT !.pool = Without(file.pool, n)]
              /\ used' = used \cup {file.pool[n]}
              /\ UNCHANGED held
    <3> HIDE DEF n
    <3>1. setKeyPool' = setKeyPool \ {n}
      BY <1>2, Zenon DEF ReserveKeyFromKeyPool, n
    <3>2. CASE ~ Readable(n) /\ call.by \in Holder
      BY <1>2, <3>1, <3>2, Zenon DEF ReserveKeyFromKeyPool, Readable, Stuck, n
    <3>3. CASE ~ Readable(n) /\ call.by \notin Holder
      BY <1>2, <3>1, <3>3, Zenon DEF ReserveKeyFromKeyPool, Readable, Dropped, n
    <3>4. CASE Readable(n) /\ call.by \in Holder
      BY <1>2, <3>1, <3>4, Zenon DEF ReserveKeyFromKeyPool, Readable, Lent, n
    <3>5. CASE Readable(n) /\ call.by \notin Holder
      BY <1>2, <3>1, <3>5, Zenon DEF ReserveKeyFromKeyPool, Readable, n
    <3> QED
      BY <3>2, <3>3, <3>4, <3>5, Zenon
  <2> HIDE DEF n
  <2>3. CASE Dropped(n) \/ Stuck(n) \/ Lent(n)
    BY <2>1, <2>2, <2>3, Zenon DEF Dropped, Stuck, Lent, KeysSame
  <2>4. CASE /\ n \in DOMAIN file.pool
             /\ file' = [file EXCEPT !.pool = Without(file.pool, n)]
             /\ used' = used \cup {file.pool[n]}
             /\ UNCHANGED held
    <3>1. file'.pool = Without(file.pool, n) /\ KeysSame
      BY <2>4 DEF Types, KeysSame
    <3>2. Cut(Without(file.pool, n), file.pool, n)
      BY WithoutFacts DEF Types
    <3>3. Given(n)
      BY <2>4, <3>1, <3>2 DEF Given
    <3> QED
      BY <2>1, <2>2, <3>1, <3>3
  <2> QED
    BY <2>2, <2>3, <2>4
<1> QED
  BY <1>1, <1>2

LEMMA KeepEffect ==
    ASSUME Types, NEW h \in Holder, KeepKey(h)
    PROVE  /\ Cut(file'.pool, file.pool, held[h].nIndex)
           /\ KeysSame
           /\ held'[h] = Empty /\ \A g \in Holder \ {h} : held'[g] = held[g]
<1>1. file'.pool = Without(file.pool, held[h].nIndex) /\ KeysSame
  BY DEF KeepKey, Types, KeysSame
<1>2. Cut(Without(file.pool, held[h].nIndex), file.pool, held[h].nIndex)
  BY WithoutFacts DEF Types
<1> QED
  BY <1>1, <1>2 DEF KeepKey, Types

LEMMA EraseEffect ==
    ASSUME Types, Numbers, ErasePool
    PROVE  /\ KeysSame
           /\ call.fresh = NoKey /\ call'.fresh = NoKey
           /\ \/ \E n \in setKeyPool :
                    /\ Cut(file'.pool, file.pool, n)
                    /\ \A j \in setKeyPool : j >= call.at => j >= n
                    /\ call'.op = "erase" /\ call'.at = n + 1
                    /\ UNCHANGED setKeyPool
              \/ /\ \A j \in setKeyPool : ~ (j >= call.at)
                 /\ setKeyPool' = {} /\ UNCHANGED file
                 /\ \/ call'.op = "none"
                    \/ call'.op = "fill" /\ call'.at = 1
<1> DEFINE left == {i \in setKeyPool : i >= call.at}
<1>1. call.op = "erase" /\ call.fresh = NoKey /\ call \in Calls
  BY DEF ErasePool, Numbers, Types
<1>2. CASE left # {}
  <2>1. Least(left) \in left /\ \A j \in left : Least(left) <= j
    BY <1>2, LeastIn DEF Types
  <2>2. /\ file' = [file EXCEPT !.pool = Without(file.pool, Least(left))]
        /\ call' = [call EXCEPT !.at = Least(left) + 1]
        /\ UNCHANGED setKeyPool
    BY <1>2 DEF ErasePool
  <2> DEFINE n == Least(left)
  <2>3. n \in setKeyPool /\ \A j \in setKeyPool : j >= call.at => n <= j
    BY <2>1
  <2>4. \A j \in setKeyPool : j \in Nat
    BY DEF Types, Index
  <2> HIDE DEF n
  <2>5. \A j \in setKeyPool : j >= call.at => j >= n
    BY <2>3, <2>4
  <2>6. file'.pool = Without(file.pool, n) /\ KeysSame
    BY <2>2 DEF Types, KeysSame, n
  <2>7. Cut(Without(file.pool, n), file.pool, n)
    BY WithoutFacts DEF Types
  <2>8. call'.op = "erase" /\ call'.at = n + 1 /\ call'.fresh = NoKey
    BY <1>1, <2>2 DEF Calls, n
  <2> QED
    BY <1>1, <2>2, <2>3, <2>5, <2>6, <2>7, <2>8, Zenon
<1>3. CASE left = {}
  <2>1. setKeyPool' = {} /\ UNCHANGED file /\ \A j \in setKeyPool : ~ (j >= call.at)
    BY <1>3 DEF ErasePool
  <2>2. call' = Idle \/ call' = [call EXCEPT !.op = "fill", !.at = 1]
    BY <1>3 DEF ErasePool
  <2>3. /\ call'.fresh = NoKey
        /\ \/ call'.op = "none"
           \/ call'.op = "fill" /\ call'.at = 1
    <3>1. CASE call' = Idle
      BY <3>1 DEF Idle
    <3>2. CASE call' = [call EXCEPT !.op = "fill", !.at = 1]
      BY <1>1, <3>2 DEF Calls
    <3> QED
      BY <2>2, <3>1, <3>2
  <2> QED
    BY <1>1, <2>1, <2>3 DEF KeysSame
<1> QED
  BY <1>2, <1>3

\* All that is numbered is a natural number.
Numbered ==
    /\ nGenerated \in Nat /\ call.at \in Nat /\ call.fresh \in Nat
    /\ \A i \in setKeyPool \cup DOMAIN file.pool : i \in Nat /\ i >= 1
    /\ \A i \in DOMAIN file.pool : file.pool[i] \in Nat
    /\ \A h \in Holder : held[h].nIndex \in Nat /\ held[h].vchPubKey \in Nat
    /\ \A k \in used \cup old : k \in Nat

LEMMA TypesAreNaturals == Types => Numbered
<1> SUFFICES ASSUME Types
             PROVE  Numbered
  OBVIOUS
<1>1. file.pool \in Pools /\ call \in Calls /\ held \in [Holder -> Reserved]
  BY DEF Types
<1>2. /\ setKeyPool \subseteq Index /\ nGenerated \in Key
      /\ used \subseteq Key /\ old \subseteq Key
  BY DEF Types
<1>3. call.at \in Nat /\ call.fresh \in Nat
  BY <1>1 DEF Calls
<1>4. \A h \in Holder : held[h].nIndex \in Nat /\ held[h].vchPubKey \in Nat
  BY <1>1 DEF Reserved, Empty, Index, Key
<1>5. \A i \in DOMAIN file.pool : i \in Index /\ file.pool[i] \in Key
  BY <1>1, PoolFacts
<1>6. /\ \A i \in Index : i \in Nat /\ i >= 1
      /\ \A k \in Key : k \in Nat
  BY DEF Index, Key
<1>7. \A i \in setKeyPool \cup DOMAIN file.pool : i \in Nat /\ i >= 1
  BY <1>2, <1>5, <1>6, Zenon
<1>8. \A i \in DOMAIN file.pool : file.pool[i] \in Nat
  BY <1>5, <1>6, Zenon
<1>9. nGenerated \in Nat /\ \A k \in used \cup old : k \in Nat
  BY <1>2, <1>6, Zenon
<1> QED
  BY <1>3, <1>4, <1>7, <1>8, <1>9 DEF Numbered

\* The bounds are kept.
LEMMA NumbersStep ==
    ASSUME Types, Numbers, [Next]_vars
    PROVE  Numbers'
<1>f. file \in [pool : Pools, key : SUBSET Key, ckey : SUBSET Key, mkey : BOOLEAN]
  BY DEF Types
<1>c. call \in Calls
  BY DEF Types
<1>h. held \in [Holder -> Reserved]
  BY DEF Types
<1>n. Numbered
  BY TypesAreNaturals
<1> USE DEF memory, history
<1>1. ASSUME NEW by \in Holder \cup {"address", "refill"}, TopUpKeyPool(by)
      PROVE  Numbers'
  BY <1>1, <1>n DEF Numbers, Numbered, Room, TopUpKeyPool, Idle
<1>2. CASE GenerateNewKey
  BY <1>2, <1>f, <1>c, <1>h, <1>n DEF Numbers, Numbered, Room, GenerateNewKey, Idle, WantsKey
<1>3. CASE GenerateThrows
  BY <1>3, <1>f, <1>c, <1>h, <1>n, Zenon DEF Numbers, Numbered, Room, GenerateThrows, Idle, WantsKey
<1>4. CASE WritePool
  <2>1. /\ NextIndex \in Index /\ NextIndex <= nGenerated
        /\ DOMAIN file'.pool = DOMAIN file.pool \cup {NextIndex}
        /\ file'.pool[NextIndex] = call.fresh
        /\ \A j \in DOMAIN file.pool \ {NextIndex} : file'.pool[j] = file.pool[j]
        /\ call'.fresh = NoKey /\ call'.op = call.op
        /\ call'.at = IF call.op = "fill" THEN call.at + 1 ELSE call.at
    BY <1>4, WriteEffect DEF Put
  <2>2. /\ setKeyPool' = setKeyPool \cup {NextIndex}
        /\ UNCHANGED <<held, nGenerated, used, old>>
        /\ call.fresh # NoKey
    BY <1>4 DEF WritePool
  <2>3. Room = nGenerated - 1 /\ Room' = nGenerated
    BY <2>1, <2>2 DEF Room
  <2>4. \A i \in DOMAIN file'.pool : file'.pool[i] <= nGenerated'
    BY <2>1, <2>2 DEF Numbers
  <2>5. \A i \in (setKeyPool \cup DOMAIN file.pool)' : i <= Room'
    BY <1>n, <2>1, <2>2, <2>3 DEF Numbers, Numbered
  <2>6. \A h \in Holder : held'[h].nIndex <= Room'
    BY <1>n, <2>2, <2>3 DEF Numbers, Numbered
  <2>7. call'.op = "fill" => call'.at \in 1..(nKeys + 1)
    BY <2>1, <2>2 DEF Numbers
  <2> QED
    BY <1>n, <2>1, <2>2, <2>4, <2>5, <2>6, <2>7 DEF Numbers, Numbered
<1>5. CASE TopUpDone
  BY <1>5, <1>f, <1>c, <1>h, <1>n DEF Numbers, Numbered, Room, TopUpDone, Idle, WantsKey
<1>6. CASE ReserveKeyFromKeyPool
  <2>1. /\ call' = Idle /\ Room' = nGenerated /\ Room <= nGenerated /\ Room \in Int
        /\ UNCHANGED <<nGenerated, old>>
    BY <1>6, <1>n DEF ReserveKeyFromKeyPool, Room, Idle, Numbered
  <2>2. CASE UNCHANGED <<file, held, used>> /\ setKeyPool' \subseteq setKeyPool
    BY <1>n, <2>1, <2>2 DEF Numbers, Numbered, Idle, Room
  <2>3. ASSUME NEW n \in setKeyPool, setKeyPool' = setKeyPool \ {n}, Lent(n)
        PROVE  Numbers'
    <3>1. \A h \in Holder : held'[h] = held[h]
              \/ held'[h] = [nIndex |-> n, vchPubKey |-> file.pool[n]]
      BY <1>h, <2>3 DEF Lent
    <3>2. n <= nGenerated /\ file.pool[n] <= nGenerated
      BY <1>n, <2>1, <2>3 DEF Numbers, Numbered, Lent
    <3>3. \A h \in Holder : held[h].nIndex <= nGenerated /\ held[h].vchPubKey <= nGenerated
      BY <1>n, <2>1 DEF Numbers, Numbered
    <3>4. \A h \in Holder : held'[h].nIndex <= Room' /\ held'[h].vchPubKey <= nGenerated'
      BY <2>1, <3>1, <3>2, <3>3
    <3> QED
      BY <1>n, <2>1, <2>3, <3>4 DEF Numbers, Numbered, Idle, Room, Lent
  <2>4. ASSUME NEW n \in setKeyPool, setKeyPool' = setKeyPool \ {n}, Given(n)
        PROVE  Numbers'
    BY <1>n, <2>1, <2>4 DEF Numbers, Numbered, Idle, Room, Given, Cut
  <2>5. ASSUME NEW n \in setKeyPool, setKeyPool' = setKeyPool \ {n}, Stuck(n)
        PROVE  Numbers'
    <3>1. \A h \in Holder : held'[h] = held[h]
              \/ held'[h] = [nIndex |-> n, vchPubKey |-> NoKey]
      BY <1>h, <2>5, Zenon DEF Stuck
    <3>2. n <= nGenerated /\ 0 <= nGenerated
      BY <1>n, <2>1, <2>5 DEF Numbers, Numbered
    <3>3. \A h \in Holder : held[h].nIndex <= nGenerated /\ held[h].vchPubKey <= nGenerated
      BY <1>n, <2>1 DEF Numbers, Numbered
    <3>4. \A h \in Holder : held'[h].nIndex <= Room' /\ held'[h].vchPubKey <= nGenerated'
      BY <2>1, <3>1, <3>2, <3>3
    <3> QED
      BY <1>n, <2>1, <2>5, <3>4 DEF Numbers, Numbered, Idle, Room, Stuck
  <2> QED
    BY <1>6, <2>2, <2>3, <2>4, <2>5, TakeEffect DEF Dropped
<1>7. CASE Lock
  BY <1>7, <1>f, <1>c, <1>h, <1>n, Zenon DEF Numbers, Numbered, Room, Lock, Idle, WantsKey
<1>8. CASE Unlock
  BY <1>8, <1>f, <1>c, <1>h, <1>n DEF Numbers, Numbered, Room, Unlock, Idle, WantsKey
<1>9. CASE EncryptKeys
  BY <1>9, <1>f, <1>c, <1>h, <1>n DEF Numbers, Numbered, Room, EncryptKeys, Idle, WantsKey
<1>10. CASE CommitEncryption
  BY <1>10, <1>f, <1>c, <1>h, <1>n DEF Numbers, Numbered, Room, CommitEncryption, Idle, WantsKey
<1>11. CASE ErasePool
  <2>1. /\ call.fresh = NoKey /\ call'.fresh = NoKey
        /\ call'.op = "fill" => call'.at = 1
        /\ setKeyPool' \subseteq setKeyPool
        /\ DOMAIN file'.pool \subseteq DOMAIN file.pool
        /\ \A j \in DOMAIN file'.pool : file'.pool[j] = file.pool[j]
    BY <1>11, EraseEffect DEF Cut
  <2>2. UNCHANGED <<held, nGenerated, used, old>>
    BY <1>11 DEF ErasePool
  <2>3. Room' = Room
    BY <2>1, <2>2 DEF Room
  <2> QED
    BY <1>n, <2>1, <2>2, <2>3 DEF Numbers, Numbered
<1>12. CASE EncryptDone
  BY <1>12, <1>f, <1>c, <1>h, <1>n, Zenon DEF Numbers, Numbered, Room, EncryptDone, Idle, WantsKey
<1>13. CASE Restart
  <2>1. Room <= nGenerated /\ Room' = nGenerated
    BY <1>13, <1>n DEF Restart, Room, Idle, Numbered
  <2>2. \A h \in Holder : held'[h].nIndex = 0 /\ held'[h].vchPubKey = 0
    BY <1>13 DEF Restart, Empty
  <2>3. \A i \in (setKeyPool \cup DOMAIN file.pool)' : i <= Room'
    BY <1>13, <1>n, <2>1 DEF Restart, Numbers, Numbered, Room
  <2> QED
    BY <1>13, <1>n, <2>1, <2>2, <2>3 DEF Restart, Numbers, Numbered, Idle
<1>14. ASSUME NEW h \in Holder, KeepKey(h)
       PROVE  Numbers'
  <2>1. /\ DOMAIN file'.pool \subseteq DOMAIN file.pool
        /\ \A j \in DOMAIN file'.pool : file'.pool[j] = file.pool[j]
        /\ \A g \in Holder : held'[g] = held[g] \/ held'[g] = Empty
    BY <1>14, KeepEffect DEF Cut
  <2>2. /\ Room' = Room /\ Room \in Nat
        /\ UNCHANGED <<setKeyPool, call, nGenerated, old>>
        /\ used' \subseteq used \cup {held[h].vchPubKey}
    BY <1>14, <1>n DEF KeepKey, Room, Numbered, Numbers
  <2>3. \A g \in Holder : held'[g].nIndex <= Room' /\ held'[g].vchPubKey <= nGenerated'
    BY <1>n, <2>1, <2>2 DEF Numbers, Numbered, Empty
  <2> QED
    BY <1>n, <2>1, <2>2, <2>3 DEF Numbers, Numbered
<1>15. ASSUME NEW h \in Holder, ReturnKey(h)
       PROVE  Numbers'
  BY <1>15, <1>c, <1>h, <1>n DEF Numbers, Numbered, Room, ReturnKey, Empty
<1>16. CASE UNCHANGED vars
  BY <1>16 DEF Numbers, Room, vars
<1> QED
  BY <1>1, <1>2, <1>3, <1>4, <1>5, <1>6, <1>7, <1>8, <1>9, <1>10, <1>11, <1>12,
     <1>13, <1>14, <1>15, <1>16, Zenon DEF Next

-----------------------------------------------------------------------------
InFile == file.key \cup file.ckey

\* Memory and file have the same keys, but for EncryptWallet's transaction.
Backed ==
    /\ 1 \in used
    /\ used \subseteq InFile
    /\ \A h \in Holder : held[h].vchPubKey \in InFile \cup {NoKey}
    /\ \A i \in DOMAIN file.pool : file.pool[i] \in InFile
    /\ call.fresh \in InFile \cup {NoKey}
    /\ FileNeverMixed
    /\ IF call.op = "encrypt"
       THEN mapKeys = {} /\ mapCryptedKeys = file.key /\ file.ckey = {}
       ELSE mapKeys = file.key /\ mapCryptedKeys = file.ckey

\* A key is in one place of the pool at most, and not there once it is kept.
Single ==
    /\ \A i, j \in DOMAIN file.pool : file.pool[i] = file.pool[j] => i = j
    /\ \A i \in DOMAIN file.pool : file.pool[i] \notin used
    /\ \A h \in Holder : \A i \in DOMAIN file.pool :
        held[h] # Empty /\ file.pool[i] = held[h].vchPubKey => i = held[h].nIndex
    /\ call.fresh # NoKey =>
        /\ \A i \in DOMAIN file.pool : file.pool[i] # call.fresh
        /\ call.fresh \notin used
        /\ \A h \in Holder : held[h].vchPubKey # call.fresh

\* PoolServes, and a reserved index keeps its record.
Serves ==
    ~ clash =>
        /\ setKeyPool \subseteq DOMAIN file.pool \/ call.op = "erase"
        /\ \A h \in Holder : held[h] # Empty =>
            /\ held[h].nIndex \notin setKeyPool
            /\ held[h].nIndex \in DOMAIN file.pool
            /\ \A g \in Holder \ {h} : held[g].nIndex # held[h].nIndex

\* Every record of the file is known in memory, as an index or as a reserved
\* key. While NewKeyPool fills the pool, the old ones are all reserved.
Out(i) == \E h \in Holder : held[h] = [nIndex |-> i, vchPubKey |-> file.pool[i]]
Known ==
    /\ call.op \in {"topup", "take"} /\ call.by \in Holder => held[call.by] = Empty
    /\ call.op \in {"erase", "fill"} => IsCrypted
    /\ \A i \in DOMAIN file.pool :
        \/ i \in setKeyPool /\ (call.op = "erase" => i >= call.at)
        \/ Out(i)
    /\ call.op = "fill" =>
        /\ \A i \in DOMAIN file.pool : file.pool[i] \notin old \/ Out(i)
        /\ call.fresh # NoKey => call.fresh \notin old

-----------------------------------------------------------------------------
LEMMA BackedStep ==
    ASSUME Types, Numbers, Backed, [Next]_vars
    PROVE  Backed'
<1>f. file \in [pool : Pools, key : SUBSET Key, ckey : SUBSET Key, mkey : BOOLEAN]
  BY DEF Types
<1>c. call \in Calls
  BY DEF Types
<1>h. held \in [Holder -> Reserved]
  BY DEF Types
<1> USE DEF memory, history, InFile, FileNeverMixed
<1>1. ASSUME NEW by \in Holder \cup {"address", "refill"}, TopUpKeyPool(by)
      PROVE  Backed'
  BY <1>1, <1>c DEF TopUpKeyPool, Idle, Calls, Backed, WantsKey
<1>2. CASE GenerateNewKey
  <2>1. call.op \in {"topup", "fill"} /\ call'.op = call.op
    BY <1>2, <1>c DEF GenerateNewKey, WantsKey, Calls
  <2> DEFINE k == nGenerated + 1
  <2>2. /\ file'.pool = file.pool /\ file'.mkey = file.mkey
        /\ IF IsCrypted
           THEN /\ file'.key = file.key /\ file'.ckey = file.ckey \cup {k}
                /\ mapKeys' = mapKeys /\ mapCryptedKeys' = mapCryptedKeys \cup {k}
           ELSE /\ file'.key = file.key \cup {k} /\ file'.ckey = file.ckey
                /\ mapKeys' = mapKeys \cup {k} /\ mapCryptedKeys' = mapCryptedKeys
        /\ call'.fresh = k
        /\ UNCHANGED <<held, used>>
    BY <1>2, <1>f, <1>c DEF GenerateNewKey, Calls
  <2>3. IF IsCrypted THEN file.mkey ELSE ~ file.mkey
    BY <2>1 DEF Backed, IsCrypted
  <2> HIDE DEF k
  <2> QED
    BY <2>1, <2>2, <2>3, ZenonT(60) DEF Backed
<1>3. CASE GenerateThrows
  BY <1>3, <1>c, Zenon DEF GenerateThrows, Idle, Calls, Backed, WantsKey
<1>4. CASE WritePool
  <2>1. /\ KeysSame /\ call'.fresh = NoKey /\ call'.op = call.op
        /\ DOMAIN file'.pool = DOMAIN file.pool \cup {NextIndex}
        /\ file'.pool[NextIndex] = call.fresh
        /\ \A j \in DOMAIN file.pool \ {NextIndex} : file'.pool[j] = file.pool[j]
    BY <1>4, WriteEffect DEF Put
  <2>2. call.fresh # NoKey /\ UNCHANGED <<mapKeys, mapCryptedKeys, held, used>>
    BY <1>4 DEF WritePool
  <2> QED
    BY <2>1, <2>2 DEF Backed, KeysSame
<1>5. CASE TopUpDone
  BY <1>5, <1>c DEF TopUpDone, Idle, Calls, Backed, WantsKey
<1>6. CASE ReserveKeyFromKeyPool
  <2>1. /\ call' = Idle /\ call.op = "take" /\ KeysSame
        /\ UNCHANGED <<mapKeys, mapCryptedKeys>>
    BY <1>6, TakeEffect DEF ReserveKeyFromKeyPool
  <2>2. CASE UNCHANGED <<file, held, used>>
    BY <2>1, <2>2, Zenon DEF Backed, Idle
  <2>3. ASSUME NEW n \in setKeyPool, Lent(n)
        PROVE  Backed'
    <3>1. \A h \in Holder : held'[h] = held[h]
              \/ held'[h] = [nIndex |-> n, vchPubKey |-> file.pool[n]]
      BY <1>h, <2>3, Zenon DEF Lent
    <3>2. \A h \in Holder : held'[h].vchPubKey \in InFile \cup {NoKey}
      BY <2>3, <3>1 DEF Backed, Lent
    <3> QED
      BY <2>1, <2>3, <3>2 DEF Backed, Idle, Lent
  <2>4. ASSUME NEW n \in setKeyPool, Given(n)
        PROVE  Backed'
    BY <2>1, <2>4, Zenon DEF Backed, Idle, Given, Cut, KeysSame
  <2>5. ASSUME NEW n \in setKeyPool, Stuck(n)
        PROVE  Backed'
    <3>1. \A h \in Holder : held'[h] = held[h]
              \/ held'[h] = [nIndex |-> n, vchPubKey |-> NoKey]
      BY <1>h, <2>5, Zenon DEF Stuck
    <3>2. \A h \in Holder : held'[h].vchPubKey \in InFile \cup {NoKey}
      BY <3>1 DEF Backed
    <3> QED
      BY <2>1, <2>5, <3>2 DEF Backed, Idle, Stuck
  <2> QED
    BY <1>6, <2>2, <2>3, <2>4, <2>5, TakeEffect DEF Dropped
<1>7. CASE Lock
  BY <1>7, <1>c DEF Lock, Idle, Calls, Backed, WantsKey
<1>8. CASE Unlock
  BY <1>8, <1>c DEF Unlock, Idle, Calls, Backed, WantsKey
<1>9. CASE EncryptKeys
  <2>1. call'.op = "encrypt" /\ call'.fresh = NoKey /\ call.op = "none"
    BY <1>9 DEF EncryptKeys, Idle
  <2> QED
    BY <1>9, <2>1 DEF EncryptKeys, Backed, IsCrypted
<1>10. CASE CommitEncryption
  <2>1. call'.op = "erase" /\ call'.fresh = call.fresh /\ call.op = "encrypt"
    BY <1>10, <1>c DEF CommitEncryption, Calls
  <2>2. /\ file'.pool = file.pool /\ file'.mkey = TRUE
        /\ file'.key = file.key \ mapCryptedKeys /\ file'.ckey = mapCryptedKeys
    BY <1>10, <1>f DEF CommitEncryption
  <2>3. mapKeys = {} /\ mapCryptedKeys = file.key /\ file.ckey = {}
    BY <2>1 DEF Backed
  <2>4. InFile' = InFile /\ file'.key = {} /\ file'.ckey = file.key
    BY <2>2, <2>3
  <2> QED
    BY <1>10, <2>1, <2>2, <2>3, <2>4 DEF CommitEncryption, Backed
<1>11. CASE ErasePool
  <2>1. /\ KeysSame /\ call.op = "erase" /\ call'.op # "encrypt" /\ call'.fresh = NoKey
        /\ DOMAIN file'.pool \subseteq DOMAIN file.pool
        /\ \A j \in DOMAIN file'.pool : file'.pool[j] = file.pool[j]
    BY <1>11, EraseEffect, Zenon DEF Cut, ErasePool
  <2> QED
    BY <1>11, <2>1 DEF ErasePool, Backed, KeysSame
<1>12. CASE EncryptDone
  BY <1>12, <1>c, Zenon DEF EncryptDone, Idle, Calls, Backed, WantsKey
<1>13. CASE Restart
  <2>1. \A h \in Holder : held'[h].vchPubKey = NoKey
    BY <1>13 DEF Restart, Empty
  <2> QED
    BY <1>13, <2>1 DEF Restart, Idle, Backed
<1>14. ASSUME NEW h \in Holder, KeepKey(h)
       PROVE  Backed'
  <2>1. /\ KeysSame
        /\ DOMAIN file'.pool \subseteq DOMAIN file.pool
        /\ \A j \in DOMAIN file'.pool : file'.pool[j] = file.pool[j]
        /\ \A g \in Holder : held'[g] = held[g] \/ held'[g] = Empty
    BY <1>14, KeepEffect DEF Cut
  <2>2. used' = used \cup ({held[h].vchPubKey} \ {NoKey})
    BY <1>14, Zenon DEF KeepKey
  <2>3. \A g \in Holder : held'[g].vchPubKey \in InFile \cup {NoKey}
    BY <2>1 DEF Backed, Empty
  <2> QED
    BY <1>14, <2>1, <2>2, <2>3 DEF KeepKey, Backed, KeysSame
<1>15. ASSUME NEW h \in Holder, ReturnKey(h)
       PROVE  Backed'
  <2>1. \A g \in Holder : held'[g] = held[g] \/ held'[g] = Empty
    BY <1>15, <1>h, Zenon DEF ReturnKey
  <2>2. \A g \in Holder : held'[g].vchPubKey \in InFile \cup {NoKey}
    BY <2>1 DEF Backed, Empty
  <2> QED
    BY <1>15, <2>2 DEF ReturnKey, Backed
<1>16. CASE UNCHANGED vars
  BY <1>16, Zenon DEF vars, Idle, Calls, Backed, WantsKey
<1> QED
  BY <1>1, <1>2, <1>3, <1>4, <1>5, <1>6, <1>7, <1>8, <1>9, <1>10, <1>11, <1>12,
     <1>13, <1>14, <1>15, <1>16, Zenon DEF Next

LEMMA SingleStep ==
    ASSUME Types, Numbers, Single, [Next]_vars
    PROVE  Single'
<1>f. file \in [pool : Pools, key : SUBSET Key, ckey : SUBSET Key, mkey : BOOLEAN]
  BY DEF Types
<1>c. call \in Calls
  BY DEF Types
<1>h. held \in [Holder -> Reserved]
  BY DEF Types
<1>n. Numbered
  BY TypesAreNaturals
<1> USE DEF memory, history
<1>1. ASSUME NEW by \in Holder \cup {"address", "refill"}, TopUpKeyPool(by)
      PROVE  Single'
  BY <1>1, <1>c, Zenon DEF TopUpKeyPool, Idle, Calls, Single, WantsKey
<1>2. CASE GenerateNewKey
  <2>1. /\ file'.pool = file.pool /\ call'.fresh = nGenerated + 1
        /\ UNCHANGED <<held, used>>
    BY <1>2, <1>f, <1>c DEF GenerateNewKey, Calls
  <2>2. /\ \A i \in DOMAIN file.pool : file.pool[i] # nGenerated + 1
        /\ nGenerated + 1 \notin used
        /\ \A h \in Holder : held[h].vchPubKey # nGenerated + 1
    BY <1>n DEF Numbers, Numbered
  <2> QED
    BY <2>1, <2>2 DEF Single
<1>3. CASE GenerateThrows
  BY <1>3, <1>c, Zenon DEF GenerateThrows, Idle, Calls, Single, WantsKey
<1>4. CASE WritePool
  <2>1. /\ call'.fresh = NoKey
        /\ DOMAIN file'.pool = DOMAIN file.pool \cup {NextIndex}
        /\ file'.pool[NextIndex] = call.fresh
        /\ \A j \in DOMAIN file.pool \ {NextIndex} : file'.pool[j] = file.pool[j]
    BY <1>4, WriteEffect DEF Put
  <2>2. call.fresh # NoKey /\ UNCHANGED <<held, used>>
    BY <1>4 DEF WritePool
  <2>3. \A i, j \in DOMAIN file'.pool : file'.pool[i] = file'.pool[j] => i = j
    BY <2>1, <2>2 DEF Single
  <2> QED
    BY <2>1, <2>2, <2>3, Zenon DEF Single
<1>5. CASE TopUpDone
  BY <1>5, <1>c DEF TopUpDone, Idle, Calls, Single, WantsKey
<1>6. CASE ReserveKeyFromKeyPool
  <2>1. call'.fresh = NoKey
    BY <1>6 DEF ReserveKeyFromKeyPool, Idle
  <2>2. CASE UNCHANGED <<file, held, used>>
    BY <2>1, <2>2, Zenon DEF Single
  <2>3. ASSUME NEW n \in setKeyPool, Lent(n)
        PROVE  Single'
    <3>1. \A h \in Holder :
              \/ held'[h] = held[h]
              \/ held'[h].nIndex = n /\ held'[h].vchPubKey = file.pool[n]
      BY <1>h, <2>3, Zenon DEF Lent
    <3>2. ASSUME NEW h \in Holder, NEW i \in DOMAIN file.pool,
                 held'[h] # Empty, file.pool[i] = held'[h].vchPubKey
          PROVE  i = held'[h].nIndex
      BY <2>3, <3>1, <3>2 DEF Single, Lent
    <3> QED
      BY <2>1, <2>3, <3>2 DEF Single, Lent
  <2>4. ASSUME NEW n \in setKeyPool, Given(n)
        PROVE  Single'
    BY <2>1, <2>4, Zenon DEF Single, Given, Cut
  <2>5. ASSUME NEW n \in setKeyPool, Stuck(n)
        PROVE  Single'
    <3>1. \A h \in Holder : held'[h] = held[h] \/ held'[h].vchPubKey = NoKey
      BY <1>h, <2>5, Zenon DEF Stuck
    <3>2. \A i \in DOMAIN file.pool : file.pool[i] # NoKey
      BY <1>f, PoolFacts DEF Key
    <3>3. ASSUME NEW h \in Holder, NEW i \in DOMAIN file.pool,
                 held'[h] # Empty, file.pool[i] = held'[h].vchPubKey
          PROVE  i = held'[h].nIndex
      BY <3>1, <3>2, <3>3 DEF Single
    <3> QED
      BY <2>1, <2>5, <3>3 DEF Single, Stuck
  <2> QED
    BY <1>6, <2>2, <2>3, <2>4, <2>5, TakeEffect DEF Dropped
<1>7. CASE Lock
  BY <1>7, <1>c, Zenon DEF Lock, Idle, Calls, Single, WantsKey
<1>8. CASE Unlock
  BY <1>8, <1>c DEF Unlock, Idle, Calls, Single, WantsKey
<1>9. CASE EncryptKeys
  BY <1>9, <1>c DEF EncryptKeys, Idle, Calls, Single, WantsKey
<1>10. CASE CommitEncryption
  <2>1. call'.fresh = call.fresh /\ file'.pool = file.pool
    BY <1>10, <1>c, <1>f, Zenon DEF CommitEncryption, Calls
  <2> QED
    BY <1>10, <2>1 DEF CommitEncryption, Single
<1>11. CASE ErasePool
  <2>1. /\ call'.fresh = NoKey
        /\ DOMAIN file'.pool \subseteq DOMAIN file.pool
        /\ \A j \in DOMAIN file'.pool : file'.pool[j] = file.pool[j]
    BY <1>11, EraseEffect DEF Cut
  <2>2. UNCHANGED <<held, used>>
    BY <1>11, Zenon DEF ErasePool
  <2> QED
    BY <2>1, <2>2, Zenon DEF Single
<1>12. CASE EncryptDone
  BY <1>12, <1>c, Zenon DEF EncryptDone, Idle, Calls, Single, WantsKey
<1>13. CASE Restart
  BY <1>13, <1>c, Zenon DEF Restart, Idle, Calls, Single, WantsKey
<1>14. ASSUME NEW h \in Holder, KeepKey(h)
       PROVE  Single'
  <2>1. /\ DOMAIN file'.pool = DOMAIN file.pool \ {held[h].nIndex}
        /\ \A j \in DOMAIN file'.pool : file'.pool[j] = file.pool[j]
        /\ held'[h] = Empty /\ \A g \in Holder \ {h} : held'[g] = held[g]
    BY <1>14, KeepEffect DEF Cut
  <2>2. /\ call' = call /\ used' \subseteq used \cup {held[h].vchPubKey}
        /\ held[h] # Empty
    BY <1>14 DEF KeepKey
  <2>3. \A i \in DOMAIN file'.pool : file'.pool[i] \notin used'
    BY <2>1, <2>2, Zenon DEF Single
  <2>4. \A g \in Holder : \A i \in DOMAIN file'.pool :
            held'[g] # Empty /\ file'.pool[i] = held'[g].vchPubKey => i = held'[g].nIndex
    BY <2>1, Zenon DEF Single
  <2>5. call'.fresh # NoKey =>
            /\ \A i \in DOMAIN file'.pool : file'.pool[i] # call'.fresh
            /\ call'.fresh \notin used'
            /\ \A g \in Holder : held'[g].vchPubKey # call'.fresh
    BY <2>1, <2>2 DEF Single, Empty
  <2> QED
    BY <2>1, <2>3, <2>4, <2>5, Zenon DEF Single
<1>15. ASSUME NEW h \in Holder, ReturnKey(h)
       PROVE  Single'
  <2>1. \A g \in Holder : held'[g] = held[g] \/ held'[g] = Empty
    BY <1>15, <1>h DEF ReturnKey
  <2>2. \A g \in Holder : \A i \in DOMAIN file.pool :
            held'[g] # Empty /\ file.pool[i] = held'[g].vchPubKey => i = held'[g].nIndex
    BY <2>1, Zenon DEF Single
  <2> QED
    BY <1>15, <2>2, Zenon DEF ReturnKey, Single, Idle
<1>16. CASE UNCHANGED vars
  BY <1>16, Zenon DEF vars, Idle, Calls, Single, WantsKey
<1> QED
  BY <1>1, <1>2, <1>3, <1>4, <1>5, <1>6, <1>7, <1>8, <1>9, <1>10, <1>11, <1>12,
     <1>13, <1>14, <1>15, <1>16 DEF Next

LEMMA ServesStep ==
    ASSUME Types, Numbers, Serves, [Next]_vars
    PROVE  Serves'
<1>f. file \in [pool : Pools, key : SUBSET Key, ckey : SUBSET Key, mkey : BOOLEAN]
  BY DEF Types
<1>c. call \in Calls
  BY DEF Types
<1>h. held \in [Holder -> Reserved]
  BY DEF Types
<1>n. Numbered
  BY TypesAreNaturals
<1> USE DEF memory, history
<1>1. ASSUME NEW by \in Holder \cup {"address", "refill"}, TopUpKeyPool(by)
      PROVE  Serves'
  BY <1>1, <1>c DEF TopUpKeyPool, Idle, Calls, Serves, WantsKey
<1>2. CASE GenerateNewKey
  <2>1. file'.pool = file.pool /\ call'.op = call.op
    BY <1>2, <1>f, <1>c, Zenon DEF GenerateNewKey, Calls
  <2> QED
    BY <1>2, <2>1 DEF GenerateNewKey, Serves
<1>3. CASE GenerateThrows
  BY <1>3, <1>c DEF GenerateThrows, Idle, Calls, Serves, WantsKey
<1>4. CASE WritePool
  <2>1. call'.op = call.op /\ DOMAIN file'.pool = DOMAIN file.pool \cup {NextIndex}
    BY <1>4, WriteEffect DEF Put
  <2>2. /\ setKeyPool' = setKeyPool \cup {NextIndex} /\ UNCHANGED held
        /\ ~ clash' => ~ clash /\ \A h \in Holder : held[h].nIndex # NextIndex
    BY <1>4, Zenon DEF WritePool, Types
  <2> QED
    BY <2>1, <2>2 DEF Serves
<1>5. CASE TopUpDone
  <2>1. call.op = "topup" /\ UNCHANGED <<setKeyPool, file, held, clash>>
    BY <1>5 DEF TopUpDone
  <2> QED
    BY <2>1 DEF Serves
<1>6. CASE ReserveKeyFromKeyPool
  <2>1. call.op = "take" /\ UNCHANGED clash
    BY <1>6 DEF ReserveKeyFromKeyPool
  <2>2. CASE UNCHANGED <<file, held, used>> /\ setKeyPool' \subseteq setKeyPool
    BY <2>1, <2>2, Zenon DEF Serves
  <2>3. ASSUME NEW n \in setKeyPool, setKeyPool' = setKeyPool \ {n}, Lent(n)
        PROVE  Serves'
    <3>1. \A h \in Holder : \/ held'[h] = held[h] /\ h # call.by
                            \/ held'[h].nIndex = n /\ h = call.by
      BY <1>h, <2>3, Zenon DEF Lent
    <3>2. \A h \in Holder : held[h] = Empty => held[h].nIndex # n
      BY <1>n, <2>3 DEF Empty, Numbered
    <3>3. ~ clash => \A h \in Holder : held[h].nIndex # n
      BY <2>3, <3>2 DEF Serves
    <3>4. ASSUME ~ clash, NEW h \in Holder, held'[h] # Empty
          PROVE  /\ held'[h].nIndex \notin setKeyPool'
                 /\ held'[h].nIndex \in DOMAIN file.pool
                 /\ \A g \in Holder \ {h} : held'[g].nIndex # held'[h].nIndex
      BY <2>3, <3>1, <3>3, <3>4 DEF Serves, Lent
    <3> QED
      BY <2>1, <2>3, <3>4, Zenon DEF Serves, Lent
  <2>4. ASSUME NEW n \in setKeyPool, setKeyPool' = setKeyPool \ {n}, Given(n)
        PROVE  Serves'
    BY <2>1, <2>4 DEF Serves, Given, Cut
  <2>5. ASSUME NEW n \in setKeyPool, setKeyPool' = setKeyPool \ {n}, Stuck(n)
        PROVE  Serves'
    <3>1. \A h \in Holder : \/ held'[h] = held[h] /\ h # call.by
                            \/ held'[h].nIndex = n /\ h = call.by
      BY <1>h, <2>5, Zenon DEF Stuck
    <3>2. \A h \in Holder : held[h] = Empty => held[h].nIndex # n
      BY <1>n, <2>5 DEF Empty, Numbered
    <3>3. ~ clash => n \in DOMAIN file.pool /\ \A h \in Holder : held[h].nIndex # n
      BY <2>1, <2>5, <3>2 DEF Serves
    <3>4. ASSUME ~ clash, NEW h \in Holder, held'[h] # Empty
          PROVE  /\ held'[h].nIndex \notin setKeyPool'
                 /\ held'[h].nIndex \in DOMAIN file.pool
                 /\ \A g \in Holder \ {h} : held'[g].nIndex # held'[h].nIndex
      BY <2>5, <3>1, <3>3, <3>4 DEF Serves
    <3> QED
      BY <2>1, <2>5, <3>4, Zenon DEF Serves, Stuck
  <2> QED
    BY <1>6, <2>2, <2>3, <2>4, <2>5, TakeEffect DEF Dropped
<1>7. CASE Lock
  BY <1>7, <1>c, Zenon DEF Lock, Idle, Calls, Serves, WantsKey
<1>8. CASE Unlock
  BY <1>8, <1>c, Zenon DEF Unlock, Idle, Calls, Serves, WantsKey
<1>9. CASE EncryptKeys
  BY <1>9, <1>c DEF EncryptKeys, Idle, Calls, Serves, WantsKey
<1>10. CASE CommitEncryption
  <2>1. call'.op = "erase" /\ file'.pool = file.pool
    BY <1>10, <1>c, <1>f, Zenon DEF CommitEncryption, Calls
  <2> QED
    BY <1>10, <2>1 DEF CommitEncryption, Serves
<1>11. CASE ErasePool
  <2>1. \/ \E n \in setKeyPool : /\ DOMAIN file'.pool = DOMAIN file.pool \ {n}
                                 /\ call'.op = "erase" /\ UNCHANGED setKeyPool
        \/ setKeyPool' = {} /\ UNCHANGED file
    BY <1>11, EraseEffect DEF Cut
  <2>2. UNCHANGED <<held, clash>>
    BY <1>11 DEF ErasePool
  <2> QED
    BY <2>1, <2>2 DEF Serves
<1>12. CASE EncryptDone
  <2>1. call.op = "fill" /\ UNCHANGED <<setKeyPool, file, held, clash>>
    BY <1>12, Zenon DEF EncryptDone
  <2> QED
    BY <2>1 DEF Serves
<1>13. CASE Restart
  BY <1>13, <1>c, Zenon DEF Restart, Idle, Calls, Serves, WantsKey
<1>14. ASSUME NEW h \in Holder, KeepKey(h)
       PROVE  Serves'
  <2>1. /\ DOMAIN file'.pool = DOMAIN file.pool \ {held[h].nIndex}
        /\ held'[h] = Empty /\ \A g \in Holder \ {h} : held'[g] = held[g]
    BY <1>14, KeepEffect DEF Cut
  <2>2. UNCHANGED <<setKeyPool, call, clash>> /\ held[h] # Empty
    BY <1>14 DEF KeepKey
  <2>3. ASSUME ~ clash, NEW g \in Holder, held'[g] # Empty
        PROVE  /\ held'[g].nIndex \notin setKeyPool'
               /\ held'[g].nIndex \in DOMAIN file'.pool
               /\ \A o \in Holder \ {g} : held'[o].nIndex # held'[g].nIndex
    <3>1. g # h /\ held'[g] = held[g] /\ held[g] # Empty
      BY <2>1, <2>3
    <3>2. /\ held[g].nIndex \notin setKeyPool /\ held[g].nIndex \in DOMAIN file.pool
          /\ \A o \in Holder \ {g} : held[o].nIndex # held[g].nIndex
      BY <2>3, <3>1 DEF Serves
    <3>3. Empty.nIndex # held[g].nIndex
      BY <1>n, <3>2 DEF Empty, Numbered
    <3> QED
      BY <2>1, <2>2, <3>1, <3>2, <3>3
  <2> QED
    BY <2>1, <2>2, <2>3, Zenon DEF Serves
<1>15. ASSUME NEW h \in Holder, ReturnKey(h)
       PROVE  Serves'
  <2>1. held'[h] = Empty /\ \A g \in Holder \ {h} : held'[g] = held[g]
    BY <1>15, <1>h DEF ReturnKey
  <2>2. /\ UNCHANGED <<file, call, clash>> /\ held[h] # Empty /\ call.op = "none"
        /\ setKeyPool' = setKeyPool \cup {held[h].nIndex}
    BY <1>15, Zenon DEF ReturnKey, Idle
  <2>3. ASSUME ~ clash, NEW g \in Holder, held'[g] # Empty
        PROVE  /\ held'[g].nIndex \notin setKeyPool'
               /\ held'[g].nIndex \in DOMAIN file'.pool
               /\ \A o \in Holder \ {g} : held'[o].nIndex # held'[g].nIndex
    <3>1. g # h /\ held'[g] = held[g] /\ held[g] # Empty
      BY <2>1, <2>3, Zenon
    <3>2. /\ held[g].nIndex \notin setKeyPool /\ held[g].nIndex \in DOMAIN file.pool
          /\ \A o \in Holder \ {g} : held[o].nIndex # held[g].nIndex
      BY <2>3, <3>1 DEF Serves
    <3>3. Empty.nIndex # held[g].nIndex
      BY <1>n, <3>2 DEF Empty, Numbered
    <3> QED
      BY <2>1, <2>2, <3>1, <3>2, <3>3
  <2> QED
    BY <2>2, <2>3 DEF Serves
<1>16. CASE UNCHANGED vars
  BY <1>16 DEF vars, Idle, Calls, Serves, WantsKey
<1> QED
  BY <1>1, <1>2, <1>3, <1>4, <1>5, <1>6, <1>7, <1>8, <1>9, <1>10, <1>11, <1>12,
     <1>13, <1>14, <1>15, <1>16 DEF Next

LEMMA KnownStep ==
    ASSUME Types, Numbers, Backed, Known, [Next]_vars
    PROVE  Known'
<1>f. file \in [pool : Pools, key : SUBSET Key, ckey : SUBSET Key, mkey : BOOLEAN]
  BY DEF Types
<1>c. call \in Calls
  BY DEF Types
<1>h. held \in [Holder -> Reserved]
  BY DEF Types
<1>n. Numbered
  BY TypesAreNaturals, Zenon
<1> USE DEF memory, history
<1>1. ASSUME NEW by \in Holder \cup {"address", "refill"}, TopUpKeyPool(by)
      PROVE  Known'
  <2>1. /\ UNCHANGED <<setKeyPool, mapCryptedKeys, file, held>>
        /\ call'.op \in {"topup", "take"} /\ call'.by = by
        /\ by \in Holder => held[by] = Empty
        /\ call.op = "none"
    BY <1>1, Zenon DEF TopUpKeyPool, Idle
  <2> QED
    BY <2>1 DEF Known, Out
<1>2. CASE GenerateNewKey
  <2>1. /\ file'.pool = file.pool /\ call'.fresh = nGenerated + 1
        /\ call'.op = call.op /\ call'.by = call.by /\ call'.at = call.at
        /\ call.op \in {"topup", "fill"}
        /\ UNCHANGED <<setKeyPool, held>>
        /\ mapCryptedKeys \subseteq mapCryptedKeys'
        /\ IsCrypted => old' = old
    BY <1>2, <1>f, <1>c, Zenon DEF GenerateNewKey, WantsKey, Calls
  <2>2. nGenerated + 1 \notin old
    BY <1>n DEF Numbers, Numbered
  <2>3. IsCrypted => IsCrypted'
    BY <2>1, Zenon DEF IsCrypted
  <2> HIDE DEF IsCrypted
  <2> QED
    BY <2>1, <2>2, <2>3 DEF Known, Out
<1>3. CASE GenerateThrows
  BY <1>3, <1>c, Zenon DEF GenerateThrows, Idle, Calls, Known, Out, IsCrypted, WantsKey
<1>4. CASE WritePool
  <2>1. /\ DOMAIN file'.pool = DOMAIN file.pool \cup {NextIndex}
        /\ file'.pool[NextIndex] = call.fresh
        /\ \A j \in DOMAIN file.pool \ {NextIndex} : file'.pool[j] = file.pool[j]
        /\ call'.fresh = NoKey /\ call'.op = call.op
    BY <1>4, WriteEffect DEF Put
  <2>2. /\ setKeyPool' = setKeyPool \cup {NextIndex}
        /\ call.fresh # NoKey /\ call.op \in {"topup", "fill"}
        /\ call'.by = call.by
        /\ UNCHANGED <<mapCryptedKeys, held, old>>
    BY <1>4, <1>c, Zenon DEF WritePool, Numbers, Calls
  <2>3. \A i \in DOMAIN file'.pool : i \in setKeyPool' \/ Out(i)'
    BY <2>1, <2>2, Zenon DEF Known, Out
  <2>4. ASSUME call.op = "fill", NEW i \in DOMAIN file'.pool
        PROVE  file'.pool[i] \notin old \/ Out(i)'
    BY <2>1, <2>2, <2>4 DEF Known, Out
  <2> QED
    BY <2>1, <2>2, <2>3, <2>4, Zenon DEF Known, IsCrypted
<1>5. CASE TopUpDone
  <2>1. /\ UNCHANGED <<setKeyPool, mapCryptedKeys, file, held>>
        /\ call.op = "topup"
        /\ call'.op = "none" \/ (call'.op = "take" /\ call'.by = call.by)
    BY <1>5, <1>c DEF TopUpDone, Idle, Calls
  <2> QED
    BY <2>1 DEF Known, Out
<1>6. CASE ReserveKeyFromKeyPool
  <2>1. /\ call.op = "take" /\ call'.op = "none"
        /\ UNCHANGED mapCryptedKeys
    BY <1>6 DEF ReserveKeyFromKeyPool, Idle
  <2>2. \A i \in DOMAIN file.pool : i \in setKeyPool \/ Out(i)
    BY <2>1, Zenon DEF Known
  <2>3. SUFFICES \A i \in DOMAIN file'.pool : i \in setKeyPool' \/ Out(i)'
    BY <2>1, Zenon DEF Known
  <2>4. CASE setKeyPool = {} /\ UNCHANGED <<setKeyPool, file, held, used>>
    BY <2>2, <2>4 DEF Out
  <2>5. ASSUME NEW n \in setKeyPool, setKeyPool' = setKeyPool \ {n}, Dropped(n)
        PROVE  \A i \in DOMAIN file'.pool : i \in setKeyPool' \/ Out(i)'
    <3>1. n \notin DOMAIN file.pool
      BY <2>1, <2>5 DEF Dropped, HaveKey, Backed, InFile
    <3> QED
      BY <2>2, <2>5, <3>1, Zenon DEF Out, Dropped
  <2>6. ASSUME NEW n \in setKeyPool, setKeyPool' = setKeyPool \ {n}, Lent(n)
        PROVE  \A i \in DOMAIN file'.pool : i \in setKeyPool' \/ Out(i)'
    <3>1. /\ held'[call.by] = [nIndex |-> n, vchPubKey |-> file.pool[n]]
          /\ \A h \in Holder \ {call.by} : held'[h] = held[h]
      BY <1>h, <2>6, Zenon DEF Lent
    <3>2. held[call.by] = Empty /\ call.by \in Holder
      BY <2>1, <2>6, Zenon DEF Known, Lent
    <3>3. \A i \in DOMAIN file.pool : held[call.by] # [nIndex |-> i, vchPubKey |-> file.pool[i]]
      BY <1>n, <3>2 DEF Empty, Numbered
    <3>4. ASSUME NEW i \in DOMAIN file.pool
          PROVE  i \in setKeyPool' \/ Out(i)'
      <4>1. CASE i = n
        BY <2>6, <3>1, <4>1, Zenon DEF Out, Lent
      <4>2. CASE i # n
        BY <2>2, <2>6, <3>1, <3>3, <4>2 DEF Out, Lent
      <4> QED
        BY <4>1, <4>2, Zenon
    <3> QED
      BY <2>6, <3>4 DEF Lent
  <2>7. ASSUME NEW n \in setKeyPool, setKeyPool' = setKeyPool \ {n}, Given(n)
        PROVE  \A i \in DOMAIN file'.pool : i \in setKeyPool' \/ Out(i)'
    BY <2>2, <2>7, Zenon DEF Out, Given, Cut
  <2>8. ASSUME NEW n \in setKeyPool, setKeyPool' = setKeyPool \ {n}, Stuck(n)
        PROVE  \A i \in DOMAIN file'.pool : i \in setKeyPool' \/ Out(i)'
    <3>1. n \notin DOMAIN file.pool
      BY <2>1, <2>8 DEF Stuck, HaveKey, Backed, InFile
    <3>2. \A h \in Holder \ {call.by} : held'[h] = held[h]
      BY <1>h, <2>8, Zenon DEF Stuck
    <3>3. held[call.by] = Empty /\ call.by \in Holder
      BY <2>1, <2>8, Zenon DEF Known, Stuck
    <3>4. \A i \in DOMAIN file.pool : held[call.by] # [nIndex |-> i, vchPubKey |-> file.pool[i]]
      BY <1>n, <3>3 DEF Empty, Numbered
    <3>5. ASSUME NEW i \in DOMAIN file.pool, Out(i)
          PROVE  Out(i)'
      BY <2>8, <3>2, <3>4, <3>5, Zenon DEF Out, Stuck
    <3> QED
      BY <2>2, <2>8, <3>1, <3>5, Zenon DEF Stuck
  <2> QED
    BY <1>6, <2>4, <2>5, <2>6, <2>7, <2>8, TakeEffect
<1>7. CASE Lock
  BY <1>7, <1>c, Zenon DEF Lock, Idle, Calls, Known, Out, IsCrypted, WantsKey
<1>8. CASE Unlock
  BY <1>8, <1>c, Zenon DEF Unlock, Idle, Calls, Known, Out, IsCrypted, WantsKey
<1>9. CASE EncryptKeys
  <2>1. /\ UNCHANGED <<setKeyPool, file, held>>
        /\ call.op = "none" /\ call'.op = "encrypt"
    BY <1>9, Zenon DEF EncryptKeys, Idle
  <2> QED
    BY <2>1 DEF Known, Out
<1>10. CASE CommitEncryption
  <2>1. /\ UNCHANGED <<setKeyPool, mapCryptedKeys, held>>
        /\ file'.pool = file.pool
        /\ call.op = "encrypt" /\ call'.op = "erase" /\ call'.at = 1
    BY <1>10, <1>c, <1>f, Zenon DEF CommitEncryption, Calls
  <2>2. IsCrypted
    BY <2>1 DEF Backed, InFile, IsCrypted
  <2>3. \A i \in setKeyPool : i >= 1
    BY <1>n DEF Numbered
  <2> QED
    BY <2>1, <2>2, <2>3 DEF Known, Out, IsCrypted
<1>11. CASE ErasePool
  <2>1. call.op = "erase" /\ UNCHANGED <<mapCryptedKeys, held, old>> /\ IsCrypted
    BY <1>11 DEF ErasePool, Known
  <2>2. call'.fresh = NoKey
    BY <1>11, EraseEffect, Zenon
  <2>3. \A i \in DOMAIN file.pool : (i \in setKeyPool /\ i >= call.at) \/ Out(i)
    BY <2>1, Zenon DEF Known
  <2>4. ASSUME NEW n \in setKeyPool,
               Cut(file'.pool, file.pool, n),
               \A j \in setKeyPool : j >= call.at => j >= n,
               call'.op = "erase", call'.at = n + 1, UNCHANGED setKeyPool
        PROVE  Known'
    <3>1. ASSUME NEW i \in DOMAIN file'.pool
          PROVE  (i \in setKeyPool' /\ i >= call'.at) \/ Out(i)'
      <4>1. i \in DOMAIN file.pool /\ i # n /\ file'.pool[i] = file.pool[i]
        BY <2>4, Zenon DEF Cut
      <4>2. CASE Out(i)
        BY <2>1, <4>1, <4>2, Zenon DEF Out
      <4>3. CASE i \in setKeyPool /\ i >= call.at
        <5>1. i >= n /\ i \in Nat /\ n \in Nat
          BY <1>n, <2>4, <4>3, Zenon DEF Numbered
        <5> QED
          BY <2>4, <4>1, <4>3, <5>1
      <4> QED
        BY <2>3, <4>1, <4>2, <4>3, Zenon
    <3> QED
      BY <2>1, <2>4, <3>1, Zenon DEF Known, IsCrypted
  <2>5. ASSUME \A j \in setKeyPool : ~ (j >= call.at),
               setKeyPool' = {}, UNCHANGED file,
               call'.op = "none" \/ (call'.op = "fill" /\ call'.at = 1)
        PROVE  Known'
    <3>1. \A i \in DOMAIN file'.pool : Out(i)'
      BY <2>1, <2>3, <2>5, Zenon DEF Out
    <3> QED
      BY <2>1, <2>2, <2>5, <3>1, Zenon DEF Known, IsCrypted
  <2> QED
    BY <1>11, <2>4, <2>5, EraseEffect
<1>12. CASE EncryptDone
  <2>1. /\ UNCHANGED <<setKeyPool, mapCryptedKeys, file, held>>
        /\ call.op = "fill" /\ call'.op = "none"
    BY <1>12, Zenon DEF EncryptDone, Idle
  <2> QED
    BY <2>1 DEF Known, Out
<1>13. CASE Restart
  <2>1. setKeyPool' = DOMAIN file.pool /\ UNCHANGED file /\ call'.op = "none"
    BY <1>13, Zenon DEF Restart, Idle
  <2> QED
    BY <2>1, Zenon DEF Known
<1>14. ASSUME NEW h \in Holder, KeepKey(h)
       PROVE  Known'
  <2>1. /\ DOMAIN file'.pool = DOMAIN file.pool \ {held[h].nIndex}
        /\ \A j \in DOMAIN file'.pool : file'.pool[j] = file.pool[j]
        /\ held'[h] = Empty /\ \A g \in Holder \ {h} : held'[g] = held[g]
    BY <1>14, KeepEffect DEF Cut
  <2>2. /\ UNCHANGED <<setKeyPool, mapCryptedKeys, call, old>>
        /\ held[h] # Empty
    BY <1>14, Zenon DEF KeepKey
  <2>3. ASSUME NEW i \in DOMAIN file'.pool, Out(i)
        PROVE  Out(i)'
    <3>1. PICK g \in Holder : held[g] = [nIndex |-> i, vchPubKey |-> file.pool[i]]
      BY <2>3, Zenon DEF Out
    <3>2. g # h
      BY <2>1, <2>2, <3>1
    <3> QED
      BY <2>1, <3>1, <3>2, Zenon DEF Out
  <2> QED
    BY <2>1, <2>2, <2>3, ZenonT(60) DEF Known, IsCrypted
<1>15. ASSUME NEW h \in Holder, ReturnKey(h)
       PROVE  Known'
  <2>1. held'[h] = Empty /\ \A g \in Holder \ {h} : held'[g] = held[g]
    BY <1>15, <1>h, Zenon DEF ReturnKey
  <2>2. /\ UNCHANGED <<file, call>> /\ call.op = "none"
        /\ setKeyPool' = setKeyPool \cup {held[h].nIndex}
    BY <1>15 DEF ReturnKey, Idle
  <2>3. ASSUME NEW i \in DOMAIN file.pool, Out(i)
        PROVE  i \in setKeyPool' \/ Out(i)'
    <3>1. PICK g \in Holder : held[g] = [nIndex |-> i, vchPubKey |-> file.pool[i]]
      BY <2>3, Zenon DEF Out
    <3>2. CASE g = h
      BY <2>2, <3>1, <3>2
    <3>3. CASE g # h
      BY <2>1, <2>2, <3>1, <3>3, Zenon DEF Out
    <3> QED
      BY <3>2, <3>3, Zenon
  <2> QED
    BY <2>2, <2>3 DEF Known
<1>16. CASE UNCHANGED vars
  BY <1>16, Zenon DEF vars, Idle, Calls, Known, Out, IsCrypted, WantsKey
<1> QED
  BY <1>1, <1>2, <1>3, <1>4, <1>5, <1>6, <1>7, <1>8, <1>9, <1>10, <1>11, <1>12,
     <1>13, <1>14, <1>15, <1>16, Zenon DEF Next

-----------------------------------------------------------------------------
IInv == Types /\ Numbers /\ Backed /\ Single /\ Serves /\ Known

LEMMA InitIInv == Init => IInv
<1> SUFFICES ASSUME Init
             PROVE  IInv
  OBVIOUS
<1> DEFINE keys == 1..(nKeys + 1)
<1>1. /\ setKeyPool = keys \ {1}
      /\ mapKeys = keys /\ mapCryptedKeys = {}
      /\ fLocked = FALSE /\ clash = FALSE
      /\ held = [h \in Holder |-> Empty]
      /\ call = Idle /\ nGenerated = nKeys + 1
      /\ used = {1} /\ old = keys
  BY DEF Init
<1>2. /\ file.pool = [i \in keys \ {1} |-> i]
      /\ file.key = keys /\ file.ckey = {} /\ file.mkey = FALSE
      /\ file = [pool |-> file.pool, key |-> file.key, ckey |-> file.ckey, mkey |-> file.mkey]
  BY DEF Init
<1>3. keys \subseteq 1..MaxKeys /\ keys \subseteq Nat /\ 1 \in keys
  OBVIOUS
<1>4. DOMAIN file.pool = keys \ {1} /\ \A i \in DOMAIN file.pool : file.pool[i] = i
  BY <1>2
<1>5. \A h \in Holder : held[h] = Empty /\ held[h].nIndex = 0 /\ held[h].vchPubKey = 0
  BY <1>1 DEF Empty
<1>6. \A k \in keys : k >= 1 /\ k <= nKeys + 1
  OBVIOUS
<1>7. Types
  <2>1. file.pool \in Pools
    <3>1. file.pool \in [keys \ {1} -> Key]
      BY <1>2, <1>3 DEF Key
    <3> HIDE DEF keys
    <3> QED
      BY <1>3, <3>1 DEF Pools, Index
  <2>2. held \in [Holder -> Reserved]
    BY <1>1 DEF Reserved
  <2>3. call \in Calls
    BY <1>1 DEF Calls, Idle
  <2>4. nGenerated \in Key
    BY <1>1 DEF Key
  <2> HIDE DEF keys
  <2>5. file \in [pool : Pools, key : SUBSET Key, ckey : SUBSET Key, mkey : BOOLEAN]
    BY <1>2, <1>3, <2>1, Zenon DEF Key
  <2> QED
    BY <1>1, <1>3, <2>2, <2>3, <2>4, <2>5, Zenon DEF Types, Index, Key
<1> HIDE DEF keys
<1>8. Numbers
  <2>1. Room = nKeys + 1 /\ nGenerated = nKeys + 1
    BY <1>1 DEF Room, Idle
  <2>2. /\ \A i \in setKeyPool \cup DOMAIN file.pool : i <= nKeys + 1
        /\ \A i \in DOMAIN file.pool : file.pool[i] <= nKeys + 1
        /\ \A k \in used \cup old : k <= nKeys + 1
    BY <1>1, <1>3, <1>4, <1>6, Zenon
  <2>3. call.fresh = 0 /\ call.op = "none"
    BY <1>1, Zenon DEF Idle
  <2> QED
    BY <1>5, <2>1, <2>2, <2>3 DEF Numbers
<1>9. Backed
  BY <1>1, <1>2, <1>3, <1>4, <1>5, Zenon DEF Backed, InFile, FileNeverMixed, Idle
<1>10. Single
  BY <1>1, <1>4, <1>5, Zenon DEF Single, Idle
<1>11. Serves
  BY <1>1, <1>4, <1>5, ZenonT(60) DEF Serves
<1>12. Known
  BY <1>1, <1>4, <1>5 DEF Known, Idle
<1> QED
  BY <1>7, <1>8, <1>9, <1>10, <1>11, <1>12 DEF IInv

LEMMA Inductive == Spec => []IInv
<1>1. IInv /\ [Next]_vars => IInv'
  BY TypesStep, NumbersStep, BackedStep, SingleStep, ServesStep, KnownStep DEF IInv
<1> QED
  BY InitIInv, <1>1, PTL DEF Spec

\* Keys and indexes stay within the bound on the keys generated, so that
\* NewKeyPool and TopUpKeyPool never write an index beyond it.
THEOREM TypeCorrect == Spec => []TypeOK
<1>1. IInv => TypeOK
  <2> SUFFICES ASSUME Types
               PROVE  TypeOK
    BY DEF IInv
  <2>1. DOMAIN file.pool \subseteq Index /\ PoolKeys \subseteq Key
    BY PoolFacts DEF Types, PoolKeys
  <2>2. /\ call.op \in {"none", "topup", "take", "encrypt", "erase", "fill"}
        /\ call.at \in 0..(MaxKeys + 1) /\ call.fresh \in Key \cup {NoKey}
    BY DEF Types, Calls, Key
  <2>3. file.key \subseteq Key /\ file.ckey \subseteq Key /\ file.mkey \in BOOLEAN
    BY DEF Types
  <2> QED
    BY <2>1, <2>2, <2>3 DEF Types, TypeOK, Reserved, Key
<1> QED
  BY <1>1, Inductive, PTL

\* Wherever the process stops, the file has the private key of every key
\* handed out and of every key of the pool (GenerateNewKey, EncryptWallet).
THEOREM KeysAreSafe == Spec => []KeysSurviveStop
<1>1. IInv => KeysSurviveStop
  BY DEF IInv, Backed, InFile, KeysSurviveStop, Handed, PoolKeys
<1> QED
  BY <1>1, Inductive, PTL

\* LoadWallet never finds encrypted and unencrypted keys side by side, nor
\* encrypted ones without their master key (EncryptWallet's transaction).
THEOREM NeverMixed == Spec => []FileNeverMixed
<1>1. IInv => FileNeverMixed
  BY DEF IInv, Backed
<1> QED
  BY <1>1, Inductive, PTL

\* A key that was kept never comes back into the pool of the file.
THEOREM KeptStaysOut == Spec => []KeptKeysStayOut
<1>1. IInv => KeptKeysStayOut
  BY DEF IInv, Single, KeptKeysStayOut, PoolKeys
<1> QED
  BY <1>1, Inductive, PTL

\* Unless a pool record was written over a reserved one, ReserveKeyFromKeyPool
\* finds its record, and no index is given out twice.
THEOREM PoolAlwaysServes == Spec => []PoolServes
<1>1. IInv => PoolServes
  BY Zenon DEF IInv, Serves, PoolServes
<1> QED
  BY <1>1, Inductive, PTL

\* EncryptWallet leaves none of the old keys in the pool but the reserved.
THEOREM EncryptionRenews == Spec => []PoolRenewed
<1>1. IInv => PoolRenewed
  <2> SUFFICES ASSUME Known, call.op = "fill", NEW i \in DOMAIN file.pool, file.pool[i] \in old
               PROVE  \E h \in Holder : file.pool[i] = held[h].vchPubKey
    BY Zenon DEF IInv, PoolRenewed, PoolKeys
  <2>1. Out(i)
    BY DEF Known
  <2> QED
    BY <2>1 DEF Out
<1> QED
  BY <1>1, Inductive, PTL

=============================================================================
