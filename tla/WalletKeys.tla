----------------------------- MODULE WalletKeys -----------------------------
(***************************************************************************)
(* The keys of the wallet (core/wallet.cpp, subcore/crypter.cpp,           *)
(* database/walletdb.cpp): the key pool in memory and in the file, the     *)
(* keys reserved from it, locking, and EncryptWallet with its renewal of   *)
(* the pool. The process may stop between any two writes to the file.      *)
(*                                                                         *)
(* cs_wallet is held by everything that changes the pool in memory. It is  *)
(* not held by CWallet::KeepKey called from CheckWork, nor by              *)
(* CCryptoKeyStore::Lock, which therefore come between the steps of the    *)
(* others. A write of the file that fails is left out.                     *)
(***************************************************************************)
EXTENDS Naturals, FiniteSets

CONSTANTS
    Holder,     \* CReserveKey objects
    Miner,      \* those whose KeepKey comes from CheckWork, without cs_wallet
    nKeys,      \* -keypool
    MaxKeys     \* bound on the keys generated

ASSUME WalletAssumption ==
    /\ Miner \subseteq Holder
    /\ Holder \cap {"address", "refill"} = {}
    /\ nKeys \in Nat /\ MaxKeys \in Nat /\ nKeys < MaxKeys

VARIABLES
    setKeyPool,     \* indexes of the pool, in memory
    mapKeys, mapCryptedKeys,
    fLocked,        \* vMasterKey.empty()
    file,           \* the "pool", "key", "ckey" and "mkey" records
    held,           \* nIndex and vchPubKey of every CReserveKey
    call,           \* what runs with cs_wallet held, and how far it is
    nGenerated,     \* keys are numbered as they are generated
    used,           \* history: keys kept
    old,            \* history: keys that were in the file unencrypted
    clash           \* history: a pool record was written over a reserved one

memory == <<setKeyPool, mapKeys, mapCryptedKeys, fLocked>>
history == <<used, old, clash>>
vars == <<memory, file, held, call, nGenerated, history>>

NoIndex == 0        \* -1
NoKey == 0
Key == 1..MaxKeys
Index == 1..MaxKeys
Empty == [nIndex |-> NoIndex, vchPubKey |-> NoKey]
Idle == [op |-> "none", by |-> "none", at |-> NoIndex, fresh |-> NoKey]

IsCrypted == mapCryptedKeys # {}
HaveKey(k) == k \in mapKeys \cup mapCryptedKeys
Least(S) == CHOOSE i \in S : \A j \in S : i <= j
Greatest(S) == CHOOSE i \in S : \A j \in S : j <= i
Without(f, i) == [j \in DOMAIN f \ {i} |-> f[j]]
With(f, i, k) == [j \in DOMAIN f \cup {i} |-> IF j = i THEN k ELSE f[j]]
PoolKeys == {file.pool[i] : i \in DOMAIN file.pool}

\* ReadPool finds the record, and the wallet has its key.
Readable(n) == n \in DOMAIN file.pool /\ HaveKey(file.pool[n])

\* The first run: GetKeyFromPool has filled the pool and taken the default key.
Init ==
    LET keys == 1..(nKeys + 1) IN
    /\ setKeyPool = keys \ {1}
    /\ mapKeys = keys /\ mapCryptedKeys = {}
    /\ fLocked = FALSE
    /\ file = [pool |-> [i \in keys \ {1} |-> i], key |-> keys, ckey |-> {}, mkey |-> FALSE]
    /\ held = [h \in Holder |-> Empty]
    /\ call = Idle /\ nGenerated = nKeys + 1
    /\ used = {1} /\ old = keys /\ clash = FALSE

-----------------------------------------------------------------------------
(***************************************************************************)
(* TopUpKeyPool, and what goes on once it has ended. by is the CReserveKey *)
(* that wants a key, "address" for GetKeyFromPool and "refill" for         *)
(* TopUpKeyPool alone. A locked wallet does not top up.                    *)
(***************************************************************************)
TopUpKeyPool(by) ==
    /\ call = Idle
    /\ by \in Holder => held[by] = Empty
    /\ by = "refill" => ~ fLocked
    /\ call' = [Idle EXCEPT !.op = IF fLocked THEN "take" ELSE "topup", !.by = by]
    /\ UNCHANGED <<memory, file, held, nGenerated, history>>

\* The loop of TopUpKeyPool and that of NewKeyPool want another key.
WantsKey ==
    /\ call.fresh = NoKey
    /\ \/ call.op = "topup" /\ Cardinality(setKeyPool) < nKeys + 1
       \/ call.op = "fill" /\ call.at <= nKeys

\* For GenerateNewKey: pwalletdbEncryption outlives the transaction, and new
\* encrypted keys go to it.
GenerateNewKeyIntoTxn ==
    /\ WantsKey /\ ~ fLocked
    /\ nGenerated < MaxKeys
    /\ LET k == nGenerated + 1 IN
        /\ nGenerated' = k
        /\ call' = [call EXCEPT !.fresh = k]
        /\ IF IsCrypted
           THEN mapCryptedKeys' = mapCryptedKeys \cup {k} /\ UNCHANGED <<mapKeys, file, old>>
           ELSE /\ mapKeys' = mapKeys \cup {k}
                /\ file' = [file EXCEPT !.key = @ \cup {k}]
                /\ old' = old \cup {k}
                /\ UNCHANGED mapCryptedKeys
    /\ UNCHANGED <<setKeyPool, fLocked, held, used, clash>>

\* GenerateNewKey: AddKeyPubKey writes the key to the file, encrypted if the
\* wallet is.
GenerateNewKey ==
    /\ WantsKey /\ ~ fLocked
    /\ nGenerated < MaxKeys
    /\ LET k == nGenerated + 1 IN
        /\ nGenerated' = k
        /\ call' = [call EXCEPT !.fresh = k]
        /\ IF IsCrypted
           THEN /\ mapCryptedKeys' = mapCryptedKeys \cup {k}
                /\ file' = [file EXCEPT !.ckey = @ \cup {k}]
                /\ UNCHANGED <<mapKeys, old>>
           ELSE /\ mapKeys' = mapKeys \cup {k}
                /\ file' = [file EXCEPT !.key = @ \cup {k}]
                /\ old' = old \cup {k}
                /\ UNCHANGED mapCryptedKeys
    /\ UNCHANGED <<setKeyPool, fLocked, held, used, clash>>

\* The wallet has been locked meanwhile: "AddKey failed", the call throws.
GenerateThrows ==
    /\ WantsKey /\ fLocked
    /\ call' = Idle
    /\ UNCHANGED <<memory, file, held, nGenerated, history>>

NextIndex ==
    IF call.op = "fill" THEN call.at
    ELSE IF setKeyPool = {} THEN 1 ELSE Greatest(setKeyPool) + 1

WritePool ==
    /\ call.fresh # NoKey
    /\ LET n == NextIndex IN
        /\ file' = [file EXCEPT !.pool = With(@, n, call.fresh)]
        /\ setKeyPool' = setKeyPool \cup {n}
        /\ clash' = (clash \/ \E h \in Holder : held[h].nIndex = n)
    /\ call' = [call EXCEPT !.fresh = NoKey, !.at = IF call.op = "fill" THEN @ + 1 ELSE @]
    /\ UNCHANGED <<mapKeys, mapCryptedKeys, fLocked, held, nGenerated, used, old>>

TopUpDone ==
    /\ call.op = "topup" /\ call.fresh = NoKey
    /\ Cardinality(setKeyPool) >= nKeys + 1
    /\ call' = IF call.by = "refill" THEN Idle ELSE [call EXCEPT !.op = "take"]
    /\ UNCHANGED <<memory, file, held, nGenerated, history>>

\* ReserveKeyFromKeyPool takes the oldest index. The call throws if the file
\* has no such record. The index is gone from memory then; the CReserveKey has
\* it as its nIndex, without a key, and its destructor returns it, except that
\* pMiningKey lives on. With no index left the caller makes do with the default
\* key, or gives up. GetKeyFromPool keeps the key at once.
ReserveKeyFromKeyPool ==
    /\ call.op = "take"
    /\ call' = Idle
    /\ IF setKeyPool = {}
       THEN UNCHANGED <<setKeyPool, file, held, used>>
       ELSE LET n == Least(setKeyPool) IN
            /\ setKeyPool' = setKeyPool \ {n}
            /\ IF call.by \in Holder
               THEN /\ held' = [held EXCEPT ![call.by] =
                                  [nIndex |-> n, vchPubKey |->
                                     IF Readable(n) THEN file.pool[n] ELSE NoKey]]
                    /\ UNCHANGED <<file, used>>
               ELSE /\ IF Readable(n)
                       THEN /\ file' = [file EXCEPT !.pool = Without(@, n)]
                            /\ used' = used \cup {file.pool[n]}
                       ELSE UNCHANGED <<file, used>>
                    /\ UNCHANGED held
    /\ UNCHANGED <<mapKeys, mapCryptedKeys, fLocked, nGenerated, old, clash>>

-----------------------------------------------------------------------------
\* For KeepKey: the record stays in the file.
KeepKeyInMemory(h) ==
    /\ held[h] # Empty
    /\ h \in Miner \/ call = Idle
    /\ used' = used \cup ({held[h].vchPubKey} \ {NoKey})
    /\ held' = [held EXCEPT ![h] = Empty]
    /\ UNCHANGED <<memory, file, call, nGenerated, old, clash>>

KeepKey(h) ==
    /\ held[h] # Empty
    /\ h \in Miner \/ call = Idle
    /\ file' = [file EXCEPT !.pool = Without(@, held[h].nIndex)]
    /\ used' = used \cup ({held[h].vchPubKey} \ {NoKey})
    /\ held' = [held EXCEPT ![h] = Empty]
    /\ UNCHANGED <<memory, call, nGenerated, old, clash>>

ReturnKey(h) ==
    /\ call = Idle
    /\ held[h] # Empty
    /\ setKeyPool' = setKeyPool \cup {held[h].nIndex}
    /\ held' = [held EXCEPT ![h] = Empty]
    /\ UNCHANGED <<mapKeys, mapCryptedKeys, fLocked, file, call, nGenerated, history>>

Lock ==
    /\ IsCrypted /\ ~ fLocked
    /\ fLocked' = TRUE
    /\ UNCHANGED <<setKeyPool, mapKeys, mapCryptedKeys, file, held, call, nGenerated, history>>

Unlock ==
    /\ call = Idle
    /\ IsCrypted /\ fLocked
    /\ fLocked' = FALSE
    /\ UNCHANGED <<setKeyPool, mapKeys, mapCryptedKeys, file, held, call, nGenerated, history>>

-----------------------------------------------------------------------------
(***************************************************************************)
(* EncryptWallet. All the keys are encrypted in memory while the writes    *)
(* wait in a transaction of the file; if encrypting or the commit fails,   *)
(* the program exits, which is Restart.                                    *)
(***************************************************************************)
\* For EncryptKeys: encrypted keys are written past the transaction.
EncryptKeysAtOnce ==
    /\ call = Idle
    /\ ~ IsCrypted
    /\ mapCryptedKeys' = mapKeys /\ mapKeys' = {}
    /\ fLocked' = TRUE
    /\ file' = [file EXCEPT !.ckey = mapKeys, !.key = {}]
    /\ call' = [Idle EXCEPT !.op = "encrypt"]
    /\ UNCHANGED <<setKeyPool, held, nGenerated, history>>

EncryptKeys ==
    /\ call = Idle
    /\ ~ IsCrypted
    /\ mapCryptedKeys' = mapKeys /\ mapKeys' = {}
    /\ fLocked' = TRUE
    /\ call' = [Idle EXCEPT !.op = "encrypt"]
    /\ UNCHANGED <<setKeyPool, file, held, nGenerated, history>>

\* TxnCommit, then Lock and Unlock with the passphrase, then NewKeyPool.
CommitEncryption ==
    /\ call.op = "encrypt"
    /\ file' = [file EXCEPT !.mkey = TRUE, !.ckey = mapCryptedKeys,
                            !.key = @ \ mapCryptedKeys]
    /\ fLocked' = FALSE
    /\ call' = [call EXCEPT !.op = "erase", !.at = 1]
    /\ UNCHANGED <<setKeyPool, mapKeys, mapCryptedKeys, held, nGenerated, history>>

\* For ErasePool: setKeyPool is not cleared.
ErasePoolFileOnly ==
    /\ call.op = "erase"
    /\ LET left == {i \in setKeyPool : i >= call.at} IN
        IF left # {}
        THEN /\ file' = [file EXCEPT !.pool = Without(@, Least(left))]
             /\ call' = [call EXCEPT !.at = Least(left) + 1]
        ELSE /\ call' = IF fLocked THEN Idle ELSE [call EXCEPT !.op = "fill", !.at = 1]
             /\ UNCHANGED file
    /\ UNCHANGED <<memory, held, nGenerated, history>>

\* For ErasePool: the records are not erased.
ErasePoolMemoryOnly ==
    /\ call.op = "erase"
    /\ setKeyPool' = {}
    /\ call' = IF fLocked THEN Idle ELSE [call EXCEPT !.op = "fill", !.at = 1]
    /\ UNCHANGED <<mapKeys, mapCryptedKeys, fLocked, file, held, nGenerated, history>>

\* The first loop of NewKeyPool.
ErasePool ==
    /\ call.op = "erase"
    /\ LET left == {i \in setKeyPool : i >= call.at} IN
        IF left # {}
        THEN /\ file' = [file EXCEPT !.pool = Without(@, Least(left))]
             /\ call' = [call EXCEPT !.at = Least(left) + 1]
             /\ UNCHANGED setKeyPool
        ELSE /\ setKeyPool' = {}
             /\ call' = IF fLocked THEN Idle ELSE [call EXCEPT !.op = "fill", !.at = 1]
             /\ UNCHANGED file
    /\ UNCHANGED <<mapKeys, mapCryptedKeys, fLocked, held, nGenerated, history>>

\* NewKeyPool has ended: EncryptWallet locks the wallet and rewrites the file.
EncryptDone ==
    /\ call.op = "fill" /\ call.fresh = NoKey /\ call.at > nKeys
    /\ fLocked' = TRUE
    /\ call' = Idle
    /\ UNCHANGED <<setKeyPool, mapKeys, mapCryptedKeys, file, held, nGenerated, history>>

-----------------------------------------------------------------------------
\* The process stops, and LoadWallet reads the file again.
Restart ==
    /\ setKeyPool' = DOMAIN file.pool
    /\ mapKeys' = file.key /\ mapCryptedKeys' = file.ckey
    /\ fLocked' = (file.ckey # {})
    /\ held' = [h \in Holder |-> Empty]
    /\ call' = Idle
    /\ clash' = FALSE
    /\ UNCHANGED <<file, nGenerated, used, old>>

Next ==
    \/ \E by \in Holder \cup {"address", "refill"} : TopUpKeyPool(by)
    \/ GenerateNewKey \/ GenerateThrows \/ WritePool \/ TopUpDone
    \/ ReserveKeyFromKeyPool
    \/ \E h \in Holder : KeepKey(h) \/ ReturnKey(h)
    \/ Lock \/ Unlock
    \/ EncryptKeys \/ CommitEncryption \/ ErasePool \/ EncryptDone
    \/ Restart

Spec == Init /\ [][Next]_vars

-----------------------------------------------------------------------------
Handed == used \cup ({held[h].vchPubKey : h \in Holder} \ {NoKey})

\* Indexes and keys are within what has been generated, records are well formed.
TypeOK ==
    /\ setKeyPool \subseteq Index
    /\ mapKeys \subseteq Key /\ mapCryptedKeys \subseteq Key
    /\ fLocked \in BOOLEAN /\ clash \in BOOLEAN
    /\ DOMAIN file.pool \subseteq Index /\ PoolKeys \subseteq Key
    /\ file.key \subseteq Key /\ file.ckey \subseteq Key /\ file.mkey \in BOOLEAN
    /\ held \in [Holder -> [nIndex : Index, vchPubKey : Key \cup {NoKey}] \cup {Empty}]
    /\ call.op \in {"none", "topup", "take", "encrypt", "erase", "fill"}
    /\ call.at \in 0..(MaxKeys + 1) /\ call.fresh \in Key \cup {NoKey}
    /\ nGenerated \in 1..MaxKeys
    /\ used \subseteq Key /\ old \subseteq Key

\* Whenever the process stops, the file has the private key of every key that
\* was handed out (an address given away, the change of a transaction, a
\* coinbase) and of every key of the pool: GenerateNewKey has written it
\* before the pool record, and EncryptWallet never takes it away.
KeysSurviveStop == Handed \cup PoolKeys \subseteq file.key \cup file.ckey

\* The keys of the file are all unencrypted, without a master key, or all
\* encrypted, with one, through the steps of EncryptWallet and stops between
\* them (LoadWallet takes a mixture for corruption).
FileNeverMixed == IF file.mkey THEN file.key = {} ELSE file.ckey = {}

\* A key that was kept is not in the pool of the file, so that it is never
\* handed out again, also not after a stop (CommitTransaction: "so it won't be
\* used again").
KeptKeysStayOut == used \cap PoolKeys = {}

\* As long as no pool record has been written over one that is reserved, every
\* index in memory has its record (ReserveKeyFromKeyPool does not throw) and a
\* reserved index is neither in memory nor reserved twice.
PoolServes ==
    ~ clash =>
        /\ setKeyPool \subseteq DOMAIN file.pool \/ call.op = "erase"
        /\ \A h \in Holder : held[h] # Empty =>
            /\ held[h].nIndex \notin setKeyPool
            /\ \A g \in Holder \ {h} : held[g].nIndex # held[h].nIndex

\* When NewKeyPool has ended, the only keys of the pool that were in the file
\* unencrypted are those reserved meanwhile, which it knows nothing of ("Mark
\* old keypool keys as used, and generate all new keys").
PoolRenewed ==
    call.op = "fill" /\ call.at > nKeys =>
        PoolKeys \cap old \subseteq {held[h].vchPubKey : h \in Holder}

=============================================================================
