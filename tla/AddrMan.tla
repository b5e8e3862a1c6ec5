------------------------------- MODULE AddrMan -------------------------------
(***************************************************************************)
(* The address manager (node/addrman.h, node/addrman.cpp). Every operation *)
(* holds cs and is one action. mapInfo, mapAddr, vRandom, the buckets and  *)
(* two counters say the same thing in five ways.                           *)
(*                                                                         *)
(* Times of addresses only weight random choices, so they are left out:    *)
(* Add may find no news in any address it knows, and ShrinkNew may choose  *)
(* any entry of its bucket. nLastSuccess is kept for SelectTried.          *)
(***************************************************************************)
EXTENDS Integers, Sequences, FiniteSets

CONSTANTS
    Service,                        \* addresses with their port
    Source,                         \* groups of peers that tell of addresses
    Host(_),                        \* the CNetAddr of a service
    NewBucket, TriedBucket,
    GetNewBucket(_, _),             \* of a host and a source
    GetTriedBucket(_),              \* of a service
    ADDRMAN_NEW_BUCKET_SIZE,
    ADDRMAN_TRIED_BUCKET_SIZE,
    ADDRMAN_NEW_BUCKETS_PER_ADDRESS,
    ADDRMAN_TRIED_ENTRIES_INSPECT_ON_EVICT,
    ADDRMAN_GETADDR_MAX_PCT,
    MaxIds,                         \* bound on nIdCount
    MaxTime                         \* bound on the times of successes

ASSUME AddrManAssumption ==
    /\ \A s \in Service : GetTriedBucket(s) \in TriedBucket
    /\ \A s \in Service, src \in Source : GetNewBucket(Host(s), src) \in NewBucket
    /\ NewBucket \subseteq Nat /\ IsFiniteSet(NewBucket)
    /\ ADDRMAN_NEW_BUCKET_SIZE \in Nat \ {0} /\ ADDRMAN_TRIED_BUCKET_SIZE \in Nat \ {0}
    /\ ADDRMAN_NEW_BUCKETS_PER_ADDRESS \in Nat \ {0}
    /\ ADDRMAN_TRIED_ENTRIES_INSPECT_ON_EVICT \in Nat \ {0}
    /\ ADDRMAN_GETADDR_MAX_PCT \in 0..100
    /\ MaxIds \in Nat /\ MaxTime \in Nat

VARIABLES
    nIdCount,
    mapInfo,        \* id -> CAddrInfo
    mapAddr,        \* host -> id
    vRandom,        \* the ids in random order; positions start at 1
    vvTried, vvNew, \* the buckets
    nTried, nNew

index == <<nIdCount, mapInfo, mapAddr, vRandom>>
vars == <<index, vvTried, vvNew, nTried, nNew>>

Ids == DOMAIN mapInfo
Find(s) == Host(s) \in DOMAIN mapAddr
IdOf(s) == mapAddr[Host(s)]
Refs(n) == Cardinality({b \in NewBucket : n \in vvNew[b]})
With(f, x, y) == [z \in DOMAIN f \cup {x} |-> IF z = x THEN y ELSE f[z]]
Without(f, x) == [z \in DOMAIN f \ {x} |-> f[z]]

Init ==
    /\ nIdCount = 0
    /\ mapInfo = [n \in {} |-> 0] /\ mapAddr = [h \in {} |-> 0]
    /\ vRandom = <<>>
    /\ vvTried = [b \in TriedBucket |-> <<>>] /\ vvNew = [b \in NewBucket |-> {}]
    /\ nTried = 0 /\ nNew = 0

-----------------------------------------------------------------------------
(***************************************************************************)
(* ShrinkNew takes entry v out of a bucket. If it was its last bucket, the *)
(* entry goes: SwapRandom with the last one of vRandom, pop_back, and both *)
(* maps erased. info, addr and random are the tables at that moment.       *)
(***************************************************************************)
ShrinkInfo(info, random, v) ==
    IF info[v].nRefCount = 1
    THEN LET last == random[Len(random)] IN
         Without([info EXCEPT ![last].nRandomPos = info[v].nRandomPos], v)
    ELSE [info EXCEPT ![v].nRefCount = @ - 1]

ShrinkRandom(info, random, v) ==
    IF info[v].nRefCount = 1
    THEN SubSeq([random EXCEPT ![info[v].nRandomPos] = random[Len(random)]],
                1, Len(random) - 1)
    ELSE random

ShrinkAddr(info, addr, v) ==
    IF info[v].nRefCount = 1 THEN Without(addr, Host(info[v].addr)) ELSE addr

ShrinkCount(info, count, v) == IF info[v].nRefCount = 1 THEN count - 1 ELSE count

\* The end of Add_: entry n, already counted, goes into bucket b.
AddToBucket(info, addr, random, count, n, b) ==
    LET counted == [info EXCEPT ![n].nRefCount = @ + 1] IN
    IF Cardinality(vvNew[b]) = ADDRMAN_NEW_BUCKET_SIZE
    THEN \E v \in vvNew[b] :
         /\ mapInfo' = ShrinkInfo(counted, random, v)
         /\ mapAddr' = ShrinkAddr(counted, addr, v)
         /\ vRandom' = ShrinkRandom(counted, random, v)
         /\ nNew' = ShrinkCount(counted, count, v)
         /\ vvNew' = [vvNew EXCEPT ![b] = (@ \ {v}) \cup {n}]
    ELSE /\ mapInfo' = counted /\ mapAddr' = addr /\ vRandom' = random
         /\ nNew' = count
         /\ vvNew' = [vvNew EXCEPT ![b] = @ \cup {n}]

\* Add_ of an unknown address: Create.
AddNew(s, src) ==
    /\ ~ Find(s)
    /\ nIdCount < MaxIds
    /\ nIdCount' = nIdCount + 1
    /\ AddToBucket(With(mapInfo, nIdCount,
                        [addr |-> s, source |-> src, fInTried |-> FALSE, nRefCount |-> 0,
                         nLastSuccess |-> 0, nRandomPos |-> Len(vRandom) + 1]),
                   With(mapAddr, Host(s), nIdCount),
                   Append(vRandom, nIdCount),
                   nNew + 1, nIdCount, GetNewBucket(Host(s), src))
    /\ UNCHANGED <<vvTried, nTried>>

\* Add_ of a known one, under whatever port. There must be news, and the
\* stochastic test must let it through: either may fail at any time.
AddAgain(s, src) ==
    /\ Find(s)
    /\ LET n == IdOf(s)
           b == GetNewBucket(Host(mapInfo[n].addr), src) IN
        /\ ~ mapInfo[n].fInTried
        /\ mapInfo[n].nRefCount # ADDRMAN_NEW_BUCKETS_PER_ADDRESS
        /\ n \notin vvNew[b]
        /\ AddToBucket(mapInfo, mapAddr, vRandom, nNew, n, b)
    /\ UNCHANGED <<nIdCount, vvTried, nTried>>

-----------------------------------------------------------------------------
\* SelectTried: pos[i] is the random position drawn in the i-th turn. The
\* entry there is swapped to position i; the position remembered for the least
\* recent one is that from which it was swapped away.
SelectTried(vTried, pos) ==
    LET turn[i \in 0..Len(pos)] ==
            IF i = 0 THEN [v |-> vTried, nOldest |-> -1, nOldestPos |-> -1]
            ELSE LET t == turn[i - 1]
                     n == t.v[pos[i]]
                     v == [t.v EXCEPT ![pos[i]] = t.v[i], ![i] = n] IN
                 IF t.nOldest = -1 \/ mapInfo[n].nLastSuccess < mapInfo[t.nOldest].nLastSuccess
                 THEN [v |-> v, nOldest |-> n, nOldestPos |-> pos[i]]
                 ELSE [t EXCEPT !.v = v]
    IN  turn[Len(pos)]

\* Positions a shuffle of the first few of len elements may draw.
Draws(turns, len) == {pos \in [1..turns -> 1..len] : \A i \in 1..turns : pos[i] >= i}

Inspected(len) ==
    IF len < ADDRMAN_TRIED_ENTRIES_INSPECT_ON_EVICT
    THEN len ELSE ADDRMAN_TRIED_ENTRIES_INSPECT_ON_EVICT

\* MakeTried with room in the bucket.
MoveToTried(info, n) ==
    LET k == GetTriedBucket(info[n].addr) IN
    /\ Len(vvTried[k]) < ADDRMAN_TRIED_BUCKET_SIZE
    /\ vvNew' = [b \in NewBucket |-> vvNew[b] \ {n}]
    /\ vvTried' = [vvTried EXCEPT ![k] = Append(@, n)]
    /\ mapInfo' = [info EXCEPT ![n].fInTried = TRUE, ![n].nRefCount = @ - Refs(n)]
    /\ nTried' = nTried + 1 /\ nNew' = nNew - 1

\* For EvictBucket: the bucket of its source, full or not.
EvictBucketOwn(left, entry, nOrigin) == GetNewBucket(Host(entry.addr), entry.source)

\* Where an evicted entry goes: the bucket of its source, or else nOrigin, from
\* which the entry that takes its place came.
EvictBucket(left, entry, nOrigin) ==
    LET own == GetNewBucket(Host(entry.addr), entry.source) IN
    IF Cardinality(left[own]) < ADDRMAN_NEW_BUCKET_SIZE THEN own ELSE nOrigin

\* For Exchange: nRefCount of the evicted entry stays zero.
ExchangeUncounted(info, old, n) ==
    [info EXCEPT ![old].fInTried = FALSE, ![n].fInTried = TRUE, ![n].nRefCount = @ - Refs(n)]

Exchange(info, old, n) ==
    [info EXCEPT ![old].fInTried = FALSE, ![old].nRefCount = 1,
                 ![n].fInTried = TRUE, ![n].nRefCount = @ - Refs(n)]

\* MakeTried with an entry to evict.
EvictFromTried(info, n, nOrigin) ==
    LET k == GetTriedBucket(info[n].addr)
        left == [b \in NewBucket |-> vvNew[b] \ {n}] IN
    /\ Len(vvTried[k]) >= ADDRMAN_TRIED_BUCKET_SIZE
    /\ \E pos \in Draws(Inspected(Len(vvTried[k])), Len(vvTried[k])) :
        LET select == SelectTried(vvTried[k], pos)
            old == select.v[select.nOldestPos]
            b == EvictBucket(left, info[old], nOrigin) IN
        /\ vvNew' = [left EXCEPT ![b] = @ \cup {old}]
        /\ vvTried' = [vvTried EXCEPT ![k] = [select.v EXCEPT ![select.nOldestPos] = n]]
        /\ mapInfo' = Exchange(info, old, n)
    /\ UNCHANGED <<nTried, nNew>>

Good(s, nTime) ==
    /\ Find(s)
    /\ LET n == IdOf(s)
           info == [mapInfo EXCEPT ![n].nLastSuccess = nTime] IN
        /\ mapInfo[n].addr = s
        /\ IF mapInfo[n].fInTried \/ \A b \in NewBucket : n \notin vvNew[b]
           THEN mapInfo' = info /\ UNCHANGED <<vvTried, vvNew, nTried, nNew>>
           ELSE \/ MoveToTried(info, n)
                \/ \E nOrigin \in NewBucket :
                    n \in vvNew[nOrigin] /\ EvictFromTried(info, n, nOrigin)
    /\ UNCHANGED <<nIdCount, mapAddr, vRandom>>

\* GetAddr_ shuffles the beginning of vRandom, one SwapRandom after the other.
GetAddr ==
    LET len == Len(vRandom) IN
    /\ \E pos \in Draws((ADDRMAN_GETADDR_MAX_PCT * len) \div 100, len) :
        LET turn[i \in 0..Len(pos)] ==
                IF i = 0 THEN [random |-> vRandom, info |-> mapInfo]
                ELSE LET r == turn[i - 1].random
                         j == pos[i] IN
                     [random |-> [r EXCEPT ![i] = r[j], ![j] = r[i]],
                      info |-> [turn[i - 1].info EXCEPT ![r[i]].nRandomPos = j,
                                                        ![r[j]].nRandomPos = i]]
        IN  vRandom' = turn[Len(pos)].random /\ mapInfo' = turn[Len(pos)].info
    /\ UNCHANGED <<nIdCount, mapAddr, vvTried, vvNew, nTried, nNew>>

-----------------------------------------------------------------------------
Rank(S, n) == Cardinality({m \in S : m < n})
SameBucket(n) ==
    {m \in Ids : mapInfo[m].fInTried
                    /\ GetTriedBucket(mapInfo[m].addr) = GetTriedBucket(mapInfo[n].addr)}

\* For KeptTried: one too few.
KeptTriedFewer ==
    {n \in Ids : mapInfo[n].fInTried
                    /\ Rank(SameBucket(n), n) + 1 < ADDRMAN_TRIED_BUCKET_SIZE}

\* The tried entries for which there is room when they are read.
KeptTried ==
    {n \in Ids : mapInfo[n].fInTried /\ Rank(SameBucket(n), n) < ADDRMAN_TRIED_BUCKET_SIZE}

\* For Placed: one too few.
PlacedFewer(b) ==
    {n \in vvNew[b] : Cardinality({c \in NewBucket : c < b /\ n \in vvNew[c]}) + 1
                         < ADDRMAN_NEW_BUCKETS_PER_ADDRESS}

\* The entries put into new bucket b when it is read.
Placed(b) ==
    {n \in vvNew[b] : Cardinality({c \in NewBucket : c < b /\ n \in vvNew[c]})
                         < ADDRMAN_NEW_BUCKETS_PER_ADDRESS}

(***************************************************************************)
(* DumpAddresses of an orderly stop, and reading peers.dat again. Entries  *)
(* are written and numbered anew in the order of their ids, first those    *)
(* with a nRefCount, then the tried ones; vvTried, mapAddr and vRandom are *)
(* built from them. A tried entry without room in its bucket is lost, as   *)
(* is the place of an entry in more than ADDRMAN_NEW_BUCKETS_PER_ADDRESS   *)
(* buckets. After a crash the file is the last dump,                       *)
(* DUMP_ADDRESSES_INTERVAL old at the most, and what was learnt since is   *)
(* lost; that is left out.                                                 *)
(***************************************************************************)
Reload ==
    LET new == {n \in Ids : mapInfo[n].nRefCount # 0}
        kept == KeptTried
        id(n) == IF n \in kept THEN nNew + Rank(kept, n) ELSE Rank(new, n)
        was(i) == CHOOSE n \in new \cup kept : id(n) = i
        count == nNew + Cardinality(kept) IN
    /\ nIdCount' = count
    /\ vRandom' = [i \in 1..count |-> i - 1]
    /\ mapInfo' = [i \in 0..(count - 1) |->
                       [mapInfo[was(i)] EXCEPT
                           !.nRandomPos = i + 1,
                           !.nRefCount = Cardinality({b \in NewBucket : was(i) \in Placed(b)})]]
    /\ mapAddr' = [h \in {Host(mapInfo[n].addr) : n \in new \cup kept} |->
                       id(CHOOSE n \in new \cup kept : Host(mapInfo[n].addr) = h)]
    /\ vvTried' = [k \in TriedBucket |->
                       LET mine == {n \in kept : GetTriedBucket(mapInfo[n].addr) = k} IN
                       [i \in 1..Cardinality(mine) |->
                           id(CHOOSE n \in mine : Rank(mine, n) = i - 1)]]
    /\ vvNew' = [b \in NewBucket |-> {id(n) : n \in Placed(b)}]
    /\ nTried' = Cardinality(kept)
    /\ UNCHANGED nNew

Next ==
    \/ \E s \in Service, src \in Source : AddNew(s, src) \/ AddAgain(s, src)
    \/ \E s \in Service, t \in 1..MaxTime : Good(s, t)
    \/ GetAddr
    \/ Reload

Spec == Init /\ [][Next]_vars

-----------------------------------------------------------------------------
TriedIds(k) == {vvTried[k][i] : i \in DOMAIN vvTried[k]}

\* The tables hold ids of entries that are there, and entries are well formed.
TypeOK ==
    /\ nIdCount \in 0..MaxIds
    /\ Ids \subseteq 0..(MaxIds - 1)
    /\ \A n \in Ids : mapInfo[n] \in
            [addr : Service, source : Source, fInTried : BOOLEAN, nRefCount : Nat,
             nLastSuccess : 0..MaxTime, nRandomPos : Nat]
    /\ \A h \in DOMAIN mapAddr : mapAddr[h] \in Ids
    /\ vvTried \in [TriedBucket -> Seq(Ids)]
    /\ vvNew \in [NewBucket -> SUBSET Ids]

\* mapAddr is the inverse of mapInfo and nRandomPos that of vRandom (errors -5,
\* -7 and -14 of Check_): SwapRandom asserts it, and ShrinkNew would otherwise
\* drop another entry than it erases.
IndexesExact ==
    /\ DOMAIN mapAddr = {Host(mapInfo[n].addr) : n \in Ids}
    /\ \A n \in Ids : mapAddr[Host(mapInfo[n].addr)] = n
    /\ Len(vRandom) = Cardinality(Ids)
    /\ \A n \in Ids : mapInfo[n].nRandomPos \in DOMAIN vRandom
                         /\ vRandom[mapInfo[n].nRandomPos] = n

\* An entry is either tried, and then it was reached once and is once in its own
\* tried bucket and in no new one, or new, and then in as many new buckets as
\* nRefCount says, at least one (errors -1 to -4 and -11 to -15 of Check_; the
\* assertion of MakeTried).
BucketsExact ==
    \A n \in Ids :
        /\ mapInfo[n].nRefCount = Refs(n)
        /\ Refs(n) <= ADDRMAN_NEW_BUCKETS_PER_ADDRESS
        /\ mapInfo[n].fInTried <=> Refs(n) = 0
        /\ mapInfo[n].fInTried => mapInfo[n].nLastSuccess # 0
        /\ \A k \in TriedBucket :
            Cardinality({i \in DOMAIN vvTried[k] : vvTried[k][i] = n}) =
                IF mapInfo[n].fInTried /\ GetTriedBucket(mapInfo[n].addr) = k THEN 1 ELSE 0

\* nTried and nNew count the entries (errors -9 and -10): Select_ would search
\* an empty table for ever, and the dump would be cut short.
CountersExact ==
    /\ nTried = Cardinality({n \in Ids : mapInfo[n].fInTried})
    /\ nNew = Cardinality({n \in Ids : ~ mapInfo[n].fInTried})

\* Check_ would find no error after any operation: the tables, the indexes over
\* them and the counters say the same.
CheckPasses == TypeOK /\ IndexesExact /\ BucketsExact /\ CountersExact

\* No bucket outgrows its size, also when the entry evicted from a tried bucket
\* goes to the new bucket of the other ("there is certainly place there").
BucketsBounded ==
    /\ \A b \in NewBucket : Cardinality(vvNew[b]) <= ADDRMAN_NEW_BUCKET_SIZE
    /\ \A k \in TriedBucket : Len(vvTried[k]) <= ADDRMAN_TRIED_BUCKET_SIZE

\* Tried addresses are "never deleted while in the tried table, only possibly
\* evicted back to the new table", a stop that dumps them and the start after
\* it included.
TriedNeverDeleted ==
    [][\A n \in Ids : mapInfo[n].fInTried =>
            \E m \in DOMAIN mapInfo' : mapInfo'[m].addr = mapInfo[n].addr]_vars

Tables == [new |-> [b \in NewBucket |-> {mapInfo[n].addr : n \in vvNew[b]}],
           tried |-> [k \in TriedBucket |-> {mapInfo[n].addr : n \in TriedIds(k)}]]

\* Dumping and reading again leaves every address in its buckets.
ReloadKeepsTables == [][Tables' # Tables => ~ Reload]_vars

\* The entry evicted is the least recently successful of those inspected.
\* SelectTried: "find the least recently tried among them".
EvictsLeastRecent ==
    [][\A k \in TriedBucket : Len(vvTried[k]) <= ADDRMAN_TRIED_ENTRIES_INSPECT_ON_EVICT =>
            \A n \in TriedIds(k) \ TriedIds(k)' : Reload \/
                \A m \in TriedIds(k) : mapInfo[n].nLastSuccess <= mapInfo[m].nLastSuccess]_vars

=============================================================================
