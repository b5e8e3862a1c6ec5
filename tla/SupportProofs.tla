--------------------------- MODULE SupportProofs ----------------------------
(***************************************************************************)
(* Proofs about parts beside the chain, for any number of transactions,    *)
(* collaterals, registrations and database objects.                        *)
(*                                                                         *)
(* XNodes: the list has one entry for a collateral, and while it stays its *)
(* registration and its last ping only get newer.                          *)
(*                                                                         *)
(* The second needs PingNewer and WriteNewer, on the entries that the      *)
(* handler of a ping, or of a registration, may come to write when others  *)
(* are erased and added between its test and its write. The loop that      *)
(* erases entries is reasoned about turn by turn (RemainingFrom).          *)
(*                                                                         *)
(* OrphanTxs: the two maps of orphan transactions agree, their number is   *)
(* bounded, and a transaction that is accepted leaves none of its orphans  *)
(* untried. LoopInv is what the loop over the orphans keeps true while it  *)
(* adds to the queue it runs over.                                         *)
(*                                                                         *)
(* TxDB: CTxDB acts as a KeyValueStore, with batches of any length.        *)
(***************************************************************************)
EXTENDS XNodes, OrphanTxs, TxDB, NaturalLemmas, FiniteSetTheorems

USE SMTT(30)

-----------------------------------------------------------------------------
(* Xnodes.                                                                 *)

\* What the list is at any moment: entries, one for a collateral.
OneEach(list) ==
    /\ list \in Seq(Entry)
    /\ \A i, j \in DOMAIN list : list[i].vin = list[j].vin => i = j

\* There is room behind every position for the one that stands for freed memory.
LEMMA ListBounded ==
    ASSUME NEW list, OneEach(list)
    PROVE  Len(list) \in Nat /\ Len(list) < Freed /\ Freed \in Nat
<1> DEFINE n == Len(list)
           f == [i \in 1..n |-> list[i].vin]
<1>1. n \in Nat /\ \A i \in 1..n : i \in DOMAIN list /\ list[i] \in Entry
  BY DEF OneEach
<1>2. IsFiniteSet(Vin) /\ Cardinality(Vin) \in Nat
  BY TimesAssumption, FS_CardinalityType
<1>3. IsFiniteSet(1..n) /\ Cardinality(1..n) = n
  <2> HIDE DEF n
  <2> QED
    BY <1>1, FS_Interval
<1>4. f \in [1..n -> Vin] /\ \A i, j \in 1..n : f[i] = f[j] => i = j
  BY <1>1, Zenon DEF OneEach, Entry
<1> DEFINE I == 1..n
<1>5. ~ (Cardinality(Vin) < Cardinality(I))
  <2> SUFFICES ASSUME Cardinality(Vin) < Cardinality(I)
               PROVE  FALSE
    OBVIOUS
  <2> HIDE DEF f, I
  <2>1. f \in [I -> Vin] /\ IsFiniteSet(I)
    BY <1>3, <1>4 DEF I
  <2>2. \E x, y \in I : x # y /\ f[x] = f[y]
    BY <1>2, <2>1, FS_PigeonHole, Zenon
  <2> QED
    BY <1>4, <2>2 DEF I
<1> HIDE DEF n
<1> QED
  BY <1>1, <1>2, <1>3, <1>5 DEF Freed, n

\* Check changes nothing but the state of an entry.
LEMMA CheckedStays ==
    ASSUME NEW e \in Entry
    PROVE  /\ Checked(e) \in Entry /\ Checked(e).vin = e.vin
           /\ Checked(e).sigTime = e.sigTime /\ Checked(e).ping = e.ping
<1>1. Status(e) \in States
  BY DEF Status, States
<1> QED
  BY <1>1 DEF Checked, Entry

\* The loop of CheckAndRemove keeps entries, and none gets behind where it was.
LEMMA RemainingFrom ==
    ASSUME OneEach(vXNodes), NEW S
    PROVE  /\ OneEach(Remaining(S))
           /\ \A k \in DOMAIN Remaining(S) : \E j \in DOMAIN vXNodes :
                 /\ k <= j /\ Remaining(S)[k].vin = vXNodes[j].vin
                 /\ Remaining(S)[k].sigTime = vXNodes[j].sigTime
                 /\ Remaining(S)[k].ping = vXNodes[j].ping
<1> DEFINE n == Len(vXNodes)
           at(i) == CheckedAt(i, S)
           turn(q, i) == IF at(i).activeState = "REMOVE" THEN q ELSE Append(q, at(i))
           F == [i \in 1..n |-> [q \in Seq(Entry) |-> turn(q, i)]]
           E(u) == [i \in 0..n |-> IF i = 0 THEN <<>> ELSE turn(u[i - 1], i)]
           kept == CHOOSE u : u = E(u)
<1>1. n \in Nat /\ DOMAIN vXNodes = 1..n
  BY DEF OneEach
<1>2. \A i \in 1..n : /\ at(i) \in Entry /\ at(i).vin = vXNodes[i].vin
                      /\ at(i).sigTime = vXNodes[i].sigTime
                      /\ at(i).ping = vXNodes[i].ping
  BY CheckedStays DEF OneEach, CheckedAt
<1>3. Remaining(S) = kept[n]
  BY DEF Remaining
<1> HIDE DEF n, at
<1>4. \A i \in 1..n : \A q \in Seq(Entry) : turn(q, i) \in Seq(Entry)
  BY <1>2
<1>5. PICK q : LoopRun(q, n, Seq(Entry), <<>>, F)
  <2>1. F \in [1..n -> [Seq(Entry) -> Seq(Entry)]] /\ <<>> \in Seq(Entry)
    BY <1>4
  <2> HIDE DEF F
  <2> QED
    BY <1>1, <2>1, LoopRuns, Zenon
<1>6. q = E(q)
  <2>1. \A i \in 1..n : i - 1 \in 0..n /\ q[i - 1] \in Seq(Entry) /\ q[i] = F[i][q[i - 1]]
    <3> HIDE DEF F
    <3> QED
      BY <1>1, <1>5 DEF LoopRun
  <2>2. \A i \in 1..n : q[i] = turn(q[i - 1], i)
    BY <2>1, Zenon
  <2>3. \A i \in 0..n : i # 0 => i \in 1..n
    BY <1>1
  <2> HIDE DEF F, turn
  <2> QED
    BY <1>5, <2>2, <2>3 DEF LoopRun
<1>7. kept = E(kept)
  <2> HIDE DEF E
  <2> QED
    BY <1>6
<1> HIDE DEF kept, F
<1>8. kept[0] = <<>> /\ \A i \in 1..n : kept[i] = turn(kept[i - 1], i)
  <2> HIDE DEF turn
  <2> QED
    BY <1>1, <1>7
<1> HIDE DEF E
<1> DEFINE From(e, j) == /\ e.vin = vXNodes[j].vin /\ e.sigTime = vXNodes[j].sigTime
                         /\ e.ping = vXNodes[j].ping
           Right(q1, i) == /\ OneEach(q1) /\ Len(q1) <= i
                           /\ \A k \in DOMAIN q1 : \E j \in 1..i :
                                 k <= j /\ From(q1[k], j)
           T == {i \in 0..n : Right(kept[i], i)}
<1>9. 0..n \subseteq T
  <2>1. 0 \in T
    <3>1. OneEach(<<>>) /\ DOMAIN <<>> = {} /\ Len(<<>>) <= 0
      BY DEF OneEach
    <3>2. Right(<<>>, 0)
      BY <3>1
    <3> HIDE DEF Right
    <3> QED
      BY <1>1, <1>8, <3>2
  <2>2. ASSUME NEW i \in 1..n, i - 1 \in T
        PROVE  i \in T
    <3> DEFINE p == kept[i - 1]
               r == kept[i]
    <3>1. Right(p, i - 1) /\ i \in 0..n /\ i - 1 \in 0..n /\ i - 1 \in Nat
      BY <1>1, <2>2
    <3>2. r = turn(p, i)
      BY <1>8
    <3> HIDE DEF p, r
    <3>3. \A k \in DOMAIN p : \E j \in 1..i : k <= j /\ From(p[k], j)
      <4>1. 1..(i - 1) \subseteq 1..i
        BY <3>1
      <4> HIDE DEF From
      <4> QED
        BY <3>1, <4>1
    <3>0. Len(p) \in Nat /\ Len(p) <= i
      <4>1. Len(p) \in Nat /\ Len(p) <= i - 1
        BY <3>1 DEF OneEach
      <4> QED
        BY <3>1, <4>1
    <3>4. CASE at(i).activeState = "REMOVE"
      BY <3>0, <3>1, <3>2, <3>3, <3>4 DEF p, r
    <3>5. CASE at(i).activeState # "REMOVE"
      <4> DEFINE e == at(i)
      <4>1. r = Append(p, e) /\ e \in Entry /\ From(e, i) /\ p \in Seq(Entry)
        BY <1>2, <3>1, <3>2, <3>5 DEF OneEach
      <4> HIDE DEF e
      <4>2. /\ r \in Seq(Entry) /\ DOMAIN r = DOMAIN p \cup {Len(p) + 1}
            /\ \A k \in DOMAIN p : r[k] = p[k] /\ k # Len(p) + 1
            /\ r[Len(p) + 1] = e
        BY <4>1
      <4>3. \A k \in DOMAIN p : p[k].vin # e.vin
        <5> SUFFICES ASSUME NEW k \in DOMAIN p, p[k].vin = e.vin
                     PROVE  FALSE
          OBVIOUS
        <5>1. PICK j \in 1..(i - 1) : From(p[k], j)
          BY <3>1
        <5>2. j \in DOMAIN vXNodes /\ i \in DOMAIN vXNodes /\ j # i
          BY <1>1, <3>1
        <5> QED
          BY <4>1, <5>1, <5>2 DEF OneEach
      <4>4. OneEach(r)
        <5>1. ASSUME NEW k \in DOMAIN r, NEW l \in DOMAIN r, r[k].vin = r[l].vin
              PROVE  k = l
          <6>1. CASE k \in DOMAIN p /\ l \in DOMAIN p
            BY <3>1, <4>2, <5>1, <6>1, Zenon DEF OneEach
          <6>2. CASE k \notin DOMAIN p \/ l \notin DOMAIN p
            BY <4>2, <4>3, <5>1, <6>2, Zenon
          <6> QED
            BY <6>1, <6>2
        <5> QED
          BY <4>2, <5>1 DEF OneEach
      <4>5. i \in 1..i /\ Len(p) + 1 <= i /\ Len(r) <= i
        <5>1. Len(p) \in Nat /\ Len(p) <= i - 1 /\ Len(r) = Len(p) + 1
          BY <3>1, <4>1 DEF OneEach
        <5> QED
          BY <3>1, <5>1
      <4>6. \A k \in DOMAIN r : \E j \in 1..i : k <= j /\ From(r[k], j)
        <5> HIDE DEF From
        <5> QED
          BY <3>3, <4>1, <4>2, <4>5, Zenon
      <4> QED
        BY <3>1, <4>4, <4>5, <4>6 DEF r
    <3> QED
      BY <3>4, <3>5
  <2> HIDE DEF T
  <2> QED
    BY <1>1, <2>1, <2>2, UpTo, Zenon
<1>10. Right(kept[n], n)
  BY <1>1, <1>9
<1> QED
  BY <1>1, <1>3, <1>10

-----------------------------------------------------------------------------
(* The steps.                                                              *)

\* Find gives a position of the list, or 0 for NULL.
LEMMA FindRight ==
    ASSUME OneEach(vXNodes), NEW v
    PROVE  /\ Find(v) \in 0..Freed
           /\ Listed(v) => Find(v) \in 1..Freed /\ Find(v) \in DOMAIN vXNodes
                           /\ vXNodes[Find(v)].vin = v
<1>1. Len(vXNodes) \in Nat /\ Len(vXNodes) < Freed /\ Freed \in Nat
  BY ListBounded
<1>2. DOMAIN vXNodes = 1..Len(vXNodes)
  BY DEF OneEach
<1>3. Listed(v) => Find(v) \in DOMAIN vXNodes /\ vXNodes[Find(v)].vin = v
  BY DEF Listed, Find
<1>4. ~ Listed(v) => Find(v) = 0
  BY DEF Find
<1> QED
  BY <1>1, <1>2, <1>3, <1>4

\* Add looks for the collateral before it appends.
LEMMA AddOnce ==
    ASSUME OneEach(vXNodes), NEW v \in Vin, NEW sig \in 1..MaxSig, NEW age \in Ages
    PROVE  /\ OneEach(Add(v, sig, age))
           /\ \A j \in DOMAIN vXNodes : /\ j \in DOMAIN Add(v, sig, age)
                                        /\ Add(v, sig, age)[j] = vXNodes[j]
           /\ \A j \in DOMAIN Add(v, sig, age) \ DOMAIN vXNodes :
                 Add(v, sig, age)[j].ping = PING
<1> DEFINE e == [vin |-> v, key |-> v, sigTime |-> sig, age |-> age,
                 ping |-> PING, activeState |-> "ENABLED"]
<1>1. CASE Listed(v)
  BY <1>1 DEF Add
<1>2. CASE ~ Listed(v)
  <2>1. e \in Entry /\ e.vin = v /\ e.ping = PING
    BY TimesAssumption DEF Entry, States
  <2>2. Add(v, sig, age) = Append(vXNodes, e)
    BY <1>2 DEF Add
  <2> HIDE DEF e
  <2> DEFINE r == Append(vXNodes, e)
             n == Len(vXNodes)
  <2>3. /\ r \in Seq(Entry) /\ DOMAIN r = DOMAIN vXNodes \cup {n + 1}
        /\ \A k \in DOMAIN vXNodes : r[k] = vXNodes[k] /\ k # n + 1
        /\ r[n + 1] = e
    BY <2>1 DEF OneEach
  <2> HIDE DEF r, n
  <2>4. \A k \in DOMAIN vXNodes : vXNodes[k].vin # v
    BY <1>2 DEF Listed
  <2>5. OneEach(r)
    BY <2>1, <2>3, <2>4 DEF OneEach
  <2> QED
    BY <2>1, <2>2, <2>3, <2>5 DEF r
<1> QED
  BY <1>1, <1>2

\* A list with the same collaterals in the same places is one, too.
LEMMA SamePlaces ==
    ASSUME OneEach(vXNodes), NEW list,
           list = [i \in DOMAIN vXNodes |-> list[i]],
           \A i \in DOMAIN vXNodes : list[i] \in Entry /\ list[i].vin = vXNodes[i].vin
    PROVE  OneEach(list)
<1>1. DOMAIN vXNodes = 1..Len(vXNodes) /\ Len(vXNodes) \in Nat
  BY DEF OneEach
<1>2. list \in [1..Len(vXNodes) -> Entry]
  BY <1>1
<1>3. list \in Seq(Entry) /\ DOMAIN list = DOMAIN vXNodes
  BY <1>1, <1>2
<1> QED
  BY <1>3 DEF OneEach

\* The handler writes an entry of the same collateral.
LEMMA WriteKeeps ==
    ASSUME OneEach(vXNodes), Aimed, NEW e \in Entry, e.vin = Target.vin, WriteEntry(e)
    PROVE  OneEach(vXNodes') /\ call' = NoMessage /\ sync' = sync
<1> DEFINE list == [vXNodes EXCEPT ![call.at] = e]
<1>1. /\ list = [i \in DOMAIN vXNodes |-> list[i]]
      /\ \A i \in DOMAIN vXNodes : list[i] \in Entry /\ list[i].vin = vXNodes[i].vin
  BY DEF OneEach, Aimed, Target
<1>2. OneEach(list)
  <2> HIDE DEF list
  <2> QED
    BY <1>1, SamePlaces
<1> QED
  BY <1>2 DEF WriteEntry

\* A ping that is being handled is newer than what the entry of its Xnode has,
\* unless that entry can no longer come under the pointer: entries only move
\* forward, and one that was added meanwhile has had no ping.
PingNewer ==
    /\ call.op = "dseep" =>
          \A i \in DOMAIN vXNodes :
              vXNodes[i].vin = call.vin => i <= call.at \/ vXNodes[i].ping = PING
    /\ call.op = "ping" =>
          /\ call.sent < PING
          /\ \A i \in DOMAIN vXNodes :
                vXNodes[i].vin = call.vin => i < call.at \/ vXNodes[i].ping > call.sent

\* A registration that has passed its test is newer than the entry of its Xnode,
\* as long as that is the one that Find found: entries only move forward.
WriteNewer ==
    /\ call.op = "write" => call.sigTime \in 1..MaxSig
    /\ call.op \in {"dsee", "update", "seen", "write"} /\ call.at # 0 /\ ~ call.lost =>
          /\ \E i \in DOMAIN vXNodes : vXNodes[i].vin = call.vin
          /\ \A i \in DOMAIN vXNodes :
                vXNodes[i].vin = call.vin =>
                    /\ i <= call.at
                    /\ call.op = "write" => i < call.at \/ vXNodes[i].sigTime < call.sigTime

XInv == OneEntryPerCollateral /\ PingNewer /\ WriteNewer

\* What a message says is in the range of the fields it is kept in.
LEMMA TimesInRange ==
    /\ \A sig \in 1..MaxSig : sig \in 0..MaxSig
    /\ \A sent \in (-PING)..(PING - 1) : sent \in (-PING)..PING
<1>0. PING \in Nat /\ MaxSig \in Nat
  BY TimesAssumption
<1>1. \A sig \in 1..MaxSig : sig \in 0..MaxSig
  BY <1>0
<1>2. \A sent \in (-PING)..(PING - 1) : sent \in (-PING)..PING
  BY <1>0
<1> QED
  BY <1>1, <1>2, Zenon

\* What the invariant says, in the terms of the lemmas.
LEMMA XInvParts ==
    ASSUME OneEntryPerCollateral
    PROVE  /\ OneEach(vXNodes)
           /\ Aimed => Target \in Entry
           /\ call.op = "idle" => call = NoMessage
           /\ call.op \in {"dsee", "update", "seen", "write"} => call \in Dsee
           /\ call.op \in {"dseep", "ping"} => call \in Dseep
           /\ call.op \in {"idle", "dsee", "update", "seen", "write", "dseep", "ping"}
<1>1. OneEach(vXNodes)
  BY DEF OneEntryPerCollateral, XNodeTypeOK, OneEach
<1>2. Aimed => Target \in Entry
  BY <1>1 DEF OneEach, Aimed, Target
<1> QED
  BY <1>1, <1>2 DEF OneEntryPerCollateral, XNodeTypeOK, NoMessage, Dsee, Dseep

\* UpdateEntry writes an entry of the same collateral with the registration of
\* the message.
LEMMA UpdateWrites ==
    ASSUME OneEntryPerCollateral, WriteNewer, UpdateEntry
    PROVE  \E e \in Entry : /\ e.vin = Target.vin /\ e.ping = Target.ping
                            /\ e.sigTime = call.sigTime
                            /\ WriteEntry(e)
<1> DEFINE taken == [Target EXCEPT !.key = call.vin, !.sigTime = call.sigTime]
<1>1. Target \in Entry /\ call.vin \in Vin /\ call.sigTime \in 1..MaxSig
  BY XInvParts DEF UpdateEntry, Dsee, WriteNewer
<1>2. /\ taken \in Entry /\ taken.vin = Target.vin /\ taken.ping = Target.ping
      /\ taken.sigTime = call.sigTime
  BY <1>1, Zenon DEF Entry
<1>3. PICK e \in {taken, Checked(taken)} : WriteEntry(e)
  BY Zenon DEF UpdateEntry
<1> HIDE DEF taken
<1>4. /\ e \in Entry /\ e.vin = Target.vin /\ e.ping = Target.ping
      /\ e.sigTime = call.sigTime
  BY <1>2, <1>3, CheckedStays, Zenon
<1> QED
  BY <1>3, <1>4, Zenon

\* ApplyPing writes an entry of the same collateral with the ping of the message.
LEMMA PingWrites ==
    ASSUME OneEntryPerCollateral, ApplyPing
    PROVE  \E e \in Entry : /\ e.vin = Target.vin /\ e.ping = call.sent
                            /\ e.sigTime = Target.sigTime
                            /\ WriteEntry(e)
<1> DEFINE pinged == [Target EXCEPT !.ping = call.sent]
           seen == [pinged EXCEPT !.age = 0]
           gone == [pinged EXCEPT !.age = REMOVAL]
<1>1. /\ Target \in Entry /\ call.sent \in (-PING)..PING
      /\ 0 \in Ages /\ REMOVAL \in Ages
  BY XInvParts, TimesAssumption DEF ApplyPing, Dseep, Ages, Ahead
<1>2. /\ pinged \in Entry /\ pinged.vin = Target.vin /\ pinged.ping = call.sent
      /\ pinged.sigTime = Target.sigTime
  BY <1>1 DEF Entry
<1>3. /\ seen \in Entry /\ seen.vin = Target.vin /\ seen.ping = call.sent
      /\ seen.sigTime = Target.sigTime
  BY <1>1, <1>2, Zenon DEF Entry
<1>4. /\ gone \in Entry /\ gone.vin = Target.vin /\ gone.ping = call.sent
      /\ gone.sigTime = Target.sigTime
  BY <1>1, <1>2, Zenon DEF Entry
<1>5. \E e \in {pinged, seen, gone, Checked(seen)} : WriteEntry(e)
  BY DEF ApplyPing
<1> HIDE DEF pinged, seen, gone
<1> QED
  BY <1>2, <1>3, <1>4, <1>5, CheckedStays

\* The list has the same entries in the same places, but for ages and states.
Alike ==
    /\ DOMAIN vXNodes' = DOMAIN vXNodes
    /\ \A i \in DOMAIN vXNodes : /\ vXNodes'[i].vin = vXNodes[i].vin
                                 /\ vXNodes'[i].sigTime = vXNodes[i].sigTime
                                 /\ vXNodes'[i].ping = vXNodes[i].ping

\* Check leaves the list as it is but for states.
LEMMA CheckedKeeps ==
    ASSUME OneEach(vXNodes), NEW S, vXNodes' = [i \in DOMAIN vXNodes |-> CheckedAt(i, S)]
    PROVE  OneEach(vXNodes') /\ Alike
<1>1. \A i \in DOMAIN vXNodes : /\ vXNodes'[i] \in Entry
                                /\ vXNodes'[i].vin = vXNodes[i].vin
                                /\ vXNodes'[i].sigTime = vXNodes[i].sigTime
                                /\ vXNodes'[i].ping = vXNodes[i].ping
  BY CheckedStays DEF OneEach, CheckedAt
<1>2. vXNodes' = [i \in DOMAIN vXNodes |-> vXNodes'[i]]
  OBVIOUS
<1>3. OneEach(vXNodes')
  BY <1>1, <1>2, SamePlaces
<1> QED
  BY <1>1, <1>3 DEF Alike

\* UpdateLastSeen leaves it as it is but for an age.
LEMMA SeenKeeps ==
    ASSUME OneEach(vXNodes), UpdateLastSeen
    PROVE  OneEach(vXNodes') /\ Alike
<1> DEFINE seen == [Target EXCEPT !.age = 0]
<1>1. call.at \in DOMAIN vXNodes /\ Target \in Entry /\ 0 \in Ages
  BY TimesAssumption DEF UpdateLastSeen, Aimed, Target, OneEach, Ages, Ahead
<1>2. /\ seen \in Entry /\ seen.vin = Target.vin /\ seen.sigTime = Target.sigTime
      /\ seen.ping = Target.ping
  BY <1>1, Zenon DEF Entry
<1> DEFINE list == [vXNodes EXCEPT ![call.at] = seen]
<1>3. vXNodes' = list
  BY DEF UpdateLastSeen, Target
<1> HIDE DEF seen
<1>4. \A i \in DOMAIN vXNodes : /\ vXNodes'[i] \in Entry
                                /\ vXNodes'[i].vin = vXNodes[i].vin
                                /\ vXNodes'[i].sigTime = vXNodes[i].sigTime
                                /\ vXNodes'[i].ping = vXNodes[i].ping
  BY <1>1, <1>2, <1>3 DEF OneEach, Target
<1>5. list = [i \in DOMAIN vXNodes |-> list[i]] /\ DOMAIN list = DOMAIN vXNodes
  OBVIOUS
<1> HIDE DEF list
<1>6. OneEach(vXNodes')
  BY <1>3, <1>4, <1>5, SamePlaces
<1> QED
  BY <1>3, <1>4, <1>5, <1>6 DEF Alike

\* So does time but for ages.
LEMMA PassKeeps ==
    ASSUME OneEach(vXNodes), NEW n \in Nat, Pass(n)
    PROVE  OneEach(vXNodes')
<1> DEFINE older(e, a) == [e EXCEPT !.age = a, !.ping = Capped(@ + n, PING)]
<1>1. PICK as \in [DOMAIN vXNodes -> Ages] :
          vXNodes' = [i \in DOMAIN vXNodes |-> older(vXNodes[i], as[i])]
  BY Zenon DEF Pass
<1>2. ASSUME NEW e \in Entry, NEW a \in Ages
      PROVE  older(e, a) \in Entry /\ older(e, a).vin = e.vin
  <2>1. Capped(e.ping + n, PING) \in (-PING)..PING
    BY TimesAssumption DEF Capped, Entry
  <2> QED
    BY <2>1, Zenon DEF Entry
<1> HIDE DEF older
<1>3. \A i \in DOMAIN vXNodes : vXNodes[i] \in Entry
  BY DEF OneEach
<1>4. \A i \in DOMAIN vXNodes : vXNodes'[i] \in Entry /\ vXNodes'[i].vin = vXNodes[i].vin
  BY <1>1, <1>2, <1>3, Zenon
<1>5. vXNodes' = [i \in DOMAIN vXNodes |-> vXNodes'[i]]
  BY <1>1
<1> QED
  BY <1>4, <1>5, SamePlaces, Zenon

\* The steps of the handler keep the invariant.
LEMMA XHandlerStep == XInv /\ MessageStep => XInv'
<1> SUFFICES ASSUME OneEntryPerCollateral, PingNewer, WriteNewer, MessageStep
             PROVE  XInv'
  BY DEF XInv
<1>0. OneEach(vXNodes) /\ sync \in {"no", "yes", "slept"}
  BY XInvParts, Zenon DEF OneEntryPerCollateral, XNodeTypeOK
<1>1. ASSUME OneEach(vXNodes'), call' \in {NoMessage} \cup Dsee, sync' = sync,
             WriteNewer'
      PROVE  XInv'
  <2>1. PingNewer'
    <3>1. call'.op \notin {"dseep", "ping"}
      BY <1>1 DEF NoMessage, Dsee
    <3> QED
      BY <3>1 DEF PingNewer
  <2> QED
    BY <1>0, <1>1, <2>1 DEF XInv, OneEntryPerCollateral, XNodeTypeOK, OneEach
<1>2. ASSUME OneEach(vXNodes'), call' = NoMessage, sync' = sync
      PROVE  XInv'
  <2>1. WriteNewer'
    BY <1>2 DEF WriteNewer, NoMessage
  <2> QED
    BY <1>1, <1>2, <2>1
<1>3. CASE NewEntry
  <2>1. call \in Dsee /\ call.vin \in Vin
    BY <1>3, XInvParts DEF NewEntry, Dsee
  <2>2. PICK sig \in 1..MaxSig, seen \in Ages : vXNodes' = Add(call.vin, sig, seen)
    BY <1>3, Zenon DEF NewEntry
  <2>3. OneEach(vXNodes')
    BY <1>0, <2>1, <2>2, AddOnce, Zenon
  <2> QED
    BY <1>2, <1>3, <2>3 DEF NewEntry
<1>4. CASE RefuseEntry \/ WriteLost
  BY <1>0, <1>2, <1>4 DEF RefuseEntry, WriteLost
<1>5. CASE MatchDsee
  <2>1. call \in Dsee /\ call.op = "dsee" /\ vXNodes' = vXNodes /\ sync' = sync
    BY <1>5, XInvParts DEF MatchDsee
  <2>2. CASE call' = NoMessage
    BY <1>0, <1>2, <2>1, <2>2
  <2>3. CASE call' = [call EXCEPT !.op = "update"]
    <3>1. /\ call' \in Dsee /\ call'.op = "update" /\ call'.vin = call.vin
          /\ call'.at = call.at /\ call'.lost = call.lost
      BY <2>1, <2>3 DEF Dsee
    <3>2. WriteNewer'
      BY <2>1, <3>1 DEF WriteNewer
    <3> QED
      BY <1>0, <1>1, <2>1, <3>1, <3>2
  <2> QED
    BY <1>5, <2>2, <2>3, Zenon DEF MatchDsee
<1>6. CASE UpdateLastSeen
  <2>1. call \in Dsee /\ call.op = "update" /\ sync' = sync
    BY <1>6, XInvParts DEF UpdateLastSeen
  <2>2. /\ call' \in Dsee /\ call'.op = "seen" /\ call'.vin = call.vin
        /\ call'.at = call.at /\ call'.lost = call.lost
    BY <1>6, <2>1 DEF UpdateLastSeen, Dsee
  <2>3. OneEach(vXNodes') /\ Alike
    BY <1>0, <1>6, SeenKeeps, Zenon
  <2>4. WriteNewer'
    BY <2>1, <2>2, <2>3 DEF WriteNewer, Alike
  <2> QED
    BY <1>1, <2>1, <2>2, <2>3, <2>4
<1>7. CASE MatchSigTime
  <2>1. call \in Dsee /\ call.op = "seen" /\ vXNodes' = vXNodes /\ sync' = sync
    BY <1>7, XInvParts DEF MatchSigTime
  <2>2. CASE call' = NoMessage
    BY <1>0, <1>2, <2>1, <2>2, Zenon
  <2>3. ASSUME NEW sig \in 1..MaxSig, Newer(Target, sig),
               call' = [call EXCEPT !.op = "write", !.sigTime = sig]
        PROVE  XInv'
    <3>1. /\ call' \in Dsee /\ call'.op = "write" /\ call'.vin = call.vin
          /\ call'.at = call.at /\ call'.lost = call.lost /\ call'.sigTime = sig
      <4>1. sig \in 0..MaxSig
        BY TimesInRange, Zenon
      <4> QED
        BY <2>1, <2>3, <4>1, ZenonT(60) DEF Dsee
    <3>2. \A i \in DOMAIN vXNodes : i \in Int /\ call.at \in Int
      BY <1>0, <2>1 DEF OneEach, Dsee
    <3>3. WriteNewer'
      BY <2>1, <2>3, <3>1, <3>2 DEF WriteNewer, Newer, Target
    <3> QED
      BY <1>0, <1>1, <2>1, <3>1, <3>3
  <2> QED
    BY <1>7, <2>2, <2>3, Zenon DEF MatchSigTime
<1>8. CASE UpdateEntry
  <2>1. PICK e \in Entry : e.vin = Target.vin /\ WriteEntry(e)
    BY <1>8, UpdateWrites
  <2>2. Aimed
    BY <1>8 DEF UpdateEntry
  <2> QED
    BY <1>0, <1>2, <2>1, <2>2, WriteKeeps, Zenon
<1>9. CASE MatchDseep
  <2>1. call \in Dseep /\ call.op = "dseep" /\ vXNodes' = vXNodes /\ sync' = sync
    BY <1>9, XInvParts DEF MatchDseep
  <2>2. CASE call' = NoMessage
    BY <1>0, <1>2, <2>1, <2>2, Zenon
  <2>3. ASSUME NEW sent \in (-PING)..(PING - 1), Target.ping > sent,
               call' = [call EXCEPT !.op = "ping", !.sent = sent]
        PROVE  XInv'
    <3>0. PING \in Nat
      BY TimesAssumption
    <3>1. /\ call' \in Dseep /\ call'.op = "ping" /\ call'.vin = call.vin
          /\ call'.at = call.at /\ call'.sent = sent
      <4>1. sent \in (-PING)..PING
        BY TimesInRange, Zenon
      <4> QED
        BY <2>1, <2>3, <4>1, ZenonT(60) DEF Dseep
    <3>2. \A i \in DOMAIN vXNodes : i \in Int /\ call.at \in Int
      BY <1>0, <2>1 DEF OneEach, Dseep
    <3>3. PingNewer'
      <4> SUFFICES ASSUME NEW i \in DOMAIN vXNodes, vXNodes[i].vin = call.vin
                   PROVE  sent < PING /\ (i < call.at \/ vXNodes[i].ping > sent)
        BY <2>1, <2>3, <3>0, <3>1 DEF PingNewer
      <4>1. CASE i = call.at
        BY <2>3, <3>0, <4>1 DEF Target
      <4>2. CASE i # call.at
        <5>1. i <= call.at \/ vXNodes[i].ping = PING
          BY <2>1, Zenon DEF PingNewer
        <5> QED
          BY <3>0, <3>2, <4>2, <5>1
      <4> QED
        BY <4>1, <4>2, Zenon
    <3>4. WriteNewer'
      BY <3>1 DEF WriteNewer
    <3> QED
      BY <1>0, <2>1, <3>1, <3>3, <3>4 DEF XInv, OneEntryPerCollateral, XNodeTypeOK, OneEach
  <2> QED
    BY <1>9, <2>2, <2>3, Zenon DEF MatchDseep
<1>10. CASE ApplyPing
  <2>1. PICK e \in Entry : e.vin = Target.vin /\ WriteEntry(e)
    BY <1>10, PingWrites
  <2>2. Aimed
    BY <1>10 DEF ApplyPing
  <2> QED
    BY <1>0, <1>2, <2>1, <2>2, WriteKeeps
<1> QED
  BY <1>3, <1>4, <1>5, <1>6, <1>7, <1>8, <1>9, <1>10, Zenon DEF MessageStep

\* What a registration needs when the list has grown, lost entries or been
\* checked under it.
LEMMA WriteNewerKept ==
    ASSUME OneEntryPerCollateral, WriteNewer, OneEach(vXNodes'),
           call' = call \/ (call'.op = "idle"),
           \A k \in DOMAIN vXNodes' : \E j \in DOMAIN vXNodes :
               /\ k <= j /\ vXNodes'[k].vin = vXNodes[j].vin
               /\ vXNodes'[k].sigTime = vXNodes[j].sigTime,
           \E k \in DOMAIN vXNodes' : vXNodes'[k].vin = call.vin
    PROVE  WriteNewer'
<1>1. CASE call'.op = "idle"
  BY <1>1 DEF WriteNewer
<1>2. CASE call' = call
  <2> SUFFICES ASSUME call.op \in {"dsee", "update", "seen", "write"}, call.at # 0,
                      ~ call.lost, NEW k \in DOMAIN vXNodes', vXNodes'[k].vin = call.vin
               PROVE  /\ k <= call.at
                      /\ call.op = "write" =>
                            k < call.at \/ vXNodes'[k].sigTime < call.sigTime
    BY <1>2, Zenon DEF WriteNewer
  <2>1. PICK j \in DOMAIN vXNodes : /\ k <= j /\ vXNodes[j].vin = call.vin
                                    /\ vXNodes'[k].sigTime = vXNodes[j].sigTime
    BY Zenon
  <2>2. /\ j <= call.at
        /\ call.op = "write" => j < call.at \/ vXNodes[j].sigTime < call.sigTime
    BY <2>1, Zenon DEF WriteNewer
  <2>3. j \in Int /\ k \in Int /\ call.at \in Int
    <3>1. call.at \in 0..Freed /\ Freed \in Nat
      BY XInvParts, ListBounded DEF Dsee
    <3>2. vXNodes \in Seq(Entry) /\ vXNodes' \in Seq(Entry)
      BY XInvParts, Zenon DEF OneEach
    <3> QED
      BY <3>1, <3>2
  <2> QED
    BY <2>1, <2>2, <2>3
<1> QED
  BY <1>1, <1>2, Zenon

\* The check thread erases entries under the handler.
LEMMA RemoveStep ==
    ASSUME OneEntryPerCollateral, PingNewer, WriteNewer, NEW S, CheckAndRemove(S)
    PROVE  XInv'
<1>0. /\ OneEach(vXNodes) /\ call \in {NoMessage} \cup Dsee \cup Dseep
      /\ sync' \in {"no", "yes", "slept"} /\ vXNodes' = Remaining(S)
  BY XInvParts DEF OneEntryPerCollateral, XNodeTypeOK, CheckAndRemove
<1>1. /\ OneEach(vXNodes')
      /\ \A k \in DOMAIN vXNodes' : \E j \in DOMAIN vXNodes :
            /\ k <= j /\ vXNodes'[k].vin = vXNodes[j].vin
            /\ vXNodes'[k].sigTime = vXNodes[j].sigTime
            /\ vXNodes'[k].ping = vXNodes[j].ping
  BY <1>0, RemainingFrom
<1> DEFINE left == \E k \in DOMAIN vXNodes' : vXNodes'[k].vin = call.vin
           registers == call.op \in {"dsee", "update", "seen", "write"} /\ call.at # 0
<1>2. CASE registers /\ ~ left
  <2>1. call \in Dsee /\ call' = [call EXCEPT !.lost = TRUE]
    BY <1>2, XInvParts, Zenon DEF CheckAndRemove
  <2>2. /\ call' \in Dsee /\ call'.lost = TRUE /\ call'.op = call.op
        /\ call'.sigTime = call.sigTime
    BY <2>1, ZenonT(60) DEF Dsee
  <2>3. PingNewer'
    BY <1>2, <2>2 DEF PingNewer
  <2>4. WriteNewer'
    BY <1>2, <2>2, Zenon DEF WriteNewer
  <2> QED
    BY <1>0, <1>1, <2>2, <2>3, <2>4 DEF XInv, OneEntryPerCollateral, XNodeTypeOK, OneEach
<1>3. CASE ~ registers \/ left
  <2>1. call' = call
    BY <1>3, Zenon DEF CheckAndRemove
  <2>2. WriteNewer'
    <3>1. CASE ~ registers
      BY <2>1, <3>1, Zenon DEF WriteNewer
    <3>2. CASE left
      BY <1>1, <2>1, <3>2, WriteNewerKept, Zenon
    <3> QED
      BY <1>3, <3>1, <3>2, Zenon
  <2> HIDE DEF left, registers
  <2>3. PingNewer'
    <3> SUFFICES ASSUME call.op \in {"dseep", "ping"}, NEW k \in DOMAIN vXNodes',
                        vXNodes'[k].vin = call.vin
                 PROVE  /\ call.op = "dseep" => k <= call.at \/ vXNodes'[k].ping = PING
                        /\ call.op = "ping" => k < call.at \/ vXNodes'[k].ping > call.sent
      BY <2>1, Zenon DEF PingNewer
    <3>1. PICK j \in DOMAIN vXNodes : /\ k <= j /\ vXNodes[j].vin = call.vin
                                      /\ vXNodes'[k].ping = vXNodes[j].ping
      BY <1>1, Zenon
    <3>2. j \in Int /\ k \in Int /\ call.at \in Int
      <4>1. vXNodes \in Seq(Entry) /\ vXNodes' \in Seq(Entry)
        BY <1>0, <1>1, Zenon DEF OneEach
      <4>2. call.at \in 1..Freed
        BY XInvParts, Zenon DEF Dseep
      <4> QED
        BY <4>1, <4>2
    <3>3. /\ call.op = "dseep" => j <= call.at \/ vXNodes[j].ping = PING
          /\ call.op = "ping" => j < call.at \/ vXNodes[j].ping > call.sent
      BY <3>1, Zenon DEF PingNewer
    <3> QED
      BY <3>1, <3>2, <3>3
  <2> QED
    BY <1>0, <1>1, <2>1, <2>2, <2>3 DEF XInv, OneEntryPerCollateral, XNodeTypeOK, OneEach
<1> QED
  BY <1>2, <1>3, Zenon

\* An RPC adds an entry under the handler.
LEMMA RegisterStep ==
    ASSUME OneEntryPerCollateral, PingNewer, WriteNewer, NEW v \in Vin,
           NEW sig \in 1..MaxSig, Register(v, sig)
    PROVE  XInv'
<1>0. /\ OneEach(vXNodes) /\ call \in {NoMessage} \cup Dsee \cup Dseep
      /\ sync' \in {"no", "yes", "slept"} /\ vXNodes' = Add(v, sig, 0) /\ 0 \in Ages
  BY XInvParts, TimesAssumption
     DEF OneEntryPerCollateral, XNodeTypeOK, Register, Ages, Ahead
<1>1. /\ OneEach(vXNodes')
      /\ \A j \in DOMAIN vXNodes : j \in DOMAIN vXNodes' /\ vXNodes'[j] = vXNodes[j]
      /\ \A j \in DOMAIN vXNodes' \ DOMAIN vXNodes : vXNodes'[j].ping = PING
  BY <1>0, AddOnce, Zenon
<1>2. ASSUME call' \in {NoMessage} \cup Dsee \cup Dseep, PingNewer', WriteNewer'
      PROVE  XInv'
  BY <1>0, <1>1, <1>2 DEF XInv, OneEntryPerCollateral, XNodeTypeOK, OneEach
<1>3. CASE call' = call
  <2>1. PingNewer'
    <3> SUFFICES ASSUME call.op \in {"dseep", "ping"}, NEW k \in DOMAIN vXNodes',
                        vXNodes'[k].vin = call.vin
                 PROVE  /\ call.op = "dseep" => k <= call.at \/ vXNodes'[k].ping = PING
                        /\ call.op = "ping" => k < call.at \/ vXNodes'[k].ping > call.sent
      BY <1>3, Zenon DEF PingNewer
    <3>1. CASE k \in DOMAIN vXNodes
      BY <1>1, <3>1, ZenonT(60) DEF PingNewer
    <3>2. CASE k \notin DOMAIN vXNodes
      <4>1. vXNodes'[k].ping = PING
        BY <1>1, <3>2, Zenon
      <4>2. call.op = "ping" => call.sent < PING /\ call.sent \in Int /\ PING \in Int
        BY XInvParts, TimesAssumption DEF PingNewer, Dseep
      <4> QED
        BY <4>1, <4>2
    <3> QED
      BY <3>1, <3>2, Zenon
  <2>2. WriteNewer'
    <3>1. CASE ~ (call.op \in {"dsee", "update", "seen", "write"} /\ call.at # 0 /\ ~ call.lost)
      BY <1>3, <3>1, Zenon DEF WriteNewer
    <3>2. CASE call.op \in {"dsee", "update", "seen", "write"} /\ call.at # 0 /\ ~ call.lost
      <4>1. PICK i \in DOMAIN vXNodes : vXNodes[i].vin = call.vin
        BY <3>2, Zenon DEF WriteNewer
      <4>2. i \in DOMAIN vXNodes' /\ vXNodes'[i] = vXNodes[i]
        BY <1>1, Zenon
      <4>3. \A k \in DOMAIN vXNodes' : vXNodes'[k].vin = call.vin => k = i
        BY <1>1, <4>1, <4>2, Zenon DEF OneEach
      <4> QED
        BY <1>3, <3>2, <4>1, <4>2, <4>3, Zenon DEF WriteNewer
    <3> QED
      BY <3>1, <3>2, Zenon
  <2> QED
    BY <1>0, <1>2, <1>3, <2>1, <2>2
<1>4. CASE call' # call
  <2>1. call.op # "idle" /\ call.at # 0 /\ call' = [call EXCEPT !.at = Freed]
    BY <1>4 DEF Register
  <2>2. Freed \in Nat /\ Len(vXNodes') < Freed /\ Len(vXNodes') \in Nat
    BY <1>1, ListBounded, Zenon
  <2>3. \A k \in DOMAIN vXNodes' : k < Freed /\ k <= Freed
    BY <1>1, <2>2 DEF OneEach
  <2>4. /\ call' \in Dsee \cup Dseep /\ call'.at = Freed /\ Freed \in 1..Freed
        /\ call'.op = call.op /\ call'.vin = call.vin
    BY <1>0, <2>1, <2>2 DEF Dsee, Dseep, NoMessage
  <2>5. PingNewer'
    <3>1. call.op \in {"dseep", "ping"} => call'.sent = call.sent
      BY <2>1, XInvParts DEF Dseep
    <3> QED
      BY <2>3, <2>4, <3>1, Zenon DEF PingNewer
  <2>6. WriteNewer'
    <3>1. call.op \in {"dsee", "update", "seen", "write"} =>
              call'.sigTime = call.sigTime /\ call'.lost = call.lost
      BY <2>1, XInvParts DEF Dsee
    <3>2. (\E i \in DOMAIN vXNodes : vXNodes[i].vin = call.vin) =>
              \E i \in DOMAIN vXNodes' : vXNodes'[i].vin = call.vin
      BY <1>1, Zenon
    <3> QED
      BY <2>1, <2>3, <2>4, <3>1, <3>2, Zenon DEF WriteNewer
  <2> QED
    BY <1>2, <2>4, <2>5, <2>6
<1> QED
  BY <1>3, <1>4

\* The other threads, and the arrival of a message, keep the invariant.
LEMMA XOtherStep == XInv /\ [XNodeNext]_xnodeVars /\ ~ MessageStep => XInv'
<1> SUFFICES ASSUME OneEntryPerCollateral, PingNewer, WriteNewer, [XNodeNext]_xnodeVars,
                    ~ MessageStep
             PROVE  XInv'
  BY DEF XInv
<1>0. /\ OneEach(vXNodes) /\ call \in {NoMessage} \cup Dsee \cup Dseep
      /\ sync \in {"no", "yes", "slept"}
  BY XInvParts DEF OneEntryPerCollateral, XNodeTypeOK
<1>1. ASSUME OneEach(vXNodes'), call' \in {NoMessage} \cup Dsee \cup Dseep,
             sync' \in {"no", "yes", "slept"}, PingNewer', WriteNewer'
      PROVE  XInv'
  BY <1>1, Zenon DEF XInv, OneEntryPerCollateral, XNodeTypeOK, OneEach
<1>2. call' = NoMessage => PingNewer' /\ WriteNewer'
  BY DEF PingNewer, WriteNewer, NoMessage
<1>3. ASSUME NEW v \in Vin, RecvDsee(v)
      PROVE  XInv'
  <2>1. /\ call' \in Dsee /\ call'.op = "dsee" /\ call'.vin = v /\ call'.at = Find(v)
        /\ vXNodes' = vXNodes /\ sync' = sync
    <3>1. Find(v) \in 0..Freed /\ 0 \in 0..MaxSig
      BY <1>0, FindRight, TimesAssumption
    <3> QED
      BY <1>3, <3>1, Zenon DEF RecvDsee, Dsee
  <2>2. PingNewer'
    BY <2>1 DEF PingNewer
  <2>3. WriteNewer'
    <3>1. CASE Listed(v)
      <4>1. Find(v) \in DOMAIN vXNodes /\ vXNodes[Find(v)].vin = v /\ Find(v) \in Int
        BY <1>0, <3>1, FindRight
      <4>2. \A i \in DOMAIN vXNodes : vXNodes[i].vin = v => i <= Find(v)
        BY <1>0, <4>1 DEF OneEach
      <4> QED
        BY <2>1, <4>1, <4>2, Zenon DEF WriteNewer
    <3>2. CASE ~ Listed(v)
      BY <2>1, <3>2 DEF WriteNewer, Find
    <3> QED
      BY <3>1, <3>2, Zenon
  <2> QED
    BY <1>0, <1>1, <2>1, <2>2, <2>3, Zenon
<1>4. ASSUME NEW v \in Vin, RecvDseep(v)
      PROVE  XInv'
  <2>1. Find(v) \in 1..Freed /\ Find(v) \in DOMAIN vXNodes /\ vXNodes[Find(v)].vin = v
    BY <1>0, <1>4, FindRight, Zenon DEF RecvDseep
  <2>2. /\ call' \in Dseep /\ call'.op = "dseep" /\ call'.at = Find(v)
        /\ call'.vin = v /\ vXNodes' = vXNodes /\ sync' = sync
    <3>1. PING \in (-PING)..PING
      BY TimesAssumption
    <3> QED
      BY <1>4, <2>1, <3>1, Zenon DEF RecvDseep, Dseep
  <2>3. PingNewer'
    BY <1>0, <2>1, <2>2 DEF PingNewer, OneEach
  <2>4. WriteNewer'
    BY <2>2 DEF WriteNewer
  <2> QED
    BY <1>0, <1>1, <2>2, <2>3, <2>4, Zenon
<1>5. CASE CountEnabled
  <2>1. PICK S : vXNodes' = [i \in DOMAIN vXNodes |-> CheckedAt(i, S)]
    BY <1>5 DEF CountEnabled
  <2>2. call' = call /\ sync' = sync
    BY <1>5 DEF CountEnabled
  <2>3. OneEach(vXNodes') /\ Alike
    BY <1>0, <2>1, CheckedKeeps, Zenon
  <2>4. PingNewer' /\ WriteNewer'
    BY <2>2, <2>3 DEF PingNewer, WriteNewer, Alike
  <2> QED
    BY <1>0, <1>1, <2>2, <2>3, <2>4
<1>6. CASE Tick
  BY <1>0, <1>1, <1>2, <1>6, PassKeeps DEF Tick
<1>7. CASE Sleep
  BY <1>0, <1>1, <1>2, <1>7, PassKeeps, TimesAssumption, Zenon DEF Sleep
<1>8. CASE BlockchainSynced
  BY <1>0, <1>1, <1>8, ZenonT(60) DEF BlockchainSynced, PingNewer, WriteNewer
<1>9. CASE Reload
  BY <1>0, <1>1, <1>2, <1>9, RemainingFrom, Zenon DEF Reload
<1>10. CASE Restart
  <2>1. OneEach(<<>>)
    BY DEF OneEach
  <2> QED
    BY <1>1, <1>2, <1>10, <2>1 DEF Restart
<1>11. CASE UNCHANGED xnodeVars
  BY <1>0, <1>1, <1>11 DEF xnodeVars, PingNewer, WriteNewer
<1> QED
  BY <1>3, <1>4, <1>5, <1>6, <1>7, <1>8, <1>9, <1>10, <1>11, RemoveStep, RegisterStep,
     Zenon DEF XNodeNext

\* The invariant holds throughout.
LEMMA XInvariant == XNodeSpec => []XInv
<1>1. XNodeInit => XInv
  <2>1. <<>> \in Seq(Entry) /\ DOMAIN <<>> = {} /\ NoMessage.op = "idle"
    BY DEF NoMessage
  <2> QED
    BY <2>1 DEF XNodeInit, XInv, OneEntryPerCollateral, XNodeTypeOK, PingNewer, WriteNewer
<1> QED
  BY <1>1, XHandlerStep, XOtherStep, PTL DEF XNodeSpec

-----------------------------------------------------------------------------

\* For any collaterals and any timing of the threads: no collateral has two
\* entries, and the handler never comes to use the NULL of CXNodeMan::Find.
THEOREM CollateralsListedOnce == XNodeSpec => []OneEntryPerCollateral
<1>1. XInv => OneEntryPerCollateral
  BY DEF XInv
<1> QED
  BY <1>1, XInvariant, PTL

\* No entry of the new list is older than the one of its collateral before.
NoOlder ==
    \A k \in DOMAIN vXNodes', j \in DOMAIN vXNodes :
        vXNodes'[k].vin = vXNodes[j].vin =>
            vXNodes'[k].sigTime >= vXNodes[j].sigTime /\ vXNodes'[k].ping <= vXNodes[j].ping

\* It suffices to have, for each new entry, an old one that is no newer.
LEMMA NoOlderFrom ==
    ASSUME OneEach(vXNodes),
           \A k \in DOMAIN vXNodes' : \E j \in DOMAIN vXNodes :
               /\ vXNodes'[k].vin = vXNodes[j].vin
               /\ vXNodes'[k].sigTime >= vXNodes[j].sigTime
               /\ vXNodes'[k].ping <= vXNodes[j].ping
    PROVE  NoOlder
BY DEF OneEach, NoOlder

\* The times of entries are numbers.
LEMMA EntryTimes ==
    ASSUME OneEach(vXNodes)
    PROVE  \A k \in DOMAIN vXNodes : vXNodes[k].sigTime \in Int /\ vXNodes[k].ping \in Int
<1>1. \A k \in DOMAIN vXNodes : vXNodes[k] \in Entry
  BY DEF OneEach
<1>2. \A e \in Entry : e.sigTime \in Int /\ e.ping \in Int
  BY DEF Entry
<1> QED
  BY <1>1, <1>2

\* It does when one entry is written that is no older.
LEMMA NoOlderWrite ==
    ASSUME OneEach(vXNodes), Aimed, NEW e \in Entry, WriteEntry(e), e.vin = Target.vin,
           e.sigTime >= Target.sigTime, e.ping <= Target.ping
    PROVE  NoOlder
<1>1. vXNodes' = [vXNodes EXCEPT ![call.at] = e] /\ call.at \in DOMAIN vXNodes
  BY DEF WriteEntry, Aimed
<1>2. \A k \in DOMAIN vXNodes : vXNodes[k].sigTime \in Int /\ vXNodes[k].ping \in Int
  BY EntryTimes
<1>3. \A k \in DOMAIN vXNodes' :
          /\ k \in DOMAIN vXNodes /\ vXNodes'[k].vin = vXNodes[k].vin
          /\ vXNodes'[k].sigTime >= vXNodes[k].sigTime
          /\ vXNodes'[k].ping <= vXNodes[k].ping
  BY <1>1, <1>2 DEF Target
<1> QED
  BY <1>3, NoOlderFrom, Zenon

\* Every step but those that let time pass, or write to a stray pointer, keeps
\* registrations and pings.
LEMMA NewestStep ==
    ASSUME XInv, XInv', XNodeNext, ~ Tick, ~ Sleep, ~ (Astray /\ call' = NoMessage)
    PROVE  NoOlder
<1>0. OneEntryPerCollateral /\ OneEach(vXNodes) /\ OneEach(vXNodes')
  BY XInvParts DEF XInv, OneEntryPerCollateral, XNodeTypeOK, OneEach
<1>1. \A k \in DOMAIN vXNodes : vXNodes[k].sigTime \in Int /\ vXNodes[k].ping \in Int
  BY <1>0, EntryTimes, Zenon
<1>2. ASSUME \A j \in DOMAIN vXNodes : j \in DOMAIN vXNodes' /\ vXNodes'[j] = vXNodes[j]
      PROVE  NoOlder
  BY <1>0, <1>1, <1>2 DEF OneEach, NoOlder
<1>3. ASSUME NEW v \in Vin, NEW sig \in 1..MaxSig, NEW age \in Ages,
             vXNodes' = Add(v, sig, age)
      PROVE  NoOlder
  BY <1>0, <1>2, <1>3, AddOnce, Zenon
<1>4. ASSUME NEW S, vXNodes' = Remaining(S)
      PROVE  NoOlder
  <2>1. \A k \in DOMAIN vXNodes' : \E j \in DOMAIN vXNodes :
            /\ vXNodes'[k].vin = vXNodes[j].vin
            /\ vXNodes'[k].sigTime = vXNodes[j].sigTime
            /\ vXNodes'[k].ping = vXNodes[j].ping
    BY <1>0, <1>4, RemainingFrom
  <2>2. \A k \in DOMAIN vXNodes' : \E j \in DOMAIN vXNodes :
            /\ vXNodes'[k].vin = vXNodes[j].vin
            /\ vXNodes'[k].sigTime >= vXNodes[j].sigTime
            /\ vXNodes'[k].ping <= vXNodes[j].ping
    BY <1>1, <2>1
  <2> QED
    BY <1>0, <2>2, NoOlderFrom, Zenon
<1>5. CASE vXNodes' = vXNodes
  BY <1>2, <1>5
<1>6. CASE NewEntry
  <2>1. call.vin \in Vin
    BY <1>0, <1>6, XInvParts, Zenon DEF NewEntry, Dsee
  <2> QED
    BY <1>3, <1>6, <2>1, Zenon DEF NewEntry
<1>7. CASE UpdateEntry
  <2>1. PICK e \in Entry : /\ e.vin = Target.vin /\ e.ping = Target.ping
                           /\ e.sigTime = call.sigTime
                           /\ WriteEntry(e)
    BY <1>0, <1>7, UpdateWrites DEF XInv
  <2>2. /\ Aimed /\ call.op = "write" /\ call' = NoMessage /\ Target \in Entry
        /\ e.ping \in Int /\ e.sigTime \in Int
    BY <1>0, <1>7, <2>1, XInvParts DEF UpdateEntry, WriteEntry, Entry
  <2>3. Target.vin = call.vin /\ ~ call.lost
    BY <2>2, Zenon DEF Astray
  <2>4. call.at \in DOMAIN vXNodes /\ vXNodes[call.at].vin = call.vin /\ call.at \in Int
        /\ call.at # 0
    BY <1>0, <2>2, <2>3 DEF Aimed, Target, OneEach
  <2>5. Target.sigTime < call.sigTime
    BY <2>2, <2>3, <2>4 DEF XInv, WriteNewer, Target
  <2>6. e.sigTime >= Target.sigTime /\ e.ping <= Target.ping
    BY <1>1, <2>1, <2>2, <2>4, <2>5 DEF Target
  <2> QED
    BY <1>0, <2>1, <2>2, <2>6, NoOlderWrite, Zenon
<1>8. CASE ApplyPing
  <2>1. PICK e \in Entry : /\ e.vin = Target.vin /\ e.ping = call.sent
                           /\ e.sigTime = Target.sigTime
                           /\ WriteEntry(e)
    BY <1>0, <1>8, PingWrites
  <2>2. Aimed /\ call.op = "ping" /\ call \in Dseep /\ call' = NoMessage
    BY <1>0, <1>8, <2>1, XInvParts, Zenon DEF ApplyPing, WriteEntry
  <2>3. Target.vin = call.vin
    BY <2>2, Zenon DEF Astray
  <2>4. Target.ping > call.sent
    <3>1. call.at \in DOMAIN vXNodes /\ vXNodes[call.at].vin = call.vin /\ call.at \in Int
      BY <2>2, <2>3, ListBounded, <1>0 DEF Aimed, Target, OneEach
    <3> QED
      BY <2>2, <3>1 DEF XInv, PingNewer, Target
  <2>5. e.sigTime >= Target.sigTime /\ e.ping <= Target.ping
    <3>1. e.sigTime \in Int /\ Target.ping \in Int
      BY <1>0, <2>1, <2>2, XInvParts DEF Entry
    <3>2. call.sent \in Int
      BY <2>2 DEF Dseep
    <3> QED
      BY <2>1, <2>4, <3>1, <3>2
  <2> QED
    BY <1>0, <2>1, <2>2, <2>5, NoOlderWrite, Zenon
<1>9. CASE CountEnabled \/ UpdateLastSeen
  <2>1. Alike
    <3>1. CASE CountEnabled
      BY <1>0, <3>1, CheckedKeeps, Zenon DEF CountEnabled
    <3>2. CASE UpdateLastSeen
      BY <1>0, <3>2, SeenKeeps, Zenon
    <3> QED
      BY <1>9, <3>1, <3>2, Zenon
  <2>2. \A k \in DOMAIN vXNodes' : \E j \in DOMAIN vXNodes :
            /\ vXNodes'[k].vin = vXNodes[j].vin
            /\ vXNodes'[k].sigTime >= vXNodes[j].sigTime
            /\ vXNodes'[k].ping <= vXNodes[j].ping
    BY <1>1, <2>1 DEF Alike
  <2> QED
    BY <1>0, <2>2, NoOlderFrom
<1>10. CASE \E S : CheckAndRemove(S)
  BY <1>4, <1>10 DEF CheckAndRemove
<1>11. CASE \E v \in Vin, sig \in 1..MaxSig : Register(v, sig)
  <2>1. 0 \in Ages
    BY TimesAssumption DEF Ages, Ahead
  <2> QED
    BY <1>3, <1>11, <2>1, Zenon DEF Register
<1>12. CASE Reload
  BY <1>4, <1>12 DEF Reload
<1>13. CASE Restart
  BY <1>13 DEF Restart, NoOlder
<1>14. CASE \/ \E v \in Vin : RecvDsee(v) \/ RecvDseep(v)
            \/ RefuseEntry \/ MatchDsee \/ MatchSigTime \/ MatchDseep \/ WriteLost
            \/ BlockchainSynced
  BY <1>5, <1>14, Zenon DEF RecvDsee, RecvDseep, RefuseEntry, MatchDsee, MatchSigTime,
                     MatchDseep, WriteLost, BlockchainSynced
<1> QED
  BY <1>6, <1>7, <1>8, <1>9, <1>10, <1>11, <1>12, <1>13, <1>14 DEF XNodeNext, MessageStep

\* For any collaterals: while an entry stays, its registration and its ping only
\* get newer, though the handler tests each in one step and writes it in another,
\* with entries erased and added in between.
THEOREM RegistrationsGetNewer == XNodeSpec => NewestKept
<1> DEFINE OnlyNewer == \A v \in Vin : Listed(v) /\ Listed(v)' =>
                            /\ EntryOf(v)'.sigTime >= EntryOf(v).sigTime
                            /\ EntryOf(v)'.ping <= EntryOf(v).ping
<1>1. ASSUME XInv, XInv', [XNodeNext]_xnodeVars
      PROVE  \/ Tick \/ Sleep \/ (Astray /\ call' = NoMessage) \/ OnlyNewer
             \/ UNCHANGED xnodeVars
  <2> SUFFICES ASSUME XNodeNext, ~ Tick, ~ Sleep, ~ (Astray /\ call' = NoMessage),
                      NEW v \in Vin, Listed(v), Listed(v)'
               PROVE  /\ EntryOf(v)'.sigTime >= EntryOf(v).sigTime
                      /\ EntryOf(v)'.ping <= EntryOf(v).ping
    BY <1>1, Zenon
  <2>1. NoOlder
    BY <1>1, NewestStep
  <2>2. Find(v) \in DOMAIN vXNodes /\ vXNodes[Find(v)].vin = v
    BY DEF Find, Listed
  <2>3. (Find(v) \in DOMAIN vXNodes /\ vXNodes[Find(v)].vin = v)'
    BY Zenon DEF Find, Listed
  <2> QED
    BY <2>1, <2>2, <2>3 DEF NoOlder, EntryOf
<1> QED
  BY <1>1, XInvariant, PTL DEF XNodeSpec, NewestKept

-----------------------------------------------------------------------------
(* Orphan transactions.                                                    *)

\* addUnchecked keeps mapNextTx exact when nothing in the pool spends an input
\* of the new transaction.
LEMMA AddKeepsIndex ==
    ASSUME NEW p, NEW t \in Tx, IndexesSpends(p),
           \A o \in Ins[t] : p.next[o] = NoTx
    PROVE  IndexesSpends(addUnchecked(p, t))
<1>1. Ins \in [Tx -> SUBSET Outpoint] /\ NoTx \notin Tx
  BY OrphanAssumption
<1> DEFINE q == [tx |-> p.tx \cup {t},
                 next |-> [o \in Outpoint |-> IF o \in Ins[t] THEN t ELSE p.next[o]]]
<1>2. addUnchecked(p, t) = q
  BY ZenonT(60) DEF addUnchecked
<1>3. q.tx \subseteq Tx /\ q.next \in [Outpoint -> q.tx \cup {NoTx}]
  BY DEF IndexesSpends
<1>4. \A s \in q.tx : \A o \in Ins[s] : q.next[o] = s
  <2> SUFFICES ASSUME NEW s \in p.tx \cup {t}, NEW o \in Ins[s]
               PROVE  q.next[o] = s
    OBVIOUS
  <2>1. s \in Tx /\ o \in Outpoint
    <3>1. s \in Tx
      BY ZenonT(60) DEF IndexesSpends
    <3> QED
      BY <1>1, <3>1, Zenon
  <2>2. CASE o \in Ins[t]
    <3>1. s \in p.tx => p.next[o] = s /\ s # NoTx
      BY <1>1, <2>1, Zenon DEF IndexesSpends
    <3> QED
      BY <2>1, <2>2, <3>1
  <2>3. CASE o \notin Ins[t]
    BY <2>1, <2>3, ZenonT(60) DEF IndexesSpends
  <2> QED
    BY <2>2, <2>3, ZenonT(60)
<1>5. \A o \in Outpoint : q.next[o] # NoTx => o \in Ins[q.next[o]]
  BY DEF IndexesSpends
<1> HIDE DEF q
<1>6. IndexesSpends(q)
  BY <1>3, <1>4, <1>5, Zenon DEF IndexesSpends
<1> QED
  BY <1>2, <1>6, Zenon

\* remove keeps mapNextTx exact: no other transaction has an entry under the
\* inputs of the one that goes.
LEMMA RemoveKeepsIndex ==
    ASSUME NEW p, NEW t \in Tx, IndexesSpends(p)
    PROVE  IndexesSpends(remove(p, t))
<1>1. Ins \in [Tx -> SUBSET Outpoint] /\ NoTx \notin Tx
  BY OrphanAssumption
<1>2. CASE t \notin p.tx
  BY <1>2, Zenon DEF remove
<1>3. CASE t \in p.tx
  <2> DEFINE q == [tx |-> p.tx \ {t},
                   next |-> [o \in Outpoint |->
                                IF o \in Ins[t] THEN NoTx ELSE p.next[o]]]
  <2>1. remove(p, t) = q
    BY <1>3 DEF remove
  <2>2. \A o \in Outpoint : o \notin Ins[t] => p.next[o] # t
    BY <1>1, <1>3 DEF IndexesSpends
  <2>3. q.next \in [Outpoint -> q.tx \cup {NoTx}]
    BY <2>2, Zenon DEF IndexesSpends
  <2>4. \A s \in q.tx : \A o \in Ins[s] : q.next[o] = s
    BY <1>1, <1>3, Zenon DEF IndexesSpends
  <2>5. \A o \in Outpoint : q.next[o] # NoTx => o \in Ins[q.next[o]]
    BY <1>1, Zenon DEF IndexesSpends
  <2>6. q.tx \subseteq Tx
    BY Zenon DEF IndexesSpends
  <2> HIDE DEF q
  <2>7. IndexesSpends(q)
    BY <2>3, <2>4, <2>5, <2>6, Zenon DEF IndexesSpends
  <2> QED
    BY <2>1, <2>7, Zenon
<1> QED
  BY <1>2, <1>3, Zenon

-----------------------------------------------------------------------------

\* The loop has dealt with every orphan that spends something it has passed in
\* the queue, except those that miss an input or have another turn to come.
LoopInv ==
    msg.op = "orphans" =>
        /\ msg.at \in 1 .. Len(msg.queue)
        /\ \A c \in mapOrphanTransactions \ (msg.erase \cup msg.left) :
              (\E i \in 1 .. msg.at : msg.queue[i] \in PrevTxs(c)) =>
                  \/ InputMissing(c)
                  \/ \E i \in (msg.at + 1) .. Len(msg.queue) :
                        msg.queue[i] \in PrevTxs(c)

OrphanInv ==
    /\ TypeOK
    /\ OrphanIndexExact
    /\ msg.op = "checked" => msg.tx \in Tx
    /\ LoopInv
    /\ IsFiniteSet(mapOrphanTransactions)
    /\ OrphansBounded

\* What Outcome = "accepted" gives the pool.
LEMMA AcceptedFits ==
    ASSUME NEW t \in Tx, TypeOK, Outcome(t) = "accepted"
    PROVE  /\ IndexesSpends(addUnchecked(pool, t))
           /\ \A o \in Ins[t] : mapNextTx[o] = NoTx
<1>1. \A o \in Ins[t] : mapNextTx[o] = NoTx
  BY DEF Outcome
<1>2. \A o \in Ins[t] : pool.next[o] = NoTx
  BY <1>1 DEF pool
<1> QED
  BY <1>1, <1>2, AddKeepsIndex, ZenonT(60) DEF TypeOK

\* The pool after a PoolBecomes step.
LEMMA PoolStep ==
    ASSUME NEW p, p = [tx |-> p.tx, next |-> p.next], IndexesSpends(p), PoolBecomes(p)
    PROVE  IndexesSpends(pool') /\ mapTx' = p.tx
BY ZenonT(60) DEF PoolBecomes, pool, IndexesSpends

\* A step that changes neither the orphans nor a message's loop keeps what is
\* said of them, whatever it does to the pool and to the chain.
LEMMA OutsideLoop ==
    ASSUME OrphanInv, msg'.op # "orphans",
           UNCHANGED <<mapOrphanTransactions, mapOrphanTransactionsByPrev>>
    PROVE  /\ OrphanIndexExact' /\ LoopInv' /\ OrphansBounded'
           /\ IsFiniteSet(mapOrphanTransactions')
BY DEF OrphanInv, OrphanIndexExact, LoopInv, OrphansBounded

\* The arrival of a tx message keeps OrphanInv.
LEMMA ReceiveStep ==
    ASSUME OrphanInv, NEW t \in Tx, ReceiveTx(t)
    PROVE  OrphanInv'
<1>1. msg' = [Idle EXCEPT !.op = "checked", !.tx = t]
  BY DEF ReceiveTx
<1>2. msg'.op = "checked" /\ msg'.tx = t
  BY <1>1 DEF Idle
<1>3. TypeOK'
  BY <1>1, ZenonT(60) DEF OrphanInv, TypeOK, ReceiveTx, Idle, MsgType, pool
<1> QED
  BY <1>2, <1>3, OutsideLoop DEF OrphanInv, ReceiveTx

\* No message is being handled.
LEMMA IdleType == Idle \in MsgType
BY DEF Idle, MsgType

\* A tx message refused for good keeps OrphanInv.
LEMMA RefuseStep ==
    ASSUME OrphanInv, RefuseTx
    PROVE  OrphanInv'
<1>1. msg'.op = "idle"
  BY Zenon DEF RefuseTx, Idle
<1>2. TypeOK'
  <2>1. msg' \in MsgType
    BY IdleType, Zenon DEF RefuseTx
  <2> QED
    BY <2>1, Zenon DEF OrphanInv, TypeOK, RefuseTx, pool
<1> QED
  BY <1>1, <1>2, OutsideLoop DEF OrphanInv, RefuseTx

\* A transaction accepted from the wallet keeps OrphanInv.
LEMMA LocalStep ==
    ASSUME OrphanInv, NEW t \in Tx, AcceptLocal(t)
    PROVE  OrphanInv'
<1>1. IndexesSpends(pool')
  BY AcceptedFits, PoolStep DEF OrphanInv, AcceptLocal, addUnchecked
<1>2. TypeOK'
  BY <1>1, ZenonT(60) DEF OrphanInv, TypeOK, AcceptLocal
<1> QED
  BY <1>2, OutsideLoop DEF OrphanInv, AcceptLocal, MainLockFree

\* A connected block, which takes its transaction out of the pool, keeps OrphanInv.
LEMMA ConnectStep ==
    ASSUME OrphanInv, NEW t \in Tx, ConnectBlock(t)
    PROVE  OrphanInv'
<1>1. IndexesSpends(remove(pool, t))
  BY RemoveKeepsIndex DEF OrphanInv, TypeOK
<1>2. IndexesSpends(pool')
  <2>1. remove(pool, t) = [tx |-> remove(pool, t).tx, next |-> remove(pool, t).next]
    BY Zenon DEF remove, pool
  <2> QED
    BY <1>1, <2>1, PoolStep, Zenon DEF ConnectBlock
<1>3. TypeOK'
  BY <1>2, Zenon DEF OrphanInv, TypeOK, ConnectBlock
<1>4. /\ msg' = msg /\ msg.op # "orphans"
      /\ UNCHANGED <<mapOrphanTransactions, mapOrphanTransactionsByPrev>>
  BY Zenon DEF ConnectBlock, MainLockFree
<1>5. msg.op = "checked" => msg.tx \in Tx
  BY Zenon DEF OrphanInv
<1>6. /\ OrphanIndexExact' /\ LoopInv' /\ OrphansBounded'
      /\ IsFiniteSet(mapOrphanTransactions')
  BY <1>4, OutsideLoop, Zenon
<1> QED
  BY <1>3, <1>4, <1>5, <1>6, Zenon DEF OrphanInv

\* AddOrphanTx followed by LimitOrphanTxSize keeps OrphanInv.
LEMMA StoreStep ==
    ASSUME OrphanInv, StoreOrphan
    PROVE  OrphanInv'
<1>1. msg.tx \in Tx /\ msg' = Idle /\ msg'.op = "idle"
  BY Zenon DEF OrphanInv, StoreOrphan, Idle
<1>2. IndexesSpends(pool')
  BY Zenon DEF OrphanInv, TypeOK, StoreOrphan, pool
<1>3. CASE msg.tx \notin Small
  <2>1. UNCHANGED <<mapOrphanTransactions, mapOrphanTransactionsByPrev>>
    BY <1>3, Zenon DEF StoreOrphan
  <2>2. TypeOK'
    BY <1>1, <1>2, <2>1, IdleType, Zenon DEF OrphanInv, TypeOK, StoreOrphan
  <2> QED
    BY <1>1, <2>1, <2>2, OutsideLoop, Zenon DEF OrphanInv
<1>4. CASE msg.tx \in Small
  <2> DEFINE all == mapOrphanTransactions \cup {msg.tx}
  <2>1. PICK kept \in Kept(all) :
            /\ mapOrphanTransactions' = kept
            /\ mapOrphanTransactionsByPrev' = Erased(Indexed(msg.tx), all \ kept)
    BY <1>4, Zenon DEF StoreOrphan
  <2>2. all \subseteq Tx /\ kept \subseteq all
    BY <1>1, ZenonT(60) DEF OrphanInv, TypeOK, Kept
  <2>3. /\ Indexed(msg.tx) \in [Tx -> SUBSET Tx]
        /\ \A h \in Tx : Indexed(msg.tx)[h] = {t \in all : h \in PrevTxs(t)}
    BY <1>1 DEF OrphanInv, TypeOK, OrphanIndexExact, Indexed
  <2>4. /\ mapOrphanTransactionsByPrev' \in [Tx -> SUBSET Tx]
        /\ \A h \in Tx : mapOrphanTransactionsByPrev'[h] =
                         {t \in kept : h \in PrevTxs(t)}
    <3>1. (all \ kept) \cap all = all \ kept /\ all \ (all \ kept) = kept
      BY <2>2
    <3>2. all \in SUBSET Tx
      BY <2>2
    <3> HIDE DEF all
    <3>3. /\ Erased(Indexed(msg.tx), (all \ kept) \cap all) \in [Tx -> SUBSET Tx]
          /\ \A h \in Tx : Erased(Indexed(msg.tx), (all \ kept) \cap all)[h] =
                           {t \in all \ (all \ kept) : h \in PrevTxs(t)}
      BY <2>3, <3>2 DEF Erased
    <3> QED
      BY <2>1, <3>1, <3>3, Zenon
  <2>5. IsFiniteSet(all) /\ Cardinality(all) \in Nat
    BY FS_AddElement, FS_CardinalityType, Zenon DEF OrphanInv
  <2>6. IsFiniteSet(kept)
    BY <2>2, <2>5, FS_Subset, Zenon
  <2>7. Cardinality(kept) <= MAX_ORPHAN_TRANSACTIONS
    BY <2>5, OrphanAssumption DEF Kept
  <2>8. TypeOK'
    <3>1. mapOrphanTransactions' \subseteq Tx
      BY <2>1, <2>2, Zenon
    <3> QED
      BY <1>1, <1>2, <2>4, <3>1, IdleType DEF OrphanInv, TypeOK, StoreOrphan
  <2> QED
    BY <1>1, <2>1, <2>4, <2>6, <2>7, <2>8, Zenon
       DEF OrphanInv, OrphanIndexExact, OrphansBounded, LoopInv
<1> QED
  BY <1>3, <1>4, Zenon

\* The loop over vEraseQueue at the end of the handler keeps OrphanInv.
LEMMA EraseStep ==
    ASSUME OrphanInv, EraseProcessed
    PROVE  OrphanInv'
<1>1. msg' = Idle /\ msg'.op = "idle"
  BY DEF EraseProcessed, Idle
<1>2. /\ mapOrphanTransactionsByPrev' \in [Tx -> SUBSET Tx]
      /\ OrphanIndexExact'
  <2> DEFINE e == Erased(mapOrphanTransactionsByPrev,
                         msg.erase \cap mapOrphanTransactions)
  <2>1. /\ e \in [Tx -> SUBSET Tx]
        /\ \A h \in Tx : e[h] = {t \in mapOrphanTransactions \ msg.erase :
                                    h \in PrevTxs(t)}
    <3>1. /\ mapOrphanTransactionsByPrev \in [Tx -> SUBSET Tx]
          /\ mapOrphanTransactions \in SUBSET Tx
          /\ \A h \in Tx : mapOrphanTransactionsByPrev[h] =
                           {t \in mapOrphanTransactions : h \in PrevTxs(t)}
      BY DEF OrphanInv, TypeOK, OrphanIndexExact
    <3> QED
      BY <3>1 DEF Erased
  <2> QED
    BY <2>1, Zenon DEF OrphanIndexExact, EraseProcessed
<1>3. TypeOK'
  <2>1. mapOrphanTransactions' \subseteq Tx /\ pool' = pool /\ confirmed' = confirmed
    BY Zenon DEF OrphanInv, TypeOK, EraseProcessed, pool
  <2> QED
    BY <1>1, <1>2, <2>1, IdleType, Zenon DEF OrphanInv, TypeOK
<1>4. /\ IsFiniteSet(mapOrphanTransactions')
      /\ Cardinality(mapOrphanTransactions') <= Cardinality(mapOrphanTransactions)
  BY FS_Subset DEF OrphanInv, EraseProcessed
<1>5. /\ Cardinality(mapOrphanTransactions) \in Nat
      /\ Cardinality(mapOrphanTransactions') \in Nat
  BY <1>4, FS_CardinalityType DEF OrphanInv
<1>6. OrphansBounded'
  BY <1>4, <1>5, OrphanAssumption DEF OrphanInv, OrphansBounded
<1> QED
  BY <1>1, <1>2, <1>3, <1>4, <1>6, Zenon DEF OrphanInv, LoopInv

\* The acceptance of the message's own transaction, which starts the work queue,
\* keeps OrphanInv.
LEMMA AcceptStep ==
    ASSUME OrphanInv, AcceptTx
    PROVE  OrphanInv'
<1> DEFINE t == msg.tx
<1>1. t \in Tx /\ Outcome(t) = "accepted"
  BY DEF OrphanInv, AcceptTx
<1>2. IndexesSpends(pool')
  BY <1>1, AcceptedFits, PoolStep DEF OrphanInv, AcceptTx, addUnchecked
<1>3. /\ msg'.op = "orphans" /\ msg'.queue = <<t>> /\ msg'.at = 1
      /\ msg'.left = mapOrphanTransactionsByPrev[t] /\ msg'.erase = {t}
      /\ msg' = [msg EXCEPT !.op = "orphans", !.queue = <<t>>, !.at = 1,
                            !.left = mapOrphanTransactionsByPrev[t], !.erase = {t}]
  BY DEF OrphanInv, TypeOK, AcceptTx, MsgType
<1>4. mapOrphanTransactionsByPrev[t] \in SUBSET Tx /\ <<t>> \in Seq(Tx)
  BY <1>1 DEF OrphanInv, TypeOK
<1>5. TypeOK'
  <2>1. msg' \in MsgType
    <3> HIDE DEF t
    <3> QED
      BY <1>1, <1>3, <1>4, Zenon DEF OrphanInv, TypeOK, MsgType
  <2> QED
    BY <1>2, <2>1 DEF OrphanInv, TypeOK, AcceptTx
<1>6. LoopInv'
  <2>1. \A c \in mapOrphanTransactions : t \in PrevTxs(c) => c \in msg'.left
    BY <1>1, <1>3 DEF OrphanInv, OrphanIndexExact
  <2> QED
    BY <1>3, <2>1 DEF LoopInv, AcceptTx
<1> QED
  BY <1>3, <1>5, <1>6 DEF OrphanInv, OrphanIndexExact, OrphansBounded, AcceptTx

\* Going on to the next entry of vWorkQueue keeps OrphanInv.
LEMMA QueueStep ==
    ASSUME OrphanInv, NextInQueue
    PROVE  OrphanInv'
<1> DEFINE n == msg.at + 1
           t == msg.queue[n]
<1>1. /\ msg.op = "orphans" /\ msg.left = {} /\ msg.queue \in Seq(Tx)
      /\ msg.at \in Nat /\ msg.at \in 1 .. Len(msg.queue) /\ n \in 1 .. Len(msg.queue)
  BY DEF OrphanInv, TypeOK, NextInQueue, LoopInv, MsgType
<1>2. t \in Tx
  BY <1>1
<1>3. /\ msg' = [msg EXCEPT !.at = n, !.left = mapOrphanTransactionsByPrev[t]]
      /\ msg'.op = "orphans" /\ msg'.queue = msg.queue /\ msg'.at = n
      /\ msg'.left = mapOrphanTransactionsByPrev[t] /\ msg'.erase = msg.erase
  BY DEF OrphanInv, TypeOK, NextInQueue, MsgType
<1>4. mapOrphanTransactionsByPrev[t] \in SUBSET Tx
  BY <1>2 DEF OrphanInv, TypeOK
<1>5. TypeOK'
  <2>1. msg' \in MsgType
    <3>1. n \in Nat
      BY <1>1
    <3> HIDE DEF n, t
    <3> QED
      BY <1>3, <1>4, <3>1, Zenon DEF OrphanInv, TypeOK, MsgType
  <2> QED
    BY <2>1 DEF OrphanInv, TypeOK, NextInQueue, pool
<1>6. LoopInv'
  <2> SUFFICES ASSUME NEW c \in mapOrphanTransactions \ (msg.erase \cup msg'.left),
                      NEW i \in 1 .. n, msg.queue[i] \in PrevTxs(c)
               PROVE  \/ InputMissing(c)
                      \/ \E j \in (n + 1) .. Len(msg.queue) :
                            msg.queue[j] \in PrevTxs(c)
    BY <1>1, <1>3 DEF LoopInv, NextInQueue, InputMissing
  <2>1. t \notin PrevTxs(c)
    BY <1>2, <1>3, Zenon DEF OrphanInv, OrphanIndexExact
  <2>2. i \in 1 .. msg.at
    <3>1. i # n
      BY <2>1, Zenon
    <3> DEFINE k == msg.at
    <3>2. k \in Nat /\ i \in 1 .. (k + 1) /\ i # k + 1
      BY <1>1, <3>1, Zenon
    <3> HIDE DEF k
    <3>3. i \in 1 .. k
      BY <3>2
    <3> QED
      BY <3>3, Zenon DEF k
  <2>3. \/ InputMissing(c)
        \/ \E j \in n .. Len(msg.queue) : msg.queue[j] \in PrevTxs(c)
    BY <1>1, <2>2 DEF OrphanInv, LoopInv
  <2> QED
    BY <1>1, <2>1, <2>3
<1> QED
  BY <1>3, <1>5, <1>6 DEF OrphanInv, OrphanIndexExact, OrphansBounded, NextInQueue

\* One orphan tried by the inner loop keeps OrphanInv, whatever the outcome.
LEMMA TryStep ==
    ASSUME OrphanInv, NEW c \in Tx, TryOrphan(c)
    PROVE  OrphanInv'
<1> DEFINE got == Outcome(c) = "accepted"
           queue == IF got THEN Append(msg.queue, c) ELSE msg.queue
           erase == IF Outcome(c) = "missing" THEN msg.erase ELSE msg.erase \cup {c}
<1>1. /\ msg.op = "orphans" /\ c \in msg.left /\ msg.queue \in Seq(Tx)
      /\ msg.at \in Nat /\ msg.at \in 1 .. Len(msg.queue)
  BY DEF OrphanInv, TypeOK, TryOrphan, LoopInv, MsgType
<1>2. /\ msg' = [msg EXCEPT !.left = msg.left \ {c}, !.queue = queue, !.erase = erase]
      /\ msg'.op = "orphans" /\ msg'.queue = queue /\ msg'.at = msg.at
      /\ msg'.left = msg.left \ {c} /\ msg'.erase = erase
  BY DEF OrphanInv, TypeOK, TryOrphan, MsgType
<1>3. /\ queue \in Seq(Tx) /\ msg.at \in 1 .. Len(queue)
      /\ \A i \in 1 .. Len(msg.queue) : queue[i] = msg.queue[i]
      /\ Len(queue) >= Len(msg.queue)
      /\ got => Len(queue) = Len(msg.queue) + 1 /\ queue[Len(msg.queue) + 1] = c
  BY <1>1
<1>4. IndexesSpends(pool') /\ mapTx' = IF got THEN mapTx \cup {c} ELSE mapTx
  <2>1. CASE got
    <3>1. PoolBecomes(addUnchecked(pool, c)) /\ IndexesSpends(addUnchecked(pool, c))
      BY <2>1, AcceptedFits DEF OrphanInv, TryOrphan
    <3> QED
      BY <2>1, <3>1, PoolStep DEF addUnchecked, pool
  <2>2. CASE ~ got
    BY <2>2 DEF OrphanInv, TypeOK, TryOrphan, PoolBecomes, pool
  <2> QED
    BY <2>1, <2>2, Zenon
<1>5. TypeOK'
  <2>1. erase \in SUBSET Tx /\ msg.left \ {c} \in SUBSET Tx
    BY DEF OrphanInv, TypeOK, MsgType
  <2> HIDE DEF queue, erase
  <2> QED
    BY <1>2, <1>3, <1>4, <2>1, Zenon DEF OrphanInv, TypeOK, TryOrphan, MsgType
<1>6. LoopInv'
  <2> SUFFICES ASSUME NEW d \in mapOrphanTransactions \ (erase \cup (msg.left \ {c})),
                      NEW i \in 1 .. msg.at, queue[i] \in PrevTxs(d)
               PROVE  \/ InputMissing(d)'
                      \/ \E j \in (msg.at + 1) .. Len(queue) : queue[j] \in PrevTxs(d)
    <3> HIDE DEF queue, erase
    <3> QED
      BY <1>2, <1>3, Zenon DEF LoopInv, TryOrphan
  <2>1. CASE d = c
    <3>1. InputMissing(c) /\ ~ got
      BY <2>1 DEF Outcome
    <3> QED
      BY <1>4, <2>1, <3>1, ZenonT(60) DEF InputMissing, TryOrphan
  <2>2. CASE d # c
    <3>1. d \in mapOrphanTransactions \ (msg.erase \cup msg.left)
      BY <2>2, ZenonT(60)
    <3>2. msg.queue[i] \in PrevTxs(d)
      BY <1>1, <1>3
    <3>3. \/ InputMissing(d)
          \/ \E j \in (msg.at + 1) .. Len(msg.queue) : msg.queue[j] \in PrevTxs(d)
      BY <1>1, <3>1, <3>2, Zenon DEF OrphanInv, LoopInv
    <3>4. CASE InputMissing(d) /\ ~ InputMissing(d)'
      <4>1. got /\ c \in PrevTxs(d)
        BY <1>4, <3>4, Zenon DEF InputMissing, TryOrphan
      <4>2. /\ queue[Len(msg.queue) + 1] = c /\ Len(queue) = Len(msg.queue) + 1
            /\ Len(msg.queue) + 1 \in (msg.at + 1) .. (Len(msg.queue) + 1)
        <5>1. Len(msg.queue) \in Nat
          BY <1>1
        <5>2. Len(msg.queue) + 1 \in (msg.at + 1) .. (Len(msg.queue) + 1)
          BY <1>1, <5>1
        <5> HIDE DEF queue
        <5> QED
          BY <1>3, <4>1, <5>2, ZenonT(60)
      <4> HIDE DEF queue
      <4> QED
        BY <4>1, <4>2, Zenon
    <3>5. ASSUME NEW j \in (msg.at + 1) .. Len(msg.queue), msg.queue[j] \in PrevTxs(d)
          PROVE  \E k \in (msg.at + 1) .. Len(queue) : queue[k] \in PrevTxs(d)
      <4> HIDE DEF queue
      <4>1. /\ Len(msg.queue) \in Nat /\ Len(queue) \in Nat /\ msg.at \in Nat
            /\ Len(queue) >= Len(msg.queue)
        BY <1>1, <1>3
      <4>2. j \in 1 .. Len(msg.queue) /\ j \in (msg.at + 1) .. Len(queue)
        BY <4>1
      <4>3. queue[j] = msg.queue[j]
        BY <1>3, <4>2, Zenon
      <4> QED
        BY <3>5, <4>2, <4>3, Zenon
    <3> QED
      BY <3>3, <3>4, <3>5, Zenon
  <2> QED
    BY <2>1, <2>2, Zenon
<1> QED
  BY <1>2, <1>5, <1>6 DEF OrphanInv, OrphanIndexExact, OrphansBounded, TryOrphan

\* Each step keeps the invariant.
LEMMA OrphanStep ==
    ASSUME OrphanInv, [Next]_vars
    PROVE  OrphanInv'
<1>1. CASE UNCHANGED vars
  BY <1>1, Zenon DEF OrphanInv, TypeOK, OrphanIndexExact, LoopInv, OrphansBounded,
              InputMissing, pool, vars
<1>2. ASSUME NEW t \in Tx, ReceiveTx(t) \/ AcceptLocal(t) \/ ConnectBlock(t)
      PROVE  OrphanInv'
  BY <1>2, ReceiveStep, LocalStep, ConnectStep
<1>3. CASE AcceptTx \/ StoreOrphan \/ RefuseTx
  BY <1>3, AcceptStep, StoreStep, RefuseStep
<1>4. ASSUME NEW c \in Tx, TryOrphan(c) PROVE OrphanInv'
  BY <1>4, TryStep
<1>5. CASE NextInQueue \/ EraseProcessed
  BY <1>5, QueueStep, EraseStep, Zenon
<1> QED
  BY <1>1, <1>2, <1>3, <1>4, <1>5, Zenon DEF Next, HandlerStep

\* The handler starts with empty maps, which satisfy OrphanInv.
LEMMA OrphanStart ==
    ASSUME Init
    PROVE  OrphanInv
<1>1. IndexesSpends(pool)
  BY Zenon DEF Init, EmptyPool, IndexesSpends, pool
<1>2. TypeOK
  BY <1>1, IdleType, OrphanAssumption DEF Init, TypeOK
<1>3. IsFiniteSet(mapOrphanTransactions) /\ Cardinality(mapOrphanTransactions) = 0
  BY FS_EmptySet DEF Init
<1>4. OrphansBounded
  <2>1. MAX_ORPHAN_TRANSACTIONS \in Nat
    BY OrphanAssumption, Zenon
  <2> QED
    BY <1>3, <2>1 DEF OrphansBounded
<1>5. OrphanIndexExact
  BY DEF Init, OrphanIndexExact
<1>6. msg.op = "idle"
  BY Zenon DEF Init, Idle
<1> QED
  BY <1>2, <1>3, <1>4, <1>5, <1>6, Zenon DEF OrphanInv, LoopInv

\* The invariant holds in every state.
LEMMA OrphanInvariant == Spec => []OrphanInv
BY OrphanStart, OrphanStep, PTL DEF Spec

\* AddOrphanTx and EraseOrphanTx keep the two maps in step, so that the loop
\* never looks up an orphan that is not there.
THEOREM MapsAgree == Spec => []OrphanIndexExact
<1>1. OrphanInv => OrphanIndexExact
  BY DEF OrphanInv
<1> QED
  BY <1>1, OrphanInvariant, PTL

\* LimitOrphanTxSize keeps the orphans within any limit.
THEOREM LimitHolds == Spec => []OrphansBounded
<1>1. OrphanInv => OrphansBounded
  BY DEF OrphanInv
<1> QED
  BY <1>1, OrphanInvariant, PTL

\* The recursive processing of a "tx" message misses no orphan, whatever
\* depends on what and in whatever order the hashes put them.
THEOREM NoDependantMissed == Spec => DependantsProcessed
<1> DEFINE Done == msg.op = "orphans" /\ msg' = Idle =>
                \A c \in mapOrphanTransactions' :
                    PrevTxs(c) \cap {msg.queue[i] : i \in DOMAIN msg.queue} # {}
                    => InputMissing(c)
<1>1. OrphanInv /\ [Next]_vars => Done
  <2> SUFFICES ASSUME OrphanInv, [Next]_vars, msg.op = "orphans", msg' = Idle,
                      NEW c \in mapOrphanTransactions',
                      NEW i \in DOMAIN msg.queue, msg.queue[i] \in PrevTxs(c)
               PROVE  InputMissing(c)
    OBVIOUS
  <2>1. msg \in MsgType /\ msg.op # "idle" /\ msg.op # "checked"
    BY DEF OrphanInv, TypeOK
  <2>2. msg'.op = "idle"
    BY DEF Idle
  <2>3. EraseProcessed
    <3>1. msg # msg'
      BY <2>1, <2>2
    <3>2. ~ NextInQueue /\ \A d \in Tx : ~ TryOrphan(d)
      BY <2>1, <2>2, Zenon DEF NextInQueue, TryOrphan, MsgType
    <3>3. \A t \in Tx : ~ ReceiveTx(t) /\ ~ AcceptLocal(t) /\ ~ ConnectBlock(t)
      BY <2>1, <2>2 DEF ReceiveTx, AcceptLocal, ConnectBlock, MainLockFree, Idle
    <3>4. ~ AcceptTx /\ ~ StoreOrphan /\ ~ RefuseTx
      BY DEF AcceptTx, StoreOrphan, RefuseTx
    <3> QED
      BY <3>1, <3>2, <3>3, <3>4 DEF Next, HandlerStep, vars
  <2>4. /\ msg.left = {} /\ msg.at = Len(msg.queue) /\ msg.queue \in Seq(Tx)
        /\ c \in mapOrphanTransactions \ msg.erase
    BY <2>1, <2>3 DEF EraseProcessed, MsgType
  <2>5. i \in 1 .. msg.at /\ (msg.at + 1) .. Len(msg.queue) = {}
    BY <2>4
  <2> QED
    BY <2>4, <2>5 DEF OrphanInv, LoopInv
<1> QED
  BY <1>1, OrphanInvariant, PTL DEF Spec, DependantsProcessed

-----------------------------------------------------------------------------
(* The transaction database.                                               *)

\* Among the entries of a key there is a last one.
LEMMA LastExists ==
    ASSUME NEW s \in Seq(BatchEntry), NEW k, Found(s, k)
    PROVE  \E i \in DOMAIN s : /\ s[i].key = k
                               /\ \A j \in DOMAIN s : s[j].key = k => j <= i
<1> DEFINE I == {i \in DOMAIN s : s[i].key = k}
<1>1. I \subseteq Nat /\ I # {} /\ Len(s) \in Nat /\ \A i \in I : i <= Len(s)
  BY DEF Found
<1>2. PICK i \in I : \A j \in I : j <= i
  <2> HIDE DEF I
  <2> QED
    BY <1>1, GreatestNatural, Zenon
<1> QED
  BY <1>2

\* CBatchScanner finds what applying the log in order would leave.
LEMMA ScanIsOutcome ==
    ASSUME NEW s \in Seq(BatchEntry), NEW k
    PROVE  /\ Found(s, k) => ScanBatch(s, k) = LogOutcome(s, k)
           /\ Found(s, k) => LogOutcome(s, k) \in Value \cup {Absent}
           /\ ~ Found(s, k) => LogOutcome(s, k) = Untouched
<1> DEFINE I == {i \in DOMAIN s : s[i].key = k}
           m == CHOOSE i \in I : \A j \in I : j <= i
<1>1. CASE ~ Found(s, k)
  BY <1>1, Zenon DEF Found, LogOutcome
<1>2. CASE Found(s, k)
  <2>1. I # {}
    BY <1>2 DEF Found
  <2>2. \E i \in I : \A j \in I : j <= i
    BY <1>2, LastExists
  <2>3. m \in I /\ \A j \in I : j <= m
    BY <2>2, Zenon
  <2>4. /\ LastFor(s, k) \in DOMAIN s /\ s[LastFor(s, k)].key = k
        /\ \A j \in DOMAIN s : s[j].key = k => j <= LastFor(s, k)
    BY <1>2, LastExists DEF LastFor
  <2>5. LastFor(s, k) = m
    <3>1. LastFor(s, k) <= m /\ m <= LastFor(s, k)
      BY <2>3, <2>4
    <3>2. LastFor(s, k) \in Nat /\ m \in Nat
      BY <2>3, <2>4
    <3> HIDE DEF m
    <3> QED
      BY <3>1, <3>2
  <2>6. LogOutcome(s, k) = s[m].value
    BY <2>1 DEF LogOutcome
  <2>7. s[m] \in BatchEntry
    BY <2>3
  <2> QED
    BY <1>2, <2>5, <2>6, <2>7 DEF ScanBatch, BatchEntry
<1> QED
  BY <1>1, <1>2, Zenon

\* A new entry decides its own key and no other.
LEMMA OutcomeAppend ==
    ASSUME NEW s \in Seq(BatchEntry), NEW e \in BatchEntry, NEW k
    PROVE  LogOutcome(Append(s, e), k) =
               IF e.key = k THEN e.value ELSE LogOutcome(s, k)
<1> DEFINE t == Append(s, e)
           I == {i \in DOMAIN s : s[i].key = k}
           J == {i \in DOMAIN t : t[i].key = k}
<1>1. /\ DOMAIN s = 1..Len(s) /\ DOMAIN t = 1..(Len(s) + 1) /\ Len(s) \in Nat
      /\ \A i \in DOMAIN s : t[i] = s[i]
      /\ t[Len(s) + 1] = e
  OBVIOUS
<1>2. LogOutcome(t, k) = IF J = {} THEN Untouched
                      ELSE t[CHOOSE i \in J : \A j \in J : j <= i].value
  BY DEF LogOutcome
<1>3. LogOutcome(s, k) = IF I = {} THEN Untouched
                      ELSE s[CHOOSE i \in I : \A j \in I : j <= i].value
  BY Zenon DEF LogOutcome
<1>4. CASE e.key = k
  <2>1. Len(s) + 1 \in J /\ J \subseteq 1..(Len(s) + 1)
    BY <1>1, <1>4
  <2> DEFINE m == CHOOSE i \in J : \A j \in J : j <= i
  <2>2. m \in J /\ \A j \in J : j <= m
    BY <1>1, <2>1
  <2>3. m = Len(s) + 1
    <3> HIDE DEF m, J
    <3> QED
      BY <1>1, <2>1, <2>2
  <2> QED
    BY <1>1, <1>2, <1>4, <2>1, <2>3, Zenon
<1>5. CASE e.key # k
  <2>1. J = I
    BY <1>1, <1>5
  <2>2. CASE I = {}
    BY <1>2, <1>3, <1>5, <2>1, <2>2, ZenonT(60)
  <2>3. CASE I # {}
    <3> DEFINE m == CHOOSE i \in I : \A j \in I : j <= i
    <3>1. m \in DOMAIN s
      <4>1. Found(s, k)
        BY <2>3 DEF Found
      <4>2. \E i \in I : \A j \in I : j <= i
        BY <4>1, LastExists
      <4>3. m \in I
        BY <4>2
      <4> QED
        BY <4>3
    <3>2. LogOutcome(t, k) = t[m].value /\ LogOutcome(s, k) = s[m].value
      BY <1>2, <1>3, <2>1, <2>3, Zenon
    <3> HIDE DEF m
    <3> QED
      BY <1>1, <1>5, <3>1, <3>2
  <2> QED
    BY <2>2, <2>3
<1> QED
  BY <1>4, <1>5

\* An empty log touches nothing.
LEMMA OutcomeEmpty == ASSUME NEW k PROVE LogOutcome(<<>>, k) = Untouched
BY DEF LogOutcome

-----------------------------------------------------------------------------

\* A read returns a value or nothing.
LEMMA ReadTyped ==
    ASSUME DbTypeOK, NEW c \in User, NEW k \in Key
    PROVE  ReadValue(c, k) \in Value \cup {Absent}
BY ScanIsOutcome DEF DbTypeOK, ReadValue

\* Applying a log leaves a map.
LEMMA AppliedTyped ==
    ASSUME DbTypeOK, NEW c \in User
    PROVE  Applied(activeBatch[c]) \in [Key -> Value \cup {Absent}]
BY ScanIsOutcome DEF DbTypeOK, Applied

\* Every operation of CTxDB keeps the type invariant.
LEMMA DbTypeStep == DbTypeOK /\ [DbNext]_dbVars => DbTypeOK'
<1> SUFFICES ASSUME DbTypeOK, [DbNext]_dbVars
             PROVE  DbTypeOK'
  OBVIOUS
<1> USE StoreAssumption
<1>e. <<>> \in Seq(BatchEntry)
  OBVIOUS
<1>1. ASSUME NEW c \in User, NEW k \in Key, Read(c, k)
      PROVE  DbTypeOK'
  BY <1>1, ReadTyped DEF Read, DbTypeOK
<1>2. ASSUME NEW c \in User, NEW k \in Key, NEW v \in Value \cup {Absent},
             Write(c, k, v)
      PROVE  DbTypeOK'
  <2>1. CASE inTxn[c]
    <3>1. [key |-> k, value |-> v] \in BatchEntry
      BY DEF BatchEntry
    <3>2. Append(activeBatch[c], [key |-> k, value |-> v]) \in Seq(BatchEntry)
      BY <3>1 DEF DbTypeOK
    <3> QED
      BY <1>2, <2>1, <3>2, Zenon DEF Write, DbTypeOK
  <2>2. CASE ~ inTxn[c]
    BY <1>2, <2>2 DEF Write, DbTypeOK
  <2> QED
    BY <2>1, <2>2
<1>3. ASSUME NEW c \in User, TxnBegin(c)
      PROVE  DbTypeOK'
  BY <1>e, <1>3, Zenon DEF TxnBegin, DbTypeOK
<1>4. ASSUME NEW c \in User, TxnCommit(c)
      PROVE  DbTypeOK'
  BY <1>e, <1>4, AppliedTyped, Zenon DEF TxnCommit, DbTypeOK
<1>5. ASSUME NEW c \in User, TxnAbort(c)
      PROVE  DbTypeOK'
  BY <1>e, <1>5, Zenon DEF TxnAbort, DbTypeOK
<1>6. CASE Reopen
  BY <1>e, <1>6, Zenon DEF Reopen, DbTypeOK
<1>7. CASE UNCHANGED dbVars
  BY <1>7 DEF dbVars, DbTypeOK
<1> QED
  BY <1>1, <1>2, <1>3, <1>4, <1>5, <1>6, <1>7, Zenon DEF DbNext

\* The map, the transactions and the logs keep their types, and a log is empty
\* outside a transaction.
THEOREM DbTypeCorrect == DbSpec => []DbTypeOK
<1>1. DbInit => DbTypeOK
  BY DEF DbInit, DbTypeOK
<1> QED
  BY <1>1, DbTypeStep, PTL DEF DbSpec

\* The changes that an object holds, as KeyValueStore sees them.
Held == [c \in User |-> [k \in Key |-> LogOutcome(activeBatch[c], k)]]

\* A read returns what the store has for its user.
LEMMA ReadsStore ==
    ASSUME DbTypeOK, NEW c \in User, NEW k \in Key
    PROVE  ReadValue(c, k) = Store!Seen(c, k)
<1>1. activeBatch[c] \in Seq(BatchEntry)
  BY Zenon DEF DbTypeOK
<1>2. CASE Found(activeBatch[c], k)
  <2>1. inTxn[c]
    BY <1>2 DEF DbTypeOK, Found
  <2> QED
    BY <1>1, <1>2, <2>1, ScanIsOutcome, StoreAssumption, Zenon DEF ReadValue, Store!Seen
<1>3. CASE ~ Found(activeBatch[c], k)
  BY <1>1, <1>3, ScanIsOutcome, Zenon DEF ReadValue, Store!Seen
<1> QED
  BY <1>2, <1>3

\* Each step of CTxDB is a step of the store.
LEMMA DbStoreStep ==
    DbTypeOK /\ [DbNext]_dbVars => [Store!Next]_<<disk, Held, answer>>
<1> SUFFICES ASSUME DbTypeOK, [DbNext]_dbVars
             PROVE  [Store!Next]_<<disk, Held, answer>>
  OBVIOUS
<1>1. ASSUME NEW c \in User, NEW k \in Key, Read(c, k)
      PROVE  Store!Next
  <2>1. Store!Read(c, k)
    BY <1>1, ReadsStore DEF Read, Store!Read
  <2> QED
    BY <2>1 DEF Store!Next
<1>2. ASSUME NEW c \in User, NEW k \in Key, NEW v \in Value \cup {Absent},
             Write(c, k, v)
      PROVE  [Store!Next]_<<disk, Held, answer>>
  <2>1. CASE inTxn[c]
    <3> DEFINE e == [key |-> k, value |-> v]
    <3>1. e \in BatchEntry /\ e.key = k /\ e.value = v
      BY Zenon DEF BatchEntry
    <3>2. activeBatch' = [activeBatch EXCEPT ![c] = Append(activeBatch[c], e)]
          /\ UNCHANGED <<disk, answer>>
      BY <1>2, <2>1, Zenon DEF Write
    <3> HIDE DEF e
    <3>3. activeBatch'[c] = Append(activeBatch[c], e)
          /\ \A d \in User \ {c} : activeBatch'[d] = activeBatch[d]
      BY <3>2, Zenon DEF DbTypeOK
    <3>4. \A j \in Key : LogOutcome(activeBatch'[c], j)
                            = IF k = j THEN v ELSE LogOutcome(activeBatch[c], j)
      BY <3>1, <3>3, OutcomeAppend DEF DbTypeOK
    <3>5. Held' = [Held EXCEPT ![c][k] = v]
      BY <3>3, <3>4, Zenon DEF Held
    <3>6. Store!Change(c, k, v)
      BY <3>2, <3>5, Zenon DEF Store!Change, Held
    <3> QED
      BY <3>6 DEF Store!Next
  <2>2. CASE ~ inTxn[c]
    <3>1. activeBatch[c] = <<>> /\ UNCHANGED <<activeBatch, answer>>
      BY <1>2, <2>2, Zenon DEF Write, DbTypeOK
    <3>2. CASE UNCHANGED disk
      BY <3>1, <3>2, Zenon DEF Held
    <3>3. CASE disk' = [disk EXCEPT ![k] = v]
      <4>1. [j \in Key |-> LogOutcome(activeBatch[c], j)] = [j \in Key |-> Untouched]
        BY <3>1, OutcomeEmpty, Zenon
      <4>2. Store!Change(c, k, v)
        BY <3>1, <3>3, <4>1, Zenon DEF Store!Change
      <4> QED
        BY <4>2 DEF Store!Next
    <3> QED
      BY <1>2, <2>2, <3>2, <3>3, Zenon DEF Write
  <2> QED
    BY <2>1, <2>2
<1>3. ASSUME NEW C \in SUBSET User, UNCHANGED <<disk, answer>>,
             \A d \in User : activeBatch'[d] = IF d \in C THEN <<>> ELSE activeBatch[d]
      PROVE  Store!Next
  <2>1. Held' = [c \in User |-> IF c \in C THEN [k \in Key |-> Untouched]
                                           ELSE Held[c]]
    <3>1. \A d \in User : [k \in Key |-> LogOutcome(activeBatch'[d], k)]
                = IF d \in C THEN [k \in Key |-> Untouched]
                  ELSE [k \in Key |-> LogOutcome(activeBatch[d], k)]
      BY <1>3, OutcomeEmpty, Zenon
    <3>2. \A d \in User : Held[d] = [k \in Key |-> LogOutcome(activeBatch[d], k)]
      BY Zenon DEF Held
    <3>3. Held' = [d \in User |-> [k \in Key |-> LogOutcome(activeBatch'[d], k)]]
      BY Zenon DEF Held
    <3>4. \A d \in User : [k \in Key |-> LogOutcome(activeBatch'[d], k)]
                = IF d \in C THEN [k \in Key |-> Untouched] ELSE Held[d]
      BY <3>1, <3>2, ZenonT(60)
    <3> QED
      BY <3>3, <3>4, ZenonT(60)
  <2>2. Store!Forget(C)
    BY <1>3, <2>1, ZenonT(60) DEF Store!Forget, Held
  <2> QED
    BY <2>2, ZenonT(60) DEF Store!Next
<1>4. ASSUME NEW c \in User, TxnBegin(c)
      PROVE  Store!Next
  <2>1. \A d \in User : activeBatch'[d] = IF d \in {c} THEN <<>> ELSE activeBatch[d]
    BY <1>4 DEF TxnBegin, DbTypeOK
  <2> QED
    BY <1>3, <1>4, <2>1, Zenon DEF TxnBegin
<1>5. ASSUME NEW c \in User, TxnCommit(c)
      PROVE  Store!Next
  <2>0. \A d \in User : activeBatch'[d] = IF d \in {c} THEN <<>> ELSE activeBatch[d]
    BY <1>5 DEF TxnCommit, DbTypeOK
  <2>1. CASE UNCHANGED disk
    BY <1>3, <1>5, <2>0, <2>1, Zenon DEF TxnCommit
  <2>2. CASE disk' = Applied(activeBatch[c])
    <3>1. disk' = [k \in Key |-> Store!Seen(c, k)]
      BY <2>2 DEF Applied, Store!Seen
    <3>2. Held' = [Held EXCEPT ![c] = [k \in Key |-> Untouched]]
      <4>1. \A d \in User : [k \in Key |-> LogOutcome(activeBatch'[d], k)]
                  = IF d = c THEN [k \in Key |-> Untouched]
                    ELSE [k \in Key |-> LogOutcome(activeBatch[d], k)]
        BY <2>0, OutcomeEmpty, Zenon
      <4> QED
        BY <4>1, Zenon DEF Held
    <3>3. Store!Commit(c)
      BY <1>5, <3>1, <3>2 DEF TxnCommit, Store!Commit, Held
    <3> QED
      BY <3>3 DEF Store!Next
  <2> QED
    BY <1>5, <2>1, <2>2 DEF TxnCommit
<1>6. ASSUME NEW c \in User, TxnAbort(c)
      PROVE  Store!Next
  <2>1. \A d \in User : activeBatch'[d] = IF d \in {c} THEN <<>> ELSE activeBatch[d]
    BY <1>6 DEF TxnAbort, DbTypeOK
  <2> QED
    BY <1>3, <1>6, <2>1, Zenon DEF TxnAbort
<1>7. CASE Reopen
  BY <1>3, <1>7 DEF Reopen
<1>8. CASE UNCHANGED dbVars
  BY <1>8 DEF dbVars, Held
<1> QED
  BY <1>1, <1>2, <1>4, <1>5, <1>6, <1>7, <1>8, Zenon DEF DbNext

\* CTxDB implements the store that the code above it assumes: own changes are
\* seen in a transaction, by its object only, and are committed as a whole.
THEOREM ImplementsStore == DbSpec => ActsAsStore
<1>1. DbInit => Store!Init
  BY OutcomeEmpty DEF DbInit, Store!Init
<1>2. DbTypeOK /\ [DbNext]_dbVars
        => [Store!Next]_<<disk, [c \in User |->
                [k \in Key |-> LogOutcome(activeBatch[c], k)]], answer>>
  BY DbStoreStep DEF Held
<1> QED
  BY <1>1, <1>2, DbTypeCorrect, PTL DEF DbSpec, ActsAsStore, Store!Spec

=============================================================================
