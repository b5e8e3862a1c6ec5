------------------------------- MODULE XNodes -------------------------------
(***************************************************************************)
(* The list of Xnodes (CXNodeMan). Entries come with "dsee" messages or    *)
(* by RPC, "dseep" pings keep them alive, and ThreadCheckXNodeEnginePool   *)
(* checks them and erases the silent ones.                                 *)
(*                                                                         *)
(* Find gives the message handler a pointer into the vector and releases   *)
(* CXNodeMan::cs, so the check thread erases entries, and an RPC thread    *)
(* adds some, between the look-up, the tests and the writes of a message.  *)
(* call.at is the position the pointer stands for. CXNode::Check does      *)
(* nothing when another thread holds cs_main.                              *)
(*                                                                         *)
(* Messages are handled, and the thread works, only while IsXNodeSynced.   *)
(* That asks for a blockchain that is up to date and for one entry that    *)
(* CountEnabled counts. Two threads ask at once and share the counter      *)
(* RequestedXNodeSyncAttempt, so that the one may get away with no entry   *)
(* when the other resets it; the same when the blockchain gets up to date  *)
(* between the two calls. Hence only the blockchain is a guard here, and   *)
(* the count of entries is in the fairness.                                *)
(*                                                                         *)
(* Times are kept as ages: age is GetAdjustedTime() - lastTimeSeen, up to  *)
(* REMOVAL, or Ahead for a time in the future, and ping is the age of      *)
(* lastDseep, up to PING. A handler takes far less than a unit of time.    *)
(* key is the Xnode whose pubkey2 and address the entry holds; the pubkey  *)
(* that must own the collateral never changes. The fields of an entry are  *)
(* written in one step.                                                    *)
(***************************************************************************)
EXTENDS Integers, Sequences, FiniteSets

CONSTANTS
    Vin,            \* collateral inputs
    MaxSig,         \* registrations of a collateral, by sigTime
    MIN_DSEE,       \* XNODE_MIN_DSEE_SECONDS
    MIN_DSEEP,      \* XNODE_MIN_DSEEP_SECONDS
    PING,           \* the age at which a ping is refused, 60 minutes
    EXPIRATION,     \* XNODE_EXPIRATION_SECONDS
    REMOVAL         \* XNODE_REMOVAL_SECONDS

ASSUME TimesAssumption ==
    /\ IsFiniteSet(Vin)
    /\ MaxSig \in Nat \ {0}
    /\ {MIN_DSEE, MIN_DSEEP, PING, EXPIRATION, REMOVAL} \subseteq Nat
    /\ 0 < MIN_DSEE /\ MIN_DSEE <= MIN_DSEEP /\ MIN_DSEEP <= PING
    /\ PING <= EXPIRATION /\ EXPIRATION < REMOVAL

VARIABLES
    vXNodes,        \* the vector of entries
    call,           \* the message being handled
    sync            \* of IsBlockchainSynced: "no", "yes", or "slept"

xnodeVars == <<vXNodes, call, sync>>

Ahead == -1
Ages == Ahead..REMOVAL
States == {"ENABLED", "EXPIRED", "REMOVE"}
Entry == [vin : Vin, key : Vin, sigTime : 1..MaxSig, age : Ages,
          ping : (-PING)..PING, activeState : States]

\* The place of an entry in memory that a growing vector has left.
Freed == Cardinality(Vin) + 1
NoMessage == [op |-> "idle"]
\* What a message says is chosen where the handler first looks at it: until then
\* sigTime is 0, and sent, the age of a ping's sigTime, PING. lost is history: the
\* entry that Find found has been erased.
Dsee == [op : {"dsee", "update", "seen", "write"}, vin : Vin, at : 0..Freed,
         sigTime : 0..MaxSig, lost : BOOLEAN]
Dseep == [op : {"dseep", "ping"}, vin : Vin, at : 1..Freed, sent : (-PING)..PING]

XNodeInit ==
    /\ vXNodes = <<>>
    /\ call = NoMessage
    /\ sync = "no"

-----------------------------------------------------------------------------
(* Entries.                                                                *)

Listed(v) == \E i \in DOMAIN vXNodes : vXNodes[i].vin = v

\* CXNodeMan::Find: 0 for NULL.
Find(v) ==
    IF Listed(v) THEN CHOOSE i \in DOMAIN vXNodes : vXNodes[i].vin = v ELSE 0

UpdatedWithin(e, seconds) == e.age < seconds

\* For Status: an expired entry stays expired.
StatusSticky(e) ==
    IF ~ UpdatedWithin(e, REMOVAL) THEN "REMOVE"
    ELSE IF e.activeState = "EXPIRED" \/ ~ UpdatedWithin(e, EXPIRATION)
         THEN "EXPIRED" ELSE "ENABLED"

\* For Status: expiration is looked at before removal.
StatusExpiredFirst(e) ==
    IF ~ UpdatedWithin(e, EXPIRATION) THEN "EXPIRED"
    ELSE IF ~ UpdatedWithin(e, REMOVAL) THEN "REMOVE" ELSE "ENABLED"

\* What CXNode::Check makes of an entry when it gets cs_main.
Status(e) ==
    IF ~ UpdatedWithin(e, REMOVAL) THEN "REMOVE"
    ELSE IF ~ UpdatedWithin(e, EXPIRATION) THEN "EXPIRED" ELSE "ENABLED"

Checked(e) == [e EXCEPT !.activeState = Status(e)]

\* The i-th entry once Check has come to those of S; for the others cs_main
\* was taken.
CheckedAt(i, S) == IF i \in S THEN Checked(vXNodes[i]) ELSE vXNodes[i]

\* For Add: whether the collateral is listed is left to the caller's Find.
AddUnchecked(v, sig, age) ==
    Append(vXNodes, [vin |-> v, key |-> v, sigTime |-> sig, age |-> age,
                     ping |-> PING, activeState |-> "ENABLED"])

\* CXNodeMan::Add, under cs.
Add(v, sig, age) ==
    IF Listed(v) THEN vXNodes
    ELSE Append(vXNodes, [vin |-> v, key |-> v, sigTime |-> sig, age |-> age,
                          ping |-> PING, activeState |-> "ENABLED"])

-----------------------------------------------------------------------------
(* The message handler. Its pointer may dangle: Aimed says it does not.    *)

Aimed == call.at \in DOMAIN vXNodes
Target == vXNodes[call.at]

\* The entry pointed at becomes e.
WriteEntry(e) ==
    /\ vXNodes' = [vXNodes EXCEPT ![call.at] = e]
    /\ call' = NoMessage
    /\ UNCHANGED sync

\* "dsee", up to "search existing xnode list". What the tests before refuse, and
\* with count # -1 what is listed already, leaves no trace.
RecvDsee(v) ==
    /\ call = NoMessage /\ sync = "yes"
    /\ call' = [op |-> "dsee", vin |-> v, at |-> Find(v), sigTime |-> 0, lost |-> FALSE]
    /\ UNCHANGED <<vXNodes, sync>>

\* "add our xnode". seen is the age of lastUpdated, which is not compared with
\* the clock.
NewEntry ==
    /\ call.op = "dsee" /\ call.at = 0
    /\ \E sig \in 1..MaxSig, seen \in Ages : vXNodes' = Add(call.vin, sig, seen)
    /\ call' = NoMessage
    /\ UNCHANGED sync

\* cs_main is taken, the input is too new, the signature too old.
RefuseEntry ==
    /\ call.op = "dsee" /\ call.at = 0
    /\ call' = NoMessage
    /\ UNCHANGED <<vXNodes, sync>>

\* The tests on an entry that is listed already.
MatchDsee ==
    /\ call.op = "dsee" /\ Aimed
    /\ call' = IF Target.vin = call.vin /\ ~ UpdatedWithin(Target, MIN_DSEE)
               THEN [call EXCEPT !.op = "update"] ELSE NoMessage
    /\ UNCHANGED <<vXNodes, sync>>

UpdateLastSeen ==
    /\ call.op = "update" /\ Aimed
    /\ vXNodes' = [vXNodes EXCEPT ![call.at].age = 0]
    /\ call' = [call EXCEPT !.op = "seen"]
    /\ UNCHANGED sync

\* For Newer: an older registration replaces a newer one.
NewerAny(e, sig) == TRUE

\* "take the newest entry".
Newer(e, sig) == e.sigTime < sig

MatchSigTime ==
    /\ call.op = "seen" /\ Aimed
    /\ \E sig \in 1..MaxSig :
            call' = IF Newer(Target, sig)
                    THEN [call EXCEPT !.op = "write", !.sigTime = sig] ELSE NoMessage
    /\ UNCHANGED <<vXNodes, sync>>

\* The newest registration, with a Check.
UpdateEntry ==
    /\ call.op = "write" /\ Aimed
    /\ LET taken == [Target EXCEPT !.key = call.vin, !.sigTime = call.sigTime]
       IN  \E e \in {taken, Checked(taken)} : WriteEntry(e)

\* "dseep", up to the pointer. Without an entry the peer is asked for it.
RecvDseep(v) ==
    /\ call = NoMessage /\ sync = "yes" /\ Listed(v)
    /\ call' = [op |-> "dseep", vin |-> v, at |-> Find(v), sent |-> PING]
    /\ UNCHANGED <<vXNodes, sync>>

\* "take this only if it's newer", and the signature. A ping may be signed up to
\* an hour ahead of the clock.
MatchDseep ==
    /\ call.op = "dseep" /\ Aimed
    /\ \E sent \in (-PING)..(PING - 1) :
            call' = IF Target.ping > sent /\ Target.key = call.vin
                    THEN [call EXCEPT !.op = "ping", !.sent = sent] ELSE NoMessage
    /\ UNCHANGED <<vXNodes, sync>>

\* lastDseep, and for a stop Disable, else UpdateLastSeen with a Check.
ApplyPing ==
    /\ call.op = "ping" /\ Aimed
    /\ LET pinged == [Target EXCEPT !.ping = call.sent]
           seen == [pinged EXCEPT !.age = 0]
       IN IF UpdatedWithin(Target, MIN_DSEEP) THEN WriteEntry(pinged)
          ELSE \E e \in {[pinged EXCEPT !.age = REMOVAL], seen, Checked(seen)} :
                  WriteEntry(e)

\* A pointer behind the vector, or into freed memory: the write is lost. The
\* process may also stop, see Restart.
WriteLost ==
    /\ call.op # "idle" /\ call.at # 0 /\ ~ Aimed
    /\ call' = NoMessage
    /\ UNCHANGED <<vXNodes, sync>>

-----------------------------------------------------------------------------
(* The other threads.                                                      *)

\* CountEnabled, in IsXNodeSynced and in RPCs, without a lock.
CountEnabled ==
    /\ \E S \in SUBSET DOMAIN vXNodes :
            vXNodes' = [i \in DOMAIN vXNodes |-> CheckedAt(i, S)]
    /\ UNCHANGED <<call, sync>>

\* "remove inactive", once Check has come to the entries S.
Remaining(S) ==
    LET kept[i \in 0..Len(vXNodes)] ==
            IF i = 0 THEN <<>>
            ELSE LET e == CheckedAt(i, S)
                 IN  IF e.activeState = "REMOVE" THEN kept[i - 1]
                                                ELSE Append(kept[i - 1], e)
    IN  kept[Len(vXNodes)]

\* CheckAndRemove, every minute while IsXNodeSynced. It holds cs, which neither
\* the handler's writes nor CountEnabled take: what they do between its Check
\* and its erasing is as if they did it before, with S empty here.
CheckAndRemove(S) ==
    /\ sync = "yes"
    /\ vXNodes' = Remaining(S)
    /\ call' = IF /\ call.op \in {"dsee", "update", "seen", "write"} /\ call.at # 0
                  /\ \A i \in DOMAIN vXNodes' : vXNodes'[i].vin # call.vin
               THEN [call EXCEPT !.lost = TRUE] ELSE call
    /\ UNCHANGED sync

\* CActiveXNode::Register by RPC, with the time at which it began. push_back may
\* move the vector away from under the message handler.
Register(v, sig) ==
    /\ vXNodes' = Add(v, sig, 0)
    /\ \/ UNCHANGED <<call, sync>>
       \/ /\ call.op # "idle" /\ call.at # 0 /\ vXNodes' # vXNodes
          /\ call' = [call EXCEPT !.at = Freed]
    /\ UNCHANGED sync

Capped(n, max) == IF n < max THEN n ELSE max

\* What n units of time make of an age. One in the future may have come.
AgedBy(age, n) == IF age = Ahead THEN Ahead..(n - 1) ELSE {Capped(age + n, REMOVAL)}
Pass(n) ==
    \E as \in [DOMAIN vXNodes -> Ages] :
        /\ \A i \in DOMAIN vXNodes : as[i] \in AgedBy(vXNodes[i].age, n)
        /\ vXNodes' = [i \in DOMAIN vXNodes |->
                          [vXNodes[i] EXCEPT !.age = as[i], !.ping = Capped(@ + n, PING)]]

Tick ==
    /\ call = NoMessage
    /\ Pass(1)
    /\ UNCHANGED <<call, sync>>

\* IsBlockchainSynced finds a recent best block.
BlockchainSynced ==
    /\ sync = "no"
    /\ sync' = "yes"
    /\ UNCHANGED <<vXNodes, call>>

\* "client was in sleep mode": the time of the last call is not updated, so that
\* every later call finds the same gap.
Sleep ==
    /\ call = NoMessage
    /\ Pass(PING)
    /\ sync' = "slept"
    /\ UNCHANGED call

\* An orderly stop dumps the list with all that is in it, and the next start
\* reads it and calls CheckAndRemove, when cs_main is free. A message being
\* handled is dropped.
Reload ==
    /\ vXNodes' = Remaining(DOMAIN vXNodes)
    /\ call' = NoMessage /\ sync' = "no"

\* The process stops and finds no xnodelist.dat that it can read. (An old one
\* would bring back an old list, aged.)
Restart == vXNodes' = <<>> /\ call' = NoMessage /\ sync' = "no"

MessageStep ==
    \/ NewEntry \/ RefuseEntry
    \/ MatchDsee \/ UpdateLastSeen \/ MatchSigTime \/ UpdateEntry
    \/ MatchDseep \/ ApplyPing \/ WriteLost

XNodeNext ==
    \/ \E v \in Vin : RecvDsee(v) \/ RecvDseep(v)
    \/ MessageStep
    \/ CountEnabled
    \/ \E S \in SUBSET DOMAIN vXNodes : CheckAndRemove(S)
    \/ \E v \in Vin, sig \in 1..MaxSig : Register(v, sig)
    \/ Tick \/ BlockchainSynced \/ Sleep
    \/ Reload \/ Restart

\* What CountEnabled will count, once it has got cs_main.
SomeHeard == \E i \in DOMAIN vXNodes : UpdatedWithin(vXNodes[i], EXPIRATION)

\* A handler that has begun ends, time passes, and CheckAndRemove runs every
\* minute as long as there is an entry to count. cs_main is not taken each time
\* it does.
Fairness ==
    /\ WF_xnodeVars(MessageStep)
    /\ SF_xnodeVars(Tick)
    /\ WF_xnodeVars(SomeHeard /\ CheckAndRemove(DOMAIN vXNodes))

XNodeSpec == XNodeInit /\ [][XNodeNext]_xnodeVars /\ Fairness

-----------------------------------------------------------------------------
(* Properties.                                                             *)

\* Entries are well formed, and a "dseep" has a pointer that is not NULL.
XNodeTypeOK ==
    /\ vXNodes \in Seq(Entry)
    /\ call \in {NoMessage} \cup Dsee \cup Dseep
    /\ sync \in {"no", "yes", "slept"}

\* A collateral has one entry, whoever adds it while the handler has found
\* none: Add looks again under the lock. A message never comes to use NULL.
OneEntryPerCollateral ==
    /\ XNodeTypeOK
    /\ \A i, j \in DOMAIN vXNodes : vXNodes[i].vin = vXNodes[j].vin => i = j

\* The entry of v, for a v that is listed.
EntryOf(v) == vXNodes[Find(v)]

\* The handler writes to another entry than the one that Find found.
Astray ==
    /\ call.op \in {"write", "ping"} /\ Aimed
    /\ Target.vin # call.vin \/ (call.op = "write" /\ call.lost)

\* While an entry stays, its registration and its last ping only get newer,
\* in whatever order messages come and whatever an RPC registers or the check
\* thread erases between the test ("take the newest entry") and the write, except
\* where the write goes to another entry than the one found.
NewestKept ==
    [][Tick \/ Sleep \/ (Astray /\ call' = NoMessage) \/
       \A v \in Vin : Listed(v) /\ Listed(v)' =>
            /\ EntryOf(v)'.sigTime >= EntryOf(v).sigTime
            /\ EntryOf(v)'.ping <= EntryOf(v).ping]_xnodeVars

Refreshed(v) == Listed(v) /\ Listed(v)' /\ EntryOf(v)'.age < EntryOf(v).age

\* An Xnode nothing refreshes any more leaves the list, though Check finds
\* cs_main taken any number of times, as long as there are others to count, and
\* once the time has come that it was last seen at: a "dsee" of another node's
\* list may have put that in the future. The last ones stay: without them
\* IsXNodeSynced fails, and the list is not checked.
SilentLeave ==
    \A v \in Vin :
        <>[][~ Refreshed(v)]_xnodeVars /\ <>[](sync = "yes" /\ SomeHeard)
            => []<>(Listed(v) => EntryOf(v).age = Ahead)

\* An entry that has expired counts again once it has been heard of: it does not
\* stay heard of, listed and checked for ever without being enabled.
HeardCountAgain ==
    \A v \in Vin :
        []<>(Listed(v) /\ EntryOf(v).age < EXPIRATION /\ sync = "yes"
                => EntryOf(v).activeState = "ENABLED")

=============================================================================
