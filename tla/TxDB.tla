------------------------------- MODULE TxDB --------------------------------
(***************************************************************************)
(* CTxDB of database/txdb-leveldb: short-lived objects around one global   *)
(* LevelDB. An object in a transaction collects its writes and deletes in  *)
(* activeBatch, a log that reads scan from its start before they go to     *)
(* disk. ChainState has the abstraction this justifies: db for what is     *)
(* stored, batch for what the object with the transaction reads.           *)
(***************************************************************************)
EXTENDS Naturals, Sequences

CONSTANTS
    User,       \* the CTxDB objects
    Key, Value,
    Absent,     \* no value; in a batch, a delete
    Untouched,
    MaxBatch    \* bound on the length of a batch

VARIABLES
    disk,           \* the LevelDB
    inTxn,          \* per object, whether activeBatch is not null
    activeBatch,    \* per object, the log of its changes
    answer          \* what the last Read returned

dbVars == <<disk, inTxn, activeBatch, answer>>

ASSUME StoreAssumption ==
    /\ Absent \notin Value /\ Untouched \notin Value \cup {Absent}
    /\ MaxBatch \in Nat

BatchEntry == [key : Key, value : Value \cup {Absent}]

\* For LastFor: the scan stops at the first entry it finds.
FirstFor(s, k) ==
    CHOOSE i \in DOMAIN s :
        s[i].key = k /\ \A j \in DOMAIN s : s[j].key = k => i <= j

\* CBatchScanner: every later entry of the key overwrites what was found.
LastFor(s, k) ==
    CHOOSE i \in DOMAIN s :
        s[i].key = k /\ \A j \in DOMAIN s : s[j].key = k => j <= i
Found(s, k) == \E i \in DOMAIN s : s[i].key = k
ScanBatch(s, k) == IF Found(s, k) THEN s[LastFor(s, k)].value ELSE Untouched

\* CTxDB::Read.
ReadValue(c, k) ==
    IF inTxn[c] /\ Found(activeBatch[c], k)
    THEN ScanBatch(activeBatch[c], k) ELSE disk[k]

\* What the log s makes of key k when its entries are applied in order.
LogOutcome(s, k) ==
    LET I == {i \in DOMAIN s : s[i].key = k} IN
    IF I = {} THEN Untouched ELSE s[CHOOSE i \in I : \A j \in I : j <= i].value

\* leveldb::DB::Write of a batch.
Applied(s) ==
    [k \in Key |-> IF LogOutcome(s, k) # Untouched THEN LogOutcome(s, k)
                                                   ELSE disk[k]]

DbInit ==
    /\ disk = [k \in Key |-> Absent]
    /\ inTxn = [c \in User |-> FALSE]
    /\ activeBatch = [c \in User |-> <<>>]
    /\ answer = <<>>

Read(c, k) ==
    /\ answer' = <<c, k, ReadValue(c, k)>>
    /\ UNCHANGED <<disk, inTxn, activeBatch>>

\* The assertion of TxnBegin is its guard.
TxnBegin(c) ==
    /\ ~ inTxn[c]
    /\ inTxn' = [inTxn EXCEPT ![c] = TRUE]
    /\ activeBatch' = [activeBatch EXCEPT ![c] = <<>>]
    /\ UNCHANGED <<disk, answer>>

\* CTxDB::Write, and CTxDB::Erase for Absent: outside a transaction the change
\* is made at once, or fails.
Write(c, k, v) ==
    /\ IF inTxn[c]
       THEN /\ Len(activeBatch[c]) < MaxBatch
            /\ activeBatch' = [activeBatch EXCEPT
                                  ![c] = Append(@, [key |-> k, value |-> v])]
            /\ UNCHANGED disk
       ELSE /\ disk' = [disk EXCEPT ![k] = v] \/ UNCHANGED disk
            /\ UNCHANGED activeBatch
    /\ UNCHANGED <<inTxn, answer>>

\* TxnCommit: the batch is gone even when the write of it fails.
TxnCommit(c) ==
    /\ inTxn[c]
    /\ disk' = Applied(activeBatch[c]) \/ UNCHANGED disk
    /\ inTxn' = [inTxn EXCEPT ![c] = FALSE]
    /\ activeBatch' = [activeBatch EXCEPT ![c] = <<>>]
    /\ UNCHANGED answer

\* TxnAbort, and the destructor.
TxnAbort(c) ==
    /\ inTxn' = [inTxn EXCEPT ![c] = FALSE]
    /\ activeBatch' = [activeBatch EXCEPT ![c] = <<>>]
    /\ UNCHANGED <<disk, answer>>

\* The process stops and starts again.
Reopen ==
    /\ inTxn' = [c \in User |-> FALSE]
    /\ activeBatch' = [c \in User |-> <<>>]
    /\ UNCHANGED <<disk, answer>>

DbNext ==
    \/ \E c \in User, k \in Key : Read(c, k)
    \/ \E c \in User, k \in Key, v \in Value \cup {Absent} : Write(c, k, v)
    \/ \E c \in User : TxnBegin(c) \/ TxnCommit(c) \/ TxnAbort(c)
    \/ Reopen

DbSpec == DbInit /\ [][DbNext]_dbVars

-----------------------------------------------------------------------------
(* Properties.                                                             *)

\* Each variable holds a value of its kind, and an object outside a transaction
\* has nothing in its log: TxnBegin never finds an older batch.
DbTypeOK ==
    /\ disk \in [Key -> Value \cup {Absent}]
    /\ inTxn \in [User -> BOOLEAN]
    /\ activeBatch \in [User -> Seq(BatchEntry)]
    /\ answer \in (User \X Key \X (Value \cup {Absent})) \cup {<<>>}
    /\ \A c \in User : ~ inTxn[c] => activeBatch[c] = <<>>

\* CTxDB with its log of changes is a shared map with private changes: reads in
\* a transaction see its own writes and deletes, no one else does, and TxnCommit
\* makes all of them or none.
Store == INSTANCE KeyValueStore WITH
            map <- disk,
            changes <- [c \in User |-> [k \in Key |-> LogOutcome(activeBatch[c], k)]]
ActsAsStore == Store!Spec

=============================================================================
