--------------------------- MODULE KeyValueStore ---------------------------
(***************************************************************************)
(* What the code above CTxDB assumes of it ("once a database transaction   *)
(* begins reads are consistent with it"): a map that several users share,  *)
(* each of whom may hold changes of their own, seen by no one else, which  *)
(* become part of the map together or not at all.                          *)
(***************************************************************************)
CONSTANTS User, Key, Value, Absent, Untouched

VARIABLES
    map,        \* what is stored
    changes,    \* per user, the changes not yet stored
    answer      \* what the last read returned

\* What user c reads: its own change of the key if there is one.
Seen(c, k) == IF changes[c][k] # Untouched THEN changes[c][k] ELSE map[k]

Init ==
    /\ map = [k \in Key |-> Absent]
    /\ changes = [c \in User |-> [k \in Key |-> Untouched]]
    /\ answer = <<>>

Read(c, k) ==
    /\ answer' = <<c, k, Seen(c, k)>>
    /\ UNCHANGED <<map, changes>>

\* A change, kept back or stored at once; Absent for a removal.
Change(c, k, v) ==
    /\ \/ /\ changes' = [changes EXCEPT ![c][k] = v]
          /\ UNCHANGED map
       \/ /\ changes[c] = [j \in Key |-> Untouched]
          /\ map' = [map EXCEPT ![k] = v]
          /\ UNCHANGED changes
    /\ UNCHANGED answer

\* The user's changes are stored, all of them, and the user has none left.
Commit(c) ==
    /\ map' = [k \in Key |-> Seen(c, k)]
    /\ changes' = [changes EXCEPT ![c] = [k \in Key |-> Untouched]]
    /\ UNCHANGED answer

\* The changes of some users are lost, all of each.
Forget(C) ==
    /\ changes' = [c \in User |-> IF c \in C THEN [k \in Key |-> Untouched]
                                             ELSE changes[c]]
    /\ UNCHANGED <<map, answer>>

Next ==
    \/ \E c \in User, k \in Key : Read(c, k)
    \/ \E c \in User, k \in Key, v \in Value \cup {Absent} : Change(c, k, v)
    \/ \E c \in User : Commit(c)
    \/ \E C \in SUBSET User : Forget(C)

Spec == Init /\ [][Next]_<<map, changes, answer>>

=============================================================================
