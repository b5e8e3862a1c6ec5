----------------------------- MODULE MCAddrMan -----------------------------
(* Four hosts, one of them with two ports, told of by two sources, each of  *)
(* which has its bucket.                                                    *)
EXTENDS AddrMan, TLC

CONSTANTS host1, host2, host3, port1, port2

MCService == {host1, host2, host3, port1, port2}
MCHost(s) == IF s \in {port1, port2} THEN {port1, port2} ELSE {s}
MCNewBucket(h, src) == src
MCTriedBucket(s) == 1
Symmetry == Permutations({host1, host2, host3}) \cup Permutations({port1, port2})

=============================================================================
