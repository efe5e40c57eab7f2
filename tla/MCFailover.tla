----------------------------- MODULE MCFailover -----------------------------
(* Small instances of Failover for TLC. *)
EXTENDS FailoverInv

CONSTANTS n1, n2, d1

OneNic == {n1}
TwoNics == {n1, n2}
OneDisk == {d1}
NoDisk == {}
=============================================================================
