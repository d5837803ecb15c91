--------------------------- MODULE MCWifiApNames ---------------------------
(* WifiApNames for TLC: the addresses, and the interfaces, can be exchanged. *)
EXTENDS WifiApNames, TLC

Symmetry == Permutations(Address) \cup Permutations(Present)
=============================================================================
