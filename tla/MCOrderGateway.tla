--------------------------- MODULE MCOrderGateway ---------------------------
(* OrderGateway for TLC: sockets and clients can be exchanged.             *)
EXTENDS OrderGateway, TLC

Symmetry == Permutations(Sockets) \cup Permutations(Clients)
=============================================================================
