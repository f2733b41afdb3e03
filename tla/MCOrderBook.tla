---------------------------- MODULE MCOrderBook ----------------------------
(* Model-checking instances of OrderBook. *)
EXTENDS OrderBook, TLC

\* No action tells client order ids apart.
IdSymmetry == Permutations(OrderIds)
=============================================================================
