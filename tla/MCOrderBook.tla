---------------------------- MODULE MCOrderBook ----------------------------
(* Instances of OrderBook for TLC. *)
EXTENDS OrderBookInvariant, TLC

Traders == Permutations(Accounts)

NoSwitches == {}
ExecuteSwitches == {<<"executeOrder", type>> : type \in CreatableTypes}
=============================================================================
