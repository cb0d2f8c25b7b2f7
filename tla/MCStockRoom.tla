---------------------------- MODULE MCStockRoom ----------------------------
(* One product, its shelf a few pieces deep; handlers are interchangeable. *)
EXTENDS StockRoom, TLC

Alike == Permutations(Slots)
=============================================================================
