----------------------------- MODULE MCPosSale -----------------------------
(* Instances of PosSale for TLC.                                            *)
EXTENDS PosSale

\* "cakes" earns a point; "mugged" redeems one for a mug beside a cash line.
\* The till's total is the cash part.
Cakes   == [units |-> 2, gift |-> "none", points |-> 0, cash |-> 2, total |-> 2,
            reseller |-> FALSE]
Mugged  == [units |-> 1, gift |-> "mug", points |-> 1, cash |-> 1, total |-> 1,
            reseller |-> TRUE]
Single  == [Cakes EXCEPT !.units = 1]

CartsPlain  == [t \in {"a", "b"} |-> IF t = "a" THEN Cakes ELSE Single]

\* Two tills want the same points, and three units where there are two.
CartsRival  == [t \in {"a", "b"} |->
                  IF t = "a" THEN [Mugged EXCEPT !.units = 2, !.cash = 2, !.total = 2, !.reseller = FALSE]
                  ELSE Mugged]

\* Bound of the serial run: orders there are, whoever made them, and writes
\* that went missing, together.
LostWrites ==
    Cardinality(missed) + (IF skipped THEN 1 ELSE 0)
      + Cardinality({i \in OrderIds : status[i] \in {"cancelled", "refunded"} /\ out[i] = 1})
FewOrders == Cardinality({i \in OrderIds : status[i] # "none"}) + LostWrites <= 3

MCBatches == <<1, 2>>
=============================================================================
