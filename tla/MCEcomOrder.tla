---------------------------- MODULE MCEcomOrder ----------------------------
(* Instances of EcomOrder for TLC.  Order "h" is of the home store and "s"  *)
(* of the second store: one checkout, one payment.  Order "r" is a rival    *)
(* checkout that wants the same flour.                                      *)
EXTENDS EcomOrder

MCProducts == {"sugar", "flour"}

\* Two stores and a rival.
OrdersRival == {"h", "s", "r"}
GroupRival == [o \in OrdersRival |-> IF o = "r" THEN "g2" ELSE "g1"]
QtyRival ==
    [h |-> [sugar |-> 1, flour |-> 0],
     s |-> [sugar |-> 0, flour |-> 2],
     r |-> [sugar |-> 0, flour |-> 2]]

\* One checkout over two stores.
OrdersPair == {"h", "s"}
GroupPair == [o \in OrdersPair |-> "g1"]
QtyPair == [o \in OrdersPair |-> QtyRival[o]]

\* One order.
OrdersOne == {"h"}
GroupOne == [o \in OrdersOne |-> "g1"]
QtyOne == [o \in OrdersOne |-> QtyRival[o]]

\* Flour enough for one of the two orders that want it, or for one and a half.
StockScarce == [p \in MCProducts |-> IF p = "flour" THEN 3 ELSE 1]

\* Bound of the runs about payment: what happens after an order leaves the
\* shop is not explored.
PaymentPhase ==
    \A o \in Orders : ecom[o] \notin {"processing", "shipped", "delivered", "completed"}

\* Bound of the run with a rival: it only checks out.
RivalOnlyChecksOut ==
    /\ PaymentPhase
    /\ ecom["r"] \in {"none", "pending_payment"}
    /\ "r" \notin aged \union proof
    /\ links \subseteq {<<"g1", "first">>}
    /\ \A s \in Slots : req[s].op # "checkout" => "r" \notin req[s].orders
=============================================================================
