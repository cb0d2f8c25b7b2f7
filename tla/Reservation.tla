----------------------------- MODULE Reservation -----------------------------
(***************************************************************************)
(* What a customer and the shop expect of reserved goods, whatever the     *)
(* statuses in between are called: the orders of one checkout get their    *)
(* goods together or not at all, and each order's goods go back to the     *)
(* shelf at most once, all of them, and only if it had them.               *)
(***************************************************************************)
EXTENDS Integers, FiniteSetsExt

CONSTANTS
    Orders,
    Products,
    Qty,          \* [Orders -> [Products -> Nat]]
    InitStock     \* [Products -> Nat]

VARIABLES
    avail,        \* goods nobody holds
    hold          \* per order, "free", "held" or "released"

holdVars == <<avail, hold>>

Init ==
    /\ avail = InitStock
    /\ hold = [o \in Orders |-> "free"]

Needs(S, p) == MapThenSumSet(LAMBDA o : Qty[o][p], S)

Move(S, from, to) ==
    /\ \A o \in S : hold[o] = from
    /\ hold' = [o \in Orders |-> IF o \in S THEN to ELSE hold[o]]

Reserve(S) ==
    /\ Move(S, "free", "held")
    /\ \A p \in Products : Needs(S, p) <= avail[p]
    /\ avail' = [p \in Products |-> avail[p] - Needs(S, p)]

Release(S) ==
    /\ Move(S, "held", "released")
    /\ avail' = [p \in Products |-> avail[p] + Needs(S, p)]

Next == \E S \in SUBSET Orders : Reserve(S) \/ Release(S)

Spec == Init /\ [][Next]_holdVars
=============================================================================
