------------------------------- MODULE MCBack -------------------------------
(* An instance of Back for TLC.                                             *)
EXTENDS Back, TLC

\* Parcels leave the second shop; the environment names no pickup point.
SecondShop == [o \in Parcels |-> "store"]
NoPickup == [area |-> "-", contact |-> FALSE, coords |-> FALSE]
TwoPickups ==
    {[area |-> "a", contact |-> TRUE, coords |-> TRUE],
     [area |-> "b", contact |-> TRUE, coords |-> FALSE]}

\* One number written in two ways.
TwoForms == {[prefix |-> "62", rest |-> "812"], [prefix |-> "0", rest |-> "812"]}
DigitsOf == "812" :> 10
OneAdmin == <<[prefix |-> "62", rest |-> "812"]>>

\* Earlier orders of each kind, and whose the orders are.  A member's page reads
\* as many rows as there are earlier ones.
OldRows ==
    "e0" :> [source |-> "home", st |-> "completed", ecom |-> "completed", at |-> 0, paid |-> 1, total |-> 2, ship |-> 1,
             cost |-> 0, pays |-> [m \in Methods |-> 0]]
    @@ "p0" :> [source |-> "pos", st |-> "completed", ecom |-> "", at |-> 1, paid |-> -1, total |-> 2, ship |-> 0,
                cost |-> 1, pays |-> [m \in Methods |-> IF m = Online THEN 0 ELSE 3]]
    @@ "p1" :> [source |-> "pos", st |-> "completed", ecom |-> "", at |-> 0, paid |-> -1, total |-> 1, ship |-> 0,
                cost |-> 1, pays |-> [m \in Methods |-> IF m = Online THEN 1 ELSE 0]]
BuyerOf == "e0" :> "c2" @@ "p0" :> "c1" @@ "p1" :> "c1" @@ "o" :> "c1"

\* A bound: a complaint is opened again or a statement is lost, not both.
OneMishap == reopened + lostMails <= 1

Alike == Permutations(Slots) \cup Permutations(Complaints)
=============================================================================
