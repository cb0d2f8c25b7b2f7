------------------------------- MODULE PriceLog -------------------------------
(***************************************************************************)
(* The price history of a product and the history of a bulk tier: rows that *)
(* say since when a price was in force.  A change is saved first; then, on  *)
(* its own and with errors only logged, the open rows are closed and a new  *)
(* one is written.  No transaction holds the three steps together.          *)
(*                                                                         *)
(* The product page is saved whole, prices included, by three handlers of   *)
(* which only Update writes the history.                                    *)
(*                                                                         *)
(* A definition X_Y just above X is X with a bug Y this code could have; it *)
(* is used by no other, only to test the properties.                       *)
(***************************************************************************)
EXTENDS Integers, Sequences, FiniteSets, SequencesExt

CONSTANTS
    Slots,         \* handlers running at one time
    Tags,          \* prices, positive; 0 is none
    MaxMissed,     \* bound: rows whose closing failed
    MaxChanges     \* bound: handlers started

VARIABLES
    priced,     \* per kind: the price in the tables
    opened,     \* per kind: its rows with status active
    newest,     \* per kind: the price in its newest row
    missed,     \* per kind: how often closing its rows has failed
    writer,     \* what each handler has read and has still to log
    astray,     \* kinds whose last change overlapped another or was not logged
    changes

vars == <<priced, opened, newest, missed, writer, astray, changes>>

\* The purchase price is treated as the regular one.  The tier has one history,
\* its own id's, and is created once.
OfProduct == {"regular", "member"}
Kinds == OfProduct \cup {"tier"}
Gone == -1
NoTodo == <<>>
Idle == [op |-> "idle", read |-> [k \in Kinds |-> 0], todo |-> NoTodo, closed |-> FALSE, alone |-> FALSE]

Init ==
    /\ priced = [k \in Kinds |-> 0] /\ newest = [k \in Kinds |-> 0]
    /\ opened = [k \in Kinds |-> 0] /\ missed = [k \in Kinds |-> 0]
    /\ writer = [s \in Slots |-> Idle]
    /\ astray = {} /\ changes = 0

\* A handler is alone while no other runs beside it; the ghost the properties
\* speak with.
Started(s, op, read, todo) ==
    /\ writer[s] = Idle
    /\ changes < MaxChanges /\ changes' = changes + 1
    /\ writer' = [t \in Slots |->
           IF t = s THEN [op |-> op, read |-> read, todo |-> todo, closed |-> FALSE,
                          alone |-> \A u \in Slots \ {s} : writer[u] = Idle]
           ELSE [writer[t] EXCEPT !.alone = FALSE]]

\* Handler s goes on to log the kinds todo, and is done if there is none.
GoOn(s, op, read, todo, closed) ==
    writer' = [writer EXCEPT ![s] =
        IF todo = NoTodo THEN Idle
        ELSE [@ EXCEPT !.op = op, !.read = read, !.todo = todo, !.closed = closed]]
Touched(s, ks) == astray' = IF writer[s].alone THEN astray ELSE astray \cup ks

Rows == <<opened, newest, missed>>

-----------------------------------------------------------------------------
(* The product page.                                                       *)

Moved_PricedOnly(old, new, k) == new[k] # old[k] /\ new[k] # 0
Moved(old, new, k) == new[k] # old[k]
IfMoved(old, new, k) == IF Moved(old, new, k) THEN <<k>> ELSE NoTodo
ToLog(old, new) == IfMoved(old, new, "regular") \o IfMoved(old, new, "member")
Prices == {p \in [Kinds -> Tags \cup {0}] : p["regular"] # 0 /\ p["tier"] = 0}

Create(s, new) ==
    /\ priced["regular"] = 0
    /\ priced' = new
    /\ Started(s, "log", new, ToLog(priced, new))
    /\ UNCHANGED <<Rows, astray>>

BeginUpdate(s) ==
    /\ priced["regular"] # 0
    /\ Started(s, "update", priced, NoTodo)
    /\ UNCHANGED <<priced, Rows, astray>>
SaveUpdate(s, new) ==
    /\ writer[s].op = "update"
    /\ priced' = [k \in Kinds |-> IF k \in OfProduct THEN new[k] ELSE priced[k]]
    /\ GoOn(s, "log", new, ToLog(writer[s].read, new), FALSE)
    /\ Touched(s, OfProduct)
    /\ UNCHANGED <<Rows, changes>>

\* ToggleActive and SetRedeemable: a flag changes, the prices are saved as read.
BeginToggle(s) ==
    /\ priced["regular"] # 0
    /\ Started(s, "toggle", priced, NoTodo)
    /\ UNCHANGED <<priced, Rows, astray>>
SaveToggle(s) ==
    /\ writer[s].op = "toggle"
    /\ priced' = [k \in Kinds |-> IF k \in OfProduct THEN writer[s].read[k] ELSE priced[k]]
    /\ writer' = [writer EXCEPT ![s] = Idle]
    /\ Touched(s, OfProduct)
    /\ UNCHANGED <<Rows, changes>>

-----------------------------------------------------------------------------
(* The bulk tier.  A new one has no row to close.                          *)

CreateTier(s, v) ==
    /\ priced["regular"] # 0 /\ priced["tier"] = 0
    /\ priced' = [priced EXCEPT !["tier"] = v]
    /\ Started(s, "created", [priced EXCEPT !["tier"] = v], NoTodo)
    /\ UNCHANGED <<Rows, astray>>

BeginUpdateTier(s) ==
    /\ priced["tier"] \in Tags
    /\ Started(s, "tier", priced, NoTodo)
    /\ UNCHANGED <<priced, Rows, astray>>
\* The UPDATE matches nothing once the tier is deleted, which nothing notices;
\* what is logged is the row as it is found afterwards, or as it was asked for.
SaveTier(s, v) ==
    /\ writer[s].op = "tier"
    /\ priced' = [priced EXCEPT !["tier"] = IF @ = Gone THEN Gone ELSE v]
    /\ writer' = [writer EXCEPT ![s].op = "refetch", ![s].read["tier"] = v]
    /\ Touched(s, {"tier"})
    /\ UNCHANGED <<Rows, changes>>
RefetchTier(s) ==
    /\ writer[s].op \in {"created", "refetch"}
    /\ GoOn(s, "log", IF priced["tier"] = Gone THEN writer[s].read ELSE priced, <<"tier">>,
            writer[s].op = "created")
    /\ UNCHANGED <<priced, Rows, astray, changes>>

\* The deletion is logged before it is done.
BeginDeleteTier(s) ==
    /\ priced["tier"] \in Tags
    /\ Started(s, "bury", priced, <<"tier">>)
    /\ UNCHANGED <<priced, Rows, astray>>
DeleteTier(s) ==
    /\ writer[s].op = "delete"
    /\ priced' = [priced EXCEPT !["tier"] = Gone]
    /\ writer' = [writer EXCEPT ![s] = Idle]
    /\ Touched(s, {"tier"})
    /\ UNCHANGED <<Rows, changes>>

-----------------------------------------------------------------------------
(* The history: close, then insert.  A failure of either is only logged.   *)

\* What is left after the first row to log.
Logged(s) ==
    IF writer[s].op = "bury"
    THEN writer' = [writer EXCEPT ![s].op = "delete", ![s].todo = NoTodo, ![s].closed = FALSE]
    ELSE GoOn(s, "log", writer[s].read, Tail(writer[s].todo), FALSE)
Closing(s, k) == writer[s].todo # NoTodo /\ k = Head(writer[s].todo) /\ ~writer[s].closed
Inserting(s, k) == writer[s].todo # NoTodo /\ k = Head(writer[s].todo) /\ writer[s].closed

CloseActive_RegularOnly(s, k) ==
    /\ Closing(s, k)
    /\ opened' = [opened EXCEPT !["regular"] = 0]
    /\ writer' = [writer EXCEPT ![s].closed = TRUE]
    /\ UNCHANGED <<priced, newest, missed, astray, changes>>
CloseActive(s, k) ==
    /\ Closing(s, k)
    /\ opened' = [opened EXCEPT ![k] = 0]
    /\ writer' = [writer EXCEPT ![s].closed = TRUE]
    /\ UNCHANGED <<priced, newest, missed, astray, changes>>
CloseFails(s, k) ==
    /\ Closing(s, k) /\ missed[k] < MaxMissed
    /\ missed' = [missed EXCEPT ![k] = @ + 1]
    /\ writer' = [writer EXCEPT ![s].closed = TRUE]
    /\ UNCHANGED <<priced, opened, newest, astray, changes>>

\* The row of a deleted tier is written closed.
InsertRow(s, k) ==
    /\ Inserting(s, k)
    /\ IF writer[s].op = "bury"
       THEN newest' = [newest EXCEPT ![k] = Gone] /\ UNCHANGED opened
       ELSE newest' = [newest EXCEPT ![k] = writer[s].read[k]] /\ opened' = [opened EXCEPT ![k] = @ + 1]
    /\ Logged(s)
    /\ astray' = IF writer[s].alone THEN astray \ {k} ELSE astray
    /\ UNCHANGED <<priced, missed, changes>>
InsertFails(s, k) ==
    /\ Inserting(s, k) /\ Logged(s)
    /\ astray' = astray \cup {k}
    /\ UNCHANGED <<priced, Rows, changes>>

\* A restart, or the save itself fails.
Abandon(s) ==
    /\ writer[s] # Idle
    /\ writer' = [writer EXCEPT ![s] = Idle]
    /\ astray' = astray \cup (IF writer[s].op \in {"created", "refetch", "delete"} THEN {"tier"} ELSE ToSet(writer[s].todo))
    /\ UNCHANGED <<priced, Rows, changes>>

Next ==
    \E s \in Slots :
        \/ \E new \in Prices : Create(s, new) \/ SaveUpdate(s, new)
        \/ BeginUpdate(s) \/ BeginToggle(s) \/ SaveToggle(s)
        \/ \E v \in Tags : CreateTier(s, v) \/ SaveTier(s, v)
        \/ BeginUpdateTier(s) \/ RefetchTier(s) \/ BeginDeleteTier(s) \/ DeleteTier(s)
        \/ \E k \in Kinds :
              CloseActive(s, k) \/ CloseFails(s, k) \/ InsertRow(s, k) \/ InsertFails(s, k)
        \/ Abandon(s)

Spec == Init /\ [][Next]_vars

-----------------------------------------------------------------------------
Values == Tags \cup {0, Gone}
Ops == {"idle", "log", "update", "toggle", "created", "tier", "refetch", "bury", "delete"}

TypeOK ==
    /\ priced \in [Kinds -> Values] /\ newest \in [Kinds -> Values]
    /\ opened \in [Kinds -> Nat] /\ missed \in [Kinds -> 0..MaxMissed]
    /\ writer \in [Slots -> [op : Ops, read : [Kinds -> Values], todo : Seq(Kinds),
                             closed : BOOLEAN, alone : BOOLEAN]]
    /\ astray \in SUBSET Kinds
    /\ changes \in 0..MaxChanges

\* Closing takes every open row, so however many handlers overlap, a kind never
\* has more open rows than handlers that can be between their two steps, and one
\* more for every closing that failed.
OpenBounded == \A k \in Kinds : opened[k] <= Cardinality(Slots) + missed[k]

\* With nobody writing, the newest row of a kind is the price in force, and a
\* deleted tier has no open row: unless its last change overlapped another
\* handler or was not logged.  The next change made alone repairs it.
HistoryTells ==
    (\A s \in Slots : writer[s] = Idle) =>
        \A k \in Kinds \ astray :
            /\ newest[k] = priced[k]
            /\ priced[k] = Gone /\ missed[k] = 0 => opened[k] = 0
=============================================================================
