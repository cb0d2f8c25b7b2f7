----------------------------- MODULE Addresses -----------------------------
(***************************************************************************)
(* The delivery addresses of one customer and the default among them.      *)
(*                                                                         *)
(* Every handler runs several statements without a transaction: it reads,  *)
(* takes the mark off the other addresses, then writes a whole row.  The   *)
(* save of a row deleted meanwhile puts it back.  Whether the count and the *)
(* taking off of the mark succeeded is not looked at: the handler goes on. *)
(*                                                                         *)
(* A definition X_Y just above X is X with a bug Y this code could have; it *)
(* is used by no other, only to test the properties.                       *)
(***************************************************************************)
EXTENDS Integers, FiniteSets

CONSTANTS
    Addresses,
    NoAddress,
    Slots          \* slots in which handlers run

VARIABLES
    address,    \* [st, default, born]
    unticked,   \* the customer took the mark off the default and set no other
    torn,       \* since a default was set: handlers overlapped, one stopped half way,
                \* or one did not get the mark off the others
    req

vars == <<address, unticked, torn, req>>

NoRow == [st |-> "none", default |-> FALSE, born |-> 0]
Idle == [op |-> "idle", a |-> NoAddress, row |-> NoRow, unset |-> FALSE]

Init ==
    /\ address = [a \in Addresses |-> NoRow]
    /\ unticked = FALSE /\ torn = FALSE
    /\ req = [s \in Slots |-> Idle]

List == {a \in Addresses : address[a].st = "live"}
Default == {a \in List : address[a].default}
Newest(as) == {a \in as : \A b \in as : address[b].born <= address[a].born}

Alone(s) == \A t \in Slots \ {s} : req[t] = Idle
Begin(s, r) ==
    /\ req[s] = Idle
    /\ req' = [req EXCEPT ![s] = r]
    /\ torn' = (torn \/ ~Alone(s))

-----------------------------------------------------------------------------
\* The first address is the default whether the customer says so or not, and an
\* address whose count failed counts as the first.
Create(s, a, isDefault) ==
    \E mark \in {isDefault \/ List = {}, TRUE} :
       /\ address[a].st = "none" /\ \A t \in Slots : req[t].a # a
       /\ Begin(s, [op |-> "save", a |-> a, unset |-> mark,
                    row |-> [st |-> "live", default |-> mark, born |-> Cardinality({b \in Addresses : address[b].st # "none"})]])
       /\ UNCHANGED <<address, unticked>>

Update_KeepsOthers(s, a, isDefault) ==
    /\ a \in List
    /\ Begin(s, [op |-> "save", a |-> a, row |-> [address[a] EXCEPT !.default = isDefault],
                 unset |-> FALSE])
    /\ UNCHANGED <<address, unticked>>
Update(s, a, isDefault) ==
    /\ a \in List
    /\ Begin(s, [op |-> "save", a |-> a, row |-> [address[a] EXCEPT !.default = isDefault],
                 unset |-> isDefault /\ ~address[a].default])
    /\ UNCHANGED <<address, unticked>>

\* One statement takes the mark off every address that has it, or fails and
\* leaves all as it is; the row is saved as the default in any case.
UnsetOthers(s) ==
    /\ req[s].op = "save" /\ req[s].unset
    /\ \/ /\ address' = [a \in Addresses |->
                 IF a \in List THEN [address[a] EXCEPT !.default = FALSE] ELSE address[a]]
          /\ torn' = ~Alone(s)
       \/ torn' = TRUE /\ UNCHANGED address
    /\ req' = [req EXCEPT ![s].unset = FALSE]
    /\ UNCHANGED unticked

SaveRow(s) ==
    /\ req[s].op = "save" /\ ~req[s].unset
    /\ address' = [address EXCEPT ![req[s].a] = req[s].row]
    /\ unticked' = IF req[s].row.default THEN FALSE
                   ELSE unticked \/ address[req[s].a].default
    /\ req' = [req EXCEPT ![s] = Idle]
    /\ UNCHANGED torn

\* The row is read and deleted; if it was the default, the newest that is left
\* is read and saved as the default.
BeginDelete(s, a) ==
    /\ a \in List
    /\ Begin(s, [op |-> "delete", a |-> a, row |-> address[a], unset |-> FALSE])
    /\ UNCHANGED <<address, unticked>>
Delete(s) ==
    LET a == req[s].a
        others == List \ {a}
    IN /\ req[s].op = "delete"
       /\ address' = [address EXCEPT ![a].st = "deleted"]
       /\ IF req[s].row.default /\ others # {}
          THEN \E b \in Newest(others) :
                  req' = [req EXCEPT ![s] = [op |-> "save", a |-> b, unset |-> FALSE,
                                             row |-> [address[b] EXCEPT !.default = TRUE]]]
          ELSE req' = [req EXCEPT ![s] = Idle]
       /\ UNCHANGED <<unticked, torn>>

\* The process stops, or the handler's last statement fails: a save of the row,
\* a deletion, or what passes the mark of a deleted default on.
Abandon(s) ==
    /\ req[s] # Idle
    /\ req' = [req EXCEPT ![s] = Idle]
    /\ torn' = (torn \/ (req[s].op = "save" /\ ~req[s].unset /\ req[s].row.default))
    /\ UNCHANGED <<address, unticked>>

-----------------------------------------------------------------------------
Next == \E s \in Slots :
    \/ \E a \in Addresses :
          \/ \E isDefault \in BOOLEAN : Create(s, a, isDefault) \/ Update(s, a, isDefault)
          \/ BeginDelete(s, a)
    \/ UnsetOthers(s) \/ SaveRow(s) \/ Delete(s) \/ Abandon(s)

Spec == Init /\ [][Next]_vars

-----------------------------------------------------------------------------
Rows == [st : {"none", "live", "deleted"}, default : BOOLEAN, born : 0..Cardinality(Addresses)]

TypeOK ==
    /\ address \in [Addresses -> Rows]
    /\ unticked \in BOOLEAN /\ torn \in BOOLEAN
    /\ req \in [Slots -> [op : {"idle", "save", "delete"}, a : Addresses \cup {NoAddress},
                          row : Rows, unset : BOOLEAN]]

\* Between requests a customer with addresses has one default, never two, and
\* none only by taking the mark off it.  Three things can break this: requests
\* of one customer that overlap, one that stops after it took the mark off, and
\* one whose statement to take it off failed.  The next request that sets a
\* default on its own, and gets the mark off the others, restores it.
OneDefault ==
    ~torn /\ (\A s \in Slots : req[s] = Idle) =>
        /\ Cardinality(Default) <= 1
        /\ List # {} /\ ~unticked => Default # {}
=============================================================================
