-------------------------- MODULE StockRoom_proofs --------------------------
(***************************************************************************)
(* For any number of products and handlers: the stock card explains the    *)
(* shelf, and outgoing movements that overlap overdraw it by a bounded     *)
(* amount.                                                                 *)
(***************************************************************************)
EXTENDS StockRoom, FiniteSetTheorems, NaturalsInduction, WellFoundedInduction, TLAPS

-----------------------------------------------------------------------------
(* The inductive invariant.                                                *)

\* What a handler may hold: a product that exists, and pieces it may move.
ReqOK(r) ==
    /\ r.p \in Products \union {NoProduct}
    /\ r.n \in Nat /\ r.seen \in Int
    /\ r.op # "idle" => r.p \in Products
    /\ r.op = "out" => r.n \in 0..MaxAmount
    /\ r.op \in {"in", "out", "count", "save"} => status[r.p] # "absent"

TypeInv ==
    /\ status \in [Products -> {"absent", "live", "deleted"}]
    /\ stock \in [Products -> Int]
    /\ card \in [Products -> Int]
    /\ added \in [Products -> Nat]
    /\ removed \in [Products -> Nat]
    /\ gone \subseteq Products /\ slipped \subseteq Products
    /\ req = [s \in Slots |-> req[s]]
    /\ \A s \in Slots : ReqOK(req[s])

\* A count in flight has read the shelf as it still is; what the card cannot
\* follow has been deleted.
CardInv ==
    /\ \A p \in Products : status[p] = "deleted" => p \in gone
    /\ \A p \in Products : status[p] = "absent" => stock[p] = 0
    /\ StockOnCard
    /\ "count" \in Alone =>
         \A s \in Slots : req[s].op = "count" => req[s].seen = stock[req[s].p]

\* The handlers about to take from p, and what the others may still overdraw.
Leaving(p) == {s \in Slots : req[s].op = "out" /\ req[s].p = p}
Slack(p) == (Cardinality(Slots) - Cardinality(Leaving(p))) * MaxAmount

DrawInv == \A p \in Products : stock[p] + removed[p] + Slack(p) >= 0

IInv == TypeInv /\ CardInv /\ DrawInv

-----------------------------------------------------------------------------
(* Counting handlers.                                                      *)

LEMMA LeavingFinite ==
    ASSUME NEW p
    PROVE  /\ IsFiniteSet(Leaving(p))
           /\ Cardinality(Leaving(p)) \in 0..Cardinality(Slots)
           /\ Cardinality(Slots) \in Nat
<1>1. IsFiniteSet(Slots) /\ Leaving(p) \subseteq Slots
  BY RoomAssumption DEF Leaving
<1> QED
  BY <1>1, FS_Subset, FS_CardinalityType

LEMMA LeavingFiniteNext ==
    ASSUME NEW p
    PROVE  /\ IsFiniteSet(Leaving(p)')
           /\ Cardinality(Leaving(p)') \in 0..Cardinality(Slots)
<1>1. IsFiniteSet(Slots) /\ Leaving(p)' \subseteq Slots
  BY RoomAssumption DEF Leaving
<1> QED
  BY <1>1, FS_Subset, FS_CardinalityType

LEMMA Times ==
    ASSUME NEW a \in Nat, NEW b \in Nat, NEW m \in Nat, a <= b
    PROVE  /\ a * m \in Nat
           /\ a * m <= b * m
           /\ (a + 1) * m = a * m + m
  OBVIOUS

LEMMA SlackNat == ASSUME NEW p PROVE Slack(p) \in Nat /\ Slack(p)' \in Nat
<1> DEFINE a == Cardinality(Slots) - Cardinality(Leaving(p))
           b == Cardinality(Slots) - Cardinality(Leaving(p)')
<1>1. a \in Nat /\ b \in Nat /\ MaxAmount \in Nat
  BY LeavingFinite, LeavingFiniteNext, RoomAssumption
<1>2. a * MaxAmount \in Nat /\ b * MaxAmount \in Nat
  BY <1>1, Times
<1> QED
  BY <1>2 DEF Slack

\* A handler that leaves without taking anything only widens the slack.
LEMMA SlackGrows ==
    ASSUME NEW p, Leaving(p)' \subseteq Leaving(p)
    PROVE  Slack(p)' >= Slack(p)
<1> DEFINE a == Cardinality(Slots) - Cardinality(Leaving(p))
           b == Cardinality(Slots) - Cardinality(Leaving(p)')
<1>1. Cardinality(Leaving(p)') <= Cardinality(Leaving(p))
  BY LeavingFinite, FS_Subset
<1>2. a \in Nat /\ b \in Nat /\ a <= b /\ MaxAmount \in Nat
  BY <1>1, LeavingFinite, LeavingFiniteNext, RoomAssumption
<1>3. a * MaxAmount \in Nat /\ a * MaxAmount <= b * MaxAmount /\ b * MaxAmount \in Nat
  BY <1>2, Times
<1> QED
  BY <1>3 DEF Slack

\* One that has taken its pieces gives its share back.
LEMMA SlackReturned ==
    ASSUME NEW p, NEW s \in Leaving(p), Leaving(p)' = Leaving(p) \ {s}
    PROVE  Slack(p)' = Slack(p) + MaxAmount
<1> DEFINE a == Cardinality(Slots) - Cardinality(Leaving(p))
           b == Cardinality(Slots) - Cardinality(Leaving(p)')
<1>1. Cardinality(Leaving(p)') = Cardinality(Leaving(p)) - 1
  BY LeavingFinite, FS_RemoveElement
<1>2. a \in Nat /\ b = a + 1 /\ MaxAmount \in Nat
  BY <1>1, LeavingFinite, RoomAssumption
<1>3. (a + 1) * MaxAmount = a * MaxAmount + MaxAmount
  BY <1>2, Times
<1> QED
  BY <1>2, <1>3 DEF Slack

-----------------------------------------------------------------------------
(* The steps, by what they do to the slots.                                *)

shelfVars == <<status, stock, card, added, removed, gone, slipped>>

Ended(S) == [t \in Slots |-> IF t \in S THEN Idle ELSE req[t]]

LEMMA DoneIs ==
    ASSUME TypeInv, NEW s \in Slots, Done(s)
    PROVE  req' = Ended({s})
<1>1. req = [t \in Slots |-> req[t]]
  BY DEF TypeInv
<1> QED
  BY <1>1 DEF Done, Ended

LEMMA IdleIs ==
    ASSUME TypeInv, UNCHANGED req
    PROVE  req' = Ended({})
<1>1. req = [t \in Slots |-> req[t]]
  BY DEF TypeInv
<1> QED
  BY <1>1 DEF Ended

LEMMA EndedOK ==
    ASSUME TypeInv, NEW S \in SUBSET Slots, req' = Ended(S),
           \A p \in Products : status[p] # "absent" => status'[p] # "absent"
    PROVE  /\ req' = [t \in Slots |-> req'[t]]
           /\ \A t \in Slots : ReqOK(req[t])'
           /\ \A p : Leaving(p)' \subseteq Leaving(p)
<1>1. req' = [t \in Slots |-> req'[t]]
  BY DEF Ended
<1>2. ASSUME NEW t \in Slots
      PROVE  ReqOK(req[t])'
  <2>1. CASE t \in S
    BY <2>1 DEF Ended, ReqOK, Idle
  <2>2. CASE t \notin S
    BY <2>2 DEF Ended, ReqOK, TypeInv
  <2> QED
    BY <2>1, <2>2
<1>3. ASSUME NEW p
      PROVE  Leaving(p)' \subseteq Leaving(p)
  BY DEF Leaving, Ended, Idle
<1> QED
  BY <1>1, <1>2, <1>3

\* A handler starts: nothing moves, and what it holds is what it has read.
LEMMA BeginKeeps ==
    ASSUME IInv, NEW s \in Slots, NEW r, Begin(s, r), ReqOK(r),
           r.op = "out" => stock[r.p] >= 0,
           r.op = "count" => r.seen = stock[r.p]
    PROVE  IInv'
<1>1. /\ req = [t \in Slots |-> req[t]]
      /\ \A t \in Slots : ReqOK(req[t])
  BY DEF IInv, TypeInv
<1>2. /\ req' = [t \in Slots |-> IF t = s THEN r ELSE req[t]]
      /\ UNCHANGED shelfVars
      /\ req[s] = Idle
  BY <1>1 DEF Begin, shelfVars
<1>3. TypeInv'
  BY <1>1, <1>2 DEF IInv, TypeInv, ReqOK, shelfVars
<1>4. CardInv'
  BY <1>2 DEF IInv, CardInv, StockOnCard, Explained, shelfVars
<1>5. ASSUME NEW p \in Products
      PROVE  stock'[p] + removed'[p] + Slack(p)' >= 0
  <2>1. stock[p] \in Int /\ removed[p] \in Nat /\ stock'[p] = stock[p] /\ removed'[p] = removed[p]
    BY <1>2 DEF IInv, TypeInv, shelfVars
  <2>2. CASE r.op = "out" /\ r.p = p
    BY <2>1, <2>2, SlackNat
  <2>3. CASE ~(r.op = "out" /\ r.p = p)
    <3>1. Leaving(p)' \subseteq Leaving(p)
      BY <1>2, <2>3 DEF Leaving
    <3> QED
      BY <2>1, <3>1, SlackGrows, SlackNat DEF IInv, DrawInv
  <2> QED
    BY <2>2, <2>3
<1> QED
  BY <1>3, <1>4, <1>5 DEF IInv, DrawInv

\* A handler ends and no product is written.
LEMMA EndKeeps ==
    ASSUME IInv, NEW s \in Slots, UNCHANGED shelfVars, Done(s)
    PROVE  IInv'
<1>1. req' = Ended({s})
  BY DoneIs DEF IInv
<1>2. /\ req' = [t \in Slots |-> req'[t]]
      /\ \A t \in Slots : ReqOK(req[t])'
      /\ \A p : Leaving(p)' \subseteq Leaving(p)
  BY <1>1, EndedOK DEF IInv, shelfVars
<1>3. TypeInv'
  BY <1>1, <1>2 DEF IInv, TypeInv, shelfVars
<1>4. CardInv'
  BY <1>1 DEF IInv, CardInv, StockOnCard, Explained, shelfVars, Ended, Idle
<1>5. ASSUME NEW p \in Products
      PROVE  stock'[p] + removed'[p] + Slack(p)' >= 0
  <2>1. stock[p] \in Int /\ removed[p] \in Nat /\ stock'[p] = stock[p] /\ removed'[p] = removed[p]
    BY <1>1 DEF IInv, TypeInv, shelfVars
  <2> QED
    BY <1>2, <2>1, SlackGrows, SlackNat DEF IInv, DrawInv
<1> QED
  BY <1>3, <1>4, <1>5 DEF IInv, DrawInv

LEMMA AbandonKeeps ==
    ASSUME IInv, NEW s \in Slots, Abandon(s)
    PROVE  IInv'
<1>1. UNCHANGED shelfVars /\ Done(s)
  BY DEF Abandon, shelfVars
<1> QED
  BY <1>1, EndKeeps

\* One product is written while no count is under way but the writer's own.
Writes(p, S, st, x, c, a, d) ==
    /\ Undisturbed(S) /\ req' = Ended(S)
    /\ status' = [status EXCEPT ![p] = st]
    /\ stock' = [stock EXCEPT ![p] = x]
    /\ card' = [card EXCEPT ![p] = c]
    /\ added' = [added EXCEPT ![p] = a]
    /\ removed' = [removed EXCEPT ![p] = d]
    /\ gone \subseteq gone' /\ gone' \subseteq Products
    /\ slipped \subseteq slipped' /\ slipped' \subseteq Products
    /\ st # "absent" /\ (st = "deleted" => p \in gone')
    /\ "count" \in Alone /\ Explained(p)' => x = c + a - d
    /\ x + d + Slack(p)' >= 0

LEMMA WriteKeeps ==
    ASSUME IInv, NEW p \in Products, NEW S \in SUBSET Slots,
           NEW st \in {"absent", "live", "deleted"},
           NEW x \in Int, NEW c \in Int, NEW a \in Nat, NEW d \in Nat,
           Writes(p, S, st, x, c, a, d)
    PROVE  IInv'
<1> USE DEF Writes
<1>1. /\ req' = [t \in Slots |-> req'[t]]
      /\ \A t \in Slots : ReqOK(req[t])'
      /\ \A q : Leaving(q)' \subseteq Leaving(q)
  BY EndedOK DEF IInv, TypeInv
<1>2. TypeInv'
  BY <1>1 DEF IInv, TypeInv
<1>3. ASSUME NEW q \in Products, q # p
      PROVE  /\ status'[q] = status[q] /\ stock'[q] = stock[q] /\ card'[q] = card[q]
             /\ added'[q] = added[q] /\ removed'[q] = removed[q]
  BY <1>3 DEF IInv, TypeInv
<1>4. /\ status'[p] = st /\ stock'[p] = x /\ card'[p] = c
      /\ added'[p] = a /\ removed'[p] = d
  BY DEF IInv, TypeInv
<1>5. CardInv'
  <2>1. \A q \in Products : /\ status'[q] = "deleted" => q \in gone'
                            /\ status'[q] = "absent" => stock'[q] = 0
    BY <1>3, <1>4 DEF IInv, CardInv
  <2>2. StockOnCard'
    BY <1>3, <1>4 DEF IInv, CardInv, StockOnCard, Explained
  <2>3. "count" \in Alone => \A t \in Slots : req'[t].op # "count"
    BY DEF Undisturbed, Ended, Idle
  <2> QED
    BY <2>1, <2>2, <2>3 DEF CardInv
<1>6. ASSUME NEW q \in Products
      PROVE  stock'[q] + removed'[q] + Slack(q)' >= 0
  <2>1. CASE q = p
    BY <1>4, <2>1
  <2>2. CASE q # p
    <3>1. stock[q] \in Int /\ removed[q] \in Nat
      BY DEF IInv, TypeInv
    <3> QED
      BY <1>1, <1>3, <2>2, <3>1, SlackGrows, SlackNat DEF IInv, DrawInv
  <2> QED
    BY <2>1, <2>2
<1> QED
  BY <1>2, <1>5, <1>6 DEF IInv, DrawInv

-----------------------------------------------------------------------------
(* One lemma per action that writes a product.                             *)

\* What an action leaves alone is written back as it was.
LEMMA RowIs ==
    ASSUME TypeInv, NEW p \in Products
    PROVE  /\ status[p] \in {"absent", "live", "deleted"}
           /\ stock[p] \in Int /\ card[p] \in Int /\ added[p] \in Nat /\ removed[p] \in Nat
           /\ status = [status EXCEPT ![p] = status[p]]
           /\ stock = [stock EXCEPT ![p] = stock[p]]
           /\ card = [card EXCEPT ![p] = card[p]]
           /\ added = [added EXCEPT ![p] = added[p]]
           /\ removed = [removed EXCEPT ![p] = removed[p]]
           /\ gone \subseteq Products /\ slipped \subseteq Products
  BY DEF TypeInv

\* The slack carries a shelf that is not lowered, or not below zero.
LEMMA SlackCarries ==
    ASSUME IInv, NEW p \in Products, NEW S \in SUBSET Slots, req' = Ended(S),
           NEW x \in Int, NEW d \in Nat,
           x + d >= stock[p] + removed[p] \/ x + d >= 0
    PROVE  x + d + Slack(p)' >= 0
<1>1. Leaving(p)' \subseteq Leaving(p)
  BY DEF Leaving, Ended, Idle
<1>2. /\ Slack(p) \in Nat /\ Slack(p)' \in Nat /\ Slack(p)' >= Slack(p)
      /\ stock[p] \in Int /\ removed[p] \in Nat
  BY <1>1, SlackNat, SlackGrows, RowIs DEF IInv
<1>3. stock[p] + removed[p] + Slack(p) >= 0
  BY DEF IInv, DrawInv
<1> QED
  BY <1>2, <1>3

LEMMA CreateProductKeeps ==
    ASSUME IInv, NEW p \in Products, NEW n \in Amounts \union {0}, CreateProduct(p, n)
    PROVE  IInv'
<1>1. n \in Nat
  BY RoomAssumption
<1>2. req' = Ended({}) /\ Undisturbed({})
  BY IdleIs DEF CreateProduct, IInv
<1>3. Explained(p) => card[p] + n = n + removed[p] - added[p] \/ "count" \notin Alone
  BY <1>1, RowIs DEF IInv, CardInv, StockOnCard, Explained, CreateProduct
<1>4. n + removed[p] + Slack(p)' >= 0
  BY <1>1, <1>2, SlackCarries, RowIs DEF IInv
<1>5. /\ status' = [status EXCEPT ![p] = "live"] /\ stock' = [stock EXCEPT ![p] = n]
      /\ card' = [card EXCEPT ![p] = card[p] + n] /\ card[p] + n \in Int
      /\ added' = [added EXCEPT ![p] = added[p]] /\ removed' = [removed EXCEPT ![p] = removed[p]]
      /\ gone' = gone /\ slipped' = slipped
  BY <1>1, RowIs DEF CreateProduct, OnCard, IInv
<1>6. "count" \in Alone /\ Explained(p)' => n = (card[p] + n) + added[p] - removed[p]
  BY <1>1, <1>3, <1>5, RowIs DEF IInv, Explained
<1>7. PICK c \in Int : c = card[p] + n
  BY <1>5
<1>8. Writes(p, {}, "live", n, c, added[p], removed[p])
  BY <1>2, <1>4, <1>5, <1>6, <1>7, RowIs DEF IInv, Writes
<1>9. n \in Int /\ added[p] \in Nat /\ removed[p] \in Nat
  BY <1>1, RowIs DEF IInv
<1> QED
  BY <1>8, <1>9, WriteKeeps

LEMMA CommitSaveKeeps ==
    ASSUME IInv, NEW s \in Slots, CommitSave(s)
    PROVE  IInv'
<1>1. PICK p \in Products : p = req[s].p
  BY DEF CommitSave, IInv, TypeInv, ReqOK
<1>2. req' = Ended({s}) /\ Undisturbed({s})
  BY DoneIs DEF CommitSave, IInv
<1>3. stock[p] + removed[p] + Slack(p)' >= 0
  BY <1>1, <1>2, SlackCarries, RowIs DEF IInv
<1>4. /\ status' = [status EXCEPT ![p] = "live"] /\ stock' = [stock EXCEPT ![p] = stock[p]]
      /\ card' = [card EXCEPT ![p] = card[p]]
      /\ added' = [added EXCEPT ![p] = added[p]] /\ removed' = [removed EXCEPT ![p] = removed[p]]
      /\ gone' = gone /\ slipped' = slipped
  BY <1>1, RowIs DEF CommitSave, SavedStock, IInv
<1>5. "count" \in Alone /\ Explained(p)' => stock[p] = card[p] + added[p] - removed[p]
  BY <1>1, <1>4 DEF IInv, CardInv, StockOnCard, Explained
<1>6. Writes(p, {s}, "live", stock[p], card[p], added[p], removed[p])
  BY <1>1, <1>2, <1>3, <1>4, <1>5, RowIs DEF IInv, Writes
<1> QED
  BY <1>6, RowIs, WriteKeeps DEF IInv

LEMMA DeleteProductKeeps ==
    ASSUME IInv, NEW p \in Products, DeleteProduct(p)
    PROVE  IInv'
<1>1. req' = Ended({}) /\ Undisturbed({})
  BY IdleIs DEF DeleteProduct, IInv
<1>2. stock[p] + removed[p] + Slack(p)' >= 0
  BY <1>1, SlackCarries, RowIs DEF IInv
<1>3. /\ status' = [status EXCEPT ![p] = "deleted"] /\ stock' = [stock EXCEPT ![p] = stock[p]]
      /\ card' = [card EXCEPT ![p] = card[p]]
      /\ added' = [added EXCEPT ![p] = added[p]] /\ removed' = [removed EXCEPT ![p] = removed[p]]
      /\ gone' = gone \union {p} /\ slipped' = slipped
  BY RowIs DEF DeleteProduct, IInv
<1>4. gone \subseteq gone' /\ gone' \subseteq Products /\ p \in gone'
  BY <1>3, RowIs DEF IInv
<1>5. Writes(p, {}, "deleted", stock[p], card[p], added[p], removed[p])
  BY <1>1, <1>2, <1>3, <1>4, RowIs DEF IInv, Writes, Explained
<1> QED
  BY <1>5, RowIs, WriteKeeps DEF IInv

LEMMA PatchUpKeeps ==
    ASSUME IInv, NEW p \in Products, NEW n \in Amounts, PatchUp(p, n)
    PROVE  IInv'
<1>1. n \in Nat
  BY RoomAssumption
<1>2. PICK x \in Int, c \in Int, a \in Nat, d \in Nat :
        x = stock[p] + n /\ c = card[p] /\ a = added[p] + n /\ d = removed[p]
  BY <1>1, RowIs DEF IInv
<1>3. req' = Ended({}) /\ Undisturbed({}) /\ status[p] = "live"
  BY IdleIs DEF PatchUp, IInv, Live
<1>4. x + d + Slack(p)' >= 0
  BY <1>1, <1>2, <1>3, SlackCarries, RowIs DEF IInv
<1>5. "count" \in Alone /\ Explained(p) => x = c + a - d
  BY <1>1, <1>2, RowIs DEF IInv, CardInv, StockOnCard, Explained
<1>6. Writes(p, {}, "live", x, c, a, d)
  BY <1>1, <1>2, <1>3, <1>4, <1>5, RowIs DEF IInv, PatchUp, Writes, Explained
<1> QED
  BY <1>6, WriteKeeps

LEMMA PatchDownKeeps ==
    ASSUME IInv, NEW p \in Products, NEW n \in Amounts, PatchDown(p, n)
    PROVE  IInv'
<1>1. n \in Nat
  BY RoomAssumption
<1>2. PICK x \in Int, c \in Int, a \in Nat, d \in Nat :
        x = stock[p] - n /\ c = card[p] /\ a = added[p] /\ d = removed[p] + n
  BY <1>1, RowIs DEF IInv
<1>3. req' = Ended({}) /\ Undisturbed({}) /\ status[p] = "live"
  BY IdleIs DEF PatchDown, IInv, Live
<1>4. x + d + Slack(p)' >= 0
  BY <1>1, <1>2, <1>3, SlackCarries, RowIs DEF IInv
<1>5. "count" \in Alone /\ Explained(p) => x = c + a - d
  BY <1>1, <1>2, RowIs DEF IInv, CardInv, StockOnCard, Explained
<1>6. Writes(p, {}, "live", x, c, a, d)
  BY <1>1, <1>2, <1>3, <1>4, <1>5, RowIs DEF IInv, PatchDown, Writes, Explained
<1> QED
  BY <1>6, WriteKeeps

LEMMA CounterReturnKeeps ==
    ASSUME IInv, NEW p \in Products, NEW n \in Amounts, CounterReturn(p, n)
    PROVE  IInv'
<1>1. n \in Nat
  BY RoomAssumption
<1>2. PICK x \in Int, c \in Int, a \in Nat, d \in Nat :
        x = stock[p] + n /\ c = card[p] /\ a = added[p] + n /\ d = removed[p]
  BY <1>1, RowIs DEF IInv
<1>3. req' = Ended({}) /\ Undisturbed({}) /\ status[p] = "live"
  BY IdleIs DEF CounterReturn, IInv, Live
<1>4. x + d + Slack(p)' >= 0
  BY <1>1, <1>2, <1>3, SlackCarries, RowIs DEF IInv
<1>5. "count" \in Alone /\ Explained(p) => x = c + a - d
  BY <1>1, <1>2, RowIs DEF IInv, CardInv, StockOnCard, Explained
<1>6. Writes(p, {}, "live", x, c, a, d)
  BY <1>1, <1>2, <1>3, <1>4, <1>5, RowIs DEF IInv, CounterReturn, Writes, Explained
<1> QED
  BY <1>6, WriteKeeps

LEMMA TakeKeeps ==
    ASSUME IInv, NEW p \in Products, NEW n \in Amounts, Take(p, n)
    PROVE  IInv'
<1>1. n \in Nat
  BY RoomAssumption
<1>2. PICK x \in Int, c \in Int, a \in Nat, d \in Nat :
        x = stock[p] - n /\ c = card[p] - n /\ a = added[p] /\ d = removed[p]
  BY <1>1, RowIs DEF IInv
<1>3. req' = Ended({}) /\ Undisturbed({}) /\ status[p] = "live"
  BY IdleIs DEF Take, IInv, Live
<1>4. x + d + Slack(p)' >= 0
  BY <1>1, <1>2, <1>3, SlackCarries, RowIs DEF IInv, Take
<1>5. "count" \in Alone /\ Explained(p) => x = c + a - d
  BY <1>1, <1>2, RowIs DEF IInv, CardInv, StockOnCard, Explained
<1>6. Writes(p, {}, "live", x, c, a, d)
  BY <1>1, <1>2, <1>3, <1>4, <1>5, RowIs DEF IInv, Take, Writes, OnCard, Explained
<1> QED
  BY <1>6, WriteKeeps

\* An UPDATE of stock, which a deleted product does not feel.
LEMMA StockedIs ==
    ASSUME IInv, NEW p \in Products, NEW v \in Int, status[p] # "absent",
           stock' = Stocked(p, v)
    PROVE  \E x \in Int : /\ stock' = [stock EXCEPT ![p] = x]
                          /\ x \in {v, stock[p]}
                          /\ p \notin gone => x = v
<1>1. CASE Live(p)
  BY <1>1 DEF Stocked
<1>2. CASE ~Live(p)
  <2>1. p \in gone
    BY <1>2, RowIs DEF Live, IInv, CardInv
  <2> QED
    BY <1>2, <2>1, RowIs DEF Stocked, IInv
<1> QED
  BY <1>1, <1>2

\* Pieces and their row, of which the row may stand alone.
LEMMA MovedIs ==
    ASSUME IInv, NEW p \in Products, NEW n \in Int, status[p] # "absent", Moved(p, n)
    PROVE  \E x \in Int, c \in Int :
             /\ stock' = [stock EXCEPT ![p] = x] /\ card' = [card EXCEPT ![p] = c]
             /\ x \in {stock[p] + n, stock[p]} /\ c = card[p] + n
             /\ slipped \subseteq slipped' /\ slipped' \subseteq Products
             /\ p \notin gone /\ p \notin slipped' => x = stock[p] + n
<1>1. PICK v \in Int, c \in Int : v = stock[p] + n /\ c = card[p] + n
  BY RowIs DEF IInv
<1>2. card' = [card EXCEPT ![p] = c]
  BY <1>1 DEF Moved, OnCard
<1>3. CASE stock' = Stocked(p, v) /\ UNCHANGED slipped
  <2>1. PICK x \in Int : /\ stock' = [stock EXCEPT ![p] = x]
                         /\ x \in {v, stock[p]}
                         /\ p \notin gone => x = v
    BY <1>3, StockedIs
  <2> QED
    BY <1>1, <1>2, <1>3, <2>1, RowIs DEF IInv
<1>4. CASE UNCHANGED stock /\ slipped' = slipped \union {p}
  <2>1. stock' = [stock EXCEPT ![p] = stock[p]] /\ stock[p] \in Int
    BY <1>4, RowIs DEF IInv
  <2> QED
    BY <1>1, <1>2, <1>4, <2>1, RowIs DEF IInv
<1> QED
  BY <1>1, <1>3, <1>4 DEF Moved

LEMMA StorefrontReturnKeeps ==
    ASSUME IInv, NEW p \in Products, NEW n \in Amounts, StorefrontReturn(p, n)
    PROVE  IInv'
<1>1. n \in Nat
  BY RoomAssumption
<1>2. PICK x \in Int, c \in Int :
        /\ stock' = [stock EXCEPT ![p] = x] /\ card' = [card EXCEPT ![p] = c]
        /\ x \in {stock[p] + n, stock[p]}
        /\ slipped \subseteq slipped' /\ slipped' \subseteq Products
        /\ p \notin gone /\ p \notin slipped' => x = stock[p] + n /\ c = card[p] + n
  <2>1. CASE Moved(p, n)
    BY <1>1, <2>1, MovedIs DEF StorefrontReturn
  <2>2. CASE stock' = Stocked(p, stock[p] + n) /\ slipped' = slipped \union {p} /\ UNCHANGED card
    <3>1. stock[p] + n \in Int /\ card[p] \in Int /\ card' = [card EXCEPT ![p] = card[p]]
      BY <1>1, <2>2, RowIs DEF IInv
    <3>2. PICK x \in Int : stock' = [stock EXCEPT ![p] = x] /\ x \in {stock[p] + n, stock[p]}
      BY <2>2, <3>1, StockedIs DEF StorefrontReturn
    <3> QED
      BY <2>2, <3>1, <3>2, RowIs DEF IInv
  <2> QED
    BY <2>1, <2>2 DEF StorefrontReturn
<1>3. req' = Ended({}) /\ Undisturbed({}) /\ status[p] # "absent"
  BY IdleIs DEF StorefrontReturn, IInv
<1>4. x + removed[p] + Slack(p)' >= 0
  BY <1>1, <1>2, <1>3, SlackCarries, RowIs DEF IInv
<1>5. "count" \in Alone /\ p \notin gone /\ p \notin slipped' => x = c + added[p] - removed[p]
  BY <1>1, <1>2, RowIs DEF IInv, CardInv, StockOnCard, Explained
<1>6. PICK st \in {"absent", "live", "deleted"}, a \in Nat, d \in Nat :
        st = status[p] /\ a = added[p] /\ d = removed[p]
  BY RowIs DEF IInv
<1>7. Writes(p, {}, st, x, c, a, d)
  BY <1>2, <1>3, <1>4, <1>5, <1>6, RowIs
  DEF IInv, CardInv, StorefrontReturn, Writes, Explained
<1> QED
  BY <1>7, WriteKeeps

LEMMA CommitMovementInKeeps ==
    ASSUME IInv, NEW s \in Slots, CommitMovementIn(s)
    PROVE  IInv'
<1>1. PICK p \in Products, n \in Nat :
        p = req[s].p /\ n = req[s].n /\ status[p] # "absent"
  BY DEF CommitMovementIn, IInv, TypeInv, ReqOK
<1>2. PICK x \in Int, c \in Int :
        /\ stock' = [stock EXCEPT ![p] = x] /\ card' = [card EXCEPT ![p] = c]
        /\ x \in {stock[p] + n, stock[p]} /\ c = card[p] + n
        /\ slipped \subseteq slipped' /\ slipped' \subseteq Products
        /\ p \notin gone /\ p \notin slipped' => x = stock[p] + n
  BY <1>1, MovedIs DEF CommitMovementIn
<1>4. req' = Ended({s}) /\ Undisturbed({s})
  BY DoneIs DEF CommitMovementIn, IInv
<1>5. "count" \in Alone /\ p \notin gone /\ p \notin slipped' => x = c + added[p] - removed[p]
  BY <1>1, <1>2, RowIs DEF IInv, CardInv, StockOnCard, Explained
<1>6. x + removed[p] + Slack(p)' >= 0
  BY <1>1, <1>2, <1>4, SlackCarries, RowIs DEF IInv
<1>7. PICK st \in {"absent", "live", "deleted"}, a \in Nat, d \in Nat :
        st = status[p] /\ a = added[p] /\ d = removed[p]
  BY RowIs DEF IInv
<1>8. Writes(p, {s}, st, x, c, a, d)
  BY <1>1, <1>2, <1>4, <1>5, <1>6, <1>7, RowIs
  DEF IInv, CardInv, CommitMovementIn, Writes, Explained
<1> QED
  BY <1>8, WriteKeeps

LEMMA CommitMovementOutKeeps ==
    ASSUME IInv, NEW s \in Slots, CommitMovementOut(s)
    PROVE  IInv'
<1>1. PICK p \in Products, n \in Nat :
        p = req[s].p /\ n = req[s].n /\ status[p] # "absent"
  BY DEF CommitMovementOut, IInv, TypeInv, ReqOK
<1>2. PICK x \in Int, c \in Int :
        /\ stock' = [stock EXCEPT ![p] = x] /\ card' = [card EXCEPT ![p] = c]
        /\ x \in {stock[p] + (-n), stock[p]} /\ c = card[p] + (-n)
        /\ slipped \subseteq slipped' /\ slipped' \subseteq Products
        /\ p \notin gone /\ p \notin slipped' => x = stock[p] + (-n)
  BY <1>1, MovedIs DEF CommitMovementOut
<1>4. req' = Ended({s}) /\ Undisturbed({s})
  BY DoneIs DEF CommitMovementOut, IInv
<1>5. "count" \in Alone /\ p \notin gone /\ p \notin slipped' => x = c + added[p] - removed[p]
  BY <1>1, <1>2, RowIs DEF IInv, CardInv, StockOnCard, Explained
<1>6. x + removed[p] + Slack(p)' >= 0
  <2>1. s \in Leaving(p) /\ Leaving(p)' = Leaving(p) \ {s}
    BY <1>1, <1>4 DEF Leaving, CommitMovementOut, Ended, Idle
  <2>2. Slack(p)' = Slack(p) + MaxAmount
    BY <2>1, SlackReturned
  <2>3. stock[p] + removed[p] + Slack(p) >= 0 /\ Slack(p) \in Nat
    BY SlackNat DEF IInv, DrawInv
  <2>4. n <= MaxAmount /\ MaxAmount \in Nat
    BY <1>1, RoomAssumption DEF CommitMovementOut, IInv, TypeInv, ReqOK
  <2> QED
    BY <1>1, <1>2, <2>2, <2>3, <2>4, RowIs DEF IInv
<1>7. PICK st \in {"absent", "live", "deleted"}, a \in Nat, d \in Nat :
        st = status[p] /\ a = added[p] /\ d = removed[p]
  BY RowIs DEF IInv
<1>8. Writes(p, {s}, st, x, c, a, d)
  BY <1>1, <1>2, <1>4, <1>5, <1>6, <1>7, RowIs
  DEF IInv, CardInv, CommitMovementOut, Writes, Explained
<1> QED
  BY <1>8, WriteKeeps

LEMMA CommitCountKeeps ==
    ASSUME IInv, NEW s \in Slots, CommitCount(s)
    PROVE  IInv'
<1>1. PICK p \in Products, n \in Nat, seen \in Int :
        p = req[s].p /\ n = req[s].n /\ seen = req[s].seen /\ status[p] # "absent"
  BY DEF CommitCount, IInv, TypeInv, ReqOK
<1>2. PICK c \in Int : c = card[p] + (n - seen)
  BY <1>1, RowIs DEF IInv
<1>3. PICK x \in Int : /\ stock' = [stock EXCEPT ![p] = x]
                       /\ x \in {n, stock[p]}
                       /\ p \notin gone => x = n
  <2>1. stock' = Stocked(p, n) /\ n \in Int
    BY <1>1 DEF CommitCount
  <2> QED
    BY <1>1, <2>1, StockedIs
<1>4. req' = Ended({s}) /\ Undisturbed({s})
  BY DoneIs DEF CommitCount, IInv
<1>5. "count" \in Alone => seen = stock[p]
  BY <1>1 DEF CommitCount, IInv, CardInv
<1>6. "count" \in Alone /\ Explained(p) => x = c + added[p] - removed[p]
  BY <1>1, <1>2, <1>3, <1>5, RowIs DEF IInv, CardInv, StockOnCard, Explained
<1>7. x + removed[p] + Slack(p)' >= 0
  BY <1>1, <1>3, <1>4, SlackCarries, RowIs DEF IInv
<1>8. PICK st \in {"absent", "live", "deleted"}, a \in Nat, d \in Nat :
        st = status[p] /\ a = added[p] /\ d = removed[p]
  BY RowIs DEF IInv
<1>9. Writes(p, {s}, st, x, c, a, d)
  BY <1>1, <1>2, <1>3, <1>4, <1>6, <1>7, <1>8, RowIs
  DEF IInv, CardInv, CommitCount, OnCard, Writes, Explained
<1> QED
  BY <1>9, WriteKeeps

\* Batches are not in the invariant: consuming them is ending.
LEMMA CommitConsumeKeeps ==
    ASSUME IInv, NEW s \in Slots, CommitConsume(s)
    PROVE  IInv'
<1>1. UNCHANGED shelfVars /\ Done(s)
  BY DEF CommitConsume, shelfVars
<1> QED
  BY <1>1, EndKeeps

-----------------------------------------------------------------------------
(* The invariant holds.                                                    *)

LEMMA InitIInv == Init => IInv
<1> SUFFICES ASSUME Init PROVE IInv
  OBVIOUS
<1>1. TypeInv
  BY DEF Init, TypeInv, ReqOK, Idle
<1>2. CardInv
  BY DEF Init, CardInv, StockOnCard, Explained, Idle
<1>3. DrawInv
  BY SlackNat DEF Init, DrawInv
<1> QED
  BY <1>1, <1>2, <1>3 DEF IInv

LEMMA CatalogueKeeps ==
    ASSUME IInv, NEW p \in Products, Catalogue(p) \/ Trade(p)
    PROVE  IInv'
  BY CreateProductKeeps, DeleteProductKeeps, PatchUpKeeps, PatchDownKeeps,
     TakeKeeps, CounterReturnKeeps, StorefrontReturnKeeps
  DEF Catalogue, Trade, Sell, StorefrontSell

LEMMA StartKeeps ==
    ASSUME IInv, NEW s \in Slots, NEW p \in Products, Start(s, p)
    PROVE  IInv'
<1>1. stock[p] \in Int /\ \A n \in Amounts \union {0} : n \in Nat /\ n \in 0..MaxAmount
  BY RowIs, RoomAssumption DEF IInv
<1>2. CASE BeginSave(s, p)
  <2>1. PICK r : r = [Idle EXCEPT !.op = "save", !.p = p, !.seen = stock[p]]
    OBVIOUS
  <2>2. ReqOK(r) /\ r.op = "save"
    BY <1>1, <1>2, <2>1 DEF BeginSave, Live, ReqOK, Idle
  <2> QED
    BY <1>2, <2>1, <2>2, BeginKeeps DEF BeginSave
<1>3. ASSUME NEW n \in Amounts, BeginMovementIn(s, p, n)
      PROVE  IInv'
  <2>1. PICK r : r = [Idle EXCEPT !.op = "in", !.p = p, !.n = n]
    OBVIOUS
  <2>2. ReqOK(r) /\ r.op = "in"
    BY <1>1, <1>3, <2>1 DEF BeginMovementIn, Live, ReqOK, Idle
  <2> QED
    BY <1>3, <2>1, <2>2, BeginKeeps DEF BeginMovementIn
<1>4. ASSUME NEW n \in Amounts, BeginMovementOut(s, p, n)
      PROVE  IInv'
  <2>1. PICK r : r = [Idle EXCEPT !.op = "out", !.p = p, !.n = n]
    OBVIOUS
  <2>2. ReqOK(r) /\ r.op = "out" /\ r.p = p
    BY <1>1, <1>4, <2>1 DEF BeginMovementOut, Live, ReqOK, Idle
  <2>3. stock[p] >= 0
    BY <1>1, <1>4 DEF BeginMovementOut, Enough
  <2> QED
    BY <1>4, <2>1, <2>2, <2>3, BeginKeeps DEF BeginMovementOut
<1>5. ASSUME NEW n \in Amounts, BeginConsume(s, p, n)
      PROVE  IInv'
  <2>1. PICK r : r = [Idle EXCEPT !.op = "consume", !.p = p, !.n = n, !.rows = batches[p]]
    OBVIOUS
  <2>2. ReqOK(r) /\ r.op = "consume"
    BY <1>1, <2>1 DEF ReqOK, Idle
  <2> QED
    BY <1>5, <2>1, <2>2, BeginKeeps DEF BeginConsume
<1>6. ASSUME NEW n \in Amounts \union {0}, BeginCount(s, p, n)
      PROVE  IInv'
  <2>1. PICK r : r = [Idle EXCEPT !.op = "count", !.p = p, !.n = n, !.seen = stock[p]]
    OBVIOUS
  <2>2. ReqOK(r) /\ r.op = "count" /\ r.seen = stock[r.p]
    BY <1>1, <1>6, <2>1 DEF BeginCount, Live, ReqOK, Idle
  <2> QED
    BY <1>6, <2>1, <2>2, BeginKeeps DEF BeginCount
<1> QED
  BY <1>2, <1>3, <1>4, <1>5, <1>6 DEF Start

LEMMA NextIInv == IInv /\ [Next]_vars => IInv'
<1> SUFFICES ASSUME IInv, [Next]_vars PROVE IInv'
  OBVIOUS
<1>1. ASSUME NEW s \in Slots, Finish(s)
      PROVE  IInv'
  BY <1>1, CommitSaveKeeps, CommitMovementInKeeps, CommitMovementOutKeeps,
     CommitConsumeKeeps, CommitCountKeeps, AbandonKeeps
  DEF Finish
<1>2. CASE UNCHANGED vars
  BY <1>2 DEF vars, IInv, TypeInv, CardInv, StockOnCard, Explained, DrawInv, ReqOK, Slack, Leaving
<1> QED
  BY <1>1, <1>2, CatalogueKeeps, StartKeeps DEF Next

LEMMA AlwaysIInv == Spec => []IInv
  BY InitIInv, NextIInv, PTL DEF Spec

-----------------------------------------------------------------------------
(* Types: batches, and the bounds of what moves without a row.             *)

\* What is left of a batch is some of what was got.
Batch == {b \in [got : Nat, left : Nat] : b.left <= b.got}
Held(r) == r.op \in Ops \union {"idle"} /\ r.rows \in Seq(Batch)

BatchInv ==
    /\ batches \in [Products -> Seq(Batch)]
    /\ added \in [Products -> 0..MaxOffCard]
    /\ removed \in [Products -> 0..MaxOffCard]
    /\ \A s \in Slots : Held(req[s])

\* A nonempty set of natural numbers has a least member.
LEMMA Least ==
    ASSUME NEW T \in SUBSET Nat, T # {}
    PROVE  \E m \in T : \A k \in T : m <= k
<1> DEFINE R == OpToRel(<, Nat)
<1>1. IsWellFoundedOn(R, Nat)
  BY NatLessThanWellFounded
<1>2. \A x, y \in Nat : y < x => <<y, x>> \in R
  BY DEF OpToRel
<1> HIDE DEF R
<1>3. PICK m \in T : \A y \in T : ~(<<y, m>> \in R)
  BY <1>1, WFMin
<1>4. \A k \in T : k \in Nat /\ m \in Nat /\ ~(k < m)
  BY <1>2, <1>3
<1> QED
  BY <1>4

\* A set that holds 0 and with k also k + 1 holds every number up to n.
LEMMA Climb ==
    ASSUME NEW n \in Nat, NEW T, 0 \in T,
           \A k \in 0..n - 1 : k \in T => k + 1 \in T
    PROVE  n \in T
<1> SUFFICES ASSUME n \notin T PROVE FALSE
  OBVIOUS
<1> DEFINE Bad == {x \in 0..n : x \notin T}
<1>1. Bad \in SUBSET Nat /\ Bad # {}
  OBVIOUS
<1>2. PICK m \in Bad : \A x \in Bad : m <= x
  <2> HIDE DEF Bad
  <2> QED
    BY <1>1, Least
<1>3. m \in 0..n /\ m # 0
  BY <1>2
<1>4. m - 1 \in 0..n - 1 /\ m - 1 \in T
  BY <1>2, <1>3
<1> QED
  BY <1>2, <1>3, <1>4

\* What the loop does at a batch, as an equation of its numbers.
Steps(rows, n, k, f) ==
    /\ f \in [1..k -> Nat]
    /\ \A i \in 1..k :
         f[i] = IF i = 1 THEN n
                ELSE IF rows[i - 1].left >= f[i - 1] THEN 0 ELSE f[i - 1] - rows[i - 1].left

\* The loop has such numbers, however many batches it meets.
LEMMA StepsExist ==
    ASSUME NEW rows \in Seq(Batch), NEW n \in Nat
    PROVE  \E f : Steps(rows, n, Len(rows) + 1, f)
<1> DEFINE m == Len(rows)
           T == {k \in 0..m : \E f : Steps(rows, n, k + 1, f)}
<1>1. m \in Nat /\ \A i \in 1..m : rows[i].left \in Nat
  BY DEF Batch
<1>2. 0 \in T
  <2>1. Steps(rows, n, 1, [i \in 1..1 |-> n])
    BY DEF Steps
  <2> QED
    BY <1>1, <2>1
<1>3. ASSUME NEW k \in 0..m - 1, k \in T PROVE k + 1 \in T
  <2>1. PICK f : Steps(rows, n, k + 1, f)
    BY <1>3
  <2>2. k \in Nat /\ k + 1 \in 1..m /\ f[k + 1] \in Nat /\ rows[k + 1].left \in Nat
    BY <1>1, <2>1 DEF Steps
  <2> DEFINE x == IF rows[k + 1].left >= f[k + 1] THEN 0 ELSE f[k + 1] - rows[k + 1].left
             g == [i \in 1..k + 2 |-> IF i = k + 2 THEN x ELSE f[i]]
  <2>3. x \in Nat
    BY <2>2
  <2>4. g \in [1..k + 2 -> Nat]
    BY <2>1, <2>2, <2>3 DEF Steps
  <2>5. ASSUME NEW i \in 1..k + 2
        PROVE  g[i] = IF i = 1 THEN n
                      ELSE IF rows[i - 1].left >= g[i - 1] THEN 0 ELSE g[i - 1] - rows[i - 1].left
    <3>1. CASE i = k + 2
      <4>1. i # 1 /\ i - 1 = k + 1 /\ i - 1 \in 1..k + 2 /\ i - 1 # k + 2
        BY <2>2, <3>1
      <4>2. g[i] = x /\ g[i - 1] = f[k + 1]
        BY <3>1, <4>1
      <4> HIDE DEF g
      <4> QED
        BY <4>1, <4>2
    <3>2. CASE i # k + 2
      <4>1. i \in 1..k + 1 /\ g[i] = f[i]
        BY <2>2, <3>2
      <4>2. i # 1 => i - 1 \in 1..k + 1 /\ g[i - 1] = f[i - 1]
        BY <2>2, <3>2
      <4> HIDE DEF g
      <4> QED
        BY <2>1, <4>1, <4>2 DEF Steps
    <3> QED
      BY <3>1, <3>2
  <2> HIDE DEF g, x
  <2>6. Steps(rows, n, k + 2, g)
    BY <2>4, <2>5 DEF Steps
  <2>7. k + 2 = (k + 1) + 1 /\ k + 1 \in 0..m
    BY <2>2
  <2> QED
    BY <2>6, <2>7
<1> HIDE DEF T
<1>4. \A k \in 0..m - 1 : k \in T => k + 1 \in T
  BY <1>3
<1>5. m \in T
  <2> HIDE DEF m
  <2> QED
    BY <1>1, <1>2, <1>4, Climb
<1> QED
  BY <1>5 DEF T

\* So what it still has to take is a number of pieces,
LEMMA RemainingType ==
    ASSUME NEW rows \in Seq(Batch), NEW n \in Nat, NEW i \in 1..Len(rows)
    PROVE  Remaining(rows, n)[i] \in Nat
<1> DEFINE m == Len(rows)
           Rec(f) == f = [j \in 1..m + 1 |->
                            IF j = 1 THEN n
                            ELSE IF rows[j - 1].left >= f[j - 1] THEN 0 ELSE f[j - 1] - rows[j - 1].left]
           due == CHOOSE f : Rec(f)
<1>1. Remaining(rows, n) = due
  BY DEF Remaining
<1>2. PICK f : Steps(rows, n, m + 1, f)
  BY StepsExist
<1>3. Rec(f)
  BY <1>2 DEF Steps
<1>4. Rec(due)
  <2> HIDE DEF Rec
  <2> QED
    BY <1>3
<1> HIDE DEF due
<1>5. m \in Nat /\ i \in 1..m /\ \A j \in 1..m : rows[j].left \in Nat
  BY DEF Batch
<1>6. \A j \in 1..m + 1 :
        due[j] = IF j = 1 THEN n
                 ELSE IF rows[j - 1].left >= due[j - 1] THEN 0 ELSE due[j - 1] - rows[j - 1].left
  BY <1>4
<1> DEFINE T == {k \in 0..i - 1 : due[k + 1] \in Nat}
<1> HIDE DEF m, Rec
<1>7. 0 \in T
  <2>1. due[1] = n
    BY <1>5, <1>6
  <2> QED
    BY <1>5, <2>1
<1>8. ASSUME NEW k \in 0..(i - 1) - 1, k \in T PROVE k + 1 \in T
  <2>1. k + 2 \in 1..m + 1 /\ k + 2 # 1 /\ (k + 2) - 1 = k + 1 /\ k + 1 \in 1..m
    BY <1>5
  <2>2. due[k + 2] = IF rows[k + 1].left >= due[k + 1] THEN 0 ELSE due[k + 1] - rows[k + 1].left
    BY <1>6, <2>1
  <2>3. due[k + 1] \in Nat /\ rows[k + 1].left \in Nat
    BY <1>5, <1>8, <2>1
  <2>4. due[k + 2] \in Nat /\ (k + 1) + 1 = k + 2 /\ k + 1 \in 0..i - 1
    BY <1>5, <2>2, <2>3
  <2> QED
    BY <2>4
<1> HIDE DEF T
<1>9. i - 1 \in Nat /\ (i - 1) + 1 = i
  BY <1>5
<1>10. i - 1 \in T
  <2>1. \A k \in 0..(i - 1) - 1 : k \in T => k + 1 \in T
    BY <1>8
  <2> QED
    BY <1>7, <1>9, <2>1, Climb
<1> QED
  BY <1>1, <1>9, <1>10 DEF T

\* and what it leaves are batches again.
LEMMA ConsumedType ==
    ASSUME NEW rows \in Seq(Batch), NEW n \in Nat
    PROVE  consumeFIFO(rows, n) \in Seq(Batch) /\ Len(consumeFIFO(rows, n)) = Len(rows)
<1> DEFINE m == Len(rows)
           due == Remaining(rows, n)
           new == consumeFIFO(rows, n)
<1>1. m \in Nat /\ DOMAIN rows = 1..m /\ \A i \in 1..m : rows[i] \in Batch
  OBVIOUS
<1>2. \A i \in 1..m : due[i] \in Nat
  BY RemainingType
<1>3. new = [i \in 1..m |-> [rows[i] EXCEPT !.left =
                 IF rows[i].left >= due[i] THEN rows[i].left - due[i] ELSE 0]]
  BY <1>1 DEF consumeFIFO
<1> HIDE DEF m, due, new
<1>4. ASSUME NEW i \in 1..m PROVE new[i] \in Batch
  <2>1. rows[i] \in [got : Nat, left : Nat] /\ rows[i].left <= rows[i].got /\ due[i] \in Nat
    BY <1>1, <1>2 DEF Batch
  <2> DEFINE y == IF rows[i].left >= due[i] THEN rows[i].left - due[i] ELSE 0
  <2>2. y \in Nat /\ y <= rows[i].got
    BY <2>1
  <2>3. new[i] = [rows[i] EXCEPT !.left = y]
    BY <1>3
  <2> HIDE DEF y
  <2> QED
    BY <2>1, <2>2, <2>3 DEF Batch
<1>5. new \in [1..m -> Batch]
  BY <1>3, <1>4
<1>6. new \in Seq(Batch) /\ Len(new) = m
  BY <1>1, <1>5
<1> QED
  BY <1>6 DEF new, m

\* Whichever of the saves fail.
LEMMA ConsumeType ==
    ASSUME BatchInv, NEW p \in Products, NEW n \in Nat, Consume(p, n)
    PROVE  batches' \in [Products -> Seq(Batch)]
<1> DEFINE old == batches[p]
           used == consumeFIFO(old, n)
<1>1. old \in Seq(Batch) /\ used \in Seq(Batch) /\ Len(used) = Len(old)
  BY ConsumedType DEF BatchInv
<1>2. PICK K : batches' = [batches EXCEPT ![p] =
                             [i \in DOMAIN used |-> IF i \in K THEN used[i] ELSE old[i]]]
  BY DEF Consume
<1> HIDE DEF used, old
<1> DEFINE new == [i \in DOMAIN used |-> IF i \in K THEN used[i] ELSE old[i]]
           m == Len(used)
<1>3. DOMAIN used = 1..m /\ m \in Nat /\ \A i \in 1..m : used[i] \in Batch /\ old[i] \in Batch
  BY <1>1
<1>4. new \in [1..m -> Batch]
  BY <1>3
<1> HIDE DEF new
<1>5. new \in Seq(Batch)
  <2> HIDE DEF m
  <2> QED
    BY <1>3, <1>4
<1> QED
  BY <1>2, <1>5 DEF BatchInv, new

\* Handlers that begin and end hold batches, or none.
LEMMA HeldOn ==
    ASSUME TypeInv, BatchInv, NEW s \in Slots, NEW r, Held(r), req' = [req EXCEPT ![s] = r]
    PROVE  \A t \in Slots : Held(req'[t])
BY DEF TypeInv, BatchInv
LEMMA HeldEnd ==
    ASSUME TypeInv, BatchInv, NEW s \in Slots, Done(s)
    PROVE  \A t \in Slots : Held(req'[t])
<1>1. Held(Idle)
  BY DEF Held, Idle
<1> QED
  BY <1>1, HeldOn DEF Done

\* Every step keeps the types.
LEMMA NextBatchInv ==
    ASSUME IInv, BatchInv, [Next]_vars
    PROVE  BatchInv'
<1> USE DEF IInv
<1>1. ASSUME NEW s \in Slots, NEW r, Held(r), Begin(s, r) PROVE BatchInv'
  <2>1. \A t \in Slots : Held(req'[t])
    BY <1>1, HeldOn DEF Begin
  <2> QED
    BY <1>1, <2>1 DEF Begin, BatchInv
<1>2. ASSUME NEW s \in Slots, NEW p \in Products, Start(s, p) PROVE BatchInv'
  <2>1. batches[p] \in Seq(Batch)
    BY DEF BatchInv
  <2>2. ASSUME NEW op \in Ops, NEW n, NEW x, NEW q
        PROVE  /\ Held([Idle EXCEPT !.op = op, !.p = q, !.n = n])
               /\ Held([Idle EXCEPT !.op = op, !.p = q, !.seen = x])
    BY DEF Held, Idle
  <2>3. "in" \in Ops /\ "out" \in Ops /\ "count" \in Ops /\ "consume" \in Ops /\ "save" \in Ops
    BY DEF Ops
  <2>4. CASE BeginSave(s, p)
    BY <1>1, <2>2, <2>3, <2>4 DEF BeginSave
  <2>5. ASSUME NEW n \in Amounts, BeginMovementIn(s, p, n) PROVE BatchInv'
    BY <1>1, <2>2, <2>3, <2>5 DEF BeginMovementIn
  <2>6. ASSUME NEW n \in Amounts, BeginMovementOut(s, p, n) PROVE BatchInv'
    BY <1>1, <2>2, <2>3, <2>6 DEF BeginMovementOut
  <2>7. ASSUME NEW n \in Amounts, BeginConsume(s, p, n) PROVE BatchInv'
    <3>1. PICK r : r = [Idle EXCEPT !.op = "consume", !.p = p, !.n = n, !.rows = batches[p]]
      OBVIOUS
    <3>2. Held(r)
      BY <2>1, <2>3, <3>1 DEF Held, Idle
    <3> QED
      BY <1>1, <2>7, <3>1, <3>2 DEF BeginConsume
  <2>8. ASSUME NEW n \in Amounts \union {0}, BeginCount(s, p, n) PROVE BatchInv'
    <3>1. PICK r : r = [Idle EXCEPT !.op = "count", !.p = p, !.n = n, !.seen = stock[p]]
      OBVIOUS
    <3>2. Held(r)
      BY <2>3, <3>1 DEF Held, Idle
    <3> QED
      BY <1>1, <2>8, <3>1, <3>2 DEF BeginCount
  <2> QED
    BY <1>2, <2>4, <2>5, <2>6, <2>7, <2>8 DEF Start
<1>3. ASSUME NEW p \in Products, NEW n \in Amounts \union {0} PROVE n \in Nat
  BY RoomAssumption
<1>4. ASSUME NEW p \in Products, Catalogue(p) \/ Trade(p) PROVE BatchInv'
  <2>1. added[p] \in 0..MaxOffCard /\ removed[p] \in 0..MaxOffCard /\ batches[p] \in Seq(Batch) /\ MaxOffCard \in Nat
    BY RoomAssumption DEF BatchInv
  <2>2. ASSUME NEW n \in Amounts \union {0}, CreateProduct(p, n) \/ DeleteProduct(p) PROVE BatchInv'
    BY <2>2 DEF CreateProduct, DeleteProduct, BatchInv
  <2>3. ASSUME NEW n \in Amounts, PatchUp(p, n) \/ CounterReturn(p, n) PROVE BatchInv'
    <3>1. added[p] + n \in 0..MaxOffCard
      BY <1>3, <2>1, <2>3 DEF PatchUp, CounterReturn
    <3> QED
      BY <2>3, <3>1 DEF PatchUp, CounterReturn, BatchInv
  <2>4. ASSUME NEW n \in Amounts, PatchDown(p, n) PROVE BatchInv'
    <3>1. removed[p] + n \in 0..MaxOffCard
      BY <1>3, <2>1, <2>4 DEF PatchDown
    <3> QED
      BY <2>4, <3>1 DEF PatchDown, BatchInv
  <2>5. ASSUME NEW n \in Amounts, Sell(p, n) PROVE BatchInv'
    <3>1. batches' \in [Products -> Seq(Batch)]
      BY <1>3, <2>5, ConsumeType DEF Sell
    <3> QED
      BY <2>5, <3>1 DEF Sell, Take, BatchInv
  <2>6. ASSUME NEW n \in Amounts, StorefrontSell(p, n) \/ StorefrontReturn(p, n) PROVE BatchInv'
    BY <2>6 DEF StorefrontSell, Take, StorefrontReturn, BatchInv
  <2> QED
    BY <1>4, <2>2, <2>3, <2>4, <2>5, <2>6 DEF Catalogue, Trade
<1>5. ASSUME NEW s \in Slots, Finish(s) PROVE BatchInv'
  <2>1. CASE CommitSave(s) \/ CommitCount(s) \/ Abandon(s)
    <3>1. \A t \in Slots : Held(req'[t])
      BY <2>1, HeldEnd DEF CommitSave, CommitCount, Abandon
    <3> QED
      BY <2>1, <3>1 DEF CommitSave, CommitCount, Abandon, BatchInv
  <2>2. CASE CommitMovementIn(s)
    <3>1. req[s].p \in Products /\ req[s].n \in Nat
      BY <2>2 DEF CommitMovementIn, TypeInv, ReqOK
    <3>2. [got |-> req[s].n, left |-> req[s].n] \in Batch
      BY <3>1 DEF Batch
    <3>3. Append(batches[req[s].p], [got |-> req[s].n, left |-> req[s].n]) \in Seq(Batch)
      BY <3>1, <3>2 DEF BatchInv
    <3>4. batches' \in [Products -> Seq(Batch)]
      BY <2>2, <3>1, <3>3 DEF CommitMovementIn, BatchInv
    <3>5. \A t \in Slots : Held(req'[t])
      BY <2>2, HeldEnd DEF CommitMovementIn
    <3> QED
      BY <2>2, <3>4, <3>5 DEF CommitMovementIn, BatchInv
  <2>3. CASE CommitMovementOut(s)
    <3>1. req[s].p \in Products /\ req[s].n \in Nat
      BY <2>3 DEF CommitMovementOut, TypeInv, ReqOK
    <3>2. batches' \in [Products -> Seq(Batch)]
      BY <2>3, <3>1, ConsumeType DEF CommitMovementOut
    <3>3. \A t \in Slots : Held(req'[t])
      BY <2>3, HeldEnd DEF CommitMovementOut
    <3> QED
      BY <2>3, <3>2, <3>3 DEF CommitMovementOut, BatchInv
  <2>4. CASE CommitConsume(s)
    <3>1. req[s].p \in Products /\ req[s].n \in Nat /\ req[s].rows \in Seq(Batch)
      BY <2>4 DEF CommitConsume, TypeInv, ReqOK, BatchInv, Held
    <3> DEFINE p == req[s].p
               seen == req[s].rows
               saved == consumeFIFO(seen, req[s].n)
    <3>0. PICK K \in Savings(seen) :
            batches' = [batches EXCEPT ![p] = [i \in DOMAIN batches[p] |->
              IF i \in K /\ saved[i] # seen[i] THEN saved[i] ELSE batches[p][i]]]
      BY <2>4 DEF CommitConsume
    <3> DEFINE Row(i) == IF i \in K /\ saved[i] # seen[i] THEN saved[i] ELSE batches[p][i]
    <3>2. batches' = [batches EXCEPT ![p] = [i \in DOMAIN batches[p] |-> Row(i)]]
      BY <3>0
    <3>6. K \subseteq DOMAIN seen
      BY DEF Savings
    <3>3. saved \in Seq(Batch) /\ Len(saved) = Len(seen) /\ batches[p] \in Seq(Batch)
      BY <3>1, ConsumedType DEF BatchInv
    <3>4. [i \in DOMAIN batches[p] |-> Row(i)] \in Seq(Batch)
      <4> HIDE DEF saved, p
      <4>1. DOMAIN batches[p] = 1..Len(batches[p]) /\ Len(batches[p]) \in Nat
        BY <3>3
      <4>2. ASSUME NEW i \in DOMAIN batches[p] PROVE Row(i) \in Batch
        BY <3>1, <3>3, <3>6
      <4>3. [i \in 1..Len(batches[p]) |-> Row(i)] \in [1..Len(batches[p]) -> Batch]
        BY <4>1, <4>2
      <4> HIDE DEF Row
      <4> QED
        BY <4>1, <4>3
    <3>5. \A t \in Slots : Held(req'[t])
      BY <2>4, HeldEnd DEF CommitConsume
    <3> HIDE DEF Row, saved
    <3> QED
      BY <2>4, <3>1, <3>2, <3>4, <3>5 DEF CommitConsume, BatchInv
  <2> QED
    BY <1>5, <2>1, <2>2, <2>3, <2>4 DEF Finish
<1>6. CASE UNCHANGED vars
  BY <1>6 DEF vars, BatchInv
<1> QED
  BY <1>2, <1>4, <1>5, <1>6 DEF Next

-----------------------------------------------------------------------------
(* What follows.                                                           *)

\* Whatever overlaps, stock and card are numbers, every batch has left some of what
\* was got and none less than nothing, and the handlers hold operations.
THEOREM TypeCorrect == Spec => []TypeOK
<1>1. Init => BatchInv
  <2>1. Held(Idle) /\ 0 \in 0..MaxOffCard /\ <<>> \in Seq(Batch)
    BY RoomAssumption DEF Held, Idle
  <2> QED
    BY <2>1 DEF Init, BatchInv
<1>2. IInv /\ BatchInv /\ [Next]_vars => BatchInv'
  BY NextBatchInv
<1>3. ASSUME IInv, BatchInv PROVE TypeOK
  <2>1. ASSUME NEW p \in Products, NEW i \in DOMAIN batches[p]
        PROVE  batches[p][i].got \in Nat /\ batches[p][i].left \in 0..batches[p][i].got
    <3>1. batches[p][i] \in Batch
      BY <1>3 DEF BatchInv
    <3> QED
      BY <3>1 DEF Batch
  <2>2. \A s \in Slots : req[s].op \in Ops \union {"idle"}
    BY <1>3 DEF BatchInv, Held
  <2> QED
    BY <1>3, <2>1, <2>2 DEF IInv, TypeInv, BatchInv, TypeOK
<1> QED
  BY <1>1, <1>2, <1>3, AlwaysIInv, PTL DEF Spec

\* With any number of clerks, sales and product pages at once, the movements
\* of a product that was never deleted, and of which no statement failed unseen, add up
\* to its stock, but for what the code moves without a row, provided counts are done while nothing moves.
THEOREM CardExplainsShelf == Spec => []StockOnCard
<1>1. IInv => StockOnCard
  BY DEF IInv, CardInv
<1> QED
  BY <1>1, AlwaysIInv, PTL

\* The check of an outgoing movement is made before its transaction, so the
\* shelf can go below zero, by at most one movement for each handler.
THEOREM OverdrawIsBounded == Spec => []OverdrawBounded
<1>1. ASSUME IInv, NEW p \in Products
      PROVE  stock[p] + removed[p] >= -(Cardinality(Slots) * MaxAmount)
  <2> DEFINE all == Cardinality(Slots)
             rest == Cardinality(Slots) - Cardinality(Leaving(p))
  <2>1. all \in Nat /\ rest \in Nat /\ rest <= all /\ MaxAmount \in Nat
    BY LeavingFinite, RoomAssumption
  <2>2. Slack(p) <= all * MaxAmount /\ Slack(p) \in Nat /\ all * MaxAmount \in Nat
    BY <2>1, Times, SlackNat DEF Slack
  <2>3. stock[p] + removed[p] + Slack(p) >= 0 /\ stock[p] \in Int /\ removed[p] \in Nat
    BY <1>1, RowIs DEF IInv, DrawInv
  <2> HIDE DEF all
  <2>4. stock[p] + removed[p] >= -(all * MaxAmount)
    BY <2>2, <2>3
  <2> QED
    BY <2>4 DEF all
<1>2. IInv => OverdrawBounded
  BY <1>1 DEF OverdrawBounded
<1> QED
  BY <1>2, AlwaysIInv, PTL

=============================================================================
