--------------------------- MODULE PosSale_proofs ---------------------------
(***************************************************************************)
(* What holds of PosSale for any number of tills, tickets and gifts.       *)
(* Under every overlap: types, the shelf and the points are not overdrawn, *)
(* the point log is exact while sales alone write the balance, a repeated  *)
(* answer is for the same items.  With one request at a time: a sale       *)
(* counts once, and batches are consumed in order.                         *)
(***************************************************************************)
EXTENDS PosSale, FiniteSetTheorems, FunctionTheorems, WellFoundedInduction, TLAPS

-----------------------------------------------------------------------------
(* The inductive invariant.                                                *)

\* What a handler has read is an order of the shop, or a balance that once
\* was in the row.
SlotOK(r) ==
    /\ r.op = "create" => r.client \in ClientIds
    /\ r.op \in {"paid", "cancel", "refund"} => r.order \in OrderIds
    /\ r.op = "update" => r.points \in Nat

\* The balance of the log is only known where nobody writes around it.
LogOK == Desk = {} => /\ pointLog \in Int
                      /\ PointsExact
                      /\ \A s \in Http : req[s].op \notin {"update", "expire"}

IInv ==
    /\ stock \in Nat
    /\ points \in Nat
    /\ req = [s \in Http |-> req[s]]
    /\ \A s \in Http : SlotOK(req[s])
    /\ LogOK

-----------------------------------------------------------------------------
(* Lemmas.                                                                 *)

\* A cart costs a natural number of units and points and earns one of points.
LEMMA CartNat ==
    ASSUME NEW t \in Tickets
    PROVE  /\ Cart[t].units \in Nat
           /\ Cart[t].points \in Nat
           /\ Earned(Cart[t]) \in Nat
<1>1. Cart[t].units \in Nat /\ Cart[t].points \in Nat /\ Cart[t].cash \in Nat
  BY RegisterAssumption DEF CartType
<1>2. Cart[t].cash \div 2 \in Nat
  BY <1>1
<1> QED
  BY <1>1, <1>2 DEF Earned, calculateEarnedPoints

\* An order belongs to a ticket, and so does a request id.
LEMMA TicketOf ==
    /\ \A i \in OrderIds : i[1] \in Tickets
    /\ \A c \in ClientIds : c[1] \in Tickets
BY DEF OrderIds, ClientIds

\* Filling a slot with a good request, or emptying it, keeps the slots good.
LEMMA SlotsKeep ==
    ASSUME req = [s \in Http |-> req[s]], \A s \in Http : SlotOK(req[s]),
           NEW s \in Http, NEW r, SlotOK(r), req' = [req EXCEPT ![s] = r]
    PROVE  /\ req' = [t \in Http |-> req'[t]]
           /\ \A t \in Http : req'[t] = IF t = s THEN r ELSE req[t]
           /\ \A t \in Http : SlotOK(req'[t])
<1>1. /\ req' = [t \in Http |-> req'[t]]
      /\ \A t \in Http : req'[t] = IF t = s THEN r ELSE req[t]
  OBVIOUS
<1> QED
  BY <1>1

\* An empty slot is good.
LEMMA IdleOK == SlotOK(Idle) /\ Idle.op \notin {"update", "expire"}
BY DEF SlotOK, Idle

\* A sale takes no more than is there, of the shelf and of the points, and
\* logs what it changes.
LEMMA SaleKeeps ==
    ASSUME IInv, NEW t \in Tickets, NEW b,
           Deduct(Cart[t], b), applyPointsChange(Cart[t])
    PROVE  /\ stock' \in Nat
           /\ points' \in Nat
           /\ Desk = {} => pointLog' \in Int /\ PointsExact'
<1>1. Cart[t].units \in Nat /\ Cart[t].points \in Nat /\ Earned(Cart[t]) \in Nat
  BY CartNat
<1>2. stock' = stock - Cart[t].units /\ stock >= Cart[t].units
  BY DEF Deduct, Sellable
<1>3. /\ points >= Cart[t].points
      /\ points' = points - Cart[t].points + Earned(Cart[t])
      /\ pointLog' = pointLog + (Earned(Cart[t]) - Cart[t].points)
  BY DEF applyPointsChange, Affords, LoggedPoints
<1>4. stock \in Nat /\ points \in Nat
  BY DEF IInv
<1>5. stock' \in Nat
  BY <1>1, <1>2, <1>4
<1>6. points' \in Nat
  BY <1>1, <1>3, <1>4
<1>7. ASSUME Desk = {} PROVE pointLog' \in Int /\ PointsExact'
  <2>1. pointLog \in Int /\ points = InitPoints + pointLog
    BY <1>7 DEF IInv, LogOK, PointsExact
  <2>2. InitPoints \in Nat
    BY RegisterAssumption
  <2>3. /\ pointLog' \in Int
        /\ points' = InitPoints + pointLog'
    BY <1>1, <1>3, <1>4, <2>1, <2>2
  <2> QED
    BY <2>3 DEF PointsExact
<1> QED
  BY <1>5, <1>6, <1>7

\* A step that fills or empties one slot and leaves stock and points alone.
LEMMA QuietKeeps ==
    ASSUME IInv, NEW s \in Http, NEW r, SlotOK(r), req' = [req EXCEPT ![s] = r],
           Desk = {} => r.op \notin {"update", "expire"},
           stock' \in Nat, UNCHANGED pointVars
    PROVE  IInv'
<1>1. /\ req' = [t \in Http |-> req'[t]]
      /\ \A t \in Http : req'[t] = IF t = s THEN r ELSE req[t]
      /\ \A t \in Http : SlotOK(req'[t])
  BY SlotsKeep DEF IInv
<1>2. points' = points /\ pointLog' = pointLog
  BY DEF pointVars
<1>3. LogOK'
  <2>1. CASE Desk = {}
    BY <1>1, <1>2, <2>1 DEF IInv, LogOK, PointsExact
  <2>2. CASE Desk # {}
    BY <2>2 DEF LogOK
  <2> QED
    BY <2>1, <2>2
<1> QED
  BY <1>1, <1>2, <1>3 DEF IInv

\* A committed sale keeps the invariant, whatever its slot holds next.
LEMMA CommitSaleKeeps ==
    ASSUME IInv, NEW s \in Http, NEW r, SlotOK(r), req' = [req EXCEPT ![s] = r],
           r.op \notin {"update", "expire"},
           NEW t \in Tickets, NEW b, Deduct(Cart[t], b), applyPointsChange(Cart[t])
    PROVE  IInv'
<1>1. /\ req' = [u \in Http |-> req'[u]]
      /\ \A u \in Http : req'[u] = IF u = s THEN r ELSE req[u]
      /\ \A u \in Http : SlotOK(req'[u])
  BY SlotsKeep DEF IInv
<1>2. /\ stock' \in Nat
      /\ points' \in Nat
      /\ Desk = {} => pointLog' \in Int /\ PointsExact'
  BY SaleKeeps
<1>3. LogOK'
  BY <1>1, <1>2 DEF IInv, LogOK
<1> QED
  BY <1>1, <1>2, <1>3 DEF IInv

-----------------------------------------------------------------------------
(* The steps.                                                              *)

\* A step that leaves stock, balance and slots alone.
LEMMA StutterKeeps ==
    ASSUME IInv, UNCHANGED <<stock, pointVars, req>>
    PROVE  IInv'
BY DEF IInv, LogOK, PointsExact, pointVars

\* Every step of the till keeps the invariant.
LEMMA TillKeeps ==
    ASSUME IInv, NEW s \in Http, TillStep(s)
    PROVE  IInv'
<1>1. ASSUME NEW c \in ClientIds, AnswerCreate(s, c) PROVE IInv'
  BY <1>1, StutterKeeps DEF AnswerCreate, shelfVars
<1>2. ASSUME NEW c \in ClientIds, BeginCreate(s, c) PROVE IInv'
  <2> DEFINE r == [op |-> "create", client |-> c, batches |-> batches]
  <2>1. SlotOK(r) /\ r.op \notin {"update", "expire"}
    BY <1>2 DEF SlotOK
  <2>2. req' = [req EXCEPT ![s] = r] /\ stock' \in Nat /\ UNCHANGED pointVars
    BY <1>2 DEF IInv, shelfVars, Begin, BeginCreate
  <2> HIDE DEF r
  <2> QED
    BY <2>1, <2>2, QuietKeeps
<1>3. ASSUME CommitCreate(s) PROVE IInv'
  <2> DEFINE t == req[s].client[1]
             r == [op |-> "remember", client |-> req[s].client, order |-> NewOrder(t)]
  <2>1. t \in Tickets
    BY <1>3, TicketOf DEF IInv, SlotOK, CommitCreate, Running
  <2>2. SlotOK(r) /\ r.op \notin {"update", "expire"}
    BY DEF SlotOK
  <2>3. /\ Deduct(Cart[t], SeenBatches(s, Cart[t]))
        /\ applyPointsChange(Cart[t])
        /\ req' = [req EXCEPT ![s] = r]
    BY <1>3 DEF CommitCreate
  <2> HIDE DEF r, t
  <2> QED
    BY <2>1, <2>2, <2>3, CommitSaleKeeps
<1>4. ASSUME RememberCreate(s) PROVE IInv'
  <2>1. SlotOK(Idle) /\ stock' \in Nat /\ UNCHANGED pointVars
    BY <1>4, IdleOK DEF IInv, shelfVars, pointVars, RememberCreate
  <2> QED
    BY <1>4, <2>1, IdleOK, QuietKeeps DEF RememberCreate, Done
<1>5. ASSUME NEW i \in OrderIds, BeginMarkAsPaid(s, i) PROVE IInv'
  <2> DEFINE r == [op |-> "paid", order |-> i, batches |-> batches]
  <2>1. SlotOK(r) /\ r.op \notin {"update", "expire"}
    BY <1>5 DEF SlotOK
  <2>2. req' = [req EXCEPT ![s] = r] /\ stock' \in Nat /\ UNCHANGED pointVars
    BY <1>5 DEF IInv, shelfVars, Begin, BeginMarkAsPaid
  <2> HIDE DEF r
  <2> QED
    BY <2>1, <2>2, QuietKeeps
<1>6. ASSUME NEW i \in OrderIds, BeginCancelPending(s, i) PROVE IInv'
  <2> DEFINE r == [op |-> "drop", order |-> i]
  <2>1. SlotOK(r) /\ r.op \notin {"update", "expire"}
    BY <1>6 DEF SlotOK
  <2>2. req' = [req EXCEPT ![s] = r] /\ stock' \in Nat /\ UNCHANGED pointVars
    BY <1>6 DEF IInv, shelfVars, Begin, BeginCancelPending
  <2> HIDE DEF r
  <2> QED
    BY <2>1, <2>2, QuietKeeps
<1>7. ASSUME CommitMarkAsPaid(s) PROVE IInv'
  <2> DEFINE t == req[s].order[1]
  <2>1. t \in Tickets
    BY <1>7, TicketOf DEF IInv, SlotOK, CommitMarkAsPaid, Running
  <2>2. /\ Deduct(Cart[t], req[s].batches)
        /\ applyPointsChange(Cart[t])
        /\ req' = [req EXCEPT ![s] = Idle]
    BY <1>7 DEF CommitMarkAsPaid, CartOf, Done
  <2> HIDE DEF t
  <2> QED
    BY <2>1, <2>2, IdleOK, CommitSaleKeeps
<1>8. ASSUME CommitCancelPending(s) PROVE IInv'
  <2>1. SlotOK(Idle) /\ stock' \in Nat /\ UNCHANGED pointVars
    BY <1>8, IdleOK DEF IInv, shelfVars, pointVars, CommitCancelPending
  <2> QED
    BY <1>8, <2>1, IdleOK, QuietKeeps DEF CommitCancelPending, Done
<1> QED
  BY <1>1, <1>2, <1>3, <1>4, <1>5, <1>6, <1>7, <1>8 DEF TillStep

\* So does every correction: stock only comes back.
LEMMA CorrectionKeeps ==
    ASSUME IInv, NEW s \in Http, CorrectionStep(s)
    PROVE  IInv'
<1>1. ASSUME NEW i \in OrderIds, BeginCancelOrder(s, i) PROVE IInv'
  <2> DEFINE r == [op |-> "cancel", order |-> i]
  <2>1. SlotOK(r) /\ r.op \notin {"update", "expire"}
    BY <1>1 DEF SlotOK
  <2>2. req' = [req EXCEPT ![s] = r] /\ stock' \in Nat /\ UNCHANGED pointVars
    BY <1>1 DEF IInv, shelfVars, Begin, BeginCancelOrder
  <2> HIDE DEF r
  <2> QED
    BY <2>1, <2>2, QuietKeeps
<1>2. ASSUME NEW i \in OrderIds, BeginEditPayments(s, i) PROVE IInv'
  <2> DEFINE r == [op |-> "edit", order |-> i]
  <2>1. SlotOK(r) /\ r.op \notin {"update", "expire"}
    BY <1>2 DEF SlotOK
  <2>2. req' = [req EXCEPT ![s] = r] /\ stock' \in Nat /\ UNCHANGED pointVars
    BY <1>2 DEF IInv, shelfVars, Begin, BeginEditPayments
  <2> HIDE DEF r
  <2> QED
    BY <2>1, <2>2, QuietKeeps
<1>3. ASSUME NEW i \in OrderIds, BeginRefund(s, i) PROVE IInv'
  <2> DEFINE r == [op |-> "refund", order |-> i]
  <2>1. SlotOK(r) /\ r.op \notin {"update", "expire"}
    BY <1>3 DEF SlotOK
  <2>2. req' = [req EXCEPT ![s] = r] /\ stock' \in Nat /\ UNCHANGED pointVars
    BY <1>3 DEF IInv, shelfVars, Begin, BeginRefund
  <2> HIDE DEF r
  <2> QED
    BY <2>1, <2>2, QuietKeeps
<1>4. ASSUME CommitCancelOrder(s) PROVE IInv'
  <2>1. CartOf(req[s].order).units \in Nat
    BY <1>4, TicketOf, CartNat DEF IInv, SlotOK, CommitCancelOrder, Running, CartOf
  <2>2. /\ stock' \in Nat
        /\ UNCHANGED pointVars
        /\ req' = [req EXCEPT ![s] = Idle]
    BY <1>4, <2>1 DEF IInv, CommitCancelOrder, Return, Done
  <2> QED
    BY <2>2, IdleOK, QuietKeeps
<1>5. ASSUME CommitEditPayments(s) PROVE IInv'
  <2>1. SlotOK(Idle) /\ stock' \in Nat /\ UNCHANGED pointVars
    BY <1>5, IdleOK DEF IInv, shelfVars, pointVars, CommitEditPayments
  <2> QED
    BY <1>5, <2>1, IdleOK, QuietKeeps DEF CommitEditPayments, Done
<1>6. ASSUME CommitRefund(s) PROVE IInv'
  <2>1. CartOf(req[s].order).units \in Nat
    BY <1>6, TicketOf, CartNat DEF IInv, SlotOK, CommitRefund, Running, CartOf
  <2>2. /\ stock' \in Nat
        /\ UNCHANGED pointVars
        /\ req' = [req EXCEPT ![s] = Idle]
    BY <1>6, <2>1 DEF IInv, CommitRefund, Return, Done
  <2> QED
    BY <2>2, IdleOK, QuietKeeps
<1> QED
  BY <1>1, <1>2, <1>3, <1>4, <1>5, <1>6 DEF CorrectionStep

\* The other writers never make the balance negative: one writes back a
\* balance that was read, the other zero.
LEMMA DeskKeeps ==
    ASSUME IInv, NEW s \in Http, DeskStep(s)
    PROVE  IInv'
<1>1. ASSUME BeginUpdateMember(s) PROVE IInv'
  <2> DEFINE r == [op |-> "update", points |-> points]
  <2>1. SlotOK(r) /\ Desk # {}
    BY <1>1 DEF SlotOK, IInv, BeginUpdateMember
  <2>2. req' = [req EXCEPT ![s] = r] /\ stock' \in Nat /\ UNCHANGED pointVars
    BY <1>1 DEF IInv, shelfVars, Begin, BeginUpdateMember
  <2> HIDE DEF r
  <2> QED
    BY <2>1, <2>2, QuietKeeps
<1>2. ASSUME BeginPointsExpiry(s) PROVE IInv'
  <2> DEFINE r == [op |-> "expire", points |-> points]
  <2>1. SlotOK(r) /\ Desk # {}
    BY <1>2 DEF SlotOK, IInv, BeginPointsExpiry
  <2>2. req' = [req EXCEPT ![s] = r] /\ stock' \in Nat /\ UNCHANGED pointVars
    BY <1>2 DEF IInv, shelfVars, Begin, BeginPointsExpiry
  <2> HIDE DEF r
  <2> QED
    BY <2>1, <2>2, QuietKeeps
<1>3. ASSUME CommitUpdateMember(s) \/ CommitPointsExpiry(s) PROVE IInv'
  <2>1. req[s].op \in {"update", "expire"}
    BY <1>3 DEF CommitUpdateMember, CommitPointsExpiry, Running
  <2>2. Desk # {}
    BY <2>1 DEF IInv, LogOK
  <2>3. points' \in Nat
    BY <1>3 DEF IInv, SlotOK, CommitUpdateMember, CommitPointsExpiry, Running
  <2>4. stock' = stock /\ req' = [req EXCEPT ![s] = Idle]
    BY <1>3 DEF CommitUpdateMember, CommitPointsExpiry, shelfVars, Done
  <2>5. /\ req' = [t \in Http |-> req'[t]]
        /\ \A t \in Http : SlotOK(req'[t])
    BY <2>4, IdleOK, SlotsKeep DEF IInv
  <2> QED
    BY <2>2, <2>3, <2>4, <2>5 DEF IInv, LogOK
<1> QED
  BY <1>1, <1>2, <1>3 DEF DeskStep

-----------------------------------------------------------------------------
(* The theorems.                                                           *)

\* The initial state satisfies the invariant.
LEMMA InitIInv == Init => IInv
<1> SUFFICES ASSUME Init PROVE IInv
  OBVIOUS
<1>1. stock \in Nat /\ points \in Nat /\ InitPoints \in Nat
  BY RegisterAssumption DEF Init
<1>2. /\ req = [s \in Http |-> req[s]]
      /\ \A s \in Http : req[s] = Idle
  BY DEF Init
<1>3. LogOK
  BY <1>1, <1>2, IdleOK DEF LogOK, PointsExact, Init
<1> QED
  BY <1>1, <1>2, <1>3, IdleOK DEF IInv

\* Every step keeps it.
LEMMA NextIInv == IInv /\ [Next]_vars => IInv'
<1> SUFFICES ASSUME IInv, [Next]_vars PROVE IInv'
  OBVIOUS
<1>1. CASE UNCHANGED vars
  BY <1>1, StutterKeeps DEF vars, shelfVars
<1>2. ASSUME NEW s \in Http, Abandon(s) PROVE IInv'
  <2>1. stock' \in Nat /\ UNCHANGED pointVars /\ req' = [req EXCEPT ![s] = Idle]
    BY <1>2 DEF Abandon, Done, IInv, shelfVars
  <2> QED
    BY <2>1, IdleOK, QuietKeeps
<1>3. ASSUME NEW t \in Tickets, CreatePending(t) PROVE IInv'
  BY <1>3, StutterKeeps DEF CreatePending, shelfVars
<1>4. ASSUME NEW i \in OrderIds, WindowPasses(i) PROVE IInv'
  BY <1>4, StutterKeeps DEF WindowPasses, shelfVars
<1>5. ASSUME NEW e \in cache, CacheExpires(e) PROVE IInv'
  BY <1>5, StutterKeeps DEF CacheExpires, shelfVars
<1> QED
  BY <1>1, <1>2, <1>3, <1>4, <1>5, TillKeeps, CorrectionKeeps, DeskKeeps DEF Next

\* So it holds in every reachable state.
LEMMA AlwaysIInv == Spec => []IInv
BY InitIInv, NextIInv, PTL DEF Spec

\* However many tills sell, pay off, cancel and refund at once, the shelf
\* stock never becomes negative.
THEOREM NeverOversold == Spec => []StockNonNegative
<1>1. IInv => StockNonNegative
  BY DEF IInv, StockNonNegative
<1> QED
  BY <1>1, AlwaysIInv, PTL

\* No interleaving of sales, member edits and the yearly reset overdraws a
\* member's points.
THEOREM NeverOverdrawn == Spec => []PointsNonNegative
<1>1. IInv => PointsNonNegative
  BY DEF IInv, PointsNonNegative
<1> QED
  BY <1>1, AlwaysIInv, PTL

\* Neither is given out twice.
THEOREM NothingGivenTwice == Spec => []NothingOverdrawn
BY NeverOversold, NeverOverdrawn, PTL DEF NothingOverdrawn

\* As long as sales alone change balances, the log explains every one of them:
\* the row lock is enough, whatever the stale checks before it said.
THEOREM SalesKeepLog == (Desk = {}) => (Spec => []PointsExact)
<1>1. ASSUME Desk = {} PROVE IInv => PointsExact
  BY <1>1 DEF IInv, LogOK
<1>2. ASSUME Desk = {} PROVE Spec => []PointsExact
  BY <1>1, <1>2, AlwaysIInv, PTL
<1> QED
  BY <1>2

-----------------------------------------------------------------------------
(* Batches.                                                                *)

\* A nonempty set of natural numbers has a least member.
LEMMA Least ==
    ASSUME NEW T \in SUBSET Nat, T # {}
    PROVE  \E m \in T : \A k \in T : m <= k
<1> DEFINE R == OpToRel(<, Nat)
<1>1. IsWellFoundedOn(R, Nat)
  BY NatLessThanWellFounded
<1>2. \A x, y \in Nat : y < x => <<y, x>> \in R
  BY DEF OpToRel
<1> HIDE DEF R
<1>3. PICK m \in T : \A y \in T : ~(<<y, m>> \in R)
  BY <1>1, WFMin
<1>4. \A k \in T : k \in Nat /\ m \in Nat /\ ~(k < m)
  BY <1>2, <1>3
<1>5. \A k \in T : m <= k
  BY <1>4, SMT
<1> QED
  BY <1>5

\* Climbing a finite ladder: a set with 0 that goes on to every next number up
\* to n holds all numbers up to n.
LEMMA Climb ==
    ASSUME NEW n \in Nat, NEW T, 0 \in T,
           \A k \in 0 .. n - 1 : k \in T => k + 1 \in T
    PROVE  \A k \in 0 .. n : k \in T
<1> SUFFICES ASSUME NEW k \in 0 .. n, k \notin T PROVE FALSE
  OBVIOUS
<1> DEFINE Bad == {x \in 0 .. n : x \notin T}
<1>1. Bad \in SUBSET Nat /\ Bad # {}
  OBVIOUS
<1>2. PICK m \in Bad : \A x \in Bad : m <= x
  <2> HIDE DEF Bad
  <2> QED
    BY <1>1, Least
<1>3. m # 0 /\ m \in 0 .. n
  BY <1>2
<1>4. m - 1 \in 0 .. n - 1 /\ m - 1 \in T
  BY <1>2, <1>3
<1>5. m \in T
  BY <1>3, <1>4
<1> QED
  BY <1>2, <1>5

\* The units of the first i batches, for every i.
Sums(b, f) ==
    /\ f \in [0 .. Len(b) -> Nat]
    /\ f[0] = 0
    /\ \A i \in 1 .. Len(b) : f[i] = f[i - 1] + b[i]

\* What the sums are made of.
LEMMA SumsFacts ==
    ASSUME NEW b \in Seq(Nat), NEW f, Sums(b, f)
    PROVE  /\ \A j \in 0 .. Len(b) : f[j] \in Nat
           /\ \A j \in 1 .. Len(b) : f[j] = f[j - 1] + b[j] /\ b[j] \in Nat
           /\ f[0] = 0
<1>1. \A j \in 1 .. Len(b) : b[j] \in Nat
  OBVIOUS
<1>2. f \in [0 .. Len(b) -> Nat]
  BY DEF Sums
<1>3. \A j \in 0 .. Len(b) : f[j] \in Nat
  BY <1>2
<1> QED
  BY <1>1, <1>3 DEF Sums

\* They exist,
LEMMA SumsExist ==
    ASSUME NEW b \in Seq(Nat)
    PROVE  \E f : Sums(b, f)
<1> DEFINE n == Len(b)
           Upto(k, f) == /\ f \in [0 .. k -> Nat]
                         /\ f[0] = 0
                         /\ \A i \in 1 .. k : f[i] = f[i - 1] + b[i]
           T == {k \in 0 .. n : \E f : Upto(k, f)}
<1>1. n \in Nat /\ \A i \in 1 .. n : b[i] \in Nat
  OBVIOUS
<1>2. 0 \in T
  <2>1. Upto(0, [i \in 0 .. 0 |-> 0])
    OBVIOUS
  <2> HIDE DEF Upto
  <2> QED
    BY <1>1, <2>1
<1>3. ASSUME NEW k \in 0 .. n - 1, k \in T PROVE k + 1 \in T
  <2>1. PICK f : Upto(k, f)
    BY <1>3
  <2> DEFINE g == [i \in 0 .. k + 1 |-> IF i = k + 1 THEN f[k] + b[k + 1] ELSE f[i]]
  <2>2. Upto(k + 1, g)
    <3>1. b[k + 1] \in Nat /\ f[k] \in Nat
      BY <1>1, <2>1
    <3>2. g \in [0 .. k + 1 -> Nat] /\ g[0] = 0
      BY <2>1, <3>1
    <3>3. ASSUME NEW i \in 1 .. k + 1 PROVE g[i] = g[i - 1] + b[i]
      <4>1. CASE i = k + 1
        BY <4>1
      <4>2. CASE i # k + 1
        BY <2>1, <4>2
      <4> QED
        BY <4>1, <4>2
    <3> HIDE DEF g
    <3> QED
      BY <3>2, <3>3
  <2> HIDE DEF Upto, g
  <2> QED
    BY <1>1, <2>2
<1> HIDE DEF T
<1>4. \A k \in 0 .. n - 1 : k \in T => k + 1 \in T
  BY <1>3
<1>5. \A k \in 0 .. n : k \in T
  <2> HIDE DEF n
  <2> QED
    BY <1>1, <1>2, <1>4, Climb
<1>6. n \in T
  BY <1>1, <1>5
<1> QED
  BY <1>6 DEF T, Sums

\* only grow,
LEMMA SumsGrow ==
    ASSUME NEW b \in Seq(Nat), NEW f, Sums(b, f), NEW i \in 0 .. Len(b)
    PROVE  \A j \in 0 .. Len(b) : i <= j => f[i] <= f[j]
<1> DEFINE n == Len(b)
           T == {j \in 0 .. n : i <= j => f[i] <= f[j]}
<1>1. n \in Nat /\ i \in 0 .. n
  OBVIOUS
<1>2. /\ \A j \in 0 .. n : f[j] \in Nat
      /\ \A j \in 1 .. n : f[j] = f[j - 1] + b[j] /\ b[j] \in Nat
  BY SumsFacts
<1> HIDE DEF n
<1>3. 0 \in T
  BY <1>1, <1>2
<1>4. ASSUME NEW j \in 0 .. n - 1, j \in T PROVE j + 1 \in T
  <2>1. j \in 0 .. n /\ j + 1 \in 1 .. n /\ j + 1 - 1 = j
    BY <1>1
  <2>2. f[j + 1] = f[j] + b[j + 1] /\ b[j + 1] \in Nat /\ f[j] \in Nat /\ f[i] \in Nat
    BY <1>1, <1>2, <2>1
  <2> QED
    BY <1>1, <1>4, <2>1, <2>2
<1> HIDE DEF T
<1>5. \A j \in 0 .. n - 1 : j \in T => j + 1 \in T
  BY <1>4
<1>6. \A j \in 0 .. n : j \in T
  BY <1>1, <1>3, <1>5, Climb
<1> QED
  BY <1>6 DEF T, n

\* and BatchUnits is the last of them.
LEMMA UnitsAre ==
    ASSUME NEW b \in Seq(Nat), NEW f, Sums(b, f)
    PROVE  BatchUnits(b) = f[Len(b)]
<1> DEFINE n == Len(b)
           Rec(g) == g = [i \in 0 .. n |-> IF i = 0 THEN 0 ELSE g[i - 1] + b[i]]
           upTo == CHOOSE g : Rec(g)
<1>1. BatchUnits(b) = upTo[n]
  BY DEF BatchUnits
<1>2. Rec(f)
  BY DEF Sums
<1>3. Rec(upTo)
  <2> HIDE DEF Rec
  <2> QED
    BY <1>2
<1> HIDE DEF upTo
<1> DEFINE T == {k \in 0 .. n : upTo[k] = f[k]}
<1>4. 0 \in T
  BY <1>3 DEF Sums
<1>5. ASSUME NEW k \in 0 .. n - 1, k \in T PROVE k + 1 \in T
  BY <1>3, <1>5 DEF Sums
<1>6. n \in Nat
  OBVIOUS
<1> HIDE DEF T, Rec
<1>7. \A k \in 0 .. n - 1 : k \in T => k + 1 \in T
  BY <1>5
<1>8. \A k \in 0 .. n : k \in T
  <2> HIDE DEF n
  <2> QED
    BY <1>4, <1>6, <1>7, Climb
<1>9. n \in T
  BY <1>6, <1>8
<1> QED
  BY <1>1, <1>9 DEF T

\* What the loop of consumeFIFO still has to take when it reaches a batch is
\* what the older ones could not give.
LEMMA RemainingIs ==
    ASSUME NEW b \in Seq(Nat), NEW f, Sums(b, f), NEW q \in Nat, NEW i \in 1 .. Len(b) + 1
    PROVE  Remaining(b, q)[i] = IF q > f[i - 1] THEN q - f[i - 1] ELSE 0
<1> DEFINE n == Len(b)
           Rec(g) == g = [j \in 1 .. n + 1 |->
                            IF j = 1 THEN q
                            ELSE IF b[j - 1] >= g[j - 1] THEN 0 ELSE g[j - 1] - b[j - 1]]
           left == CHOOSE g : Rec(g)
           h == [j \in 1 .. n + 1 |-> IF q > f[j - 1] THEN q - f[j - 1] ELSE 0]
<1>1. Remaining(b, q) = left
  BY DEF Remaining
<1>2. n \in Nat /\ i \in 1 .. n + 1
  OBVIOUS
<1>3. /\ \A j \in 0 .. n : f[j] \in Nat
      /\ \A j \in 1 .. n : f[j] = f[j - 1] + b[j] /\ b[j] \in Nat
      /\ f[0] = 0
  BY SumsFacts
<1> HIDE DEF n
<1>4. ASSUME NEW j \in 1 .. n + 1
      PROVE  h[j] = IF j = 1 THEN q
                    ELSE IF b[j - 1] >= h[j - 1] THEN 0 ELSE h[j - 1] - b[j - 1]
  <2>1. CASE j = 1
    BY <1>2, <1>3, <2>1
  <2>2. CASE j # 1
    <3>1. j - 1 \in 1 .. n /\ j - 1 \in 1 .. n + 1 /\ j - 2 \in 0 .. n /\ j - 1 - 1 = j - 2
      BY <1>2, <2>2
    <3>2. b[j - 1] \in Nat /\ f[j - 1] = f[j - 2] + b[j - 1] /\ f[j - 2] \in Nat
      BY <1>3, <3>1
    <3>3. h[j - 1] = IF q > f[j - 2] THEN q - f[j - 2] ELSE 0
      BY <3>1
    <3>4. h[j] = IF q > f[j - 1] THEN q - f[j - 1] ELSE 0
      OBVIOUS
    <3> HIDE DEF h
    <3> QED
      BY <2>2, <3>2, <3>3, <3>4
  <2> QED
    BY <2>1, <2>2
<1>5. Rec(h)
  BY <1>4
<1>6. Rec(left)
  <2> HIDE DEF Rec, h
  <2> QED
    BY <1>5
<1> HIDE DEF left
<1>7. \A j \in 1 .. n + 1 : left[j] = IF j = 1 THEN q
                    ELSE IF b[j - 1] >= left[j - 1] THEN 0 ELSE left[j - 1] - b[j - 1]
  BY <1>6
<1> HIDE DEF h, Rec
<1> DEFINE T == {k \in 0 .. n : left[k + 1] = h[k + 1]}
<1>8. 0 \in T
  <2>1. left[1] = q /\ h[1] = q
    BY <1>2, <1>4, <1>7
  <2> QED
    BY <1>2, <2>1
<1>9. ASSUME NEW k \in 0 .. n - 1, k \in T PROVE k + 1 \in T
  <2>1. k + 2 \in 1 .. n + 1 /\ k + 2 # 1 /\ k + 2 - 1 = k + 1 /\ k + 1 \in 0 .. n /\ k + 1 + 1 = k + 2
    BY <1>2
  <2>2. left[k + 2] = IF b[k + 1] >= left[k + 1] THEN 0 ELSE left[k + 1] - b[k + 1]
    BY <1>7, <2>1
  <2>3. h[k + 2] = IF b[k + 1] >= h[k + 1] THEN 0 ELSE h[k + 1] - b[k + 1]
    BY <1>4, <2>1
  <2> QED
    BY <1>9, <2>1, <2>2, <2>3
<1> HIDE DEF T
<1>10. \A k \in 0 .. n - 1 : k \in T => k + 1 \in T
  BY <1>9
<1>11. \A k \in 0 .. n : k \in T
  BY <1>2, <1>8, <1>10, Climb
<1>12. i - 1 \in 0 .. n /\ i - 1 + 1 = i
  BY <1>2
<1>13. left[i] = h[i]
  BY <1>11, <1>12 DEF T
<1> QED
  BY <1>1, <1>2, <1>13 DEF h

\* What consumeFIFO leaves of each batch: the oldest give first, each all it
\* has before the next is touched.
LEMMA ConsumeIs ==
    ASSUME NEW b \in Seq(Nat), NEW f, Sums(b, f), NEW q \in Nat,
           batches \in Seq(Nat), Len(batches) = Len(b)
    PROVE  /\ consumeFIFO(b, q) \in Seq(Nat)
           /\ Len(consumeFIFO(b, q)) = Len(b)
           /\ \A i \in 1 .. Len(b) :
                consumeFIFO(b, q)[i] =
                  IF f[i - 1] < q /\ b[i] > 0
                  THEN (IF f[i] < q THEN 0 ELSE f[i] - q)
                  ELSE batches[i]
<1> DEFINE n == Len(b)
           new == consumeFIFO(b, q)
           left == Remaining(b, q)
<1>1. n \in Nat /\ DOMAIN batches = 1 .. n /\ \A i \in 1 .. n : batches[i] \in Nat
  OBVIOUS
<1>2. /\ \A j \in 0 .. n : f[j] \in Nat
      /\ \A j \in 1 .. n : f[j] = f[j - 1] + b[j] /\ b[j] \in Nat
  BY SumsFacts
<1>3. \A i \in 1 .. n : left[i] = IF q > f[i - 1] THEN q - f[i - 1] ELSE 0
  BY <1>1, RemainingIs
<1>4. new = [i \in 1 .. n |-> IF left[i] > 0 /\ b[i] > 0
                              THEN (IF b[i] >= left[i] THEN b[i] - left[i] ELSE 0)
                              ELSE batches[i]]
  BY <1>1 DEF consumeFIFO
<1> HIDE DEF n, new, left
<1>5. ASSUME NEW i \in 1 .. n
      PROVE  /\ new[i] = IF f[i - 1] < q /\ b[i] > 0
                         THEN (IF f[i] < q THEN 0 ELSE f[i] - q)
                         ELSE batches[i]
             /\ new[i] \in Nat
  <2>1. i - 1 \in 0 .. n
    BY <1>1
  <2>2. f[i - 1] \in Nat /\ f[i] = f[i - 1] + b[i] /\ b[i] \in Nat /\ batches[i] \in Nat
    BY <1>1, <1>2, <2>1
  <2>3. left[i] = IF q > f[i - 1] THEN q - f[i - 1] ELSE 0
    BY <1>3
  <2>4. new[i] = IF left[i] > 0 /\ b[i] > 0
                 THEN (IF b[i] >= left[i] THEN b[i] - left[i] ELSE 0)
                 ELSE batches[i]
    BY <1>4
  <2> QED
    BY <2>2, <2>3, <2>4
<1>6. new \in [1 .. n -> Nat]
  BY <1>4, <1>5
<1>7. new \in Seq(Nat) /\ Len(new) = n
  BY <1>1, <1>6
<1> QED
  BY <1>5, <1>7 DEF n, new

\* A sale on batches as they are: their sums drop by what is sold, down to
\* zero.
LEMMA ConsumeSums ==
    ASSUME batches \in Seq(Nat), NEW f, Sums(batches, f), NEW q \in Nat
    PROVE  Sums(consumeFIFO(batches, q),
                [i \in 0 .. Len(batches) |-> IF f[i] > q THEN f[i] - q ELSE 0])
<1> DEFINE n == Len(batches)
           new == consumeFIFO(batches, q)
           g == [i \in 0 .. n |-> IF f[i] > q THEN f[i] - q ELSE 0]
<1>1. n \in Nat
  OBVIOUS
<1>2. /\ \A j \in 0 .. n : f[j] \in Nat
      /\ \A j \in 1 .. n : f[j] = f[j - 1] + batches[j] /\ batches[j] \in Nat
      /\ f[0] = 0
  BY SumsFacts
<1>3. /\ Len(new) = n
      /\ \A i \in 1 .. n :
           new[i] = IF f[i - 1] < q /\ batches[i] > 0
                    THEN (IF f[i] < q THEN 0 ELSE f[i] - q)
                    ELSE batches[i]
  BY ConsumeIs
<1> HIDE DEF n, new
<1>4. g \in [0 .. n -> Nat] /\ g[0] = 0
  BY <1>1, <1>2
<1>5. ASSUME NEW i \in 1 .. n PROVE g[i] = g[i - 1] + new[i]
  <2>1. i - 1 \in 0 .. n /\ i \in 0 .. n
    BY <1>1
  <2>2. f[i - 1] \in Nat /\ f[i] = f[i - 1] + batches[i] /\ batches[i] \in Nat
    BY <1>2, <2>1
  <2>3. /\ g[i] = IF f[i] > q THEN f[i] - q ELSE 0
        /\ g[i - 1] = IF f[i - 1] > q THEN f[i - 1] - q ELSE 0
    BY <2>1
  <2>4. new[i] = IF f[i - 1] < q /\ batches[i] > 0
                 THEN (IF f[i] < q THEN 0 ELSE f[i] - q)
                 ELSE batches[i]
    BY <1>3
  <2> HIDE DEF g
  <2> QED
    BY <2>2, <2>3, <2>4
<1> HIDE DEF g
<1>6. Sums(new, g)
  BY <1>3, <1>4, <1>5 DEF Sums
<1> QED
  BY <1>6 DEF g, new, n

\* So a sale takes from the batches what it sells, as far as they reach,
LEMMA ConsumeUnits ==
    ASSUME batches \in Seq(Nat), NEW q \in Nat
    PROVE  /\ BatchUnits(batches) \in Nat
           /\ BatchUnits(consumeFIFO(batches, q)) =
                IF BatchUnits(batches) > q THEN BatchUnits(batches) - q ELSE 0
<1>1. PICK f : Sums(batches, f)
  BY SumsExist
<1> DEFINE g == [i \in 0 .. Len(batches) |-> IF f[i] > q THEN f[i] - q ELSE 0]
<1>2. Sums(consumeFIFO(batches, q), g)
  BY <1>1, ConsumeSums
<1>3. /\ consumeFIFO(batches, q) \in Seq(Nat)
      /\ Len(consumeFIFO(batches, q)) = Len(batches)
  BY <1>1, ConsumeIs
<1>4. Len(batches) \in 0 .. Len(batches)
  OBVIOUS
<1>5. BatchUnits(batches) = f[Len(batches)] /\ f[Len(batches)] \in Nat
  BY <1>1, <1>4, UnitsAre, SumsFacts
<1>6. g[Len(batches)] = IF f[Len(batches)] > q THEN f[Len(batches)] - q ELSE 0
  BY <1>4
<1> HIDE DEF g
<1>7. BatchUnits(consumeFIFO(batches, q)) = g[Len(batches)]
  BY <1>2, <1>3, UnitsAre
<1> QED
  BY <1>5, <1>6, <1>7

\* and opens no batch while an older one has anything left.
LEMMA ConsumeOrder ==
    ASSUME batches \in Seq(Nat), NEW q \in Nat, InitBatches \in Seq(Nat),
           Len(batches) = Len(InitBatches), OldestFirst
    PROVE  \A i, j \in 1 .. Len(batches) :
             i < j /\ consumeFIFO(batches, q)[j] < InitBatches[j]
               => consumeFIFO(batches, q)[i] = 0
<1> DEFINE n == Len(batches)
           new == consumeFIFO(batches, q)
<1>1. n \in Nat /\ DOMAIN batches = 1 .. n
  OBVIOUS
<1>2. PICK f : Sums(batches, f)
  BY SumsExist
<1>3. /\ \A j \in 0 .. n : f[j] \in Nat
      /\ \A j \in 1 .. n : f[j] = f[j - 1] + batches[j] /\ batches[j] \in Nat
  BY <1>2, SumsFacts
<1>4. \A i \in 1 .. n :
        new[i] = IF f[i - 1] < q /\ batches[i] > 0
                 THEN (IF f[i] < q THEN 0 ELSE f[i] - q)
                 ELSE batches[i]
  BY <1>2, ConsumeIs
<1>5. \A i, j \in 0 .. n : i <= j => f[i] <= f[j]
  BY <1>2, SumsGrow
<1>6. \A i, j \in 1 .. n : i < j /\ batches[j] < InitBatches[j] => batches[i] = 0
  BY <1>1 DEF OldestFirst
<1> HIDE DEF n, new
<1>7. ASSUME NEW i \in 1 .. n, NEW j \in 1 .. n, i < j, new[j] < InitBatches[j]
      PROVE  new[i] = 0
  <2>1. i - 1 \in 0 .. n /\ i \in 0 .. n /\ j - 1 \in 0 .. n /\ i <= j - 1
    BY <1>1, <1>7
  <2>2. /\ f[i - 1] \in Nat /\ f[i] = f[i - 1] + batches[i] /\ batches[i] \in Nat
        /\ f[j - 1] \in Nat /\ f[j] = f[j - 1] + batches[j] /\ batches[j] \in Nat
        /\ f[i] <= f[j - 1]
    BY <1>3, <1>5, <2>1
  <2>3. CASE batches[j] < InitBatches[j]
    <3>1. batches[i] = 0
      BY <1>6, <1>7, <2>3
    <3> QED
      BY <1>4, <3>1
  <2>4. CASE f[j - 1] < q
    <3>1. q \in Nat /\ f[i - 1] < q /\ f[i] < q
      BY <2>2, <2>4
    <3>2. new[i] = IF f[i - 1] < q /\ batches[i] > 0
                   THEN (IF f[i] < q THEN 0 ELSE f[i] - q)
                   ELSE batches[i]
      BY <1>4
    <3>3. CASE batches[i] > 0
      BY <3>1, <3>2, <3>3
    <3>4. CASE batches[i] = 0
      BY <3>2, <3>4
    <3> QED
      BY <2>2, <3>3, <3>4
  <2>5. CASE ~(f[j - 1] < q)
    <3>1. new[j] = batches[j]
      BY <1>4, <2>5
    <3> QED
      BY <1>7, <2>3, <3>1
  <2> QED
    BY <2>4, <2>5
<1> QED
  BY <1>7 DEF n, new

-----------------------------------------------------------------------------
(* Types.                                                                  *)

\* TypeOK, and what makes it inductive: the product keeps its batches, and a
\* handler that will use up batches has read as many.
TypeInv ==
    /\ TypeOK
    /\ Len(batches) = Len(InitBatches)
    /\ \A s \in Http : req[s].op \in {"create", "paid"} =>
         req[s].batches \in Seq(Nat) /\ Len(req[s].batches) = Len(InitBatches)

\* What a slot holds.
LEMMA SlotFields ==
    ASSUME NEW r \in Request
    PROVE  /\ r.op \in {"idle", "create", "remember", "paid", "cancel", "drop", "edit",
                        "refund", "update", "expire"}
           /\ r.op \in {"create", "remember"} => r.client \in ClientIds
           /\ r.op \in {"remember", "paid", "cancel", "drop", "edit", "refund"} =>
                r.order \in OrderIds
           /\ r.op \in {"update", "expire"} => r.points \in Int
<1>1. CASE r = Idle
  BY <1>1 DEF Idle
<1>2. CASE r # Idle
  BY <1>2 DEF Request
<1> QED
  BY <1>1, <1>2

\* A slot that is filled with a good request, or emptied.
LEMMA SlotType ==
    ASSUME TypeInv, NEW s \in Http, NEW r \in Request, req' = [req EXCEPT ![s] = r],
           r.op \in {"create", "paid"} =>
             r.batches \in Seq(Nat) /\ Len(r.batches) = Len(InitBatches)
    PROVE  /\ req' \in [Http -> Request]
           /\ \A t \in Http : req'[t].op \in {"create", "paid"} =>
                req'[t].batches \in Seq(Nat) /\ Len(req'[t].batches) = Len(InitBatches)
<1>1. \A t \in Http : req'[t] = IF t = s THEN r ELSE req[t]
  BY DEF TypeInv, TypeOK
<1> QED
  BY <1>1 DEF TypeInv, TypeOK

\* Idle is a request without batches.
LEMMA IdleType == Idle \in Request /\ Idle.op \notin {"create", "paid"}
BY DEF Idle, Request

\* A handler that starts.
LEMMA BeginTypes ==
    ASSUME TypeInv, NEW s \in Http, NEW r \in Request, Begin(s, r),
           r.op \in {"create", "paid"} => r.batches = batches,
           UNCHANGED <<shelfVars, pointVars, rowVars, dedupVars>>
    PROVE  TypeInv'
<1>1. /\ req' \in [Http -> Request]
      /\ \A t \in Http : req'[t].op \in {"create", "paid"} =>
           req'[t].batches \in Seq(Nat) /\ Len(req'[t].batches) = Len(InitBatches)
  BY SlotType DEF Begin, TypeInv, TypeOK
<1> QED
  BY <1>1 DEF TypeInv, TypeOK, shelfVars, pointVars, rowVars, dedupVars

\* Batches are batches, written or left.
LEMMA WrittenType ==
    ASSUME NEW new \in Seq(Nat), WriteBatches(new), batches \in Seq(Nat), Len(batches) = Len(new)
    PROVE  batches' \in Seq(Nat) /\ Len(batches') = Len(new)
<1>1. PICK kept : batches' = [i \in DOMAIN new |-> IF i \in kept THEN batches[i] ELSE new[i]]
  BY DEF WriteBatches
<1>2. \A i \in 1 .. Len(new) : batches[i] \in Nat /\ new[i] \in Nat
  OBVIOUS
<1>3. batches' \in [1 .. Len(new) -> Nat]
  BY <1>1, <1>2
<1> QED
  BY <1>3

\* A sale's part of the shelf and of the balance.
LEMMA SaleTypes ==
    ASSUME TypeInv, NEW t \in Tickets, NEW b \in Seq(Nat), Len(b) = Len(InitBatches),
           Deduct(Cart[t], b), applyPointsChange(Cart[t])
    PROVE  /\ stock' \in Int /\ moves' \in Int
           /\ batches' \in Seq(Nat) /\ Len(batches') = Len(InitBatches)
           /\ gifts' \in [Gifts -> Int] /\ skipped' \in BOOLEAN
           /\ points' \in Int /\ pointLog' \in Int
<1>1. Cart[t].units \in Nat /\ Cart[t].points \in Nat /\ Earned(Cart[t]) \in Nat
  BY CartNat
<1>2. WriteBatches(consumeFIFO(b, Cart[t].units))
  BY DEF Deduct
<1>3. PICK f : Sums(b, f)
  BY SumsExist
<1>4. /\ consumeFIFO(b, Cart[t].units) \in Seq(Nat)
      /\ Len(consumeFIFO(b, Cart[t].units)) = Len(InitBatches)
  BY <1>1, <1>3, ConsumeIs DEF TypeInv, TypeOK
<1>8. batches' \in Seq(Nat) /\ Len(batches') = Len(InitBatches)
  BY <1>2, <1>4, WrittenType DEF TypeInv, TypeOK
<1>9. skipped' \in BOOLEAN
  BY <1>2, Zenon DEF WriteBatches, TypeInv, TypeOK
<1>5. stock' \in Int /\ moves' \in Int
  BY <1>1 DEF Deduct, TypeInv, TypeOK
<1>6. gifts' \in [Gifts -> Int]
  BY DEF Deduct, TypeInv, TypeOK
<1>7. points' \in Int /\ pointLog' \in Int
  BY <1>1 DEF applyPointsChange, LoggedPoints, TypeInv, TypeOK
<1> QED
  BY <1>5, <1>6, <1>7, <1>8, <1>9

\* Every step of the till keeps the types.
LEMMA TillTypes ==
    ASSUME TypeInv, NEW s \in Http, TillStep(s)
    PROVE  TypeInv'
<1>0. req[s] \in Request
  BY DEF TypeInv, TypeOK
<1>1. ASSUME NEW c \in ClientIds, AnswerCreate(s, c) PROVE TypeInv'
  <2>1. c[1] \in Tickets /\ Known(c) \subseteq OrderIds
    BY TicketOf DEF Known, Cached, RecentDuplicates, TypeInv, TypeOK
  <2>2. answers' \subseteq Tickets \X OrderIds
    BY <1>1, <2>1 DEF AnswerCreate, TypeInv, TypeOK
  <2> QED
    BY <1>1, <2>2 DEF AnswerCreate, TypeInv, TypeOK, shelfVars, pointVars, rowVars
<1>2. ASSUME NEW c \in ClientIds, BeginCreate(s, c) PROVE TypeInv'
  <2> DEFINE r == [op |-> "create", client |-> c, batches |-> batches]
  <2>1. batches \in Seq(Int)
    BY DEF TypeInv, TypeOK
  <2>2. r \in Request /\ r.batches = batches
    BY <2>1 DEF Request
  <2>3. Begin(s, r) /\ UNCHANGED <<shelfVars, pointVars, rowVars, dedupVars>>
    BY <1>2 DEF BeginCreate
  <2> HIDE DEF r
  <2> QED
    BY <2>2, <2>3, BeginTypes
<1>3. ASSUME CommitCreate(s) PROVE TypeInv'
  <2> DEFINE c == req[s].client
             t == c[1]
             i == NewOrder(t)
             r == [op |-> "remember", client |-> c, order |-> i]
  <2>1. req[s].op = "create" /\ c \in ClientIds /\ t \in Tickets /\ i \in OrderIds
    BY <1>0, <1>3, SlotFields, TicketOf DEF CommitCreate, Running
  <2>2. /\ Deduct(Cart[t], SeenBatches(s, Cart[t]))
        /\ applyPointsChange(Cart[t])
        /\ status' = [status EXCEPT ![i] = "completed"]
        /\ out' = [out EXCEPT ![i] = @ + 1]
        /\ paid' = [paid EXCEPT ![i] = 1]
        /\ recent' = recent \union {i}
        /\ answers' = answers \union {<<t, i>>}
        /\ req' = [req EXCEPT ![s] = r]
        /\ UNCHANGED <<cache, missed>>
    BY <1>3 DEF CommitCreate
  <2>3. SeenBatches(s, Cart[t]) \in Seq(Nat) /\ Len(SeenBatches(s, Cart[t])) = Len(InitBatches)
    BY <2>1 DEF SeenBatches, TypeInv, TypeOK
  <2>4. r \in Request /\ r.op = "remember"
    BY <2>1 DEF Request
  <2> HIDE DEF c, t, i, r
  <2>5. /\ req' \in [Http -> Request]
        /\ \A u \in Http : req'[u].op \in {"create", "paid"} =>
             req'[u].batches \in Seq(Nat) /\ Len(req'[u].batches) = Len(InitBatches)
    BY <2>2, <2>4, SlotType
  <2>6. /\ stock' \in Int /\ moves' \in Int
        /\ batches' \in Seq(Nat) /\ Len(batches') = Len(InitBatches)
        /\ gifts' \in [Gifts -> Int] /\ skipped' \in BOOLEAN
        /\ points' \in Int /\ pointLog' \in Int
    BY <2>1, <2>2, <2>3, SaleTypes
  <2>7. /\ status' \in [OrderIds -> PosStatus] /\ out' \in [OrderIds -> Int]
        /\ paid' \in [OrderIds -> Nat]
        /\ recent' \subseteq OrderIds /\ answers' \subseteq Tickets \X OrderIds
        /\ cache' \subseteq ClientIds \X OrderIds /\ missed' \subseteq OrderIds
    BY <2>1, <2>2 DEF TypeInv, TypeOK, PosStatus
  <2> QED
    BY <2>5, <2>6, <2>7 DEF TypeInv, TypeOK
<1>4. ASSUME RememberCreate(s) PROVE TypeInv'
  <2>1. req[s].client \in ClientIds /\ req[s].order \in OrderIds
    BY <1>0, <1>4, SlotFields DEF RememberCreate, Running
  <2>2. cache' \subseteq ClientIds \X OrderIds
    BY <1>4, <2>1 DEF RememberCreate, TypeInv, TypeOK
  <2>3. /\ req' \in [Http -> Request]
        /\ \A u \in Http : req'[u].op \in {"create", "paid"} =>
             req'[u].batches \in Seq(Nat) /\ Len(req'[u].batches) = Len(InitBatches)
    BY <1>4, SlotType, IdleType DEF RememberCreate, Done
  <2> QED
    BY <1>4, <2>2, <2>3 DEF RememberCreate, TypeInv, TypeOK, shelfVars, pointVars, rowVars
<1>5. ASSUME NEW i \in OrderIds, BeginMarkAsPaid(s, i) PROVE TypeInv'
  <2> DEFINE r == [op |-> "paid", order |-> i, batches |-> batches]
  <2>1. batches \in Seq(Int)
    BY DEF TypeInv, TypeOK
  <2>2. r \in Request /\ r.batches = batches
    BY <2>1 DEF Request
  <2>3. Begin(s, r) /\ UNCHANGED <<shelfVars, pointVars, rowVars, dedupVars>>
    BY <1>5 DEF BeginMarkAsPaid
  <2> HIDE DEF r
  <2> QED
    BY <2>2, <2>3, BeginTypes
<1>6. ASSUME NEW i \in OrderIds, BeginCancelPending(s, i) PROVE TypeInv'
  <2> DEFINE r == [op |-> "drop", order |-> i]
  <2>1. r \in Request /\ r.op = "drop"
    BY DEF Request
  <2>2. Begin(s, r) /\ UNCHANGED <<shelfVars, pointVars, rowVars, dedupVars>>
    BY <1>6 DEF BeginCancelPending
  <2> HIDE DEF r
  <2> QED
    BY <2>1, <2>2, BeginTypes
<1>7. ASSUME CommitMarkAsPaid(s) PROVE TypeInv'
  <2> DEFINE i == req[s].order
             b == req[s].batches
  <2>1. req[s].op = "paid" /\ i \in OrderIds /\ i[1] \in Tickets
    BY <1>0, <1>7, SlotFields, TicketOf DEF CommitMarkAsPaid, Running
  <2>2. b \in Seq(Nat) /\ Len(b) = Len(InitBatches)
    BY <2>1 DEF TypeInv
  <2>3. /\ Deduct(Cart[i[1]], b)
        /\ applyPointsChange(Cart[i[1]])
        /\ status' = [status EXCEPT ![i] = "completed"]
        /\ out' = [out EXCEPT ![i] = @ + 1]
        /\ paid' = [paid EXCEPT ![i] = @ + 1]
        /\ Done(s)
        /\ UNCHANGED <<missed, dedupVars>>
    BY <1>7 DEF CommitMarkAsPaid, CartOf
  <2> HIDE DEF i, b
  <2>4. /\ stock' \in Int /\ moves' \in Int
        /\ batches' \in Seq(Nat) /\ Len(batches') = Len(InitBatches)
        /\ gifts' \in [Gifts -> Int] /\ skipped' \in BOOLEAN
        /\ points' \in Int /\ pointLog' \in Int
    BY <2>1, <2>2, <2>3, SaleTypes
  <2>5. /\ status' \in [OrderIds -> PosStatus] /\ out' \in [OrderIds -> Int]
        /\ paid' \in [OrderIds -> Nat]
        /\ cache' = cache /\ recent' = recent /\ answers' = answers /\ missed' = missed
    BY <2>1, <2>3 DEF TypeInv, TypeOK, PosStatus, dedupVars
  <2>6. /\ req' \in [Http -> Request]
        /\ \A u \in Http : req'[u].op \in {"create", "paid"} =>
             req'[u].batches \in Seq(Nat) /\ Len(req'[u].batches) = Len(InitBatches)
    BY <2>3, SlotType, IdleType DEF Done
  <2> QED
    BY <2>4, <2>5, <2>6 DEF TypeInv, TypeOK
<1>8. ASSUME CommitCancelPending(s) PROVE TypeInv'
  <2>1. req[s].order \in OrderIds
    BY <1>0, <1>8, SlotFields DEF CommitCancelPending, Running
  <2>2. status' \in [OrderIds -> PosStatus]
    BY <1>8, <2>1 DEF CommitCancelPending, TypeInv, TypeOK, PosStatus
  <2>3. /\ req' \in [Http -> Request]
        /\ \A u \in Http : req'[u].op \in {"create", "paid"} =>
             req'[u].batches \in Seq(Nat) /\ Len(req'[u].batches) = Len(InitBatches)
    BY <1>8, SlotType, IdleType DEF CommitCancelPending, Done
  <2> QED
    BY <1>8, <2>2, <2>3 DEF CommitCancelPending, TypeInv, TypeOK, shelfVars, pointVars, dedupVars
<1> QED
  BY <1>1, <1>2, <1>3, <1>4, <1>5, <1>6, <1>7, <1>8 DEF TillStep

\* So does every correction.
LEMMA CorrectionTypes ==
    ASSUME TypeInv, NEW s \in Http, CorrectionStep(s)
    PROVE  TypeInv'
<1>0. req[s] \in Request
  BY DEF TypeInv, TypeOK
<1>1. ASSUME NEW i \in OrderIds, NEW op \in {"cancel", "edit", "refund"},
             Begin(s, [op |-> op, order |-> i]),
             UNCHANGED <<shelfVars, pointVars, rowVars, dedupVars>>
      PROVE  TypeInv'
  <2> DEFINE r == [op |-> op, order |-> i]
  <2>1. r \in Request /\ r.op \notin {"create", "paid"}
    BY DEF Request
  <2>2. Begin(s, r)
    BY <1>1
  <2> HIDE DEF r
  <2> QED
    BY <1>1, <2>1, <2>2, BeginTypes
<1>2. \A i \in OrderIds : BeginCancelOrder(s, i) \/ BeginEditPayments(s, i) \/ BeginRefund(s, i)
        => TypeInv'
  BY <1>1 DEF BeginCancelOrder, BeginEditPayments, BeginRefund
<1>3. ASSUME CommitCancelOrder(s) \/ CommitEditPayments(s) \/ CommitRefund(s) PROVE TypeInv'
  <2>1. req[s].order \in OrderIds /\ req[s].order[1] \in Tickets
    BY <1>0, <1>3, SlotFields, TicketOf DEF CommitCancelOrder, CommitEditPayments, CommitRefund, Running
  <2>2. CartOf(req[s].order).units \in Nat
    BY <2>1, CartNat DEF CartOf
  <2>3. /\ req' \in [Http -> Request]
        /\ \A u \in Http : req'[u].op \in {"create", "paid"} =>
             req'[u].batches \in Seq(Nat) /\ Len(req'[u].batches) = Len(InitBatches)
    BY <1>3, SlotType, IdleType DEF CommitCancelOrder, CommitEditPayments, CommitRefund, Done
  <2>4. CASE CommitCancelOrder(s)
    BY <2>1, <2>2, <2>3, <2>4
    DEF CommitCancelOrder, Return, TypeInv, TypeOK, PosStatus, pointVars, dedupVars
  <2>5. CASE CommitEditPayments(s)
    BY <2>1, <2>3, <2>5
    DEF CommitEditPayments, EditedPayments, TypeInv, TypeOK, shelfVars, pointVars, dedupVars
  <2>6. CASE CommitRefund(s)
    <3>1. /\ stock' \in Int /\ out' \in [OrderIds -> Int]
          /\ status' \in [OrderIds -> PosStatus] /\ missed' \subseteq OrderIds
      BY <2>1, <2>2, <2>6 DEF CommitRefund, Return, TypeInv, TypeOK, PosStatus
    <3> QED
      BY <2>3, <2>6, <3>1 DEF CommitRefund, TypeInv, TypeOK, pointVars, dedupVars
  <2> QED
    BY <1>3, <2>4, <2>5, <2>6
<1> QED
  BY <1>2, <1>3 DEF CorrectionStep

\* So do the other writers of the balance.
LEMMA DeskTypes ==
    ASSUME TypeInv, NEW s \in Http, DeskStep(s)
    PROVE  TypeInv'
<1>0. req[s] \in Request
  BY DEF TypeInv, TypeOK
<1>1. ASSUME NEW op \in {"update", "expire"}, Begin(s, [op |-> op, points |-> points]),
             UNCHANGED <<shelfVars, pointVars, rowVars, dedupVars>>
      PROVE  TypeInv'
  <2> DEFINE r == [op |-> op, points |-> points]
  <2>1. points \in Int
    BY DEF TypeInv, TypeOK
  <2>2. r \in Request /\ r.op \notin {"create", "paid"}
    BY <2>1 DEF Request
  <2>3. Begin(s, r)
    BY <1>1
  <2> HIDE DEF r
  <2> QED
    BY <1>1, <2>2, <2>3, BeginTypes
<1>2. BeginUpdateMember(s) \/ BeginPointsExpiry(s) => TypeInv'
  BY <1>1 DEF BeginUpdateMember, BeginPointsExpiry
<1>3. ASSUME CommitUpdateMember(s) \/ CommitPointsExpiry(s) PROVE TypeInv'
  <2>1. req[s].points \in Int
    BY <1>0, <1>3, SlotFields DEF CommitUpdateMember, CommitPointsExpiry, Running
  <2>2. points' \in Int /\ pointLog' \in Int
    BY <1>3, <2>1 DEF CommitUpdateMember, CommitPointsExpiry, TypeInv, TypeOK
  <2>3. /\ req' \in [Http -> Request]
        /\ \A u \in Http : req'[u].op \in {"create", "paid"} =>
             req'[u].batches \in Seq(Nat) /\ Len(req'[u].batches) = Len(InitBatches)
    BY <1>3, SlotType, IdleType DEF CommitUpdateMember, CommitPointsExpiry, Done
  <2> QED
    BY <1>3, <2>2, <2>3
    DEF CommitUpdateMember, CommitPointsExpiry, TypeInv, TypeOK, shelfVars, rowVars, dedupVars
<1> QED
  BY <1>2, <1>3 DEF DeskStep

\* The initial state is well typed,
LEMMA InitTypes == Init => TypeInv
<1> SUFFICES ASSUME Init PROVE TypeInv
  OBVIOUS
<1>1. req \in [Http -> Request] /\ \A s \in Http : req[s].op \notin {"create", "paid"}
  BY IdleType DEF Init
<1>2. skipped \in BOOLEAN
  BY DEF Init
<1>3. /\ TypeOK
      /\ Len(batches) = Len(InitBatches)
  BY <1>1, <1>2, RegisterAssumption DEF Init, TypeOK, PosStatus
<1> QED
  BY <1>1, <1>3 DEF TypeInv

\* and every step keeps it so.
LEMMA NextTypes == TypeInv /\ [Next]_vars => TypeInv'
<1> SUFFICES ASSUME TypeInv, [Next]_vars PROVE TypeInv'
  OBVIOUS
<1>1. CASE UNCHANGED vars
  BY <1>1 DEF vars, shelfVars, pointVars, rowVars, dedupVars, TypeInv, TypeOK
<1>2. ASSUME NEW s \in Http, Abandon(s) PROVE TypeInv'
  <2>1. /\ req' \in [Http -> Request]
        /\ \A u \in Http : req'[u].op \in {"create", "paid"} =>
             req'[u].batches \in Seq(Nat) /\ Len(req'[u].batches) = Len(InitBatches)
    BY <1>2, SlotType, IdleType DEF Abandon, Done
  <2> QED
    BY <1>2, <2>1 DEF Abandon, TypeInv, TypeOK, shelfVars, pointVars, rowVars, dedupVars
<1>3. ASSUME NEW t \in Tickets, CreatePending(t) PROVE TypeInv'
  <2>1. NewOrder(t) \in OrderIds
    BY <1>3 DEF CreatePending
  <2> QED
    BY <1>3, <2>1 DEF CreatePending, TypeInv, TypeOK, PosStatus, shelfVars, pointVars
<1>4. ASSUME NEW i \in OrderIds, WindowPasses(i) PROVE TypeInv'
  BY <1>4 DEF WindowPasses, TypeInv, TypeOK, shelfVars, pointVars, rowVars
<1>5. ASSUME NEW e \in cache, CacheExpires(e) PROVE TypeInv'
  BY <1>5 DEF CacheExpires, TypeInv, TypeOK, shelfVars, pointVars, rowVars
<1> QED
  BY <1>1, <1>2, <1>3, <1>4, <1>5, TillTypes, CorrectionTypes, DeskTypes DEF Next

\* Every row, balance, batch and slot keeps its type on every path, however
\* often batches are used up and stale lists of them written back.
THEOREM TypeCorrect == Spec => []TypeOK
<1>1. TypeInv => TypeOK
  BY DEF TypeInv
<1> QED
  BY <1>1, InitTypes, NextTypes, PTL DEF Spec

-----------------------------------------------------------------------------
(* The rows.                                                               *)

\* The orders of a ticket are numbered without gaps, so a new one never takes
\* the row of another.
Numbered ==
    \A t \in Tickets : \E n \in 0 .. MaxOrders :
        \A k \in 1 .. MaxOrders : status[<<t, k>>] # "none" <=> k <= n

\* The count of a ticket's orders is the last number given,
LEMMA MadeCount ==
    ASSUME NEW t \in Tickets, NEW n \in 0 .. MaxOrders,
           \A k \in 1 .. MaxOrders : status[<<t, k>>] # "none" <=> k <= n
    PROVE  Cardinality(Made(t)) = n
<1>1. MaxOrders \in Nat
  BY RegisterAssumption
<1> DEFINE F == [k \in 1 .. n |-> <<t, k>>]
<1>2. \A k \in 1 .. n : k \in 1 .. MaxOrders /\ k <= n
  BY <1>1
<1>3. \A k \in 1 .. MaxOrders : k <= n => k \in 1 .. n
  BY <1>1
<1>4. \A i \in Made(t) : \E k \in 1 .. n : i = <<t, k>>
  <2> TAKE i \in Made(t)
  <2>1. PICK u \in Tickets, k \in 1 .. MaxOrders : i = <<u, k>>
    BY DEF Made, OrderIds
  <2>2. i = <<t, k>> /\ status[<<t, k>>] # "none"
    BY <2>1 DEF Made
  <2> QED
    BY <1>3, <2>2
<1>5. \A k \in 1 .. n : <<t, k>> \in Made(t)
  BY <1>2 DEF Made, OrderIds
<1>6. F \in [1 .. n -> Made(t)]
  BY <1>5
<1>7. F \in Bijection(1 .. n, Made(t))
  BY <1>4, <1>6, Fun_IsBij
<1>8. ExistsBijection(1 .. n, Made(t))
  BY <1>7, Fun_ExistsBij
<1>9. IsFiniteSet(1 .. n) /\ Cardinality(1 .. n) = n
  BY <1>1, FS_Interval
<1> QED
  BY <1>8, <1>9, FS_Bijection

\* so the next order is a row that does not exist yet,
LEMMA NewIsNone ==
    ASSUME Numbered, NEW t \in Tickets, NewOrder(t) \in OrderIds
    PROVE  status[NewOrder(t)] = "none"
<1>1. PICK n \in 0 .. MaxOrders :
        \A k \in 1 .. MaxOrders : status[<<t, k>>] # "none" <=> k <= n
  BY DEF Numbered
<1>2. NewOrder(t) = <<t, n + 1>>
  BY <1>1, MadeCount DEF NewOrder
<1>3. n + 1 \in 1 .. MaxOrders /\ ~(n + 1 <= n)
  BY <1>2 DEF OrderIds
<1> QED
  BY <1>1, <1>2, <1>3

\* and with it the numbers still have no gaps.
LEMMA NewNumbers ==
    ASSUME TypeOK, Numbered, NEW t \in Tickets, NewOrder(t) \in OrderIds,
           NEW st \in PosStatus, st # "none",
           status' = [status EXCEPT ![NewOrder(t)] = st]
    PROVE  Numbered'
<1>1. PICK n \in 0 .. MaxOrders :
        \A k \in 1 .. MaxOrders : status[<<t, k>>] # "none" <=> k <= n
  BY DEF Numbered
<1>2. NewOrder(t) = <<t, n + 1>>
  BY <1>1, MadeCount DEF NewOrder
<1>3. n + 1 \in 1 .. MaxOrders /\ n + 1 \in 0 .. MaxOrders
  BY <1>2 DEF OrderIds
<1>4. \A u \in Tickets, k \in 1 .. MaxOrders :
        status'[<<u, k>>] = IF u = t /\ k = n + 1 THEN st ELSE status[<<u, k>>]
  BY <1>2 DEF TypeOK, OrderIds
<1>5. \A k \in 1 .. MaxOrders : status'[<<t, k>>] # "none" <=> k <= n + 1
  <2> TAKE k \in 1 .. MaxOrders
  <2>1. CASE k = n + 1
    BY <1>3, <1>4, <2>1
  <2>2. CASE k # n + 1
    <3>1. status'[<<t, k>>] = status[<<t, k>>]
      BY <1>4, <2>2
    <3>2. k <= n + 1 <=> k <= n
      BY <1>3, <2>2
    <3> QED
      BY <1>1, <3>1, <3>2
  <2> QED
    BY <2>1, <2>2
<1>6. \A u \in Tickets : \E m \in 0 .. MaxOrders :
        \A k \in 1 .. MaxOrders : status'[<<u, k>>] # "none" <=> k <= m
  <2> TAKE u \in Tickets
  <2>1. CASE u = t
    BY <1>3, <1>5, <2>1
  <2>2. CASE u # t
    BY <1>4, <2>2 DEF Numbered
  <2> QED
    BY <2>1, <2>2
<1> QED
  BY <1>6 DEF Numbered

\* Writing over the status of an order that exists keeps the numbers.
LEMMA OldNumbers ==
    ASSUME TypeOK, Numbered, NEW i \in OrderIds, status[i] # "none",
           NEW st \in PosStatus, st # "none", status' = [status EXCEPT ![i] = st]
    PROVE  Numbered'
<1>1. \A t \in Tickets, k \in 1 .. MaxOrders :
        status'[<<t, k>>] # "none" <=> status[<<t, k>>] # "none"
  BY DEF TypeOK, OrderIds
<1> QED
  BY <1>1 DEF Numbered

\* A recent duplicate can only appear with an order that became completed.
LEMMA DuplicatesShrink ==
    ASSUME \A i \in recent' : status'[i] = "completed" => i \in recent /\ status[i] = "completed"
    PROVE  \A t \in Tickets : RecentDuplicates(t) = {} => RecentDuplicates(t)' = {}
BY DEF RecentDuplicates, CartOf

-----------------------------------------------------------------------------
(* Whoever is answered with an order asked for it.                         *)

\* What Redis remembers of a request id, and what it will be told, is an
\* order of the same ticket.
AnswerInv ==
    /\ DedupOnlySameItems
    /\ \A e \in cache : e[1][1] = e[2][1]
    /\ \A s \in Http : req[s].op = "remember" => req[s].client[1] = req[s].order[1]

\* Only Create and its answers write there.
LEMMA AnswersStand ==
    ASSUME TypeInv, AnswerInv, cache' \subseteq cache, answers' = answers,
           NEW s \in Http, NEW r, req' = [req EXCEPT ![s] = r],
           r.op = "remember" => r.client[1] = r.order[1]
    PROVE  AnswerInv'
<1>1. \A t \in Http : req'[t] = IF t = s THEN r ELSE req[t]
  BY DEF TypeInv, TypeOK
<1> QED
  BY <1>1 DEF AnswerInv, DedupOnlySameItems, CartOf

\* An idle slot remembers nothing.
LEMMA IdleRemembers == Idle.op # "remember"
BY DEF Idle

\* An order that answers a submission sold the same.
LEMMA KnownAlike ==
    ASSUME TypeInv, AnswerInv, NEW c \in ClientIds, NEW i \in Known(c)
    PROVE  /\ Cart[c[1]].units = CartOf(i).units
           /\ Cart[c[1]].gift = "none" <=> CartOf(i).gift = "none"
<1>1. CASE Cached(c) # {}
  <2>1. <<c, i>> \in cache
    BY <1>1 DEF Known, Cached
  <2>2. c[1] = i[1]
    BY <2>1 DEF AnswerInv
  <2> QED
    BY <2>2 DEF CartOf
<1>2. CASE Cached(c) = {}
  <2>1. itemsSignature(CartOf(i)) = itemsSignature(Cart[c[1]])
    BY <1>2 DEF Known, RecentDuplicates
  <2> QED
    BY <2>1 DEF itemsSignature
<1> QED
  BY <1>1, <1>2

\* Every step keeps the answers alike.
LEMMA NextAnswers ==
    ASSUME TypeInv, AnswerInv, [Next]_vars
    PROVE  AnswerInv'
<1>1. CASE UNCHANGED vars
  BY <1>1 DEF vars, dedupVars, AnswerInv, DedupOnlySameItems, CartOf
<1>2. ASSUME NEW s \in Http, NEW r, Begin(s, r) \/ (Done(s) /\ r = Idle),
             r.op # "remember", UNCHANGED dedupVars
      PROVE  AnswerInv'
  <2>1. req' = [req EXCEPT ![s] = r]
    BY <1>2 DEF Begin, Done
  <2>2. cache' \subseteq cache /\ answers' = answers
    BY <1>2 DEF dedupVars
  <2> QED
    BY <1>2, <2>1, <2>2, AnswersStand
<1>3. ASSUME NEW s \in Http, Done(s), UNCHANGED dedupVars PROVE AnswerInv'
  BY <1>2, <1>3, IdleRemembers
<1>4. ASSUME UNCHANGED <<cache, answers, req>> PROVE AnswerInv'
  BY <1>4 DEF AnswerInv, DedupOnlySameItems, CartOf
<1>5. ASSUME NEW s \in Http, NEW c \in ClientIds, AnswerCreate(s, c) PROVE AnswerInv'
  <2>1. PICK i \in Known(c) : answers' = answers \union {<<c[1], i>>}
    BY <1>5 DEF AnswerCreate
  <2>2. /\ Cart[c[1]].units = CartOf(i).units
        /\ Cart[c[1]].gift = "none" <=> CartOf(i).gift = "none"
    BY KnownAlike
  <2>3. DedupOnlySameItems'
    BY <2>1, <2>2 DEF AnswerInv, DedupOnlySameItems, CartOf
  <2> QED
    BY <1>5, <2>3 DEF AnswerCreate, AnswerInv
<1>6. ASSUME NEW s \in Http, NEW c \in ClientIds, BeginCreate(s, c) PROVE AnswerInv'
  <2> DEFINE r == [op |-> "create", client |-> c, batches |-> batches]
  <2>1. Begin(s, r) /\ r.op # "remember" /\ UNCHANGED dedupVars
    BY <1>6 DEF BeginCreate
  <2> HIDE DEF r
  <2> QED
    BY <1>2, <2>1
<1>7. ASSUME NEW s \in Http, CommitCreate(s) PROVE AnswerInv'
  <2> DEFINE c == req[s].client
             i == NewOrder(c[1])
             r == [op |-> "remember", client |-> c, order |-> i]
  <2>1. /\ answers' = answers \union {<<c[1], i>>}
        /\ req' = [req EXCEPT ![s] = r]
        /\ cache' = cache
    BY <1>7 DEF CommitCreate
  <2>2. i[1] = c[1] /\ r.client[1] = r.order[1]
    BY DEF NewOrder
  <2> HIDE DEF c, i, r
  <2>3. DedupOnlySameItems'
    BY <2>1, <2>2 DEF AnswerInv, DedupOnlySameItems, CartOf
  <2>4. \A u \in Http : req'[u] = IF u = s THEN r ELSE req[u]
    BY <2>1 DEF TypeInv, TypeOK
  <2> QED
    BY <2>1, <2>2, <2>3, <2>4 DEF AnswerInv
<1>8. ASSUME NEW s \in Http, RememberCreate(s) PROVE AnswerInv'
  <2>1. req[s].client[1] = req[s].order[1]
    BY <1>8 DEF RememberCreate, Running, AnswerInv
  <2>2. \A e \in cache' : e[1][1] = e[2][1]
    BY <1>8, <2>1 DEF RememberCreate, AnswerInv
  <2>3. \A u \in Http : req'[u] = IF u = s THEN Idle ELSE req[u]
    BY <1>8 DEF RememberCreate, Done, TypeInv, TypeOK
  <2>4. answers' = answers
    BY <1>8 DEF RememberCreate
  <2> QED
    BY <2>2, <2>3, <2>4, IdleRemembers DEF AnswerInv, DedupOnlySameItems, CartOf
<1>9. ASSUME NEW s \in Http, NEW i \in OrderIds,
             BeginMarkAsPaid(s, i) \/ BeginCancelPending(s, i) \/ BeginCancelOrder(s, i)
               \/ BeginEditPayments(s, i) \/ BeginRefund(s, i)
      PROVE  AnswerInv'
  <2> DEFINE p == [op |-> "paid", order |-> i, batches |-> batches]
             r(op) == [op |-> op, order |-> i]
  <2>1. UNCHANGED dedupVars
    BY <1>9 DEF BeginMarkAsPaid, BeginCancelPending, BeginCancelOrder, BeginEditPayments, BeginRefund
  <2>2. \/ Begin(s, p) \/ Begin(s, r("drop")) \/ Begin(s, r("cancel"))
        \/ Begin(s, r("edit")) \/ Begin(s, r("refund"))
    BY <1>9 DEF BeginMarkAsPaid, BeginCancelPending, BeginCancelOrder, BeginEditPayments, BeginRefund
  <2>3. /\ p.op # "remember" /\ r("drop").op # "remember" /\ r("cancel").op # "remember"
        /\ r("edit").op # "remember" /\ r("refund").op # "remember"
    OBVIOUS
  <2> HIDE DEF p, r
  <2> QED
    BY <1>2, <2>1, <2>2, <2>3
<1>10. ASSUME NEW s \in Http,
              CommitMarkAsPaid(s) \/ CommitCancelPending(s) \/ CommitCancelOrder(s)
                \/ CommitEditPayments(s) \/ CommitRefund(s) \/ CommitUpdateMember(s)
                \/ CommitPointsExpiry(s) \/ Abandon(s)
       PROVE  AnswerInv'
  <2>1. Done(s) /\ UNCHANGED dedupVars
    BY <1>10 DEF CommitMarkAsPaid, CommitCancelPending, CommitCancelOrder, CommitEditPayments,
                 CommitRefund, CommitUpdateMember, CommitPointsExpiry, Abandon
  <2> QED
    BY <1>3, <2>1
<1>11. ASSUME NEW s \in Http, BeginUpdateMember(s) \/ BeginPointsExpiry(s) PROVE AnswerInv'
  <2> DEFINE r(op) == [op |-> op, points |-> points]
  <2>1. UNCHANGED dedupVars /\ (Begin(s, r("update")) \/ Begin(s, r("expire")))
    BY <1>11 DEF BeginUpdateMember, BeginPointsExpiry
  <2>2. r("update").op # "remember" /\ r("expire").op # "remember"
    OBVIOUS
  <2> HIDE DEF r
  <2> QED
    BY <1>2, <2>1, <2>2
<1>12. ASSUME NEW e \in cache, CacheExpires(e) PROVE AnswerInv'
  BY <1>12 DEF CacheExpires, AnswerInv, DedupOnlySameItems, CartOf
<1>13. CASE \E t \in Tickets : CreatePending(t)
  BY <1>4, <1>13 DEF CreatePending
<1>14. CASE \E i \in OrderIds : WindowPasses(i)
  BY <1>4, <1>14 DEF WindowPasses
<1> QED
  BY <1>1, <1>5, <1>6, <1>7, <1>8, <1>9, <1>10, <1>11, <1>12, <1>13, <1>14
  DEF Next, TillStep, CorrectionStep, DeskStep

\* At first nothing is answered.
LEMMA InitAnswers == Init => AnswerInv
BY IdleRemembers DEF Init, AnswerInv, DedupOnlySameItems

\* However many tills submit at once, a submission is only answered with an
\* order that sold as many units and redeemed a gift exactly if it does.
THEOREM AnswersAlike == Spec => []DedupOnlySameItems
<1>1. AnswerInv => DedupOnlySameItems
  BY DEF AnswerInv
<1>2. Spec => [](TypeInv /\ AnswerInv)
  BY InitTypes, NextTypes, InitAnswers, NextAnswers, PTL DEF Spec
<1> QED
  BY <1>1, <1>2, PTL

-----------------------------------------------------------------------------
(* One request at a time.                                                  *)

\* What a row says of the goods and the money: nothing has moved before the
\* order is completed, and everything once while it is, but for goods of an
\* order that a refund could not save.
RowOK(i) ==
    /\ status[i] = "none" => i \notin missed
    /\ status[i] \in {"none", "pending"} => paid[i] = 0 /\ (i \in missed \/ out[i] = 0)
    /\ status[i] = "completed" => paid[i] = 1 /\ (i \in missed \/ out[i] = 1)

\* With no other handler beside it, what a handler has read still holds when
\* it writes.
StillTrue(r) ==
    /\ r.op = "create" => r.batches = batches /\ RecentDuplicates(r.client[1]) = {}
    /\ r.op = "paid" => r.batches = batches
    /\ r.op \in {"paid", "drop"} => status[r.order] = "pending"
    /\ r.op = "edit" => status[r.order] = "completed"
    /\ r.op \in {"cancel", "refund"} => status[r.order] # "none"

SerialInv ==
    /\ TypeInv
    /\ Numbered
    /\ \A i \in OrderIds : RowOK(i)
    /\ \A s \in Http : StillTrue(req[s])
    /\ BatchesInOrder

\* An idle slot has read nothing.
LEMMA IdleTrue == StillTrue(Idle)
BY DEF StillTrue, Idle

\* What the rest is about when the shelf stands still.
LEMMA ShelfStands ==
    ASSUME BatchesInOrder, UNCHANGED <<batches, moves, skipped>>
    PROVE  BatchesInOrder'
BY DEF BatchesInOrder, BatchesFollowSales, OldestFirst

\* A handler that starts, in the only slot there is.
LEMMA SerialBegin ==
    ASSUME NEW h, Http = {h}, SerialInv, TypeInv', NEW r, StillTrue(r), req' = [req EXCEPT ![h] = r],
           UNCHANGED <<batches, moves, skipped, rowVars, recent>>
    PROVE  SerialInv'
<1>1. req'[h] = r
  BY DEF SerialInv, TypeInv, TypeOK
<1>2. StillTrue(req[h])'
  BY <1>1 DEF StillTrue, RecentDuplicates, CartOf, rowVars
<1>3. Numbered' /\ \A i \in OrderIds : RowOK(i)'
  BY DEF SerialInv, Numbered, RowOK, rowVars
<1>4. BatchesInOrder'
  BY ShelfStands DEF SerialInv
<1> QED
  BY <1>2, <1>3, <1>4 DEF SerialInv

\* A correction, or the end of a pending order, writes over a row that exists.
LEMMA SerialRow ==
    ASSUME NEW h, Http = {h}, SerialInv, TypeInv', req' = [req EXCEPT ![h] = Idle],
           NEW i \in OrderIds, status[i] # "none",
           NEW st \in PosStatus \ {"none"}, status' = [status EXCEPT ![i] = st],
           \A j \in OrderIds \ {i} : out'[j] = out[j] /\ paid'[j] = paid[j],
           \A j \in OrderIds \ {i} : j \in missed' <=> j \in missed,
           RowOK(i)', UNCHANGED <<batches, moves, skipped>>
    PROVE  SerialInv'
<1>1. req'[h] = Idle
  BY DEF SerialInv, TypeInv, TypeOK
<1>2. StillTrue(req[h])'
  BY <1>1 DEF StillTrue, Idle
<1>3. Numbered'
  BY OldNumbers DEF SerialInv, TypeInv
<1>4. \A j \in OrderIds : RowOK(j)'
  <2> TAKE j \in OrderIds
  <2>1. CASE j = i
    BY <2>1
  <2>2. CASE j # i
    <3>1. /\ status'[j] = status[j] /\ out'[j] = out[j] /\ paid'[j] = paid[j]
          /\ j \in missed' <=> j \in missed
      BY <2>2 DEF SerialInv, TypeInv, TypeOK
    <3> QED
      BY <3>1 DEF SerialInv, RowOK
  <2> QED
    BY <2>1, <2>2
<1>5. BatchesInOrder'
  BY ShelfStands DEF SerialInv
<1> QED
  BY <1>2, <1>3, <1>4, <1>5 DEF SerialInv

\* A sale on the batches as they are keeps them in order, if it writes them.
LEMMA SaleInOrder ==
    ASSUME TypeInv, TypeInv', BatchesInOrder, NEW t \in Tickets, Deduct(Cart[t], batches)
    PROVE  BatchesInOrder'
<1> SUFFICES ASSUME ~skipped' PROVE BatchesFollowSales' /\ OldestFirst'
  BY DEF BatchesInOrder
<1> DEFINE q == Cart[t].units
           n == BatchUnits(InitBatches)
           u == BatchUnits(batches)
<1>1. q \in Nat /\ InitBatches \in Seq(Nat) /\ batches \in Seq(Nat) /\ moves \in Int
      /\ Len(batches) = Len(InitBatches)
  BY CartNat, RegisterAssumption DEF TypeInv, TypeOK
<1>2. batches' = consumeFIFO(batches, q) /\ moves' = moves - q /\ ~skipped
  BY DEF Deduct, WriteBatches
<1>3. u \in Nat /\ BatchUnits(batches') = IF u > q THEN u - q ELSE 0
  BY <1>1, <1>2, ConsumeUnits
<1>4. n \in Nat
  <2>1. PICK f : Sums(InitBatches, f)
    BY <1>1, SumsExist
  <2>2. Len(InitBatches) \in 0 .. Len(InitBatches)
    BY <1>1
  <2> QED
    BY <1>1, <2>1, <2>2, UnitsAre, SumsFacts
<1>5. u = IF n + moves > 0 THEN n + moves ELSE 0
  BY <1>2 DEF BatchesInOrder, BatchesFollowSales
<1> HIDE DEF q, n, u
<1>6. BatchUnits(batches') = IF n + moves' > 0 THEN n + moves' ELSE 0
  BY <1>1, <1>2, <1>3, <1>4, <1>5
<1>7. BatchesFollowSales'
  BY <1>6 DEF BatchesFollowSales, n
<1>8. OldestFirst'
  <2>1. OldestFirst
    BY <1>2 DEF BatchesInOrder
  <2>2. \A i, j \in 1 .. Len(batches) : i < j /\ batches'[j] < InitBatches[j] => batches'[i] = 0
    BY <1>1, <1>2, <2>1, ConsumeOrder
  <2>3. DOMAIN batches' = 1 .. Len(batches)
    BY <1>1 DEF TypeInv, TypeOK
  <2> QED
    BY <2>2, <2>3 DEF OldestFirst
<1> QED
  BY <1>7, <1>8

\* A sale, of a new order or of a pending one.
LEMMA SerialSale ==
    ASSUME NEW h, Http = {h}, SerialInv, TypeInv', NEW r, StillTrue(r)', req' = [req EXCEPT ![h] = r],
           NEW i \in OrderIds, Numbered', status' = [status EXCEPT ![i] = "completed"],
           i \in missed \/ out[i] = 0,
           out' = [out EXCEPT ![i] = @ + 1], paid' = [paid EXCEPT ![i] = 1], missed' = missed,
           NEW t \in Tickets, Deduct(Cart[t], batches)
    PROVE  SerialInv'
<1>1. req'[h] = r
  BY DEF SerialInv, TypeInv, TypeOK
<1>2. \A j \in OrderIds : RowOK(j)'
  <2> TAKE j \in OrderIds
  <2>1. CASE j = i
    <3>1. status'[i] = "completed" /\ out'[i] = out[i] + 1 /\ paid'[i] = 1
      BY DEF SerialInv, TypeInv, TypeOK
    <3> QED
      BY <2>1, <3>1 DEF RowOK
  <2>2. CASE j # i
    <3>1. /\ status'[j] = status[j] /\ out'[j] = out[j] /\ paid'[j] = paid[j]
          /\ j \in missed' <=> j \in missed
      BY <2>2 DEF SerialInv, TypeInv, TypeOK
    <3> QED
      BY <3>1 DEF SerialInv, RowOK
  <2> QED
    BY <2>1, <2>2
<1>3. BatchesInOrder'
  BY SaleInOrder DEF SerialInv
<1> QED
  BY <1>1, <1>2, <1>3 DEF SerialInv

\* The till, one request at a time.
LEMMA SerialTill ==
    ASSUME NEW h, Http = {h}, SerialInv, TypeInv', TillStep(h)
    PROVE  SerialInv'
<1>0. /\ TypeInv /\ TypeOK /\ h \in Http /\ req[h] \in Request /\ StillTrue(req[h])
      /\ Numbered
  BY DEF SerialInv, TypeInv, TypeOK
<1>1. ASSUME NEW c \in ClientIds, AnswerCreate(h, c) PROVE SerialInv'
  <2>1. UNCHANGED <<shelfVars, rowVars, recent, req>>
    BY <1>1 DEF AnswerCreate
  <2> QED
    BY <2>1, ShelfStands DEF SerialInv, Numbered, RowOK, StillTrue, RecentDuplicates, CartOf,
                          shelfVars, rowVars
<1>2. ASSUME NEW c \in ClientIds, BeginCreate(h, c) PROVE SerialInv'
  <2> DEFINE r == [op |-> "create", client |-> c, batches |-> batches]
  <2>1. RecentDuplicates(c[1]) = {}
    BY <1>2 DEF BeginCreate, Known
  <2>2. StillTrue(r)
    BY <2>1 DEF StillTrue
  <2>3. req' = [req EXCEPT ![h] = r] /\ UNCHANGED <<batches, moves, skipped, rowVars, recent>>
    BY <1>2 DEF BeginCreate, Begin, shelfVars, dedupVars
  <2> HIDE DEF r
  <2> QED
    BY <2>2, <2>3, SerialBegin
<1>3. ASSUME CommitCreate(h) PROVE SerialInv'
  <2>0. PICK c \in ClientIds, t \in Tickets, i \in OrderIds :
          req[h].op = "create" /\ c = req[h].client /\ t = c[1] /\ i = NewOrder(t)
    BY <1>0, <1>3, SlotFields, TicketOf DEF CommitCreate, Running
  <2> DEFINE r == [op |-> "remember", client |-> c, order |-> i]
  <2>1. req[h].op = "create" /\ NewOrder(t) \in OrderIds
    BY <2>0
  <2>2. /\ Deduct(Cart[t], SeenBatches(h, Cart[t]))
        /\ status' = [status EXCEPT ![i] = "completed"]
        /\ out' = [out EXCEPT ![i] = @ + 1]
        /\ paid' = [paid EXCEPT ![i] = 1]
        /\ missed' = missed
        /\ req' = [req EXCEPT ![h] = r]
    BY <1>3, <2>0 DEF CommitCreate
  <2>3. SeenBatches(h, Cart[t]) = batches
    BY <1>0, <2>1 DEF SeenBatches, StillTrue
  <2>4. StillTrue(r)'
    BY DEF StillTrue
  <2> HIDE DEF r
  <2>5. status[i] = "none"
    BY <1>0, <2>0, <2>1, NewIsNone
  <2>6. Numbered'
    BY <1>0, <2>0, <2>1, <2>2, NewNumbers DEF PosStatus
  <2>7. i \in missed \/ out[i] = 0
    BY <2>5 DEF SerialInv, RowOK
  <2> QED
    BY <2>1, <2>2, <2>3, <2>4, <2>6, <2>7, SerialSale
<1>4. ASSUME RememberCreate(h) PROVE SerialInv'
  <2>1. req' = [req EXCEPT ![h] = Idle] /\ UNCHANGED <<batches, moves, skipped, rowVars, recent>>
    BY <1>4 DEF RememberCreate, Done, shelfVars
  <2> QED
    BY <2>1, IdleTrue, SerialBegin
<1>5. ASSUME NEW i \in OrderIds, BeginMarkAsPaid(h, i) PROVE SerialInv'
  <2> DEFINE r == [op |-> "paid", order |-> i, batches |-> batches]
  <2>1. StillTrue(r)
    BY <1>5 DEF StillTrue, BeginMarkAsPaid, Payable
  <2>2. req' = [req EXCEPT ![h] = r] /\ UNCHANGED <<batches, moves, skipped, rowVars, recent>>
    BY <1>5 DEF BeginMarkAsPaid, Begin, shelfVars, dedupVars
  <2> HIDE DEF r
  <2> QED
    BY <2>1, <2>2, SerialBegin
<1>6. ASSUME NEW i \in OrderIds, BeginCancelPending(h, i) PROVE SerialInv'
  <2> DEFINE r == [op |-> "drop", order |-> i]
  <2>1. StillTrue(r)
    BY <1>6 DEF StillTrue, BeginCancelPending
  <2>2. req' = [req EXCEPT ![h] = r] /\ UNCHANGED <<batches, moves, skipped, rowVars, recent>>
    BY <1>6 DEF BeginCancelPending, Begin, shelfVars, dedupVars
  <2> HIDE DEF r
  <2> QED
    BY <2>1, <2>2, SerialBegin
<1>7. ASSUME CommitMarkAsPaid(h) PROVE SerialInv'
  <2>1. PICK i \in OrderIds : req[h].op = "paid" /\ i = req[h].order /\ i[1] \in Tickets
    BY <1>0, <1>7, SlotFields, TicketOf DEF CommitMarkAsPaid, Running
  <2>2. req[h].batches = batches /\ status[i] = "pending"
    BY <1>0, <2>1 DEF StillTrue
  <2>3. /\ Deduct(Cart[i[1]], batches)
        /\ status' = [status EXCEPT ![i] = "completed"]
        /\ out' = [out EXCEPT ![i] = @ + 1]
        /\ paid' = [paid EXCEPT ![i] = @ + 1]
        /\ missed' = missed
        /\ req' = [req EXCEPT ![h] = Idle]
    BY <1>7, <2>1, <2>2 DEF CommitMarkAsPaid, CartOf, Done
  <2>4. StillTrue(Idle)'
    BY DEF StillTrue, Idle
  <2>5. Numbered'
    BY <1>0, <2>1, <2>2, <2>3, OldNumbers DEF PosStatus
  <2>6. paid[i] = 0 /\ (i \in missed \/ out[i] = 0)
    BY <2>1, <2>2 DEF SerialInv, RowOK
  <2>7. paid' = [paid EXCEPT ![i] = 1]
    BY <2>3, <2>6
  <2> QED
    BY <2>1, <2>3, <2>4, <2>5, <2>6, <2>7, SerialSale
<1>8. ASSUME CommitCancelPending(h) PROVE SerialInv'
  <2>1. PICK i \in OrderIds : req[h].op = "drop" /\ i = req[h].order
    BY <1>0, <1>8, SlotFields DEF CommitCancelPending, Running
  <2>2. status[i] = "pending"
    BY <1>0, <2>1 DEF StillTrue
  <2>3. /\ status' = [status EXCEPT ![i] = "cancelled"]
        /\ req' = [req EXCEPT ![h] = Idle]
        /\ out' = out /\ paid' = paid /\ missed' = missed
        /\ UNCHANGED <<batches, moves, skipped>>
    BY <1>8, <2>1 DEF CommitCancelPending, Done, shelfVars
  <2>4. RowOK(i)'
    BY <1>0, <2>1, <2>3 DEF RowOK, TypeOK
  <2> QED
    BY <2>1, <2>2, <2>3, <2>4, SerialRow DEF PosStatus
<1> QED
  BY <1>1, <1>2, <1>3, <1>4, <1>5, <1>6, <1>7, <1>8 DEF TillStep

\* The corrections.
LEMMA SerialCorrection ==
    ASSUME NEW h, Http = {h}, SerialInv, TypeInv', CorrectionStep(h)
    PROVE  SerialInv'
<1>0. /\ TypeInv /\ TypeOK /\ h \in Http /\ req[h] \in Request /\ StillTrue(req[h])
  BY DEF SerialInv, TypeInv, TypeOK
<1>1. ASSUME NEW i \in OrderIds, NEW op \in {"cancel", "edit", "refund"},
             op \in {"cancel", "refund"} => status[i] # "none",
             op = "edit" => status[i] = "completed",
             Begin(h, [op |-> op, order |-> i]),
             UNCHANGED <<shelfVars, pointVars, rowVars, dedupVars>>
      PROVE  SerialInv'
  <2> DEFINE r == [op |-> op, order |-> i]
  <2>1. StillTrue(r)
    BY <1>1 DEF StillTrue
  <2>2. req' = [req EXCEPT ![h] = r] /\ UNCHANGED <<batches, moves, skipped, rowVars, recent>>
    BY <1>1 DEF Begin, shelfVars, dedupVars
  <2> HIDE DEF r
  <2> QED
    BY <2>1, <2>2, SerialBegin
<1>2. ASSUME NEW i \in OrderIds,
             BeginCancelOrder(h, i) \/ BeginEditPayments(h, i) \/ BeginRefund(h, i)
      PROVE  SerialInv'
  BY <1>1, <1>2 DEF BeginCancelOrder, BeginEditPayments, BeginRefund, Cancellable
<1>3. ASSUME CommitCancelOrder(h) PROVE SerialInv'
  <2>1. PICK i \in OrderIds : i = req[h].order /\ status[i] # "none"
    BY <1>0, <1>3, SlotFields DEF CommitCancelOrder, Running, StillTrue
  <2>2. /\ status' = [status EXCEPT ![i] = "cancelled"]
        /\ \A j \in OrderIds \ {i} : out'[j] = out[j]
        /\ paid' = paid /\ missed' = missed
        /\ req' = [req EXCEPT ![h] = Idle] /\ UNCHANGED <<batches, moves, skipped>>
    BY <1>0, <1>3, <2>1 DEF CommitCancelOrder, Return, Done, TypeOK
  <2>3. RowOK(i)'
    BY <1>0, <2>1, <2>2 DEF RowOK, TypeOK
  <2>4. \A j \in OrderIds \ {i} : out'[j] = out[j] /\ paid'[j] = paid[j]
    BY <1>0, <2>2 DEF TypeOK
  <2> QED
    BY <2>1, <2>2, <2>3, <2>4, SerialRow DEF PosStatus
<1>4. ASSUME CommitEditPayments(h) PROVE SerialInv'
  <2>1. PICK i \in OrderIds : i = req[h].order /\ status[i] = "completed"
    BY <1>0, <1>4, SlotFields DEF CommitEditPayments, Running, StillTrue
  <2>2. /\ status' = status /\ out' = out
        /\ paid' = [paid EXCEPT ![i] = 1] /\ missed' = missed
        /\ req' = [req EXCEPT ![h] = Idle] /\ UNCHANGED <<batches, moves, skipped>>
    BY <1>4, <2>1 DEF CommitEditPayments, EditedPayments, Done, shelfVars
  <2>3. status' = [status EXCEPT ![i] = "completed"]
    BY <1>0, <2>1, <2>2 DEF TypeOK
  <2>4. RowOK(i)'
    BY <1>0, <2>1, <2>2 DEF RowOK, TypeOK, SerialInv
  <2>5. \A j \in OrderIds \ {i} : out'[j] = out[j] /\ paid'[j] = paid[j]
    BY <1>0, <2>2 DEF TypeOK
  <2> QED
    BY <2>1, <2>2, <2>3, <2>4, <2>5, SerialRow DEF PosStatus
<1>5. ASSUME CommitRefund(h) PROVE SerialInv'
  <2>1. PICK i \in OrderIds : i = req[h].order /\ status[i] # "none"
    BY <1>0, <1>5, SlotFields DEF CommitRefund, Running, StillTrue
  <2>2. /\ \A j \in OrderIds \ {i} : out'[j] = out[j]
        /\ paid' = paid
        /\ req' = [req EXCEPT ![h] = Idle] /\ UNCHANGED <<batches, moves, skipped>>
    BY <1>0, <1>5, <2>1 DEF CommitRefund, Return, Done, TypeOK
  <2>3. CASE status' = [status EXCEPT ![i] = "refunded"] /\ missed' = missed
    <3>1. RowOK(i)'
      BY <1>0, <2>1, <2>3 DEF RowOK, TypeOK
    <3> QED
      BY <2>1, <2>2, <2>3, <3>1, SerialRow DEF PosStatus
  <2>4. CASE status' = status /\ missed' = missed \union {i}
    <3>1. status' = [status EXCEPT ![i] = status[i]] /\ status[i] \in PosStatus \ {"none"}
      BY <1>0, <2>1, <2>4 DEF TypeOK
    <3>2. RowOK(i)'
      BY <1>0, <2>1, <2>2, <2>4 DEF SerialInv, RowOK
    <3>3. \A j \in OrderIds \ {i} : j \in missed' <=> j \in missed
      BY <2>4
    <3> QED
      BY <2>1, <2>2, <3>1, <3>2, <3>3, SerialRow
  <2> QED
    BY <1>5, <2>1, <2>3, <2>4 DEF CommitRefund
<1> QED
  BY <1>2, <1>3, <1>4, <1>5 DEF CorrectionStep

\* The other writers of the balance.
LEMMA SerialDesk ==
    ASSUME NEW h, Http = {h}, SerialInv, TypeInv', DeskStep(h)
    PROVE  SerialInv'
<1>1. ASSUME NEW op \in {"update", "expire"}, Begin(h, [op |-> op, points |-> points]),
             UNCHANGED <<shelfVars, pointVars, rowVars, dedupVars>>
      PROVE  SerialInv'
  <2> DEFINE r == [op |-> op, points |-> points]
  <2>1. StillTrue(r)
    BY DEF StillTrue
  <2>2. req' = [req EXCEPT ![h] = r] /\ UNCHANGED <<batches, moves, skipped, rowVars, recent>>
    BY <1>1 DEF Begin, shelfVars, dedupVars
  <2> HIDE DEF r
  <2> QED
    BY <2>1, <2>2, SerialBegin
<1>2. BeginUpdateMember(h) \/ BeginPointsExpiry(h) => SerialInv'
  BY <1>1 DEF BeginUpdateMember, BeginPointsExpiry
<1>3. ASSUME CommitUpdateMember(h) \/ CommitPointsExpiry(h) PROVE SerialInv'
  <2>1. req' = [req EXCEPT ![h] = Idle] /\ UNCHANGED <<batches, moves, skipped, rowVars, recent>>
    BY <1>3 DEF CommitUpdateMember, CommitPointsExpiry, Done, shelfVars, dedupVars
  <2> QED
    BY <2>1, IdleTrue, SerialBegin
<1> QED
  BY <1>2, <1>3 DEF DeskStep

\* A pending order appears beside a running handler.
LEMMA SerialPending ==
    ASSUME NEW h, Http = {h}, SerialInv, TypeInv', NEW t \in Tickets, CreatePending(t)
    PROVE  SerialInv'
<1> DEFINE i == NewOrder(t)
<1>0. TypeOK /\ Numbered /\ req[h] \in Request /\ StillTrue(req[h])
  BY DEF SerialInv, TypeInv, TypeOK
<1>1. /\ i \in OrderIds /\ status' = [status EXCEPT ![i] = "pending"]
      /\ recent' = recent \union {i}
      /\ req' = req /\ out' = out /\ paid' = paid /\ missed' = missed
      /\ UNCHANGED <<batches, moves, skipped>>
  BY DEF CreatePending, shelfVars
<1>2. status[i] = "none"
  BY <1>0, <1>1, NewIsNone
<1>3. Numbered'
  BY <1>0, <1>1, NewNumbers DEF PosStatus
<1> HIDE DEF i
<1>4. \A j \in OrderIds : status'[j] = IF j = i THEN "pending" ELSE status[j]
  BY <1>0, <1>1 DEF TypeOK
<1>5. \A j \in OrderIds : RowOK(j)'
  BY <1>1, <1>2, <1>4 DEF SerialInv, RowOK
<1>6. recent \subseteq OrderIds
  BY <1>0 DEF TypeOK
<1>7. \A u \in Tickets : RecentDuplicates(u) = {} => RecentDuplicates(u)' = {}
  BY <1>1, <1>4, <1>6, DuplicatesShrink
<1>8. StillTrue(req[h])'
  BY <1>0, <1>1, <1>2, <1>4, <1>7, SlotFields, TicketOf DEF StillTrue
<1>9. BatchesInOrder'
  BY <1>1, ShelfStands DEF SerialInv
<1> QED
  BY <1>3, <1>5, <1>8, <1>9 DEF SerialInv

\* Time passes.
LEMMA SerialTime ==
    ASSUME NEW h, Http = {h}, SerialInv, TypeInv', recent' \subseteq recent,
           UNCHANGED <<batches, moves, skipped, rowVars, req>>
    PROVE  SerialInv'
<1>0. req[h] \in Request /\ StillTrue(req[h])
  BY DEF SerialInv, TypeInv, TypeOK
<1>1. \A u \in Tickets : RecentDuplicates(u) = {} => RecentDuplicates(u)' = {}
  BY DuplicatesShrink DEF rowVars
<1>2. StillTrue(req[h])'
  BY <1>0, <1>1, SlotFields, TicketOf DEF StillTrue, rowVars
<1>3. Numbered' /\ \A i \in OrderIds : RowOK(i)'
  BY DEF SerialInv, Numbered, RowOK, rowVars
<1>4. BatchesInOrder'
  BY ShelfStands DEF SerialInv
<1> QED
  BY <1>2, <1>3, <1>4 DEF SerialInv

\* Every step keeps it.
LEMMA NextSerialInv ==
    ASSUME NEW h, Http = {h}, SerialInv, TypeInv', [Next]_vars
    PROVE  SerialInv'
<1>1. CASE UNCHANGED vars
  BY <1>1, SerialTime DEF vars, shelfVars, dedupVars
<1>2. ASSUME Abandon(h) PROVE SerialInv'
  <2>1. req' = [req EXCEPT ![h] = Idle] /\ UNCHANGED <<batches, moves, skipped, rowVars, recent>>
    BY <1>2 DEF Abandon, Done, shelfVars, dedupVars
  <2> QED
    BY <2>1, IdleTrue, SerialBegin
<1>3. ASSUME NEW t \in Tickets, CreatePending(t) PROVE SerialInv'
  BY <1>3, SerialPending
<1>4. ASSUME NEW i \in OrderIds, WindowPasses(i) PROVE SerialInv'
  <2>1. recent' \subseteq recent /\ UNCHANGED <<batches, moves, skipped, rowVars, req>>
    BY <1>4 DEF WindowPasses, shelfVars
  <2> QED
    BY <2>1, SerialTime
<1>5. ASSUME NEW e \in cache, CacheExpires(e) PROVE SerialInv'
  <2>1. recent' \subseteq recent /\ UNCHANGED <<batches, moves, skipped, rowVars, req>>
    BY <1>5 DEF CacheExpires, shelfVars
  <2> QED
    BY <2>1, SerialTime
<1> QED
  BY <1>1, <1>2, <1>3, <1>4, <1>5, SerialTill, SerialCorrection, SerialDesk DEF Next

\* It holds at first.
LEMMA InitSerialInv == Init => SerialInv
<1> SUFFICES ASSUME Init PROVE SerialInv
  OBVIOUS
<1>1. TypeInv
  BY InitTypes
<1>2. \A i \in OrderIds : status[i] = "none" /\ out[i] = 0 /\ paid[i] = 0 /\ i \notin missed
  BY DEF Init
<1>3. Numbered
  <2>1. MaxOrders \in Nat
    BY RegisterAssumption
  <2>2. \A t \in Tickets, k \in 1 .. MaxOrders : status[<<t, k>>] = "none" /\ ~(k <= 0)
    BY <1>2 DEF OrderIds
  <2>3. 0 \in 0 .. MaxOrders
    BY <2>1
  <2> QED
    BY <2>2, <2>3 DEF Numbered
<1>4. \A s \in Http : StillTrue(req[s])
  BY IdleTrue DEF Init
<1>5. BatchesInOrder
  <2>1. batches = InitBatches /\ moves = 0 /\ InitBatches \in Seq(Nat)
    BY RegisterAssumption DEF Init
  <2>2. BatchUnits(InitBatches) \in Nat
    BY <2>1, ConsumeUnits
  <2>3. BatchesFollowSales
    BY <2>1, <2>2 DEF BatchesFollowSales
  <2>4. OldestFirst
    <3>1. \A j \in DOMAIN InitBatches : InitBatches[j] \in Nat
      BY <2>1
    <3>2. \A j \in DOMAIN InitBatches : ~(InitBatches[j] < InitBatches[j])
      BY <3>1
    <3> QED
      BY <2>1, <3>2 DEF OldestFirst
  <2> QED
    BY <2>3, <2>4 DEF BatchesInOrder
<1> QED
  BY <1>1, <1>2, <1>3, <1>4, <1>5 DEF SerialInv, RowOK

\* So it holds in every reachable state.
LEMMA AlwaysSerial ==
    ASSUME NEW h, Http = {h}
    PROVE  Spec => []SerialInv
<1>1. Spec => []TypeInv
  BY InitTypes, NextTypes, PTL DEF Spec
<1>2. SerialInv /\ TypeInv' /\ [Next]_vars => SerialInv'
  BY NextSerialInv
<1> QED
  BY <1>1, <1>2, InitSerialInv, PTL DEF Spec

\* With requests served one at a time a completed sale, paid at once or later,
\* took its units off the stock exactly once and carries one set of payment
\* rows; and whoever is answered with it asked for it.
THEOREM CompletedExactlyOnce ==
    ASSUME NEW h, Http = {h}
    PROVE  Spec => []CompletedOnce
<1>1. SerialInv => CompletedTookStock /\ PaidOnce
  BY DEF SerialInv, RowOK, CompletedTookStock, PaidOnce
<1> QED
  BY <1>1, AlwaysSerial, AnswersAlike, PTL DEF CompletedOnce

\* With requests served one at a time the batches lose exactly what the
\* movements say was sold, and always the oldest first.
THEOREM BatchesKeepOrder ==
    ASSUME NEW h, Http = {h}
    PROVE  Spec => []BatchesInOrder
<1>1. SerialInv => BatchesInOrder
  BY DEF SerialInv
<1> QED
  BY <1>1, AlwaysSerial, PTL

\* With requests served one at a time a ticket whose stored total is the
\* total its till sends (no part of it paid in points) is not recorded a
\* second time while the first is inside the window, whatever request id it
\* is sent with.
THEOREM SoldOnlyOnce ==
    ASSUME NEW h, Http = {h}, \A t \in Tickets : Cart[t].cash = Cart[t].total
    PROVE  Spec => NoDoubleSale
<1> DEFINE Twice(i, j) == /\ i[1] = j[1] /\ i # j
                          /\ j \in recent /\ status[j] = "completed"
                          /\ status[i] = "none"
                          /\ status'[i] = "completed"
<1>1. ASSUME SerialInv, [Next]_vars, NEW i \in OrderIds, NEW j \in OrderIds, Twice(i, j)
      PROVE  FALSE
  <2>0. /\ TypeInv /\ TypeOK /\ h \in Http /\ req[h] \in Request /\ StillTrue(req[h])
    BY <1>1 DEF SerialInv, TypeInv, TypeOK
  <2>1. status' # status
    BY <1>1
  <2>2. ASSUME CommitCreate(h) PROVE FALSE
    <3>1. /\ req[h].op = "create" /\ req[h].client[1] \in Tickets
          /\ NewOrder(req[h].client[1]) \in OrderIds
          /\ status' = [status EXCEPT ![NewOrder(req[h].client[1])] = "completed"]
      BY <2>0, <2>2, SlotFields, TicketOf DEF CommitCreate, Running
    <3>2. i = NewOrder(req[h].client[1])
      BY <1>1, <2>0, <3>1 DEF TypeOK
    <3>3. j[1] = req[h].client[1]
      BY <1>1, <3>2 DEF NewOrder
    <3>4. j \in RecentDuplicates(req[h].client[1])
      BY <1>1, <3>1, <3>3 DEF RecentDuplicates, CartOf
    <3> QED
      BY <2>0, <3>1, <3>4 DEF StillTrue
  <2>3. ASSUME CommitMarkAsPaid(h) PROVE FALSE
    <3>1. req[h].op = "paid" /\ status[req[h].order] = "pending"
      BY <2>0, <2>3 DEF CommitMarkAsPaid, Running, StillTrue
    <3>2. status' = [status EXCEPT ![req[h].order] = "completed"]
      BY <2>3 DEF CommitMarkAsPaid
    <3> QED
      BY <1>1, <2>0, <3>1, <3>2 DEF TypeOK
  <2>4. ASSUME NEW k, NEW st, st # "completed", status' = [status EXCEPT ![k] = st] PROVE FALSE
    BY <1>1, <2>0, <2>4 DEF TypeOK
  <2>5. ASSUME CommitCancelPending(h) \/ CommitCancelOrder(h) \/ CommitRefund(h) PROVE FALSE
    BY <2>1, <2>4, <2>5 DEF CommitCancelPending, CommitCancelOrder, CommitRefund
  <2>6. ASSUME NEW t \in Tickets, CreatePending(t) PROVE FALSE
    BY <2>4, <2>6 DEF CreatePending
  <2>7. UNCHANGED rowVars \/ UNCHANGED status => FALSE
    BY <2>1 DEF rowVars
  <2>8. ~UNCHANGED vars
    BY <2>7 DEF vars
  <2>9. ~TillStep(h)
    BY <2>2, <2>3, <2>5, <2>7
    DEF TillStep, AnswerCreate, BeginCreate, RememberCreate, BeginMarkAsPaid, BeginCancelPending
  <2>10. ~CorrectionStep(h)
    BY <2>5, <2>7 DEF CorrectionStep, BeginCancelOrder, BeginEditPayments, BeginRefund, CommitEditPayments
  <2>11. ~DeskStep(h)
    BY <2>7 DEF DeskStep, BeginUpdateMember, CommitUpdateMember, BeginPointsExpiry, CommitPointsExpiry
  <2>12. ~Abandon(h)
    BY <2>7 DEF Abandon
  <2>13. /\ \A k \in OrderIds : ~WindowPasses(k)
         /\ \A e \in cache : ~CacheExpires(e)
    BY <2>7 DEF WindowPasses, CacheExpires
  <2> QED
    BY <1>1, <2>6, <2>8, <2>9, <2>10, <2>11, <2>12, <2>13 DEF Next
<1>2. ASSUME SerialInv, [Next]_vars
      PROVE  [\A i, j \in OrderIds :
                /\ i[1] = j[1] /\ i # j
                /\ j \in recent /\ status[j] = "completed"
                /\ status[i] = "none"
                => status'[i] # "completed"]_vars
  BY <1>1, <1>2
<1> QED
  BY <1>2, AlwaysSerial, PTL DEF Spec, NoDoubleSale
=============================================================================
