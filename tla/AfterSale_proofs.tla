--------------------------- MODULE AfterSale_proofs ---------------------------
(***************************************************************************)
(* What holds of AfterSale for any number of complaints, handlers, refunds *)
(* and waiting customers: a refund ends the complaint it names, and a      *)
(* review an admin has hidden is not counted, unless the customer was just *)
(* then editing it.  And how many complaints can be active at once and how *)
(* many mails a customer can get, from what overlapped and what was lost.  *)
(***************************************************************************)
EXTENDS AfterSale, FiniteSetTheorems, TLAPS

\* Zero is the rating of no review; no complaint is none.
Names == 0 \notin Ratings /\ NoComplaint \notin Complaints

-----------------------------------------------------------------------------
(* The inductive invariant.                                                *)

Functions ==
    /\ complaint \in [Complaints -> [st : Active \cup Closed \cup {"none"}, dated : BOOLEAN]]
    /\ review \in Reviews
    /\ req = [s \in Slots |-> req[s]]
    /\ \A s \in Slots : req[s].op \in {"submit", "review"} => req[s].u = NoOne

\* A complaint being submitted is nobody else's and has no row yet, so no
\* refund can have named it.
ComplaintsOK ==
    /\ \A c \in Complaints : complaint[c].st \in Closed => complaint[c].dated
    /\ \A c \in settled : c \in Complaints /\ complaint[c].st \in Closed
    /\ \A s \in Slots : req[s].op = "submit" =>
          /\ req[s].c \in Complaints /\ complaint[req[s].c].st = "none"
          /\ \A t \in Slots \ {s} : req[t].c # req[s].c

\* A review, or what an edit has read of it, is shown against the admin's
\* decision only if the two overlapped.
Shows(r) == r.rating # 0 /\ ~r.hidden
ReviewOK ==
    /\ status = "completed" => received
    /\ review.rating # 0 => received
    /\ review.rating = 0 => ~hide
    /\ Shows(review) /\ hide => raced
    /\ \A s \in Slots : req[s].op = "review" =>
          received /\ req[s].row \in Reviews /\ (Shows(req[s].row) /\ hide => raced)

IInv == Functions /\ ComplaintsOK /\ ReviewOK

-----------------------------------------------------------------------------
LEMMA InitIInv == ASSUME Names, Init PROVE IInv
<1>1. Functions
  BY DEF Init, Functions, Reviews, NoReview, Idle
<1>2. ComplaintsOK
  BY DEF Init, ComplaintsOK, Closed, Idle
<1>3. ReviewOK
  BY DEF Init, ReviewOK, Shows, NoReview, Idle
<1> QED
  BY <1>1, <1>2, <1>3 DEF IInv

\* A slot that is filled with neither a submission nor a review, or emptied,
\* while the rows stay as they are.
LEMMA SlotKeeps ==
    ASSUME Names, IInv, NEW s \in Slots, NEW r, req' = [req EXCEPT ![s] = r],
           r.op \notin {"submit", "review"},
           r.c = req[s].c \/ r.c = NoComplaint,
           UNCHANGED <<order, complaints, reviews>>
    PROVE  IInv'
<1>1. \A t \in Slots : req'[t] = IF t = s THEN r ELSE req[t]
  BY DEF IInv, Functions
<1>2. UNCHANGED <<status, received, complaint, settled, review, hide, raced>>
  BY DEF order, complaints, reviews
<1>3. Functions'
  BY <1>1, <1>2 DEF IInv, Functions
<1>4. ComplaintsOK'
  BY <1>1, <1>2 DEF IInv, ComplaintsOK, Names
<1>5. ReviewOK'
  BY <1>1, <1>2 DEF IInv, ReviewOK, Shows
<1> QED
  BY <1>3, <1>4, <1>5 DEF IInv

\* The order goes on, or alerts and shelf change.
LEMMA RestKeeps ==
    ASSUME IInv, UNCHANGED <<complaints, reviews, req>>,
           received => received', status' = "completed" => received'
    PROVE  IInv'
BY DEF IInv, Functions, ComplaintsOK, ReviewOK, Shows, complaints, reviews

LEMMA SubmitKeeps ==
    ASSUME Names, IInv, NEW s \in Slots, NEW c \in Complaints, BeginSubmit(s, c)
    PROVE  IInv'
<1>1. /\ complaint[c].st = "none" /\ \A t \in Slots : req[t].c # c
      /\ req' = [req EXCEPT ![s] = [Idle EXCEPT !.op = "submit", !.c = c]]
      /\ UNCHANGED <<status, received, complaint, settled, review, hide, raced>>
  BY DEF BeginSubmit, Take, order, complaints, reviews
<1>2. /\ \A t \in Slots \ {s} : req'[t] = req[t]
      /\ req'[s].op = "submit" /\ req'[s].c = c /\ req'[s].u = NoOne
  BY <1>1 DEF IInv, Functions, Idle
<1>3. Functions'
  BY <1>1, <1>2 DEF IInv, Functions
<1>4. ComplaintsOK'
  BY <1>1, <1>2 DEF IInv, ComplaintsOK
<1>5. ReviewOK'
  BY <1>1, <1>2 DEF IInv, ReviewOK, Shows
<1> QED
  BY <1>3, <1>4, <1>5 DEF IInv

LEMMA CommitSubmitKeeps ==
    ASSUME Names, IInv, NEW s \in Slots, CommitSubmit(s)
    PROVE  IInv'
<1> DEFINE c == req[s].c
<1>1. /\ req[s].op = "submit"
      /\ complaint' = [complaint EXCEPT ![c].st = "open"]
      /\ req' = [req EXCEPT ![s] = Idle]
      /\ UNCHANGED <<status, received, settled, review, hide, raced>>
  BY DEF CommitSubmit, Done, order, reviews
<1>2. /\ c \in Complaints /\ complaint[c].st = "none"
      /\ \A t \in Slots \ {s} : req[t].c # c
  BY <1>1 DEF IInv, ComplaintsOK
<1>3. \A t \in Slots : req'[t] = IF t = s THEN Idle ELSE req[t]
  BY <1>1 DEF IInv, Functions
<1> HIDE DEF c
<1>4. /\ complaint'[c] = [st |-> "open", dated |-> complaint[c].dated]
      /\ \A d \in Complaints \ {c} : complaint'[d] = complaint[d]
  BY <1>1, <1>2 DEF IInv, Functions
<1>5. Functions'
  BY <1>1, <1>2, <1>3, <1>4 DEF IInv, Functions, Active, Idle
<1>6. ComplaintsOK'
  <2>1. c \notin settled /\ "open" \notin Closed /\ "none" \notin Closed
    BY <1>2 DEF IInv, ComplaintsOK, Closed
  <2> QED
    BY <1>1, <1>2, <1>3, <1>4, <2>1 DEF IInv, ComplaintsOK, Names, Idle
<1>7. ReviewOK'
  BY <1>1, <1>3 DEF IInv, ReviewOK, Shows, Idle
<1> QED
  BY <1>5, <1>6, <1>7 DEF IInv

LEMMA ReplyKeeps ==
    ASSUME Names, IInv, NEW c \in Complaints, NEW st \in Active \cup Closed, Reply(c, st)
    PROVE  IInv'
<1>1. /\ complaint[c].st # "none" /\ settled' = settled \ {c}
      /\ complaint' = [complaint EXCEPT ![c] = [st |-> st, dated |-> @.dated \/ st \in Closed]]
      /\ UNCHANGED <<status, received, review, hide, raced, req>>
  BY DEF Reply, order, reviews
<1>2. /\ complaint'[c].st = st /\ (st \in Closed => complaint'[c].dated)
      /\ complaint'[c] \in [st : Active \cup Closed \cup {"none"}, dated : BOOLEAN]
      /\ \A d \in Complaints \ {c} : complaint'[d] = complaint[d]
  BY <1>1 DEF IInv, Functions
<1>3. Functions'
  BY <1>1, <1>2 DEF IInv, Functions
<1>4. ComplaintsOK'
  BY <1>1, <1>2 DEF IInv, ComplaintsOK
<1>5. ReviewOK'
  BY <1>1 DEF IInv, ReviewOK, Shows
<1> QED
  BY <1>3, <1>4, <1>5 DEF IInv

LEMMA RefundKeeps ==
    ASSUME Names, IInv, NEW amount, NEW units, NEW c \in Complaints \cup {NoComplaint},
           Create(amount, units, c)
    PROVE  IInv'
<1>1. /\ c # NoComplaint => complaint[c].st # "none"
      /\ complaint' = [d \in Complaints |->
             IF d = c /\ complaint[d].st \in Active THEN [st |-> "resolved", dated |-> TRUE] ELSE complaint[d]]
      /\ settled' = settled \cup ({c} \ {NoComplaint})
      /\ UNCHANGED <<status, received, review, hide, raced, req>>
  BY DEF Create, order, reviews
<1>2. Functions'
  <2>1. complaint' \in [Complaints -> [st : Active \cup Closed \cup {"none"}, dated : BOOLEAN]]
    BY <1>1 DEF IInv, Functions, Closed
  <2> QED
    BY <1>1, <2>1 DEF IInv, Functions
<1>3. ComplaintsOK'
  <2>1. "resolved" \in Closed /\ "none" \notin Active /\ \A st \in Active : st \notin Closed
    BY DEF Active, Closed
  <2>2. \A d \in Complaints : complaint'[d].st \in Closed => complaint'[d].dated
    BY <1>1 DEF IInv, ComplaintsOK
  <2>3. \A d \in settled' : d \in Complaints /\ complaint'[d].st \in Closed
    BY <1>1, <2>1 DEF IInv, ComplaintsOK, Functions
  <2>4. \A d \in Complaints : complaint[d].st = "none" => complaint'[d].st = "none"
    BY <1>1, <2>1
  <2> QED
    BY <1>1, <2>2, <2>3, <2>4 DEF IInv, ComplaintsOK
<1>4. ReviewOK'
  BY <1>1 DEF IInv, ReviewOK, Shows
<1> QED
  BY <1>2, <1>3, <1>4 DEF IInv

LEMMA BeginUpsertKeeps ==
    ASSUME Names, IInv, NEW s \in Slots, BeginUpsert(s)
    PROVE  IInv'
<1>1. /\ status = "completed" /\ req[s] = Idle
      /\ req' = [req EXCEPT ![s] = [Idle EXCEPT !.op = "review", !.row = review]]
      /\ UNCHANGED <<status, received, complaint, settled, review, hide, raced>>
  BY DEF BeginUpsert, CanReview, Take, order, complaints, reviews
<1>2. /\ \A t \in Slots \ {s} : req'[t] = req[t]
      /\ req'[s].op = "review" /\ req'[s].row = review /\ req'[s].c = NoComplaint
      /\ req'[s].u = NoOne
  BY <1>1 DEF IInv, Functions, Idle
<1>3. Functions'
  BY <1>1, <1>2 DEF IInv, Functions
<1>4. ComplaintsOK'
  BY <1>1, <1>2 DEF IInv, ComplaintsOK, Names
<1>5. ReviewOK'
  BY <1>1, <1>2 DEF IInv, Functions, ReviewOK, Shows
<1> QED
  BY <1>3, <1>4, <1>5 DEF IInv

LEMMA CommitUpsertKeeps ==
    ASSUME Names, IInv, NEW s \in Slots, NEW rating \in Ratings, CommitUpsert(s, rating)
    PROVE  IInv'
<1>1. /\ req[s].op = "review" /\ req' = [req EXCEPT ![s] = Idle]
      /\ review' = IF req[s].row.rating # 0 THEN [req[s].row EXCEPT !.rating = rating]
                   ELSE IF review.rating = 0 THEN [rating |-> rating, hidden |-> FALSE] ELSE review
      /\ UNCHANGED <<status, received, complaint, settled, hide, raced>>
  BY DEF CommitUpsert, Done, order, complaints
<1>2. received /\ req[s].row \in Reviews /\ (Shows(req[s].row) /\ hide => raced)
  BY <1>1 DEF IInv, ReviewOK
<1>3. \A t \in Slots : req'[t] = IF t = s THEN Idle ELSE req[t]
  BY <1>1 DEF IInv, Functions
<1>4. review' \in Reviews /\ review'.rating # 0 /\ (Shows(review)' /\ hide => raced)
  <2>1. CASE req[s].row.rating # 0
    BY <1>1, <1>2, <2>1 DEF Reviews, Names, Shows
  <2>2. CASE req[s].row.rating = 0 /\ review.rating = 0
    BY <1>1, <2>2 DEF IInv, ReviewOK, Reviews, Names
  <2>3. CASE req[s].row.rating = 0 /\ review.rating # 0
    BY <1>1, <2>3 DEF IInv, Functions, ReviewOK, Shows
  <2> QED
    BY <2>1, <2>2, <2>3
<1>5. Functions'
  BY <1>1, <1>3, <1>4 DEF IInv, Functions, Idle
<1>6. ComplaintsOK'
  BY <1>1, <1>3 DEF IInv, ComplaintsOK, Idle, Names
<1>7. ReviewOK'
  BY <1>1, <1>2, <1>3, <1>4 DEF IInv, ReviewOK, Shows, Idle
<1> QED
  BY <1>5, <1>6, <1>7 DEF IInv

LEMMA HideKeeps ==
    ASSUME Names, IInv, NEW b \in BOOLEAN, ToggleHide(b)
    PROVE  IInv'
<1>1. /\ review.rating # 0 /\ review' = [review EXCEPT !.hidden = b]
      /\ hide' = b /\ raced' = (raced \/ \E s \in Slots : req[s].op = "review")
      /\ UNCHANGED <<status, received, complaint, settled, req>>
  BY DEF ToggleHide, order, complaints
<1>2. review' \in Reviews /\ review'.rating = review.rating /\ review'.hidden = b
  BY <1>1 DEF IInv, Functions, Reviews
<1>3. Functions' /\ ComplaintsOK'
  BY <1>1, <1>2 DEF IInv, Functions, ComplaintsOK
<1>4. ReviewOK'
  BY <1>1, <1>2 DEF IInv, ReviewOK, Shows
<1> QED
  BY <1>3, <1>4 DEF IInv

-----------------------------------------------------------------------------
LEMMA NextIInv ==
    ASSUME Names, IInv, [Next]_vars
    PROVE  IInv'
<1>1. CASE UNCHANGED vars
  <2>1. UNCHANGED <<complaints, reviews, req, status, received>>
    BY <1>1 DEF vars, order
  <2> QED
    BY <2>1, RestKeeps DEF IInv, ReviewOK
<1>2. ASSUME Advance("shipped", "delivered") \/ Advance("shipped", "completed")
             \/ Advance("delivered", "completed") \/ Return
      PROVE  IInv'
  <2>1. ASSUME NEW from, NEW to, Advance(from, to) PROVE IInv'
    <3>1. (received => received') /\ (to = "completed" => received') /\ status' = to
      BY <2>1, Zenon DEF Advance
    <3>2. UNCHANGED <<complaints, reviews, req>>
      BY <2>1 DEF Advance
    <3> QED
      BY <3>1, <3>2, RestKeeps
  <2>2. ASSUME Return PROVE IInv'
    BY <2>2, RestKeeps DEF Return
  <2> QED
    BY <1>2, <2>1, <2>2
<1>3. ASSUME NEW c \in Complaints, NEW st \in Active \cup Closed, Reply(c, st)
      PROVE  IInv'
  BY <1>3, ReplyKeeps
<1>4. ASSUME NEW amount \in 1..Total, NEW units \in 0..Quantity, NEW c \in Complaints \cup {NoComplaint},
             Create(amount, units, c)
      PROVE  IInv'
  BY <1>4, RefundKeeps
<1>5. ASSUME NEW b \in BOOLEAN, ToggleHide(b)
      PROVE  IInv'
  BY <1>5, HideKeeps
<1>6. ASSUME NEW u \in Waiting, Subscribe(u) \/ Unsubscribe(u)
      PROVE  IInv'
  BY <1>6, RestKeeps DEF Subscribe, Unsubscribe, order, IInv, ReviewOK
<1>7. ASSUME NEW s \in Slots, NEW c \in Complaints, BeginSubmit(s, c)
      PROVE  IInv'
  BY <1>7, SubmitKeeps
<1>8. ASSUME NEW s \in Slots, CommitSubmit(s) \/ BeginUpsert(s)
      PROVE  IInv'
  BY <1>8, CommitSubmitKeeps, BeginUpsertKeeps
<1>9. ASSUME NEW s \in Slots, NEW rating \in Ratings, CommitUpsert(s, rating)
      PROVE  IInv'
  BY <1>9, CommitUpsertKeeps
<1>10. ASSUME NEW s \in Slots, TriggerRestockNotif(s)
       PROVE  IInv'
  <2>1. [Idle EXCEPT !.op = "notify", !.whom = Unnotified].op = "notify"
        /\ [Idle EXCEPT !.op = "notify", !.whom = Unnotified].c = NoComplaint
    BY DEF Idle
  <2> QED
    BY <1>10, <2>1, SlotKeeps DEF TriggerRestockNotif, Take
<1>11. ASSUME NEW s \in Slots, NEW u \in Waiting, SendAlert(s, u)
       PROVE  IInv'
  <2> DEFINE r == [req[s] EXCEPT !.u = u]
  <2>1. r.op = req[s].op /\ r.c = req[s].c /\ r.op = "notify" /\ req' = [req EXCEPT ![s] = r]
    BY <1>11 DEF SendAlert
  <2> QED
    BY <1>11, <2>1, SlotKeeps DEF SendAlert
<1>12. ASSUME NEW s \in Slots, MarkAlert(s)
       PROVE  IInv'
  <2> DEFINE rest == req[s].whom \ {req[s].u}
             r == IF rest = {} THEN Idle ELSE [req[s] EXCEPT !.whom = rest, !.u = NoOne]
  <2>1. req' = [req EXCEPT ![s] = r] /\ UNCHANGED <<order, complaints, reviews>>
    BY <1>12 DEF MarkAlert
  <2>2. r.op \in {"idle", req[s].op} /\ r.c \in {NoComplaint, req[s].c}
    BY DEF Idle
  <2>3. r.op \notin {"submit", "review"}
    BY <1>12, <2>2 DEF MarkAlert, IInv, Functions
  <2> HIDE DEF r
  <2> QED
    BY <2>1, <2>2, <2>3, SlotKeeps
<1>13. ASSUME NEW s \in Slots, Abandon(s)
       PROVE  IInv'
  BY <1>13, SlotKeeps DEF Abandon, Done, Idle
<1> QED
  BY <1>1, <1>2, <1>3, <1>4, <1>5, <1>6, <1>7, <1>8, <1>9, <1>10, <1>11, <1>12, <1>13 DEF Next

\* The invariant holds in every state.
THEOREM AlwaysIInv == ASSUME Names PROVE Spec => []IInv
<1>1. Init => IInv
  BY InitIInv
<1>2. IInv /\ [Next]_vars => IInv'
  BY NextIInv
<1> QED
  BY <1>1, <1>2, PTL DEF Spec

\* However submissions, replies, refunds, edits and decisions overlap: a
\* complaint a refund named stays closed and dated until an admin replies, and
\* the product page counts only reviews of goods received, none that is hidden
\* unless an edit met the decision.
THEOREM DecisionsAlwaysHold == ASSUME Names PROVE Spec => []DecisionsHold
<1>1. IInv => DecisionsHold
  BY DEF IInv, ComplaintsOK, ReviewOK, DecisionsHold, RefundCloses, ReviewsCount, ListForProduct, Shows
<1> QED
  BY <1>1, AlwaysIInv, PTL

-----------------------------------------------------------------------------
(* Types.                                                                  *)

\* Finitely many slots and complaints, and bounds that are numbers.
Bounds ==
    /\ IsFiniteSet(Slots) /\ IsFiniteSet(Complaints) /\ NoOne \notin Waiting
    /\ MaxRefunds \in Nat /\ MaxReopened \in Nat /\ MaxArmed \in Nat /\ MaxLost \in Nat
    /\ Quantity \in Nat /\ Total \in Nat

Request ==
    [op : {"idle", "submit", "review", "notify"}, c : Complaints \cup {NoComplaint},
     row : Reviews, whom : SUBSET Waiting, u : Waiting \cup {NoOne}]

ComplaintRow == [st : Active \cup Closed \cup {"none"}, dated : BOOLEAN]

\* An empty slot has the type of a request.
LEMMA IdleType == Idle \in Request
<1>1. NoReview \in Reviews
  BY DEF NoReview, Reviews
<1> QED
  BY <1>1 DEF Idle, Request

\* So have the requests the handlers begin with.
LEMMA BegunTypes ==
    /\ \A c \in Complaints : [Idle EXCEPT !.op = "submit", !.c = c] \in Request
    /\ \A r \in Reviews : [Idle EXCEPT !.op = "review", !.row = r] \in Request
    /\ \A w \in SUBSET Waiting : [Idle EXCEPT !.op = "notify", !.whom = w] \in Request
BY IdleType DEF Request

\* Each operation leaves every variable with its type.
LEMMA RequestTypes ==
    ASSUME TypeOK, [Next]_vars
    PROVE  req' \in [Slots -> Request]
<1>1. req \in [Slots -> Request] /\ review \in Reviews
  BY DEF TypeOK, Request
<1>2. ASSUME NEW s \in Slots, NEW r \in Request, req' = [req EXCEPT ![s] = r] PROVE req' \in [Slots -> Request]
  BY <1>1, <1>2
<1>3. CASE UNCHANGED req
  BY <1>1, <1>3
<1>4. ASSUME NEW s \in Slots, NEW c \in Complaints, BeginSubmit(s, c) PROVE req' \in [Slots -> Request]
  BY <1>2, <1>4, BegunTypes DEF BeginSubmit, Take
<1>5. ASSUME NEW s \in Slots, BeginUpsert(s) PROVE req' \in [Slots -> Request]
  BY <1>1, <1>2, <1>5, BegunTypes DEF BeginUpsert, Take
<1>6. ASSUME NEW s \in Slots, TriggerRestockNotif(s) PROVE req' \in [Slots -> Request]
  <2>1. Unnotified \in SUBSET Waiting
    BY DEF Unnotified
  <2> QED
    BY <1>2, <1>6, <2>1, BegunTypes DEF TriggerRestockNotif, Take
<1>7. ASSUME NEW s \in Slots, Done(s) PROVE req' \in [Slots -> Request]
  BY <1>2, <1>7, IdleType DEF Done
<1>8. ASSUME NEW s \in Slots, NEW u \in Waiting, SendAlert(s, u) PROVE req' \in [Slots -> Request]
  <2>1. [req[s] EXCEPT !.u = u] \in Request
    BY <1>1 DEF Request
  <2> QED
    BY <1>2, <1>8, <2>1 DEF SendAlert
<1>9. ASSUME NEW s \in Slots, MarkAlert(s) PROVE req' \in [Slots -> Request]
  <2> DEFINE rest == req[s].whom \ {req[s].u}
             more == [req[s] EXCEPT !.whom = rest, !.u = NoOne]
             r == IF rest = {} THEN Idle ELSE more
  <2>1. req' = [req EXCEPT ![s] = r]
    BY <1>9 DEF MarkAlert
  <2>2. more \in Request
    BY <1>1 DEF Request
  <2>3. r \in Request
    BY <2>2, IdleType
  <2> HIDE DEF r
  <2> QED
    BY <1>2, <2>1, <2>3
<1> QED
  BY <1>3, <1>4, <1>5, <1>6, <1>7, <1>8, <1>9
  DEF Next, vars, Advance, Return, Reply, Create, ToggleHide, Subscribe, Unsubscribe, CommitSubmit,
      CommitUpsert, Abandon

\* The counters and the alerts keep their types.
LEMMA NumberTypes ==
    ASSUME Bounds, TypeOK, [Next]_vars
    PROVE  /\ reopened' \in 0..MaxReopened /\ refunds' \in [n : 0..MaxRefunds, amount : Nat, units : Nat]
           /\ shelf' \in Nat /\ alert' \in [Waiting -> {"none", "armed", "told"}]
           /\ armed' \in [Waiting -> 0..MaxArmed] /\ mails' \in [Waiting -> Nat] /\ lost' \in 0..MaxLost
<1> DEFINE Ok == /\ reopened' \in 0..MaxReopened /\ refunds' \in [n : 0..MaxRefunds, amount : Nat, units : Nat]
                 /\ shelf' \in Nat /\ alert' \in [Waiting -> {"none", "armed", "told"}]
                 /\ armed' \in [Waiting -> 0..MaxArmed] /\ mails' \in [Waiting -> Nat] /\ lost' \in 0..MaxLost
<1>0. /\ reopened \in 0..MaxReopened /\ refunds \in [n : 0..MaxRefunds, amount : Nat, units : Nat]
      /\ shelf \in Nat /\ alert \in [Waiting -> {"none", "armed", "told"}]
      /\ armed \in [Waiting -> 0..MaxArmed] /\ mails \in [Waiting -> Nat] /\ lost \in 0..MaxLost
      /\ \A s \in Slots : req[s].u \in Waiting \cup {NoOne}
  BY DEF TypeOK
<1>1. ASSUME UNCHANGED <<reopened, refunds, shelf, alert, armed, mails, lost>> PROVE Ok
  BY <1>0, <1>1
<1>2. ASSUME Return PROVE Ok
  BY <1>0, <1>2 DEF Return, Bounds, complaints, alerts
<1>3. ASSUME NEW c \in Complaints, NEW st \in Active \cup Closed, Reply(c, st) PROVE Ok
  BY <1>0, <1>3 DEF Reply, Bounds, alerts
<1>4. ASSUME NEW amount \in 1..Total, NEW units \in 0..Quantity, NEW c, Create(amount, units, c) PROVE Ok
  <2>1. /\ amount \in Nat /\ units \in Nat /\ refunds.n + 1 \in 0..MaxRefunds
        /\ refunds.amount + amount \in Nat /\ refunds.units + units \in Nat /\ shelf + units \in Nat
    BY <1>0, <1>4 DEF Create, Refunded, Bounds
  <2>2. UNCHANGED <<reopened, alert, armed, mails, lost>>
    BY <1>4 DEF Create, alerts
  <2> QED
    BY <1>0, <1>4, <2>1, <2>2 DEF Create, Refunded
<1>5. ASSUME NEW u \in Waiting, Subscribe(u) \/ Unsubscribe(u) PROVE Ok
  BY <1>0, <1>5 DEF Subscribe, Unsubscribe, Bounds, complaints
<1>6. ASSUME NEW s \in Slots, NEW u \in Waiting, SendAlert(s, u) PROVE Ok
  BY <1>0, <1>6 DEF SendAlert, complaints
<1>7. ASSUME NEW s \in Slots, MarkAlert(s) PROVE Ok
  <2>1. lost' \in 0..MaxLost
    BY <1>0, <1>7 DEF MarkAlert, Bounds
  <2>2. alert' \in [Waiting -> {"none", "armed", "told"}]
    BY <1>0, <1>7 DEF MarkAlert
  <2>3. UNCHANGED <<reopened, refunds, shelf, armed, mails>>
    BY <1>7 DEF MarkAlert, complaints
  <2> QED
    BY <1>0, <2>1, <2>2, <2>3
<1>8. ASSUME NEW s \in Slots, Abandon(s) PROVE Ok
  <2>1. lost' \in 0..MaxLost
    BY <1>0, <1>8 DEF Abandon, Bounds
  <2>2. UNCHANGED <<reopened, refunds, shelf, alert, armed, mails>>
    BY <1>8 DEF Abandon, complaints, alerts
  <2> QED
    BY <1>0, <2>1, <2>2
<1>9. UNCHANGED vars => UNCHANGED <<reopened, refunds, shelf, alert, armed, mails, lost>>
  BY DEF vars, complaints, alerts
<1>10. ASSUME NEW s \in Slots,
              CommitSubmit(s) \/ BeginUpsert(s) \/ TriggerRestockNotif(s)
              \/ \E rating \in Ratings : CommitUpsert(s, rating)
       PROVE  Ok
  BY <1>1, <1>10 DEF CommitSubmit, BeginUpsert, TriggerRestockNotif, CommitUpsert, complaints, alerts
<1>13. ASSUME NEW s \in Slots, NEW c \in Complaints, BeginSubmit(s, c) PROVE Ok
  <2>1. lost' \in 0..MaxLost
    BY <1>0, <1>13 DEF BeginSubmit, Bounds
  <2>2. UNCHANGED <<reopened, refunds, shelf, alert, armed, mails>>
    BY <1>13 DEF BeginSubmit, complaints, alerts
  <2> QED
    BY <1>0, <2>1, <2>2
<1>11. ASSUME (\E b \in BOOLEAN : ToggleHide(b)) \/ Advance("shipped", "delivered")
              \/ Advance("shipped", "completed") \/ Advance("delivered", "completed")
       PROVE  Ok
  BY <1>1, <1>11 DEF ToggleHide, Advance, complaints, alerts
<1> HIDE DEF Ok
<1>12. Ok
  BY <1>1, <1>2, <1>3, <1>4, <1>5, <1>6, <1>7, <1>8, <1>9, <1>10, <1>11, <1>13 DEF Next
<1> QED
  BY <1>12 DEF Ok

\* Every step keeps every type.
LEMMA NextTypes ==
    ASSUME Names, Bounds, TypeOK, IInv, IInv', [Next]_vars
    PROVE  TypeOK'
<1> DEFINE Flags == /\ status \in {"shipped", "delivered", "completed", "cancelled"} /\ received \in BOOLEAN
                    /\ hide \in BOOLEAN /\ raced \in BOOLEAN
<1>1. Flags'
  <2>1. Flags
    BY DEF TypeOK
  <2>2. ASSUME UNCHANGED <<order, hide, raced>> PROVE Flags'
    BY <2>1, <2>2 DEF order
  <2>3. ASSUME NEW from, NEW to \in {"delivered", "completed"}, Advance(from, to) PROVE Flags'
    BY <2>1, <2>3 DEF Advance, reviews
  <2>4. ASSUME Return PROVE Flags'
    BY <2>1, <2>4 DEF Return, reviews
  <2>5. ASSUME NEW b \in BOOLEAN, ToggleHide(b) PROVE Flags'
    BY <2>1, <2>5 DEF ToggleHide, order
  <2>6. ASSUME NEW c \in Complaints,
               (\E st \in Active \cup Closed : Reply(c, st)) \/ \E s \in Slots : BeginSubmit(s, c)
        PROVE  UNCHANGED <<order, hide, raced>>
    BY <2>6 DEF Reply, BeginSubmit, reviews
  <2>7. ASSUME NEW amount, NEW units, NEW c, Create(amount, units, c) PROVE UNCHANGED <<order, hide, raced>>
    BY <2>7 DEF Create, reviews
  <2>8. ASSUME NEW u, Subscribe(u) \/ Unsubscribe(u) \/ \E s \in Slots : SendAlert(s, u)
        PROVE  UNCHANGED <<order, hide, raced>>
    BY <2>8 DEF Subscribe, Unsubscribe, SendAlert, reviews
  <2>9. ASSUME NEW s \in Slots,
               CommitSubmit(s) \/ BeginUpsert(s) \/ (\E rating \in Ratings : CommitUpsert(s, rating))
               \/ TriggerRestockNotif(s) \/ MarkAlert(s) \/ Abandon(s)
        PROVE  UNCHANGED <<order, hide, raced>>
    BY <2>9 DEF CommitSubmit, BeginUpsert, CommitUpsert, TriggerRestockNotif, MarkAlert, Abandon, reviews
  <2>10. UNCHANGED vars => UNCHANGED <<order, hide, raced>>
    BY DEF vars, reviews
  <2> HIDE DEF Flags
  <2> QED
    BY <2>2, <2>3, <2>4, <2>5, <2>6, <2>7, <2>8, <2>9, <2>10 DEF Next
<1>2. /\ complaint' \in [Complaints -> ComplaintRow] /\ review' \in Reviews
      /\ settled' \subseteq Complaints
  BY DEF IInv, Functions, ComplaintsOK, ComplaintRow
<1> QED
  BY <1>1, <1>2, RequestTypes, NumberTypes DEF TypeOK, Request, ComplaintRow

-----------------------------------------------------------------------------
(* Active complaints.  Those of the row and those on their way are at most *)
(* the slots, and one more for each that was opened again or whose count   *)
(* failed.                                                                 *)

ActiveIn(k) == {c \in Complaints : k[c].st \in Active}
Submitting(r) == {s \in Slots : r[s].op = "submit"}
ActiveOK(k, r, n) == Cardinality(ActiveIn(k)) + Cardinality(Submitting(r)) <= Cardinality(Slots) + n

\* The sets that are counted are finite.
LEMMA ActiveFinite ==
    ASSUME Bounds, NEW k, NEW r
    PROVE  /\ IsFiniteSet(ActiveIn(k)) /\ Cardinality(ActiveIn(k)) \in Nat
           /\ IsFiniteSet(Submitting(r)) /\ Cardinality(Submitting(r)) \in Nat
           /\ Cardinality(Submitting(r)) <= Cardinality(Slots) /\ Cardinality(Slots) \in Nat
<1>1. ActiveIn(k) \in SUBSET Complaints /\ Submitting(r) \in SUBSET Slots
  BY DEF ActiveIn, Submitting
<1> QED
  BY <1>1, FS_Subset, FS_CardinalityType DEF Bounds

\* Nothing is added to either set.
LEMMA ActiveFewer ==
    ASSUME Bounds, NEW k, NEW r, NEW n \in Nat, NEW k2, NEW r2, NEW n2 \in Nat, ActiveOK(k, r, n),
           ActiveIn(k2) \subseteq ActiveIn(k), Submitting(r2) \subseteq Submitting(r), n <= n2
    PROVE  ActiveOK(k2, r2, n2)
<1>1. /\ Cardinality(ActiveIn(k2)) <= Cardinality(ActiveIn(k))
      /\ Cardinality(Submitting(r2)) <= Cardinality(Submitting(r))
  BY ActiveFinite, FS_Subset
<1> QED
  BY <1>1, ActiveFinite DEF ActiveOK

\* A submission begins when no complaint is active: it counts from nothing.  When
\* the count fails, it is one more, and so is what was lost.
LEMMA SubmitCounts ==
    ASSUME Bounds, TypeOK, ActiveOK(complaint, req, reopened + lost),
           NEW s \in Slots, NEW c \in Complaints, BeginSubmit(s, c)
    PROVE  ActiveOK(complaint', req', reopened' + lost')
<1> DEFINE r == [Idle EXCEPT !.op = "submit", !.c = c]
<1>1. /\ ActiveIn(complaint') = ActiveIn(complaint) /\ UNCHANGED reopened
      /\ IF MaySubmit THEN UNCHANGED lost ELSE lost' = lost + 1
      /\ req[s] = Idle /\ req' = [req EXCEPT ![s] = r]
  BY DEF BeginSubmit, Take, ActiveIn, complaints
<1>2. reopened \in Nat /\ lost \in Nat /\ req \in [Slots -> Request]
  BY DEF TypeOK, Bounds, Request
<1>3. CASE MaySubmit
  <2>1. ActiveIn(complaint') = {} /\ UNCHANGED lost
    BY <1>1, <1>3 DEF MaySubmit, ActiveOnes, ActiveIn
  <2>2. Cardinality(ActiveIn(complaint')) = 0
    BY <2>1, FS_EmptySet
  <2>3. reopened' + lost' \in Nat
    BY <1>1, <1>2, <2>1
  <2>4. /\ Cardinality(Submitting(req')) <= Cardinality(Slots)
        /\ Cardinality(Submitting(req')) \in Nat /\ Cardinality(Slots) \in Nat
    BY ActiveFinite
  <2> QED
    BY <2>2, <2>3, <2>4 DEF ActiveOK
<1>4. CASE ~MaySubmit
  <2>1. r.op = "submit" /\ Idle.op # "submit"
    BY DEF Idle
  <2> HIDE DEF r
  <2>2. Submitting(req') = Submitting(req) \cup {s} /\ s \notin Submitting(req)
    BY <1>1, <1>2, <2>1 DEF Submitting
  <2>3. Cardinality(Submitting(req')) = Cardinality(Submitting(req)) + 1
    BY <2>2, ActiveFinite, FS_AddElement
  <2>4. lost' = lost + 1
    BY <1>1, <1>4
  <2> QED
    BY <1>1, <1>2, <2>3, <2>4, ActiveFinite DEF ActiveOK
<1> QED
  BY <1>3, <1>4

\* A submission becomes a complaint.
LEMMA CommitSubmitCounts ==
    ASSUME Bounds, Names, TypeOK, IInv, ActiveOK(complaint, req, reopened + lost), NEW s \in Slots, CommitSubmit(s)
    PROVE  ActiveOK(complaint', req', reopened' + lost')
<1> DEFINE c == req[s].c
<1>1. /\ req[s].op = "submit" /\ UNCHANGED <<reopened, lost>>
      /\ complaint' = [complaint EXCEPT ![c].st = "open"]
      /\ req' = [req EXCEPT ![s] = Idle]
  BY DEF CommitSubmit, Done
<1>2. c \in Complaints /\ complaint[c].st = "none"
  BY <1>1 DEF IInv, ComplaintsOK
<1>3. reopened \in Nat /\ lost \in Nat /\ complaint \in [Complaints -> ComplaintRow] /\ req \in [Slots -> Request]
  BY DEF TypeOK, Bounds, ComplaintRow, Request
<1> HIDE DEF c
<1>4. ActiveIn(complaint') = ActiveIn(complaint) \cup {c} /\ c \notin ActiveIn(complaint)
  BY <1>1, <1>2, <1>3 DEF ActiveIn, Active, ComplaintRow
<1>5. Submitting(req') = Submitting(req) \ {s} /\ s \in Submitting(req)
  BY <1>1, <1>3 DEF Submitting, Idle
<1>6. Cardinality(ActiveIn(complaint')) = Cardinality(ActiveIn(complaint)) + 1
  BY <1>4, ActiveFinite, FS_AddElement
<1>7. Cardinality(Submitting(req')) = Cardinality(Submitting(req)) - 1
  BY <1>5, ActiveFinite, FS_RemoveElement
<1> QED
  BY <1>1, <1>3, <1>6, <1>7, ActiveFinite DEF ActiveOK

\* A reply that opens a closed complaint again is counted.
LEMMA ReplyCounts ==
    ASSUME Bounds, TypeOK, ActiveOK(complaint, req, reopened + lost),
           NEW c \in Complaints, NEW st \in Active \cup Closed, Reply(c, st)
    PROVE  ActiveOK(complaint', req', reopened' + lost')
<1>1. /\ complaint[c].st # "none" /\ UNCHANGED <<req, lost>>
      /\ complaint' = [complaint EXCEPT ![c] = [st |-> st, dated |-> @.dated \/ st \in Closed]]
      /\ IF complaint[c].st \in Closed /\ st \in Active THEN reopened' = reopened + 1 ELSE UNCHANGED reopened
  BY DEF Reply
<1>2. reopened \in Nat /\ lost \in Nat /\ complaint \in [Complaints -> ComplaintRow]
  BY DEF TypeOK, Bounds, ComplaintRow
<1>3. complaint[c].st \in Active \cup Closed
  BY <1>1, <1>2 DEF ComplaintRow
<1>4. complaint'[c].st = st /\ \A d \in Complaints \ {c} : complaint'[d] = complaint[d]
  BY <1>1, <1>2
<1>5. CASE complaint[c].st \in Active \/ st \notin Active
  <2>1. ActiveIn(complaint') \subseteq ActiveIn(complaint)
    BY <1>4, <1>5 DEF ActiveIn
  <2>2. reopened + lost \in Nat /\ reopened' + lost' \in Nat /\ reopened + lost <= reopened' + lost'
    BY <1>1, <1>2
  <2>3. Submitting(req') \subseteq Submitting(req)
    BY <1>1
  <2> QED
    BY <1>2, <2>1, <2>2, <2>3, ActiveFewer
<1>6. CASE complaint[c].st \notin Active /\ st \in Active
  <2>1. ActiveIn(complaint') = ActiveIn(complaint) \cup {c} /\ c \notin ActiveIn(complaint)
    BY <1>4, <1>6 DEF ActiveIn
  <2>2. Cardinality(ActiveIn(complaint')) = Cardinality(ActiveIn(complaint)) + 1
    BY <2>1, ActiveFinite, FS_AddElement
  <2>3. reopened' = reopened + 1
    BY <1>1, <1>3, <1>6
  <2> QED
    BY <1>1, <1>2, <2>2, <2>3, ActiveFinite DEF ActiveOK
<1> QED
  BY <1>5, <1>6

\* No step makes more active complaints than there were submissions at once and reopenings.
LEMMA ActiveNext ==
    ASSUME Names, Bounds, TypeOK, IInv, ActiveOK(complaint, req, reopened + lost), [Next]_vars
    PROVE  ActiveOK(complaint', req', reopened' + lost')
<1>0. /\ reopened \in Nat /\ lost \in Nat /\ complaint \in [Complaints -> ComplaintRow]
      /\ req \in [Slots -> Request]
  BY DEF TypeOK, Bounds, ComplaintRow, Request
<1>1. ASSUME UNCHANGED reopened, lost' \in {lost, lost + 1}, ActiveIn(complaint') \subseteq ActiveIn(complaint),
             Submitting(req') \subseteq Submitting(req)
      PROVE  ActiveOK(complaint', req', reopened' + lost')
  <2>1. reopened \in Nat /\ lost \in Nat /\ reopened' = reopened
    BY <1>0, <1>1
  <2>2. lost' \in Nat /\ lost <= lost'
    BY <1>1, <2>1
  <2>4. \A a, b, c \in Nat : b <= c => a + b \in Nat /\ a + c \in Nat /\ a + b <= a + c
    OBVIOUS
  <2>3. reopened + lost \in Nat /\ reopened' + lost' \in Nat /\ reopened + lost <= reopened' + lost'
    BY <2>1, <2>2, <2>4
  <2> QED
    BY <1>1, <2>3, ActiveFewer
<1>2. ASSUME UNCHANGED complaints, lost' \in {lost, lost + 1}, NEW s \in Slots, NEW r, req' = [req EXCEPT ![s] = r],
             r.op # "submit" \/ req[s].op = "submit"
      PROVE  ActiveOK(complaint', req', reopened' + lost')
  <2>1. Submitting(req') \subseteq Submitting(req)
    BY <1>0, <1>2 DEF Submitting
  <2> QED
    BY <1>1, <1>2, <2>1 DEF complaints
<1>3. CASE UNCHANGED <<complaints, lost, req>>
  BY <1>1, <1>3 DEF complaints
<1>4. ASSUME NEW amount, NEW units, NEW c, Create(amount, units, c)
      PROVE  ActiveOK(complaint', req', reopened' + lost')
  <2>1. ActiveIn(complaint') \subseteq ActiveIn(complaint)
    BY <1>4 DEF Create, ActiveIn, Active
  <2> QED
    BY <1>1, <1>4, <2>1 DEF Create
<1>5. ASSUME NEW s \in Slots, TriggerRestockNotif(s) \/ BeginUpsert(s) PROVE ActiveOK(complaint', req', reopened' + lost')
  <2>1. /\ [Idle EXCEPT !.op = "notify", !.whom = Unnotified].op # "submit"
        /\ [Idle EXCEPT !.op = "review", !.row = review].op # "submit"
    BY DEF Idle
  <2> QED
    BY <1>2, <1>5, <2>1 DEF TriggerRestockNotif, BeginUpsert, Take
<1>6. ASSUME NEW s \in Slots, (\E rating \in Ratings : CommitUpsert(s, rating)) \/ Abandon(s)
      PROVE  ActiveOK(complaint', req', reopened' + lost')
  BY <1>2, <1>6 DEF CommitUpsert, Abandon, Done, Idle
<1>7. ASSUME NEW s \in Slots, NEW u, SendAlert(s, u) PROVE ActiveOK(complaint', req', reopened' + lost')
  <2>1. [req[s] EXCEPT !.u = u].op = req[s].op
    BY <1>0 DEF Request
  <2>2. Submitting(req') \subseteq Submitting(req)
    BY <1>0, <1>7, <2>1 DEF SendAlert, Submitting
  <2> QED
    BY <1>1, <1>7, <2>2 DEF SendAlert, complaints
<1>8. ASSUME NEW s \in Slots, MarkAlert(s) PROVE ActiveOK(complaint', req', reopened' + lost')
  <2> DEFINE more == [req[s] EXCEPT !.whom = req[s].whom \ {req[s].u}, !.u = NoOne]
             r == IF req[s].whom \ {req[s].u} = {} THEN Idle ELSE more
  <2>1. req' = [req EXCEPT ![s] = r] /\ UNCHANGED complaints
    BY <1>8 DEF MarkAlert
  <2>3. lost' \in {lost, lost + 1}
    BY <1>8 DEF MarkAlert
  <2>2. r.op # "submit" \/ req[s].op = "submit"
    BY DEF Idle
  <2> HIDE DEF r
  <2> QED
    BY <1>2, <2>1, <2>2, <2>3
<1>9. UNCHANGED vars => UNCHANGED <<complaints, lost, req>>
  BY DEF vars
<1>10. ASSUME NEW u, Subscribe(u) \/ Unsubscribe(u) PROVE UNCHANGED <<complaints, lost, req>>
  BY <1>10 DEF Subscribe, Unsubscribe
<1>11. ASSUME NEW from, NEW to, Advance(from, to) PROVE UNCHANGED <<complaints, lost, req>>
  BY <1>11 DEF Advance
<1>12. ASSUME Return \/ \E b \in BOOLEAN : ToggleHide(b) PROVE UNCHANGED <<complaints, lost, req>>
  BY <1>12 DEF Return, ToggleHide
<1> QED
  BY <1>3, <1>4, <1>5, <1>6, <1>7, <1>8, <1>9, <1>10, <1>11, <1>12,
     SubmitCounts, CommitSubmitCounts, ReplyCounts DEF Next

-----------------------------------------------------------------------------
(* Mails.  A job owes a customer a mail, or has sent it and is still to    *)
(* mark the alert.  An alert that is armed leaves room for one mail from   *)
(* every slot that does not hold one sent.                                 *)

Due(r, u) == {s \in Slots : r[s].op = "notify" /\ u \in r[s].whom /\ r[s].u # u}
Sent(r, u) == {s \in Slots : r[s].u = u}
MailOK(m, r, al, n, l, u) ==
    /\ m + Cardinality(Due(r, u)) <= n * Cardinality(Slots) + l
    /\ al = "armed" => m + Cardinality(Slots) <= Cardinality(Sent(r, u)) + n * Cardinality(Slots) + l
MailInv ==
    /\ \A s \in Slots : req[s].u # NoOne => req[s].op = "notify"
    /\ \A u \in Waiting : MailOK(mails[u], req, alert[u], armed[u], lost, u)

\* The jobs that owe or have sent a mail are finitely many.
LEMMA MailFinite ==
    ASSUME Bounds, NEW r, NEW u
    PROVE  /\ IsFiniteSet(Due(r, u)) /\ Cardinality(Due(r, u)) \in Nat
           /\ IsFiniteSet(Sent(r, u)) /\ Cardinality(Sent(r, u)) \in Nat
           /\ Cardinality(Slots) \in Nat
<1>1. Due(r, u) \in SUBSET Slots /\ Sent(r, u) \in SUBSET Slots
  BY DEF Due, Sent
<1> QED
  BY <1>1, FS_Subset, FS_CardinalityType DEF Bounds

\* Who is owed and who has sent are different slots.
LEMMA DueOrSent ==
    ASSUME Bounds, NEW r, NEW u
    PROVE  Cardinality(Due(r, u)) + Cardinality(Sent(r, u)) <= Cardinality(Slots)
<1> DEFINE D == Due(r, u)
           S == Sent(r, u)
<1>1. IsFiniteSet(D) /\ IsFiniteSet(S) /\ Cardinality(D) \in Nat /\ Cardinality(S) \in Nat
  BY MailFinite
<1>2. D \cap S = {} /\ D \cup S \in SUBSET Slots
  BY DEF Due, Sent
<1> HIDE DEF D, S
<1>3. Cardinality(D \cup S) = Cardinality(D) + Cardinality(S) - Cardinality(D \cap S)
  BY <1>1, FS_Union
<1>4. Cardinality(D \cup S) <= Cardinality(Slots)
  BY <1>2, FS_Subset DEF Bounds
<1>5. Cardinality(D) + Cardinality(S) <= Cardinality(Slots)
  BY <1>1, <1>2, <1>3, <1>4, FS_EmptySet
<1> QED
  BY <1>5 DEF D, S

\* Fewer are owed, as many have sent.
LEMMA MailFewer ==
    ASSUME Bounds, NEW r, NEW r2, NEW u, NEW m \in Nat, NEW n \in Nat, NEW l \in Nat, NEW al, NEW al2,
           MailOK(m, r, al, n, l, u), Due(r2, u) \subseteq Due(r, u), Sent(r, u) \subseteq Sent(r2, u),
           al2 = "armed" => al = "armed"
    PROVE  MailOK(m, r2, al2, n, l, u)
<1>1. /\ Cardinality(Due(r2, u)) <= Cardinality(Due(r, u))
      /\ Cardinality(Sent(r, u)) <= Cardinality(Sent(r2, u))
  BY MailFinite, FS_Subset
<1>2. n * Cardinality(Slots) \in Nat
  BY MailFinite
<1> QED
  BY <1>1, <1>2, MailFinite DEF MailOK

\* A customer subscribes: room for one more mail from every slot.
LEMMA SubscribeMails ==
    ASSUME Bounds, NEW r, NEW u, NEW m \in Nat, NEW n \in Nat, NEW l \in Nat, NEW al,
           MailOK(m, r, al, n, l, u)
    PROVE  \A al2 : MailOK(m, r, al2, n + 1, l, u)
<1>1. Cardinality(Slots) \in Nat
  BY MailFinite
<1>2. \A k \in Nat : n * k \in Nat /\ (n + 1) * k = n * k + k
  OBVIOUS
<1>3. /\ n * Cardinality(Slots) \in Nat
      /\ (n + 1) * Cardinality(Slots) = n * Cardinality(Slots) + Cardinality(Slots)
  BY <1>1, <1>2
<1>4. Cardinality(Due(r, u)) \in Nat /\ Cardinality(Sent(r, u)) \in Nat
  BY MailFinite
<1> QED
  BY <1>1, <1>3, <1>4 DEF MailOK

\* A job starts: it owes a mail to each whose alert is armed.
LEMMA TriggerMails ==
    ASSUME Bounds, NEW r, NEW r2, NEW u, NEW m \in Nat, NEW n \in Nat, NEW l \in Nat, NEW al,
           MailOK(m, r, al, n, l, u), al = "armed" \/ Due(r2, u) = Due(r, u), Sent(r2, u) = Sent(r, u)
    PROVE  MailOK(m, r2, al, n, l, u)
<1>1. n * Cardinality(Slots) \in Nat
  BY MailFinite
<1>2. Cardinality(Due(r2, u)) + Cardinality(Sent(r, u)) <= Cardinality(Slots)
  BY DueOrSent
<1> QED
  BY <1>1, <1>2, MailFinite DEF MailOK

\* A mail that was owed is sent.
LEMMA SendMails ==
    ASSUME Bounds, NEW r, NEW r2, NEW u, NEW m \in Nat, NEW n \in Nat, NEW l \in Nat, NEW al,
           MailOK(m, r, al, n, l, u), NEW s, s \in Due(r, u), s \notin Sent(r, u),
           Due(r2, u) = Due(r, u) \ {s}, Sent(r2, u) = Sent(r, u) \cup {s}
    PROVE  MailOK(m + 1, r2, al, n, l, u)
<1>1. n * Cardinality(Slots) \in Nat
  BY MailFinite
<1>2. /\ Cardinality(Due(r2, u)) = Cardinality(Due(r, u)) - 1
      /\ Cardinality(Sent(r2, u)) = Cardinality(Sent(r, u)) + 1
  <2>1. IsFiniteSet(Due(r, u)) /\ IsFiniteSet(Sent(r, u))
    BY MailFinite
  <2>2. Cardinality(Due(r, u) \ {s}) = Cardinality(Due(r, u)) - 1
    BY <2>1, FS_RemoveElement
  <2>3. Cardinality(Sent(r, u) \cup {s}) = Cardinality(Sent(r, u)) + 1
    BY <2>1, FS_AddElement
  <2> QED
    BY <2>2, <2>3
<1> QED
  BY <1>1, <1>2, MailFinite DEF MailOK

\* A job stops before the mark: that is one lost.
LEMMA AbandonMails ==
    ASSUME Bounds, NEW r, NEW r2, NEW u, NEW m \in Nat, NEW n \in Nat, NEW l \in Nat, NEW al,
           MailOK(m, r, al, n, l, u), NEW s,
           Due(r2, u) \subseteq Due(r, u), Sent(r, u) \subseteq Sent(r2, u) \cup {s}
    PROVE  MailOK(m, r2, al, n, l + 1, u)
<1>1. n * Cardinality(Slots) \in Nat
  BY MailFinite
<1>2. Cardinality(Due(r2, u)) <= Cardinality(Due(r, u))
  BY MailFinite, FS_Subset
<1>3. Cardinality(Sent(r, u)) <= Cardinality(Sent(r2, u)) + 1
  <2>0. IsFiniteSet(Sent(r2, u)) /\ Cardinality(Sent(r2, u)) \in Nat
    BY MailFinite
  <2>1. /\ IsFiniteSet(Sent(r2, u) \cup {s})
        /\ Cardinality(Sent(r2, u) \cup {s}) <= Cardinality(Sent(r2, u)) + 1
    BY <2>0, FS_AddElement
  <2>2. Cardinality(Sent(r, u)) <= Cardinality(Sent(r2, u) \cup {s})
    BY <2>1, FS_Subset
  <2>3. Cardinality(Sent(r2, u) \cup {s}) \in Nat
    BY <2>1, FS_CardinalityType
  <2> QED
    BY <2>1, <2>2, <2>3, MailFinite
<1> QED
  BY <1>1, <1>2, <1>3, MailFinite DEF MailOK

\* No step sends more mails than alerts, jobs and losses account for.
LEMMA MailNext ==
    ASSUME Bounds, TypeOK, IInv, MailInv, [Next]_vars
    PROVE  MailInv'
<1>0. /\ req \in [Slots -> Request] /\ alert \in [Waiting -> {"none", "armed", "told"}] /\ lost \in Nat
      /\ armed \in [Waiting -> Nat] /\ mails \in [Waiting -> Nat]
  BY DEF TypeOK, Request, Bounds
<1>1. \A u \in Waiting : MailOK(mails[u], req, alert[u], armed[u], lost, u)
  BY DEF MailInv
<1>2. \A s \in Slots : req[s].u # NoOne => req[s].op = "notify"
  BY DEF MailInv
<1>3. Idle.op = "idle" /\ Idle.u = NoOne
  BY DEF Idle
\* The mails stay, and a slot that neither owes nor has sent one changes into another.
<1>4. ASSUME UNCHANGED <<alerts, lost>>, NEW s \in Slots, NEW r, req' = [req EXCEPT ![s] = r],
             r.u = NoOne, r.op # "notify", req[s].u = NoOne
      PROVE  MailInv'
  <2>1. \A t \in Slots : req'[t] = IF t = s THEN r ELSE req[t]
    BY <1>0, <1>4
  <2>2. ASSUME NEW u \in Waiting PROVE MailOK(mails'[u], req', alert'[u], armed'[u], lost', u)
    <3>1. u # NoOne
      BY DEF Bounds
    <3>2. Due(req', u) \subseteq Due(req, u) /\ Sent(req, u) \subseteq Sent(req', u)
      BY <1>4, <2>1, <3>1 DEF Due, Sent
    <3>3. mails[u] \in Nat /\ armed[u] \in Nat
      BY <1>0
    <3> QED
      BY <1>0, <1>1, <1>4, <3>2, <3>3, MailFewer DEF alerts
  <2> QED
    BY <1>2, <1>4, <2>1, <2>2 DEF MailInv
<1>5. ASSUME UNCHANGED <<alerts, lost, req>> PROVE MailInv'
  BY <1>1, <1>2, <1>5 DEF MailInv, alerts
<1>6. ASSUME NEW u \in Waiting, Subscribe(u) PROVE MailInv'
  <2>1. /\ armed' = [armed EXCEPT ![u] = @ + 1] /\ alert' = [alert EXCEPT ![u] = "armed"]
        /\ UNCHANGED <<mails, lost, req>>
    BY <1>6 DEF Subscribe
  <2>2. ASSUME NEW v \in Waiting PROVE MailOK(mails'[v], req', alert'[v], armed'[v], lost', v)
    <3>1. mails[v] \in Nat /\ armed[v] \in Nat
      BY <1>0
    <3>2. CASE v = u
      <4>1. armed'[v] = armed[v] + 1
        BY <1>0, <2>1, <3>2
      <4>2. \A al2 : MailOK(mails[v], req, al2, armed[v] + 1, lost, v)
        BY <1>0, <1>1, <3>1, SubscribeMails
      <4> QED
        BY <2>1, <4>1, <4>2
    <3>3. CASE v # u
      BY <1>0, <1>1, <2>1, <3>3
    <3> QED
      BY <3>2, <3>3
  <2> QED
    BY <1>2, <2>1, <2>2 DEF MailInv
<1>7. ASSUME NEW u \in Waiting, Unsubscribe(u) PROVE MailInv'
  <2>1. alert' = [alert EXCEPT ![u] = "none"] /\ UNCHANGED <<armed, mails, lost, req>>
    BY <1>7 DEF Unsubscribe
  <2>2. ASSUME NEW v \in Waiting PROVE MailOK(mails'[v], req', alert'[v], armed'[v], lost', v)
    <3>1. alert'[v] = "armed" => alert[v] = "armed"
      BY <1>0, <2>1
    <3> QED
      BY <1>1, <2>1, <3>1 DEF MailOK
  <2> QED
    BY <1>2, <2>1, <2>2 DEF MailInv
<1>8. ASSUME NEW s \in Slots, TriggerRestockNotif(s) PROVE MailInv'
  <2> DEFINE r == [Idle EXCEPT !.op = "notify", !.whom = Unnotified]
  <2>1. req[s] = Idle /\ req' = [req EXCEPT ![s] = r] /\ UNCHANGED <<alert, armed, mails, lost>>
    BY <1>8 DEF TriggerRestockNotif, Take, alerts
  <2>2. r.op = "notify" /\ r.whom = Unnotified /\ r.u = NoOne
    BY DEF Idle
  <2> HIDE DEF r
  <2>3. \A t \in Slots : req'[t] = IF t = s THEN r ELSE req[t]
    BY <1>0, <2>1
  <2>4. ASSUME NEW u \in Waiting PROVE MailOK(mails'[u], req', alert'[u], armed'[u], lost', u)
    <3>1. u # NoOne /\ mails[u] \in Nat /\ armed[u] \in Nat
      BY <1>0 DEF Bounds
    <3>2. Sent(req', u) = Sent(req, u)
      BY <1>3, <2>1, <2>2, <2>3, <3>1 DEF Sent
    <3>3. alert[u] = "armed" \/ Due(req', u) = Due(req, u)
      BY <1>3, <2>1, <2>2, <2>3 DEF Due, Unnotified
    <3> QED
      BY <1>0, <1>1, <2>1, <3>1, <3>2, <3>3, TriggerMails
  <2> QED
    BY <1>2, <2>2, <2>3, <2>4 DEF MailInv
<1>9. ASSUME NEW s \in Slots, NEW u \in Waiting, SendAlert(s, u) PROVE MailInv'
  <2> DEFINE r == [req[s] EXCEPT !.u = u]
  <2>1. /\ req[s].op = "notify" /\ req[s].u = NoOne /\ u \in req[s].whom
        /\ mails' = [mails EXCEPT ![u] = @ + 1] /\ req' = [req EXCEPT ![s] = r]
        /\ UNCHANGED <<alert, armed, lost>>
    BY <1>9 DEF SendAlert
  <2>2. r.op = "notify" /\ r.whom = req[s].whom /\ r.u = u
    BY <1>0, <2>1 DEF Request
  <2> HIDE DEF r
  <2>3. \A t \in Slots : req'[t] = IF t = s THEN r ELSE req[t]
    BY <1>0, <2>1
  <2>4. ASSUME NEW v \in Waiting PROVE MailOK(mails'[v], req', alert'[v], armed'[v], lost', v)
    <3>1. v # NoOne /\ u # NoOne /\ mails[v] \in Nat /\ armed[v] \in Nat
      BY <1>0 DEF Bounds
    <3>2. CASE v = u
      <4>1. s \in Due(req, v) /\ s \notin Sent(req, v)
        BY <2>1, <3>1, <3>2 DEF Due, Sent
      <4>2. Due(req', v) = Due(req, v) \ {s}
        BY <2>2, <2>3, <3>2 DEF Due
      <4>3. Sent(req', v) = Sent(req, v) \cup {s}
        BY <2>2, <2>3, <3>2 DEF Sent
      <4>4. mails'[v] = mails[v] + 1
        BY <1>0, <2>1, <3>2
      <4>5. MailOK(mails[v] + 1, req', alert[v], armed[v], lost, v)
        BY <1>0, <1>1, <3>1, <4>1, <4>2, <4>3, SendMails
      <4> QED
        BY <2>1, <4>4, <4>5
    <3>3. CASE v # u
      <4>1. Due(req', v) \subseteq Due(req, v)
        BY <2>1, <2>2, <2>3, <3>1 DEF Due
      <4>2. Sent(req, v) \subseteq Sent(req', v)
        BY <2>1, <2>3, <3>1 DEF Sent
      <4>3. mails'[v] = mails[v]
        BY <1>0, <2>1, <3>3
      <4> QED
        BY <1>0, <1>1, <2>1, <3>1, <4>1, <4>2, <4>3, MailFewer
    <3> QED
      BY <3>2, <3>3
  <2> QED
    BY <1>2, <2>2, <2>3, <2>4 DEF MailInv
<1>10. ASSUME NEW s \in Slots, MarkAlert(s), UNCHANGED lost PROVE MailInv'
  <2> DEFINE u == req[s].u
             rest == req[s].whom \ {u}
             more == [req[s] EXCEPT !.whom = rest, !.u = NoOne]
             r == IF rest = {} THEN Idle ELSE more
  <2>1. /\ u # NoOne /\ alert' = [alert EXCEPT ![u] = IF @ = "none" THEN "none" ELSE "told"]
        /\ req' = [req EXCEPT ![s] = r] /\ UNCHANGED <<armed, mails, lost>>
    BY <1>0, <1>10 DEF MarkAlert
  <2>2. u \in Waiting /\ req[s].op = "notify"
    BY <1>0, <1>2, <2>1 DEF Request
  <2>3. r.u = NoOne /\ (r.op = "notify" => r.whom = rest)
    <3>1. more.u = NoOne /\ more.whom = rest
      BY <1>0 DEF Request
    <3> QED
      BY <1>3, <3>1
  <2>4. rest \subseteq req[s].whom /\ u \notin rest
    OBVIOUS
  <2> HIDE DEF r, rest, u
  <2>5. \A t \in Slots : req'[t] = IF t = s THEN r ELSE req[t]
    BY <1>0, <2>1
  <2>6. ASSUME NEW v \in Waiting PROVE MailOK(mails'[v], req', alert'[v], armed'[v], lost', v)
    <3>1. v # NoOne /\ mails[v] \in Nat /\ armed[v] \in Nat
      BY <1>0 DEF Bounds
    <3>2. Due(req', v) \subseteq Due(req, v)
      BY <2>2, <2>3, <2>4, <2>5 DEF Due, u
    <3>3. CASE v = u
      <4>1. alert'[v] # "armed"
        BY <1>0, <2>1, <2>2, <3>3
      <4>2. Cardinality(Due(req', v)) <= Cardinality(Due(req, v))
        BY <3>2, MailFinite, FS_Subset
      <4>3. armed[v] * Cardinality(Slots) \in Nat
        BY <3>1, MailFinite
      <4> QED
        BY <1>0, <1>1, <2>1, <3>1, <4>1, <4>2, <4>3, MailFinite DEF MailOK
    <3>4. CASE v # u
      <4>1. Sent(req, v) \subseteq Sent(req', v)
        BY <2>5, <3>4 DEF Sent, u
      <4>2. alert'[v] = alert[v]
        BY <1>0, <2>1, <3>4
      <4> QED
        BY <1>0, <1>1, <2>1, <3>1, <3>2, <4>1, <4>2, MailFewer
    <3> QED
      BY <3>3, <3>4
  <2> QED
    BY <1>2, <2>3, <2>5, <2>6 DEF MailInv
\* A mark that failed leaves the mail as one lost.
<1>20. ASSUME NEW s \in Slots, MarkAlert(s), ~UNCHANGED lost PROVE MailInv'
  <2> DEFINE rest == req[s].whom \ {req[s].u}
             more == [req[s] EXCEPT !.whom = rest, !.u = NoOne]
             r == IF rest = {} THEN Idle ELSE more
  <2>1. req' = [req EXCEPT ![s] = r] /\ UNCHANGED alerts /\ lost' = lost + 1
    BY <1>20 DEF MarkAlert, alerts
  <2>2. r.u = NoOne /\ (r.op = "notify" => (req[s].op = "notify" /\ r.whom = rest))
    <3>1. more.u = NoOne /\ more.whom = rest /\ more.op = req[s].op
      BY <1>0 DEF Request
    <3> QED
      BY <1>3, <3>1
  <2>3. rest \subseteq req[s].whom /\ req[s].u \notin rest
    OBVIOUS
  <2> HIDE DEF r, rest
  <2>4. \A t \in Slots : req'[t] = IF t = s THEN r ELSE req[t]
    BY <1>0, <2>1
  <2>5. ASSUME NEW v \in Waiting PROVE MailOK(mails'[v], req', alert'[v], armed'[v], lost', v)
    <3>1. mails[v] \in Nat /\ armed[v] \in Nat
      BY <1>0
    <3>2. Due(req', v) \subseteq Due(req, v)
      BY <2>2, <2>3, <2>4 DEF Due
    <3>3. Sent(req, v) \subseteq Sent(req', v) \cup {s}
      BY <2>4 DEF Sent
    <3>4. MailOK(mails[v], req', alert[v], armed[v], lost + 1, v)
      BY <1>0, <1>1, <3>1, <3>2, <3>3, AbandonMails
    <3> QED
      BY <2>1, <3>4 DEF alerts
  <2> QED
    BY <1>2, <2>2, <2>4, <2>5 DEF MailInv
<1>11. ASSUME NEW s \in Slots, Abandon(s) PROVE MailInv'
  <2>1. /\ req' = [req EXCEPT ![s] = Idle] /\ UNCHANGED alerts
        /\ lost' = IF req[s].u # NoOne THEN lost + 1 ELSE lost
    BY <1>11 DEF Abandon, Done
  <2>2. \A t \in Slots : req'[t] = IF t = s THEN Idle ELSE req[t]
    BY <1>0, <2>1
  <2>3. CASE req[s].u = NoOne
    BY <1>3, <1>4, <2>1, <2>3
  <2>4. CASE req[s].u # NoOne
    <3>1. ASSUME NEW v \in Waiting PROVE MailOK(mails'[v], req', alert'[v], armed'[v], lost', v)
      <4>1. mails[v] \in Nat /\ armed[v] \in Nat
        BY <1>0
      <4>2. Due(req', v) \subseteq Due(req, v) /\ Sent(req, v) \subseteq Sent(req', v) \cup {s}
        BY <1>3, <2>2 DEF Due, Sent
      <4>3. MailOK(mails[v], req', alert[v], armed[v], lost + 1, v)
        BY <1>0, <1>1, <4>1, <4>2, AbandonMails
      <4> QED
        BY <2>1, <2>4, <4>3 DEF alerts
    <3> QED
      BY <1>2, <1>3, <2>2, <3>1 DEF MailInv
  <2> QED
    BY <2>3, <2>4
<1>12. ASSUME NEW s \in Slots, CommitSubmit(s) PROVE MailInv'
  BY <1>3, <1>4, <1>12 DEF CommitSubmit, Done, IInv, Functions
<1>13. ASSUME NEW s \in Slots, NEW rating, CommitUpsert(s, rating) PROVE MailInv'
  BY <1>3, <1>4, <1>13 DEF CommitUpsert, Done, IInv, Functions
<1>14. ASSUME NEW s \in Slots, NEW c \in Complaints, BeginSubmit(s, c) PROVE MailInv'
  <2> DEFINE r == [Idle EXCEPT !.op = "submit", !.c = c]
  <2>1. r.op = "submit" /\ r.u = NoOne
    BY DEF Idle
  <2>2. req[s].u = NoOne /\ req' = [req EXCEPT ![s] = r] /\ UNCHANGED alerts
    BY <1>3, <1>14 DEF BeginSubmit, Take
  <2>3. lost' \in {lost, lost + 1}
    BY <1>14 DEF BeginSubmit
  <2> HIDE DEF r
  <2>4. CASE UNCHANGED lost
    BY <1>4, <2>1, <2>2, <2>4
  <2>5. CASE lost' = lost + 1
    <3>1. \A t \in Slots : req'[t] = IF t = s THEN r ELSE req[t]
      BY <1>0, <2>2
    <3>2. ASSUME NEW v \in Waiting PROVE MailOK(mails'[v], req', alert'[v], armed'[v], lost', v)
      <4>1. mails[v] \in Nat /\ armed[v] \in Nat
        BY <1>0
      <4>2. Due(req', v) \subseteq Due(req, v) /\ Sent(req, v) \subseteq Sent(req', v) \cup {s}
        BY <2>1, <3>1 DEF Due, Sent
      <4>3. MailOK(mails[v], req', alert[v], armed[v], lost + 1, v)
        BY <1>0, <1>1, <4>1, <4>2, AbandonMails
      <4> QED
        BY <2>2, <2>5, <4>3 DEF alerts
    <3> QED
      BY <1>2, <2>1, <3>1, <3>2 DEF MailInv
  <2> QED
    BY <2>3, <2>4, <2>5
<1>15. ASSUME NEW s \in Slots, BeginUpsert(s) PROVE MailInv'
  <2> DEFINE r == [Idle EXCEPT !.op = "review", !.row = review]
  <2>1. r.op = "review" /\ r.u = NoOne
    BY DEF Idle
  <2>2. req[s].u = NoOne /\ req' = [req EXCEPT ![s] = r] /\ UNCHANGED <<alerts, lost>>
    BY <1>3, <1>15 DEF BeginUpsert, Take
  <2> HIDE DEF r
  <2> QED
    BY <1>4, <2>1, <2>2
<1>16. UNCHANGED vars => UNCHANGED <<alerts, lost, req>>
  BY DEF vars
<1>17. ASSUME NEW from, NEW to, Advance(from, to) PROVE UNCHANGED <<alerts, lost, req>>
  BY <1>17 DEF Advance
<1>18. ASSUME Return \/ (\E b \in BOOLEAN : ToggleHide(b)) PROVE UNCHANGED <<alerts, lost, req>>
  BY <1>18 DEF Return, ToggleHide
<1>19. ASSUME NEW c, (\E st \in Active \cup Closed : Reply(c, st))
                     \/ \E amount \in 1..Total, units \in 0..Quantity : Create(amount, units, c)
       PROVE  UNCHANGED <<alerts, lost, req>>
  BY <1>19 DEF Reply, Create
<1> QED
  BY <1>5, <1>6, <1>7, <1>8, <1>9, <1>10, <1>11, <1>12, <1>13, <1>14, <1>15, <1>16, <1>17, <1>18, <1>19,
     <1>20
  DEF Next

-----------------------------------------------------------------------------
(* The theorems.                                                           *)

CountInv == TypeOK /\ ActiveOK(complaint, req, reopened + lost) /\ MailInv

\* Nothing has been submitted or sent at first.
LEMMA InitCountInv == ASSUME Names, Bounds, Init PROVE CountInv
<1>1. TypeOK
  <2>1. NoReview \in Reviews /\ req \in [Slots -> Request]
    BY IdleType DEF Init, NoReview, Reviews
  <2>2. 0 \in 0..MaxReopened /\ 0 \in 0..MaxRefunds /\ 0 \in 0..MaxArmed /\ 0 \in 0..MaxLost /\ 0 \in Nat
    BY DEF Bounds
  <2>3. refunds \in [n : 0..MaxRefunds, amount : Nat, units : Nat]
    BY <2>2 DEF Init
  <2>4. complaint \in [Complaints -> [st : Active \cup Closed \cup {"none"}, dated : BOOLEAN]]
    BY DEF Init
  <2>5. /\ reopened \in 0..MaxReopened /\ shelf \in Nat /\ lost \in 0..MaxLost
        /\ armed \in [Waiting -> 0..MaxArmed] /\ mails \in [Waiting -> Nat]
        /\ alert \in [Waiting -> {"none", "armed", "told"}]
    BY <2>2 DEF Init
  <2>6. /\ status \in {"shipped", "delivered", "completed", "cancelled"} /\ received \in BOOLEAN
        /\ settled \subseteq Complaints /\ review \in Reviews /\ hide \in BOOLEAN /\ raced \in BOOLEAN
    BY <2>1 DEF Init
  <2> QED
    BY <2>1, <2>3, <2>4, <2>5, <2>6 DEF TypeOK, Request
<1>2. ActiveOK(complaint, req, reopened + lost)
  <2>1. ActiveIn(complaint) = {} /\ Submitting(req) = {}
    BY DEF Init, ActiveIn, Active, Submitting, Idle
  <2>2. reopened + lost = 0
    BY DEF Init
  <2> QED
    BY <2>1, <2>2, ActiveFinite, FS_EmptySet DEF ActiveOK
<1>3. MailInv
  <2>1. \A s \in Slots : req[s].u = NoOne /\ req[s].op = "idle"
    BY DEF Init, Idle
  <2>2. ASSUME NEW u \in Waiting PROVE MailOK(mails[u], req, alert[u], armed[u], lost, u)
    <3>1. Due(req, u) = {} /\ mails[u] = 0 /\ armed[u] = 0 /\ lost = 0 /\ alert[u] = "none"
      BY <2>1 DEF Due, Init
    <3>2. Cardinality(Slots) \in Nat /\ Cardinality(Due(req, u)) = 0
      BY <3>1, MailFinite, FS_EmptySet
    <3> QED
      BY <3>1, <3>2 DEF MailOK
  <2> QED
    BY <2>1, <2>2 DEF MailInv
<1> QED
  BY <1>1, <1>2, <1>3 DEF CountInv

\* The counts are kept along with the invariant they rest on.
LEMMA NextCountInv ==
    ASSUME Names, Bounds, IInv, CountInv, [Next]_vars
    PROVE  IInv' /\ CountInv'
<1>1. IInv'
  BY NextIInv
<1> QED
  BY <1>1, NextTypes, ActiveNext, MailNext DEF CountInv

\* What the counts say of a state.
LEMMA CountsBound == ASSUME Bounds, CountInv PROVE TypeOK /\ OneActiveBounded /\ AlertsBounded
<1>1. OneActiveBounded
  <2>1. ActiveOnes = ActiveIn(complaint) /\ reopened \in Nat /\ lost \in Nat
    BY DEF ActiveOnes, ActiveIn, CountInv, TypeOK, Bounds
  <2> QED
    BY <2>1, ActiveFinite DEF OneActiveBounded, CountInv, ActiveOK
<1>2. ASSUME NEW u \in Waiting PROVE mails[u] <= armed[u] * Cardinality(Slots) + lost
  <2>1. mails[u] \in Nat /\ armed[u] \in Nat /\ lost \in Nat
    BY DEF CountInv, TypeOK, Bounds
  <2>2. armed[u] * Cardinality(Slots) \in Nat
    BY <2>1, MailFinite
  <2> QED
    BY <2>1, <2>2, MailFinite DEF CountInv, MailInv, MailOK
<1> QED
  BY <1>1, <1>2 DEF AlertsBounded, CountInv

\* The counts hold in every state.
THEOREM AlwaysCounted == ASSUME Names, Bounds PROVE Spec => [](IInv /\ CountInv)
<1>1. Init => IInv /\ CountInv
  BY InitIInv, InitCountInv
<1>2. IInv /\ CountInv /\ [Next]_vars => (IInv /\ CountInv)'
  BY NextCountInv
<1> QED
  BY <1>1, <1>2, PTL DEF Spec

\* A customer has one active complaint an order, and one more for each
\* submission that overlapped, each complaint that was opened again and each
\* count that failed; a mail for each time an alert was set, and one more for each
\* job that overlapped, stopped before the mark or could not write it.
THEOREM DoublesStayBounded ==
    ASSUME Names, Bounds
    PROVE  Spec => [](TypeOK /\ OneActiveBounded /\ AlertsBounded)
<1>1. CountInv => TypeOK /\ OneActiveBounded /\ AlertsBounded
  BY CountsBound
<1> QED
  BY <1>1, AlwaysCounted, PTL
=============================================================================
