------------------------------ MODULE Invoices ------------------------------
(***************************************************************************)
(* Supplier invoices and the reminder that goes out at nine on the day one *)
(* is due.                                                                 *)
(*                                                                         *)
(* An invoice is a record only: it moves no stock.  An edit and a payment  *)
(* read the whole invoice, lines included, and save the whole header; what *)
(* one transaction does is one action.  A day is a number and has two      *)
(* parts, before nine and after it.                                        *)
(*                                                                         *)
(* A definition X_Y just above X is X with a bug Y this code could have; it *)
(* is used by no other, only to test the properties.                       *)
(***************************************************************************)
EXTENDS Integers, FiniteSets

CONSTANTS
    Invoices,
    Slots,         \* slots in which handlers run
    Terms,         \* days of credit, or NoTerms; 0 is cash on delivery
    Amounts,       \* totals, as the form gives them; no line is added up
    NoInvoice,
    LastDay,       \* bound: the calendar
    MaxSaves,      \* bound: invoices created and edits begun
    MaxRestarts    \* bound: times the process stops

NoDay == -1
NoTerms == -1
Days == 0..LastDay
Dates == Days \cup {NoDay}

VARIABLES
    invoices,   \* purchase_invoices: [st, date, due, status, paid_at, reminded, total]
    lines,      \* per invoice, the requests its purchase_invoice_items come from
    day, nine,  \* the calendar, and whether it is past nine
    up, next,   \* the process runs; the day its reminder loop sleeps to
    job,        \* the running reminder: what it has read, and how far it is
    told,       \* per invoice and day, reminders sent
    silent,     \* days on which nobody could be reminded
    late,       \* invoices whose due date was set too late for its reminder
    saves, restarts, req

books == <<invoices, lines>>
clock == <<day, nine>>
cron == <<up, next, job, told, silent>>
vars == <<books, clock, cron, late, saves, restarts, req>>

NoRow ==
    [st |-> "none", date |-> 0, due |-> NoDay, status |-> "unpaid", paid_at |-> NoDay,
     reminded |-> NoDay, total |-> 0]
Idle == [op |-> "idle", i |-> NoInvoice, seen |-> NoRow, lines |-> {}]
Asleep == [at |-> "asleep", due |-> {}]

Init ==
    /\ invoices = [i \in Invoices |-> NoRow]
    /\ lines = [i \in Invoices |-> {}]
    /\ day = 0 /\ nine = FALSE
    /\ up = TRUE /\ next = 0 /\ job = Asleep
    /\ told = [i \in Invoices |-> [d \in Days |-> 0]]
    /\ silent = {} /\ late = {}
    /\ saves = 0 /\ restarts = 0
    /\ req = [s \in Slots |-> Idle]

Live(i) == invoices[i].st = "live"
Done(s) == req' = [req EXCEPT ![s] = Idle]

-----------------------------------------------------------------------------
(* The form.                                                               *)

\* A due date given wins; otherwise terms of n days count from the invoice,
\* and other terms give no due date.
parseNetDays(terms) == IF terms = NoTerms THEN 0 ELSE terms
DueDate(given, terms, date) ==
    IF given # NoDay THEN given
    ELSE IF terms = NoTerms THEN NoDay ELSE date + parseNetDays(terms)
paymentStatusFromTerms(terms) == IF terms = 0 THEN "paid" ELSE "unpaid"

\* A due date that has begun its day, or is over, comes too late for nine.
Tardy(due) == due # NoDay /\ (due < day \/ (due = day /\ nine))
Marked(i, due) == IF Tardy(due) THEN late \cup {i} ELSE late \ {i}

Create_UndatedCash(i, date, given, terms, total) ==
    /\ up /\ invoices[i].st = "none" /\ saves < MaxSaves
    /\ saves' = saves + 1
    /\ LET due == DueDate(given, terms, date) IN
       /\ invoices' = [invoices EXCEPT ![i] =
              [st |-> "live", date |-> date, due |-> due, status |-> paymentStatusFromTerms(terms),
               paid_at |-> NoDay, reminded |-> NoDay, total |-> total]]
       /\ late' = Marked(i, due)
    /\ lines' = [lines EXCEPT ![i] = {saves + 1}]
    /\ UNCHANGED <<clock, cron, restarts, req>>
Create(i, date, given, terms, total) ==
    /\ up /\ invoices[i].st = "none" /\ saves < MaxSaves
    /\ saves' = saves + 1
    /\ LET due == DueDate(given, terms, date) IN
       /\ invoices' = [invoices EXCEPT ![i] =
              [st |-> "live", date |-> date, due |-> due, status |-> paymentStatusFromTerms(terms),
               paid_at |-> IF terms = 0 THEN day ELSE NoDay, reminded |-> NoDay, total |-> total]]
       /\ late' = Marked(i, due)
    /\ lines' = [lines EXCEPT ![i] = {saves + 1}]
    /\ UNCHANGED <<clock, cron, restarts, req>>

FindByID(s, i, op) ==
    /\ up /\ req[s] = Idle /\ Live(i)
    /\ req' = [req EXCEPT ![s] = [op |-> op, i |-> i, seen |-> invoices[i], lines |-> lines[i]]]

BeginUpdate(s, i) ==
    /\ saves < MaxSaves
    /\ saves' = saves + 1
    /\ FindByID(s, i, "update")
    /\ UNCHANGED <<books, clock, cron, late, restarts>>
CommitUpdate_StatusFromTerms(s, date, given, terms, total) ==
    /\ req[s].op = "update"
    /\ LET i == req[s].i
           due == DueDate(given, terms, date)
       IN /\ invoices' = [invoices EXCEPT ![i] =
                 [req[s].seen EXCEPT !.date = date, !.due = due, !.total = total,
                                     !.status = paymentStatusFromTerms(terms)]]
          /\ lines' = [lines EXCEPT ![i] = {saves}]
          /\ late' = Marked(i, due)
    /\ Done(s)
    /\ UNCHANGED <<clock, cron, saves, restarts>>
\* The header is saved as read but for the fields of the form; the lines are
\* deleted, all of them, and written anew.  Status, payment date and reminder
\* stay as they were read, not as they are.
CommitUpdate(s, date, given, terms, total) ==
    /\ req[s].op = "update"
    /\ LET i == req[s].i
           due == DueDate(given, terms, date)
       IN /\ invoices' = [invoices EXCEPT ![i] =
                 [req[s].seen EXCEPT !.date = date, !.due = due, !.total = total]]
          /\ lines' = [lines EXCEPT ![i] = {saves}]
          /\ late' = Marked(i, due)
    /\ Done(s)
    /\ UNCHANGED <<clock, cron, saves, restarts>>

BeginMarkAsPaid(s, i) ==
    /\ invoices[i].status # "paid"
    /\ FindByID(s, i, "pay")
    /\ UNCHANGED <<books, clock, cron, late, saves, restarts>>
\* Saving the invoice saves the lines read with it: those an edit has deleted
\* meanwhile are inserted again, beside the new ones.
CommitMarkAsPaid(s) ==
    /\ req[s].op = "pay"
    /\ LET i == req[s].i IN
       /\ invoices' = [invoices EXCEPT ![i] =
              [req[s].seen EXCEPT !.status = "paid", !.paid_at = day]]
       /\ lines' = [lines EXCEPT ![i] = @ \cup req[s].lines]
       /\ late' = Marked(i, req[s].seen.due)
    /\ Done(s)
    /\ UNCHANGED <<clock, cron, saves, restarts>>

Delete(i) ==
    /\ up /\ Live(i)
    /\ invoices' = [invoices EXCEPT ![i].st = "deleted"]
    /\ UNCHANGED <<lines, clock, cron, late, saves, restarts, req>>

-----------------------------------------------------------------------------
(* The reminder.                                                           *)

\* The loop sleeps to the next nine o'clock; started after nine, to
\* tomorrow's.
NextNine_AtOnce == day
NextNine_Tomorrow == day + 1
NextNine == IF nine THEN day + 1 ELSE day

Start ==
    /\ ~up
    /\ up' = TRUE /\ next' = NextNine /\ job' = Asleep
    /\ UNCHANGED <<books, clock, told, silent, late, saves, restarts, req>>

\* The process stops, and with it the job and every handler.
Stop ==
    /\ up /\ restarts < MaxRestarts
    /\ restarts' = restarts + 1
    /\ up' = FALSE /\ job' = Asleep
    /\ req' = [s \in Slots |-> Idle]
    /\ silent' = IF nine /\ (next = day \/ job.at = "read") THEN silent \cup {day} ELSE silent
    /\ UNCHANGED <<books, clock, next, told, late, saves>>

FindDueToday ==
    {i \in Invoices : /\ Live(i) /\ invoices[i].status = "unpaid"
                      /\ invoices[i].due = day /\ invoices[i].reminded = NoDay}

\* Whether messages are switched on and an admin has a phone number is not
\* the job's to decide.
ReadDue(reachable) ==
    /\ up /\ nine /\ next = day /\ job = Asleep
    /\ next' = day + 1
    /\ job' = IF reachable /\ FindDueToday # {} THEN [at |-> "read", due |-> FindDueToday] ELSE Asleep
    /\ silent' = IF reachable THEN silent ELSE silent \cup {day}
    /\ UNCHANGED <<books, clock, up, told, late, saves, restarts, req>>

\* One message lists them all; a failed send is logged, and the invoices are
\* marked all the same, so told counts attempts.
SendReminder ==
    /\ job.at = "read"
    /\ told' = [i \in Invoices |-> IF i \in job.due THEN [told[i] EXCEPT ![day] = @ + 1] ELSE told[i]]
    /\ job' = [job EXCEPT !.at = "sent"]
    /\ UNCHANGED <<books, clock, up, next, silent, late, saves, restarts, req>>

MarkReminderSent(i) ==
    /\ job.at = "sent" /\ i \in job.due
    /\ invoices' = [invoices EXCEPT ![i].reminded = IF Live(i) THEN day ELSE @]
    /\ job' = IF job.due = {i} THEN Asleep ELSE [job EXCEPT !.due = @ \ {i}]
    /\ UNCHANGED <<lines, clock, up, next, told, silent, late, saves, restarts, req>>

\* The clock waits for a job that is due: it takes two minutes at most.
Tick ==
    /\ job = Asleep
    /\ nine /\ up => next # day
    /\ IF nine THEN day < LastDay /\ day' = day + 1 /\ nine' = FALSE
               ELSE nine' = TRUE /\ UNCHANGED day
    /\ silent' = IF ~nine /\ ~up THEN silent \cup {day} ELSE silent
    /\ UNCHANGED <<books, up, next, job, told, late, saves, restarts, req>>

-----------------------------------------------------------------------------
Next ==
    \/ \E i \in Invoices :
          \/ \E date \in 0..day, given \in Dates, terms \in Terms, total \in Amounts :
                Create(i, date, given, terms, total)
          \/ Delete(i) \/ MarkReminderSent(i)
    \/ \E s \in Slots :
          \/ \E i \in Invoices : BeginUpdate(s, i) \/ BeginMarkAsPaid(s, i)
          \/ \E date \in 0..day, given \in Dates, terms \in Terms, total \in Amounts :
                CommitUpdate(s, date, given, terms, total)
          \/ CommitMarkAsPaid(s)
    \/ \E reachable \in BOOLEAN : ReadDue(reachable)
    \/ SendReminder \/ Start \/ Stop \/ Tick

Spec == Init /\ [][Next]_vars

-----------------------------------------------------------------------------
Rows ==
    [st : {"none", "live", "deleted"}, date : Days, due : Int, status : {"unpaid", "paid"},
     paid_at : Dates, reminded : Dates, total : Amounts \cup {0}]

TypeOK ==
    /\ invoices \in [Invoices -> Rows]
    /\ lines \in [Invoices -> SUBSET (1..MaxSaves)]
    /\ day \in Days /\ nine \in BOOLEAN /\ up \in BOOLEAN /\ next \in Nat
    /\ job \in [at : {"asleep", "read", "sent"}, due : SUBSET Invoices]
    /\ told \in [Invoices -> [Days -> Nat]]
    /\ silent \subseteq Days /\ late \subseteq Invoices
    /\ saves \in 0..MaxSaves /\ restarts \in 0..MaxRestarts
    /\ req \in [Slots -> [op : {"update", "pay"}, i : Invoices, seen : Rows,
                          lines : SUBSET (1..MaxSaves)] \cup {Idle}]

\* However the process stops between sending and marking, and whatever edits
\* save over the mark, no invoice is announced twice in a day.  (An edit that
\* read earlier clears the mark, and a new due date is announced again.)
ToldOnceADay == \A i \in Invoices, d \in Days : told[i][d] <= 1

\* For an unpaid invoice whose due day is over a message was tried, unless its due date
\* was entered too late, or nobody could be reached at nine on that day.
DueDayAnnounced ==
    \A i \in Invoices :
        Live(i) /\ invoices[i].status = "unpaid" /\ invoices[i].due \in 0..day - 1 /\ i \notin late =>
            invoices[i].due \in silent \/ \E d \in Days : told[i][d] > 0

RemindedOnce == ToldOnceADay /\ DueDayAnnounced

\* A payment and its date are saved and lost together, so every paid invoice
\* falls on one day of the cash report.
PaidIsDated == \A i \in Invoices : invoices[i].status = "paid" <=> invoices[i].paid_at # NoDay

\* An edit keeps "Lunas": a payment is undone only by an edit that began before
\* the payment was saved.
PaymentKept ==
    \A i \in Invoices :
        Live(i) /\ invoices[i].status = "paid" =>
            \/ invoices'[i].status = "paid"
            \/ \E s \in Slots : req[s].i = i /\ req[s].op = "update" /\ req[s].seen.status = "unpaid"
PaymentStands == [][PaymentKept]_vars
=============================================================================
