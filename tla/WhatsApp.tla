------------------------------ MODULE WhatsApp ------------------------------
(***************************************************************************)
(* Messages by WhatsApp: receipts and bills of parked orders sent again by *)
(* hand, and the notice of a large sale to every admin.  One process-wide  *)
(* service keeps the time of the last message to every contact and waits   *)
(* for the gap before the next; a call reads that time under a lock, waits *)
(* and types without it, posts, and writes the time under the lock again.  *)
(*                                                                         *)
(* Time runs in ticks of 15 seconds.  The invoice reminder's own loop is   *)
(* in Invoices; it calls the service as Notify does.                       *)
(*                                                                         *)
(* A definition X_Y just above X is X with a bug Y this code could have; it *)
(* is used by no other, only to test the properties.                       *)
(***************************************************************************)
EXTENDS Integers, Sequences, FiniteSets

CONSTANTS
    Slots,         \* where requests and goroutines run
    Orders,
    Phones,        \* numbers as typed: [prefix, rest]
    Digits,        \* of a number without its prefix
    NoPhone,
    Admins,        \* the admins' numbers, in the order they are loaded
    Gap,           \* 2: thirty seconds between messages to one contact
    ReceiptLimit,  \* 1: fifteen seconds for a receipt or a bill
    NoticeLimit,   \* 4: a minute for all admins
    LastTick, MaxLost, MaxCalls  \* bounds

VARIABLES
    order,      \* [st, member, typed]: the member's number, the one typed in
    lastSent,   \* per contact
    now,
    job,        \* [at, todo, until, wake]
    arrived,    \* per contact, the tick of its last message
    bursts,     \* messages that came within the gap
    overlaps,   \* calls that began while another to the same contact ran
    lost,       \* messages delivered whose answer did not come
    calls

vars == <<order, lastSent, now, job, arrived, bursts, overlaps, lost, calls>>

Never == -1
Contacts == {p.rest : p \in Phones}
NoContact == ""

\* Digits only; 0 becomes 62, a number without either gets 62.
normalizePhone(p) ==
    IF p.rest # NoContact /\ 2 + Digits[p.rest] \in 10..15 THEN p.rest ELSE NoContact

\* What the time of the last message is kept by.
Key_AsTyped(p) == IF normalizePhone(p) # NoContact /\ p.prefix = "62" THEN p.rest ELSE NoContact
Key(p) == normalizePhone(p)

Idle == [at |-> "idle", todo |-> <<>>, until |-> 0, wake |-> 0]

Init ==
    /\ order = [o \in Orders |-> [st |-> "none", member |-> NoPhone, typed |-> NoPhone]]
    /\ lastSent = [c \in Contacts \cup {NoContact} |-> Never]
    /\ arrived = [c \in Contacts |-> Never]
    /\ now = 0 /\ job = [s \in Slots |-> Idle]
    /\ bursts = 0 /\ overlaps = 0 /\ lost = 0 /\ calls = 0

Still == <<lastSent, now, arrived, bursts, overlaps, lost>>
Call(s, phones, limit) ==
    /\ job[s] = Idle /\ calls < MaxCalls /\ calls' = calls + 1
    /\ job' = [job EXCEPT ![s] = [at |-> "next", todo |-> phones, until |-> now + limit, wake |-> 0]]
\* The admins are written to if there are any.
Notify(s) == Admins # <<>> /\ Call(s, Admins, NoticeLimit)

-----------------------------------------------------------------------------
(* Who calls.  A sale or a bill paid tells the admins when it is large; a   *)
(* parked order sends its bill to the number typed in.                     *)

New(o, st, member, typed) ==
    /\ order[o].st = "none"
    /\ order' = [order EXCEPT ![o] = [st |-> st, member |-> member, typed |-> typed]]
    /\ UNCHANGED Still
Create(o, member, typed) == New(o, "completed", member, typed) /\ UNCHANGED <<job, calls>>
CreateLarge(s, o, member, typed) == New(o, "completed", member, typed) /\ Notify(s)
CreatePending(s, o, member, typed) ==
    typed # NoPhone /\ New(o, "pending", member, typed) /\ Call(s, <<typed>>, ReceiptLimit)
MarkAsPaid(o) ==
    /\ order[o].st = "pending"
    /\ order' = [order EXCEPT ![o].st = "completed"]
    /\ UNCHANGED <<Still, job, calls>>
MarkLargeAsPaid(s, o) ==
    /\ order[o].st = "pending"
    /\ order' = [order EXCEPT ![o].st = "completed"]
    /\ Notify(s) /\ UNCHANGED Still
CancelPending(o) ==
    /\ order[o].st = "pending"
    /\ order' = [order EXCEPT ![o].st = "cancelled"]
    /\ UNCHANGED <<Still, job, calls>>

\* The member's number, or else the one typed in; of an order in any status.
ReceiptPhone(o) == IF order[o].member # NoPhone THEN order[o].member ELSE order[o].typed
ResendReceiptWA(s, o) ==
    /\ order[o].st # "none" /\ ReceiptPhone(o) # NoPhone
    /\ Call(s, <<ReceiptPhone(o)>>, ReceiptLimit)
    /\ UNCHANGED <<Still, order>>
ResendPendingInvoiceWA(s, o) ==
    /\ order[o].st = "pending" /\ order[o].typed # NoPhone
    /\ Call(s, <<order[o].typed>>, ReceiptLimit)
    /\ UNCHANGED <<Still, order>>

-----------------------------------------------------------------------------
(* SendText, for the number at the head of the caller's list.  An error is *)
(* logged or shown and the caller goes on with the next number.            *)

Expired(s) == now >= job[s].until
To(s) == normalizePhone(Head(job[s].todo))
InFlight(c) == {s \in Slots : job[s].at \in {"waits", "sent"} /\ To(s) = c}
Onward(r) == IF Len(r.todo) = 1 THEN Idle ELSE [r EXCEPT !.at = "next", !.todo = Tail(r.todo)]
NextNumber(s) == job' = [job EXCEPT ![s] = Onward(job[s])]

InvalidPhone(s) ==
    /\ job[s].at = "next" /\ To(s) = NoContact
    /\ NextNumber(s) /\ UNCHANGED <<Still, order, calls>>

ReadGap(s) ==
    LET last == lastSent[Key(Head(job[s].todo))] IN
    /\ job[s].at = "next" /\ To(s) # NoContact
    /\ job' = [job EXCEPT ![s].at = "waits", ![s].wake = IF last = Never THEN now ELSE last + Gap]
    /\ overlaps' = overlaps + Cardinality(InFlight(To(s)))
    /\ UNCHANGED <<order, lastSent, now, arrived, bursts, lost, calls>>

\* The wait ends with the gap or with the caller's time; then nothing can be
\* posted any more.
Arrives(s) ==
    /\ arrived' = [arrived EXCEPT ![To(s)] = now]
    /\ bursts' = IF arrived[To(s)] # Never /\ now - arrived[To(s)] < Gap THEN bursts + 1 ELSE bursts
Post(s) ==
    /\ job[s].at = "waits" /\ now >= job[s].wake /\ ~Expired(s)
    /\ Arrives(s)
    /\ job' = [job EXCEPT ![s].at = "sent"]
    /\ UNCHANGED <<order, lastSent, now, overlaps, lost, calls>>
PostUnanswered(s) ==
    /\ job[s].at = "waits" /\ now >= job[s].wake /\ ~Expired(s)
    /\ lost < MaxLost /\ lost' = lost + 1
    /\ Arrives(s) /\ NextNumber(s)
    /\ UNCHANGED <<order, lastSent, now, overlaps, calls>>
PostFails(s) ==
    /\ job[s].at = "waits" /\ (now >= job[s].wake \/ Expired(s))
    /\ NextNumber(s) /\ UNCHANGED <<Still, order, calls>>
\* Only a success is remembered, so that a retry need not wait.
Remember(s) ==
    /\ job[s].at = "sent"
    /\ lastSent' = [lastSent EXCEPT ![Key(Head(job[s].todo))] = now]
    /\ NextNumber(s)
    /\ UNCHANGED <<order, now, arrived, bursts, overlaps, lost, calls>>

Tick ==
    /\ now < LastTick /\ now' = now + 1
    /\ UNCHANGED <<order, lastSent, job, arrived, bursts, overlaps, lost, calls>>

-----------------------------------------------------------------------------
Next ==
    \/ \E o \in Orders :
          \/ \E member, typed \in Phones \cup {NoPhone} :
                \/ Create(o, member, typed)
                \/ \E s \in Slots :
                      CreateLarge(s, o, member, typed) \/ CreatePending(s, o, member, typed)
          \/ MarkAsPaid(o) \/ CancelPending(o)
          \/ \E s \in Slots :
                MarkLargeAsPaid(s, o) \/ ResendReceiptWA(s, o) \/ ResendPendingInvoiceWA(s, o)
    \/ \E s \in Slots :
          InvalidPhone(s) \/ ReadGap(s) \/ Post(s) \/ PostUnanswered(s) \/ PostFails(s) \/ Remember(s)
    \/ Tick

Spec == Init /\ [][Next]_vars

-----------------------------------------------------------------------------
TypeOK ==
    /\ order \in [Orders -> [st : {"none", "pending", "completed", "cancelled"},
                             member : Phones \cup {NoPhone}, typed : Phones \cup {NoPhone}]]
    /\ lastSent \in [Contacts \cup {NoContact} -> Never..LastTick] /\ arrived \in [Contacts -> Never..LastTick]
    /\ now \in 0..LastTick
    /\ job \in [Slots -> [at : {"idle", "next", "waits", "sent"}, todo : Seq(Phones),
                          until : Nat, wake : Nat]]
    /\ bursts \in Nat /\ overlaps \in Nat /\ lost \in 0..MaxLost /\ calls \in 0..MaxCalls

\* However a number is written, its contact gets two messages within the gap only
\* if two calls overlapped or the answer to the first was lost.
GapKept == bursts <= overlaps + lost
=============================================================================
