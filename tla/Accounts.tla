------------------------------ MODULE Accounts ------------------------------
(***************************************************************************)
(* Accounts: registration, edits, reset codes, and the copies of a role    *)
(* that live outside its row: the session in Redis and the issued tokens.  *)
(*                                                                         *)
(* An e-mail address is an account for good: it is unique among all rows,  *)
(* deleted ones included.  Every edit reads a row and saves all of it; the *)
(* save of a row deleted meanwhile inserts it again.                       *)
(*                                                                         *)
(* A definition X_Y just above X is X with a bug Y this code could have; it *)
(* is used by no other, only to test the properties.                       *)
(***************************************************************************)
EXTENDS Integers, FiniteSets

CONSTANTS
    Accounts,
    Phones,        \* with NoPhone, the empty string
    NoPhone,
    Roles,
    Customer,      \* the role of those who register themselves
    Passwords,
    Short,         \* passwords of six or seven characters
    Slots,         \* slots in which handlers run
    NoAccount,
    NoRole,
    MaxCodes,      \* bound: reset codes sent
    MaxEdits,      \* bound: edits begun
    MaxRenewals,   \* bound: tokens renewed
    MaxLost        \* bound: handlers stopped with a code in hand

VARIABLES
    row,        \* users: [st, phone, role, active, pw]
    code,       \* per account, the reset code in Redis, 0 for none
    resting,    \* accounts whose rate-limit key is in Redis
    session,    \* per account, the role in user:session, or NoRole
    tokens,     \* per account, the roles in tokens not yet expired
    sent,       \* reset codes sent so far
    uses,       \* per code, the passwords saved with it
    lost,       \* handlers that stopped between saving and deleting a code
    edits, renewals,
    req

vars == <<row, code, resting, session, tokens, sent, uses, lost, edits, renewals, req>>

NoRow == [st |-> "none", phone |-> NoPhone, role |-> NoRole, active |-> FALSE, pw |-> ""]
Idle == [op |-> "idle", u |-> NoAccount, seen |-> NoRow, code |-> 0]

Init ==
    /\ row = [u \in Accounts |-> NoRow]
    /\ code = [u \in Accounts |-> 0]
    /\ resting = {}
    /\ session = [u \in Accounts |-> NoRole]
    /\ tokens = [u \in Accounts |-> {}]
    /\ sent = 0 /\ lost = 0 /\ edits = 0 /\ renewals = 0
    /\ uses = [c \in 1..MaxCodes |-> 0]
    /\ req = [s \in Slots |-> Idle]

Live(u) == row[u].st = "live"

\* The unique index on phone covers every row, deleted or not, and the empty
\* string is a value like any other: it is stored as '', never as NULL.
PhoneFree(ph, u) == \A v \in Accounts \ {u} : row[v].st # "none" => row[v].phone # ph

\* gorm's Save: every column of the row read, deleted_at included, or nothing
\* when the phone belongs to another row.
Save(u, r) == IF PhoneFree(r.phone, u) THEN [row EXCEPT ![u] = r] ELSE row

Done(s) == req' = [req EXCEPT ![s] = Idle]
Rest == <<code, resting, session, tokens, sent, uses, lost, edits, renewals>>

-----------------------------------------------------------------------------
(* Registration.                                                           *)

\* The checks look at rows that are not deleted, the insert meets them all.
Register(u, ph, role, pw) ==
    /\ pw \notin Short
    /\ row[u].st = "none" /\ PhoneFree(ph, u)
    /\ row' = [row EXCEPT ![u] =
           [st |-> "live", phone |-> ph, role |-> role, active |-> TRUE, pw |-> pw]]
    /\ UNCHANGED <<Rest, req>>

\* The storefront's form wants a phone and logs the new customer in.
RegisterCustomer(u, ph, pw) ==
    /\ ph # NoPhone
    /\ row[u].st = "none" /\ PhoneFree(ph, u)
    /\ row' = [row EXCEPT ![u] =
           [st |-> "live", phone |-> ph, role |-> Customer, active |-> TRUE, pw |-> pw]]
    /\ tokens' = [tokens EXCEPT ![u] = @ \cup {Customer}]
    /\ UNCHANGED <<code, resting, session, sent, uses, lost, edits, renewals, req>>

-----------------------------------------------------------------------------
(* Tokens and sessions.                                                    *)

\* The login form asks for eight characters.
LoginAccepts(u) == Live(u) /\ row[u].active /\ row[u].pw \notin Short

Login(u) ==
    /\ LoginAccepts(u)
    /\ tokens' = [tokens EXCEPT ![u] = @ \cup {row[u].role}]
    /\ UNCHANGED <<row, code, resting, session, sent, uses, lost, edits, renewals, req>>

\* A request with a token in its last ten minutes gets one with the same
\* claims and a new date; the row is not read.
allowRole(u, role) ==
    /\ role \in tokens[u] /\ renewals < MaxRenewals
    /\ renewals' = renewals + 1
    /\ UNCHANGED <<row, code, resting, session, tokens, sent, uses, lost, edits, req>>

TokenExpires(u, role) ==
    /\ role \in tokens[u]
    /\ tokens' = [tokens EXCEPT ![u] = @ \ {role}]
    /\ UNCHANGED <<row, code, resting, session, sent, uses, lost, edits, renewals, req>>

\* A miss reads the row and keeps it for an hour; nothing deletes the key.
BeginGetSession(s, u) ==
    /\ req[s] = Idle /\ tokens[u] # {}
    /\ session[u] = NoRole /\ Live(u)
    /\ req' = [req EXCEPT ![s] = [Idle EXCEPT !.op = "session", !.u = u, !.seen = row[u]]]
    /\ UNCHANGED <<row, Rest>>
CommitGetSession(s) ==
    /\ req[s].op = "session"
    /\ session' = [session EXCEPT ![req[s].u] = req[s].seen.role]
    /\ Done(s)
    /\ UNCHANGED <<row, code, resting, tokens, sent, uses, lost, edits, renewals>>
SessionExpires_KeptForever(u) == FALSE /\ UNCHANGED vars
SessionExpires(u) ==
    /\ session[u] # NoRole
    /\ session' = [session EXCEPT ![u] = NoRole]
    /\ UNCHANGED <<row, code, resting, tokens, sent, uses, lost, edits, renewals, req>>

-----------------------------------------------------------------------------
(* Edits: FindByID, then Save.                                             *)

BeginEdit(s, u, op) ==
    /\ req[s] = Idle /\ Live(u) /\ edits < MaxEdits
    /\ req' = [req EXCEPT ![s] = [Idle EXCEPT !.op = op, !.u = u, !.seen = row[u]]]
    /\ edits' = edits + 1
    /\ UNCHANGED <<row, code, resting, session, tokens, sent, uses, lost, renewals>>

CommitEdit(s, r) ==
    /\ row' = Save(req[s].u, r)
    /\ Done(s)
    /\ UNCHANGED Rest

\* An empty field of the request leaves the column as read.
UpdateUser(s, ph, role) ==
    /\ req[s].op = "update"
    /\ CommitEdit(s, [req[s].seen EXCEPT !.phone = IF ph = NoPhone THEN @ ELSE ph, !.role = role])
ToggleUserActive(s) ==
    /\ req[s].op = "toggle"
    /\ CommitEdit(s, [req[s].seen EXCEPT !.active = ~@])
UpdateCustomerProfile(s, ph) ==
    /\ req[s].op = "profile"
    /\ CommitEdit(s, [req[s].seen EXCEPT !.phone = IF ph = NoPhone THEN @ ELSE ph])
ResetPassword(s, pw) ==
    /\ req[s].op = "reset" /\ pw \notin Short
    /\ CommitEdit(s, [req[s].seen EXCEPT !.pw = pw])
ChangePassword(s, pw) ==
    /\ req[s].op = "change"
    /\ CommitEdit(s, [req[s].seen EXCEPT !.pw = pw])

\* The admin's customer list sets the one column, of a customer only.
SetActive(u, b) ==
    /\ Live(u) /\ row[u].role = Customer /\ edits < MaxEdits
    /\ row' = [row EXCEPT ![u].active = b]
    /\ edits' = edits + 1
    /\ UNCHANGED <<code, resting, session, tokens, sent, uses, lost, renewals, req>>

DeleteUser(u) ==
    /\ Live(u) /\ edits < MaxEdits
    /\ row' = [row EXCEPT ![u].st = "deleted"]
    /\ edits' = edits + 1
    /\ UNCHANGED <<code, resting, session, tokens, sent, uses, lost, renewals, req>>

-----------------------------------------------------------------------------
(* Reset codes.                                                            *)

SendPasswordResetOTP(u) ==
    /\ u \notin resting /\ Live(u) /\ sent < MaxCodes
    /\ sent' = sent + 1
    /\ code' = [code EXCEPT ![u] = sent + 1]
    /\ resting' = resting \cup {u}
    /\ UNCHANGED <<row, session, tokens, uses, lost, edits, renewals, req>>

CodeExpires(u) ==
    /\ code[u] # 0
    /\ code' = [code EXCEPT ![u] = 0]
    /\ UNCHANGED <<row, resting, session, tokens, sent, uses, lost, edits, renewals, req>>
RestEnds(u) ==
    /\ u \in resting
    /\ resting' = resting \ {u}
    /\ UNCHANGED <<row, code, session, tokens, sent, uses, lost, edits, renewals, req>>

\* ConfirmPasswordResetOTP, call by call: the code is compared, ...
MatchCode(s, u) ==
    /\ req[s] = Idle /\ code[u] # 0
    /\ req' = [req EXCEPT ![s] = [Idle EXCEPT !.op = "matched", !.u = u, !.code = code[u]]]
    /\ UNCHANGED <<row, Rest>>
\* ... the row is read, ...
ReadForReset(s) ==
    /\ req[s].op = "matched" /\ Live(req[s].u)
    /\ req' = [req EXCEPT ![s].op = "confirm", ![s].seen = row[req[s].u]]
    /\ UNCHANGED <<row, Rest>>
\* ... saved with the new password, ...
SaveReset(s, pw) ==
    /\ req[s].op = "confirm"
    /\ row' = Save(req[s].u, [req[s].seen EXCEPT !.pw = pw])
    /\ IF PhoneFree(req[s].seen.phone, req[s].u)
       THEN /\ req' = [req EXCEPT ![s].op = "saved"]
            /\ uses' = [uses EXCEPT ![req[s].code] = @ + 1]
       ELSE Done(s) /\ UNCHANGED uses
    /\ UNCHANGED <<code, resting, session, tokens, sent, lost, edits, renewals>>
\* ... and both keys are deleted, whatever code is there by now.
SpendCode_OnlyLimit(s) ==
    /\ req[s].op = "saved"
    /\ resting' = resting \ {req[s].u}
    /\ Done(s)
    /\ UNCHANGED <<row, code, session, tokens, sent, uses, lost, edits, renewals>>
SpendCode(s) ==
    /\ req[s].op = "saved"
    /\ code' = [code EXCEPT ![req[s].u] = 0]
    /\ resting' = resting \ {req[s].u}
    /\ Done(s)
    /\ UNCHANGED <<row, session, tokens, sent, uses, lost, edits, renewals>>

\* A handler stops: the process is restarted, or a call returns an error.
Abandon(s) ==
    /\ req[s] # Idle
    /\ req[s].op = "saved" => lost < MaxLost
    /\ lost' = IF req[s].op = "saved" THEN lost + 1 ELSE lost
    /\ Done(s)
    /\ UNCHANGED <<row, code, resting, session, tokens, sent, uses, edits, renewals>>

-----------------------------------------------------------------------------
EditOps == {"update", "toggle", "profile", "reset", "change"}
Ops == EditOps \cup {"session", "matched", "confirm", "saved"}

Next ==
    \/ \E u \in Accounts :
          \/ \E ph \in Phones, pw \in Passwords :
                \/ \E role \in Roles : Register(u, ph, role, pw)
                \/ RegisterCustomer(u, ph, pw)
          \/ \E role \in Roles : allowRole(u, role) \/ TokenExpires(u, role)
          \/ \E b \in BOOLEAN : SetActive(u, b)
          \/ Login(u) \/ SessionExpires(u) \/ DeleteUser(u)
          \/ SendPasswordResetOTP(u) \/ CodeExpires(u) \/ RestEnds(u)
    \/ \E s \in Slots :
          \/ \E u \in Accounts :
                \/ \E op \in EditOps : BeginEdit(s, u, op)
                \/ BeginGetSession(s, u) \/ MatchCode(s, u)
          \/ \E ph \in Phones :
                \/ \E role \in Roles : UpdateUser(s, ph, role)
                \/ UpdateCustomerProfile(s, ph)
          \/ \E pw \in Passwords : ResetPassword(s, pw) \/ ChangePassword(s, pw) \/ SaveReset(s, pw)
          \/ ToggleUserActive(s) \/ CommitGetSession(s) \/ ReadForReset(s) \/ SpendCode(s)
          \/ Abandon(s)

Spec == Init /\ [][Next]_vars

\* Redis and the tokens' dates keep time, and a handler that began ends.
Fairness ==
    /\ \A u \in Accounts :
          /\ WF_vars(SessionExpires(u))
          /\ \A role \in Roles : WF_vars(TokenExpires(u, role))
    /\ \A s \in Slots : WF_vars(CommitGetSession(s) \/ Abandon(s))
FairSpec == Spec /\ Fairness

-----------------------------------------------------------------------------
Rows ==
    [st : {"live", "deleted"}, phone : Phones, role : Roles, active : BOOLEAN, pw : Passwords]
        \cup {NoRow}

TypeOK ==
    /\ row \in [Accounts -> Rows]
    /\ code \in [Accounts -> 0..MaxCodes] /\ resting \subseteq Accounts
    /\ session \in [Accounts -> Roles \cup {NoRole}]
    /\ tokens \in [Accounts -> SUBSET Roles]
    /\ sent \in 0..MaxCodes /\ edits \in 0..MaxEdits /\ renewals \in 0..MaxRenewals
    /\ uses \in [1..MaxCodes -> Nat] /\ lost \in 0..MaxLost
    /\ req \in [Slots -> [op : Ops, u : Accounts, seen : Rows, code : 0..MaxCodes] \cup {Idle}]

\* A reset code is meant for one password.  The code is compared before the
\* row is saved and deleted after, so submissions that overlap can all use it:
\* as many as there are handlers at once, and one more for each handler that
\* stopped before it deleted the code.
CodeSpentBounded == \A c \in 1..sent : uses[c] <= Cardinality(Slots) + lost

\* An edit of a role, a deactivation or a deletion reaches everything that
\* answers for the account: once edits stop and tokens are no longer renewed,
\* the cached session and every token agree with the row or are gone.
CopiesCorrect ==
    \A u \in Accounts :
        /\ session[u] = NoRole \/ (Live(u) /\ session[u] = row[u].role)
        /\ tokens[u] # {} => Live(u) /\ row[u].active /\ tokens[u] = {row[u].role}
CopiesCatchUp == <>[]CopiesCorrect
=============================================================================
