----------------------------- MODULE Front_proofs -----------------------------
(***************************************************************************)
(* What holds of Front for any number of accounts, codes, handlers, goods  *)
(* and addresses: how many passwords can be saved with one code, that      *)
(* there is one default address, that the pages follow the settings, that  *)
(* the cart and the checkout agree, and every type.                        *)
(***************************************************************************)
EXTENDS Front, FiniteSetTheorems, TLAPS

-----------------------------------------------------------------------------
(* Accounts: what a reset code sets.                                       *)

Finite == IsFiniteSet(Slots) /\ MaxCodes \in Nat

(* The inductive invariant.                                                *)

Holding == {"matched", "confirm"}
CodeOps == Holding \cup {"saved"}

\* Handlers that hold code c: before they have saved a password, and after.
In(r, ops, c) == r.op \in ops /\ r.code = c
Doing(ops, c) == {s \in Slots : In(req[s], ops, c)}

Shaped(r) == DOMAIN r = {"op", "u", "seen", "code"} /\ r = [f \in DOMAIN r |-> r[f]]

CodeTypes ==
    /\ sent \in 0..MaxCodes
    /\ code \in [Accounts -> 0..sent]
    /\ uses \in [1..MaxCodes -> Nat]
    /\ lost \in Nat
    /\ req = [s \in Slots |-> req[s]] /\ \A s \in Slots : Shaped(req[s])

\* A code belongs to one account, and was not used before it was sent.
OwnersOK ==
    /\ \A u, v \in Accounts : code[u] = code[v] /\ code[u] # 0 => u = v
    /\ \A c \in 1..MaxCodes : c > sent => uses[c] = 0
    /\ \A s \in Slots : req[s].op \in CodeOps =>
          /\ req[s].u \in Accounts /\ req[s].code \in 1..sent
          /\ \A v \in Accounts : code[v] = req[s].code => v = req[s].u

\* While a code is in Redis, everyone who used it is still to delete it, or
\* stopped; those who hold it unused can come on top, within the slots.
CountsOK(c) ==
    /\ uses[c] + Cardinality(Doing(Holding, c)) <= Cardinality(Slots) + lost
    /\ (\E u \in Accounts : code[u] = c) => uses[c] <= Cardinality(Doing({"saved"}, c)) + lost

IInv == CodeTypes /\ OwnersOK /\ \A c \in 1..MaxCodes : CountsOK(c)

-----------------------------------------------------------------------------
(* Counting handlers.                                                      *)

\* Sets of handlers are finite.
LEMMA DoingFinite ==
    ASSUME Finite
    PROVE  /\ Cardinality(Slots) \in Nat
           /\ \A ops, c : IsFiniteSet(Doing(ops, c)) /\ Cardinality(Doing(ops, c)) \in Nat
<1>1. ASSUME NEW ops, NEW c PROVE IsFiniteSet(Doing(ops, c)) /\ Cardinality(Doing(ops, c)) \in Nat
  <2>1. Doing(ops, c) \in SUBSET Slots
    BY DEF Doing
  <2> QED
    BY <2>1, FS_Subset, FS_CardinalityType DEF Finite
<1> QED
  BY <1>1, FS_CardinalityType DEF Finite


\* A slot that changes from one content to another is counted where it is.
LEMMA Counted ==
    ASSUME Finite, req = [t \in Slots |-> req[t]], NEW s \in Slots, NEW r,
           req' = [req EXCEPT ![s] = r], NEW ops, NEW c
    PROVE  LET n == Cardinality(Doing(ops, c))
               m == Cardinality(Doing(ops, c))'
           IN /\ n \in Nat /\ m \in Nat
              /\ (In(req[s], ops, c) <=> In(r, ops, c)) => m = n
              /\ In(req[s], ops, c) /\ ~In(r, ops, c) => m = n - 1
              /\ ~In(req[s], ops, c) /\ In(r, ops, c) => m = n + 1
<1> DEFINE A == Doing(ops, c)
           D == {t \in Slots : In(req'[t], ops, c)}
<1>1. Doing(ops, c)' = D
  BY DEF Doing, In
<1>2. \A t \in Slots : req'[t] = IF t = s THEN r ELSE req[t]
  OBVIOUS
<1>3. IsFiniteSet(A) /\ Cardinality(A) \in Nat
  BY DoingFinite
<1>4. s \in A <=> In(req[s], ops, c)
  BY DEF Doing
<1>5. In(r, ops, c) => D = A \cup {s}
  BY <1>2 DEF Doing
<1>6. ~In(r, ops, c) => D = A \ {s}
  BY <1>2 DEF Doing
<1> HIDE DEF A, D
<1>7. In(r, ops, c) => Cardinality(D) = IF s \in A THEN Cardinality(A) ELSE Cardinality(A) + 1
  BY <1>3, <1>5, FS_AddElement
<1>8. ~In(r, ops, c) => Cardinality(D) = IF s \in A THEN Cardinality(A) - 1 ELSE Cardinality(A)
  BY <1>3, <1>6, FS_RemoveElement
<1>9. IsFiniteSet(D) /\ Cardinality(D) \in Nat
  <2>1. IsFiniteSet(D)
    BY <1>3, <1>5, <1>6, FS_AddElement, FS_RemoveElement
  <2> QED
    BY <2>1, FS_CardinalityType
<1> QED
  BY <1>1, <1>3, <1>4, <1>7, <1>8, <1>9 DEF A

-----------------------------------------------------------------------------
(* The actions.                                                            *)

\* The account invariant holds at first.
LEMMA InitIInv == ASSUME Finite, Init PROVE IInv
<1>1. CodeTypes
  <2>1. Shaped(Idle)
    BY DEF Shaped, Idle
  <2> QED
    BY <2>1 DEF Init, CodeTypes, Finite
<1>2. OwnersOK
  BY DEF Init, OwnersOK, CodeOps, Holding, Idle
<1>3. ASSUME NEW c \in 1..MaxCodes PROVE CountsOK(c)
  <2>1. uses[c] = 0 /\ \A u \in Accounts : code[u] = 0
    BY DEF Init
  <2>2. Doing(Holding, c) = {}
    BY DEF Init, Doing, In, Holding, Idle
  <2>3. Cardinality(Slots) \in Nat /\ lost = 0
    BY DoingFinite DEF Init
  <2> QED
    BY <2>1, <2>2, <2>3, FS_EmptySet DEF CountsOK, Finite
<1> QED
  BY <1>1, <1>2, <1>3 DEF IInv

\* Steps that touch no code and no handler.
LEMMA SameKeeps ==
    ASSUME IInv, UNCHANGED <<code, sent, uses, lost, req>>
    PROVE  IInv'
<1>1. CodeTypes' /\ OwnersOK'
  BY DEF IInv, CodeTypes, OwnersOK
<1>2. \A ops, c : Doing(ops, c)' = Doing(ops, c)
  BY DEF Doing, In
<1>3. ASSUME NEW c \in 1..MaxCodes PROVE CountsOK(c)'
  BY <1>2 DEF IInv, CountsOK, Doing, In
<1> QED
  BY <1>1, <1>3 DEF IInv

\* A handler begins or ends something that has to do with no code.
LEMMA OtherKeeps ==
    ASSUME Finite, IInv, NEW s \in Slots, NEW r, req' = [req EXCEPT ![s] = r],
           req[s].op \notin CodeOps, r.op \notin CodeOps, Shaped(r),
           UNCHANGED <<code, sent, uses, lost>>
    PROVE  IInv'
<1>1. req = [t \in Slots |-> req[t]] /\ \A t \in Slots : req'[t] = IF t = s THEN r ELSE req[t]
  BY DEF IInv, CodeTypes
<1>2. CodeTypes' /\ OwnersOK'
  BY <1>1 DEF IInv, CodeTypes, OwnersOK
<1>3. ASSUME NEW c \in 1..MaxCodes PROVE CountsOK(c)'
  <2>1. ~In(req[s], Holding, c) /\ ~In(r, Holding, c) /\ ~In(req[s], {"saved"}, c) /\ ~In(r, {"saved"}, c)
    BY DEF In, CodeOps
  <2>2. Cardinality(Doing(Holding, c))' = Cardinality(Doing(Holding, c))
        /\ Cardinality(Doing({"saved"}, c))' = Cardinality(Doing({"saved"}, c))
    BY <1>1, <2>1, Counted
  <2>3. CountsOK(c)
    BY DEF IInv
  <2> QED
    BY <2>2, <2>3 DEF CountsOK
<1> QED
  BY <1>2, <1>3 DEF IInv

\* A new code is nobody else's and unused.
LEMMA SendKeeps ==
    ASSUME Finite, IInv, NEW u \in Accounts, SendPasswordResetOTP(u)
    PROVE  IInv'
<1>1. /\ sent < MaxCodes /\ sent' = sent + 1 /\ code' = [code EXCEPT ![u] = sent + 1]
      /\ UNCHANGED <<uses, lost, req>>
  BY DEF SendPasswordResetOTP
<1>2. /\ sent \in Nat /\ sent' \in 0..MaxCodes /\ code \in [Accounts -> 0..sent]
      /\ code' \in [Accounts -> 0..sent']
      /\ \A v \in Accounts : code'[v] = IF v = u THEN sent + 1 ELSE code[v]
  BY <1>1 DEF IInv, CodeTypes, Finite
<1>3. CodeTypes'
  BY <1>1, <1>2 DEF IInv, CodeTypes
<1>4. OwnersOK'
  BY <1>1, <1>2 DEF IInv, OwnersOK
<1>5. ASSUME NEW c \in 1..MaxCodes PROVE CountsOK(c)'
  <2>1. /\ Cardinality(Doing(Holding, c))' = Cardinality(Doing(Holding, c))
        /\ Cardinality(Doing({"saved"}, c))' = Cardinality(Doing({"saved"}, c))
        /\ Cardinality(Doing({"saved"}, c)) \in Nat
    BY <1>1, DoingFinite DEF Doing, In
  <2>2. CountsOK(c) /\ uses[c] \in Nat /\ lost \in Nat
    BY DEF IInv, CodeTypes
  <2>3. c = sent + 1 => uses[c] = 0
    BY <1>2 DEF IInv, OwnersOK
  <2>4. c # sent + 1 /\ (\E v \in Accounts : code'[v] = c) => \E v \in Accounts : code[v] = c
    BY <1>2
  <2> QED
    BY <1>1, <2>1, <2>2, <2>3, <2>4 DEF CountsOK
<1> QED
  BY <1>3, <1>4, <1>5 DEF IInv

\* A code that leaves Redis is not used by anyone new.
LEMMA ExpireKeeps ==
    ASSUME Finite, IInv, NEW u \in Accounts, CodeExpires(u)
    PROVE  IInv'
<1>1. code' = [code EXCEPT ![u] = 0] /\ UNCHANGED <<sent, uses, lost, req>>
  BY DEF CodeExpires
<1>2. /\ sent \in Nat /\ code \in [Accounts -> 0..sent] /\ code' \in [Accounts -> 0..sent]
      /\ \A v \in Accounts : code'[v] = IF v = u THEN 0 ELSE code[v]
  BY <1>1 DEF IInv, CodeTypes, Finite
<1>3. CodeTypes'
  BY <1>1, <1>2 DEF IInv, CodeTypes
<1>4. OwnersOK'
  BY <1>1, <1>2 DEF IInv, OwnersOK
<1>5. ASSUME NEW c \in 1..MaxCodes PROVE CountsOK(c)'
  <2>1. /\ Cardinality(Doing(Holding, c))' = Cardinality(Doing(Holding, c))
        /\ Cardinality(Doing({"saved"}, c))' = Cardinality(Doing({"saved"}, c))
    BY <1>1 DEF Doing, In
  <2>2. (\E v \in Accounts : code'[v] = c) => \E v \in Accounts : code[v] = c
    BY <1>2
  <2>3. CountsOK(c)
    BY DEF IInv
  <2> QED
    BY <1>1, <2>1, <2>2, <2>3 DEF CountsOK
<1> QED
  BY <1>3, <1>4, <1>5 DEF IInv

\* A handler that finds the code in Redis has room: every use of it so far
\* is held by a handler about to delete it, or was lost.
LEMMA MatchKeeps ==
    ASSUME Finite, IInv, NEW s \in Slots, NEW u \in Accounts, MatchCode(s, u)
    PROVE  IInv'
<1> DEFINE r == [Idle EXCEPT !.op = "matched", !.u = u, !.code = code[u]]
<1>1. /\ req[s] = Idle /\ code[u] # 0 /\ req' = [req EXCEPT ![s] = r]
      /\ UNCHANGED <<code, sent, uses, lost>>
  BY DEF MatchCode, Rest
<1>2. r.op = "matched" /\ r.u = u /\ r.code = code[u] /\ Idle.op = "idle" /\ Shaped(r)
  BY DEF Idle, Shaped
<1>3. /\ req = [t \in Slots |-> req[t]] /\ \A t \in Slots : req'[t] = IF t = s THEN r ELSE req[t]
      /\ code[u] \in 1..sent /\ sent \in 0..MaxCodes
  BY <1>1 DEF IInv, CodeTypes, Finite
<1> HIDE DEF r
<1>4. CodeTypes'
  BY <1>1, <1>2, <1>3 DEF IInv, CodeTypes
<1>5. OwnersOK'
  BY <1>1, <1>2, <1>3 DEF IInv, OwnersOK, CodeOps, Holding
<1>6. ASSUME NEW c \in 1..MaxCodes PROVE CountsOK(c)'
  <2>1. ~In(req[s], Holding, c) /\ ~In(req[s], {"saved"}, c) /\ ~In(r, {"saved"}, c)
    BY <1>1, <1>2 DEF In, Holding
  <2>2. Cardinality(Doing({"saved"}, c))' = Cardinality(Doing({"saved"}, c))
        /\ Cardinality(Doing({"saved"}, c)) \in Nat
    BY <1>1, <1>3, <2>1, Counted
  <2>3. CountsOK(c) /\ uses[c] \in Nat /\ lost \in Nat /\ Cardinality(Slots) \in Nat
    BY DoingFinite DEF IInv, CodeTypes
  <2>4. uses[c] + Cardinality(Doing(Holding, c))' <= Cardinality(Slots) + lost
    <3>1. CASE code[u] # c
      <4>1. ~In(r, Holding, c)
        BY <1>2, <3>1 DEF In
      <4>2. Cardinality(Doing(Holding, c))' = Cardinality(Doing(Holding, c))
        BY <1>1, <1>3, <2>1, <4>1, Counted
      <4> QED
        BY <2>3, <4>2 DEF CountsOK
    <3>2. CASE code[u] = c
      <4>1. In(r, Holding, c)
        BY <1>2, <3>2 DEF In, Holding
      <4>2. Cardinality(Doing(Holding, c))' = Cardinality(Doing(Holding, c)) + 1
            /\ Cardinality(Doing(Holding, c)) \in Nat
        BY <1>1, <1>3, <2>1, <4>1, Counted
      <4>3. uses[c] <= Cardinality(Doing({"saved"}, c)) + lost
        BY <2>3, <3>2 DEF CountsOK
      <4>4. Cardinality(Doing(Holding, c))' + Cardinality(Doing({"saved"}, c)) <= Cardinality(Slots)
        <5> DEFINE A == Doing(Holding, c) \cup {s}
                   D == Doing({"saved"}, c)
        <5>1. IsFiniteSet(Doing(Holding, c)) /\ IsFiniteSet(D)
          BY DoingFinite
        <5>2. s \notin Doing(Holding, c) /\ s \notin D
          BY <2>1 DEF Doing
        <5>3. IsFiniteSet(A) /\ Cardinality(A) = Cardinality(Doing(Holding, c)) + 1
          BY <5>1, <5>2, FS_AddElement
        <5>4. A \cap D = {}
          BY <5>2 DEF Doing, In, Holding
        <5>5. A \cup D \in SUBSET Slots
          BY DEF Doing
        <5> HIDE DEF A, D
        <5>6. Cardinality(A \cup D) = Cardinality(A) + Cardinality(D) - Cardinality(A \cap D)
          BY <5>1, <5>3, FS_Union
        <5>7. Cardinality(A \cup D) <= Cardinality(Slots)
          BY <5>5, FS_Subset DEF Finite
        <5>8. Cardinality(A) \in Nat /\ Cardinality(D) \in Nat
          BY <5>1, <5>3, FS_CardinalityType
        <5>9. Cardinality(A) + Cardinality(D) <= Cardinality(Slots)
          BY <5>4, <5>6, <5>7, <5>8, FS_EmptySet
        <5> QED
          BY <4>2, <5>3, <5>9 DEF D
      <4> QED
        BY <2>2, <2>3, <4>2, <4>3, <4>4
    <3> QED
      BY <3>1, <3>2
  <2> QED
    BY <1>1, <2>2, <2>3, <2>4 DEF CountsOK
<1> QED
  BY <1>4, <1>5, <1>6 DEF IInv

\* The row is read: the handler goes on holding its code.
LEMMA ReadKeeps ==
    ASSUME Finite, IInv, NEW s \in Slots, ReadForReset(s)
    PROVE  IInv'
<1> DEFINE r == [req[s] EXCEPT !.op = "confirm", !.seen = row[req[s].u]]
<1>1. /\ req[s].op = "matched" /\ req' = [req EXCEPT ![s] = r]
      /\ UNCHANGED <<code, sent, uses, lost>>
  BY DEF ReadForReset, Rest
<1>2. r.op = "confirm" /\ r.u = req[s].u /\ r.code = req[s].code /\ Shaped(r)
  BY DEF IInv, CodeTypes, Shaped
<1>3. req = [t \in Slots |-> req[t]] /\ \A t \in Slots : req'[t] = IF t = s THEN r ELSE req[t]
  BY <1>1 DEF IInv, CodeTypes
<1> HIDE DEF r
<1>4. CodeTypes'
  BY <1>1, <1>2, <1>3 DEF IInv, CodeTypes
<1>5. OwnersOK'
  BY <1>1, <1>2, <1>3 DEF IInv, OwnersOK, CodeOps, Holding
<1>6. ASSUME NEW c \in 1..MaxCodes PROVE CountsOK(c)'
  <2>1. (In(req[s], Holding, c) <=> In(r, Holding, c)) /\ ~In(req[s], {"saved"}, c) /\ ~In(r, {"saved"}, c)
    BY <1>1, <1>2 DEF In, Holding
  <2>2. Cardinality(Doing(Holding, c))' = Cardinality(Doing(Holding, c))
    BY <1>1, <1>3, <2>1, Counted
  <2>3. Cardinality(Doing({"saved"}, c))' = Cardinality(Doing({"saved"}, c))
    BY <1>1, <1>3, <2>1, Counted
  <2>4. CountsOK(c)
    BY DEF IInv
  <2> QED
    BY <1>1, <2>2, <2>3, <2>4 DEF CountsOK
<1> QED
  BY <1>4, <1>5, <1>6 DEF IInv

\* A handler that still holds its code ends without a word.
LEMMA EndKeeps ==
    ASSUME Finite, IInv, NEW s \in Slots, req[s].op # "saved",
           req' = [req EXCEPT ![s] = Idle], UNCHANGED <<code, sent, uses, lost>>
    PROVE  IInv'
<1>1. Idle.op = "idle" /\ Shaped(Idle)
  BY DEF Idle, Shaped
<1>2. req = [t \in Slots |-> req[t]] /\ \A t \in Slots : req'[t] = IF t = s THEN Idle ELSE req[t]
  BY DEF IInv, CodeTypes
<1>3. CodeTypes'
  BY <1>1, <1>2 DEF IInv, CodeTypes
<1>4. OwnersOK'
  BY <1>1, <1>2 DEF IInv, OwnersOK, CodeOps, Holding
<1>5. ASSUME NEW c \in 1..MaxCodes PROVE CountsOK(c)'
  <2>1. ~In(Idle, Holding, c) /\ ~In(req[s], {"saved"}, c) /\ ~In(Idle, {"saved"}, c)
    BY <1>1 DEF In, Holding
  <2>2. Cardinality(Doing({"saved"}, c))' = Cardinality(Doing({"saved"}, c))
    BY <1>2, <2>1, Counted
  <2>3. /\ Cardinality(Doing(Holding, c)) \in Nat /\ Cardinality(Doing(Holding, c))' \in Nat
        /\ Cardinality(Doing(Holding, c))' <= Cardinality(Doing(Holding, c))
    BY <1>2, <2>1, Counted
  <2>4. CountsOK(c) /\ uses[c] \in Nat /\ lost \in Nat /\ Cardinality(Slots) \in Nat
    BY DoingFinite DEF IInv, CodeTypes
  <2> QED
    BY <2>2, <2>3, <2>4 DEF CountsOK
<1> QED
  BY <1>3, <1>4, <1>5 DEF IInv

\* The password is saved: one use more, one handler fewer that can add one.
\* When the phone is taken the handler ends with its code unused.
LEMMA SaveResetKeeps ==
    ASSUME Finite, IInv, NEW s \in Slots, NEW pw, SaveReset(s, pw)
    PROVE  IInv'
<1> DEFINE k == req[s].code
           r == [req[s] EXCEPT !.op = "saved"]
<1>1. req[s].op = "confirm" /\ UNCHANGED <<code, sent, lost>>
  BY DEF SaveReset
<1>2. /\ req = [t \in Slots |-> req[t]] /\ Shaped(req[s]) /\ k \in 1..sent /\ sent \in 0..MaxCodes
      /\ uses \in [1..MaxCodes -> Nat] /\ lost \in Nat /\ k \in 1..MaxCodes
  BY <1>1 DEF IInv, CodeTypes, OwnersOK, CodeOps, Holding, Finite
<1>3. CASE /\ req' = [req EXCEPT ![s].op = "saved"] /\ uses' = [uses EXCEPT ![req[s].code] = @ + 1]
  <2>1. req' = [req EXCEPT ![s] = r] /\ uses' = [uses EXCEPT ![k] = @ + 1]
    BY <1>3
  <2>2. r.op = "saved" /\ r.u = req[s].u /\ r.code = k /\ Shaped(r)
    BY <1>2 DEF Shaped
  <2>3. /\ \A t \in Slots : req'[t] = IF t = s THEN r ELSE req[t]
        /\ uses' \in [1..MaxCodes -> Nat]
        /\ \A c \in 1..MaxCodes : uses'[c] = IF c = k THEN uses[c] + 1 ELSE uses[c]
    BY <1>2, <2>1
  <2> HIDE DEF r
  <2>4. CodeTypes'
    BY <1>1, <1>2, <2>1, <2>2, <2>3 DEF IInv, CodeTypes
  <2>5. OwnersOK'
    <3>1. \A c \in 1..MaxCodes : c > sent => uses'[c] = 0
      BY <1>2, <2>3 DEF IInv, OwnersOK
    <3> QED
      BY <1>1, <1>2, <2>2, <2>3, <3>1 DEF IInv, OwnersOK, CodeOps, Holding
  <2>6. ASSUME NEW c \in 1..MaxCodes PROVE CountsOK(c)'
    <3>1. /\ In(req[s], Holding, c) <=> c = k
          /\ ~In(r, Holding, c) /\ ~In(req[s], {"saved"}, c)
          /\ In(r, {"saved"}, c) <=> c = k
      BY <1>1, <2>2 DEF In, Holding
    <3>2. CountsOK(c) /\ uses[c] \in Nat /\ Cardinality(Slots) \in Nat
      BY <1>2, DoingFinite DEF IInv
    <3>3. CASE c = k
      <4>1. /\ Cardinality(Doing(Holding, c)) \in Nat
            /\ Cardinality(Doing(Holding, c))' = Cardinality(Doing(Holding, c)) - 1
        BY <1>2, <2>1, <3>1, <3>3, Counted
      <4>2. /\ Cardinality(Doing({"saved"}, c)) \in Nat
            /\ Cardinality(Doing({"saved"}, c))' = Cardinality(Doing({"saved"}, c)) + 1
        BY <1>2, <2>1, <3>1, <3>3, Counted
      <4>3. uses'[c] = uses[c] + 1 /\ lost \in Nat
        BY <1>2, <2>3, <3>3
      <4> QED
        BY <1>1, <3>2, <4>1, <4>2, <4>3 DEF CountsOK
    <3>4. CASE c # k
      <4>1. Cardinality(Doing(Holding, c))' = Cardinality(Doing(Holding, c))
        BY <1>2, <2>1, <3>1, <3>4, Counted
      <4>2. Cardinality(Doing({"saved"}, c))' = Cardinality(Doing({"saved"}, c))
        BY <1>2, <2>1, <3>1, <3>4, Counted
      <4>3. uses'[c] = uses[c]
        BY <2>3, <3>4
      <4> QED
        BY <1>1, <3>2, <4>1, <4>2, <4>3 DEF CountsOK
    <3> QED
      BY <3>3, <3>4
  <2> QED
    BY <2>4, <2>5, <2>6 DEF IInv
<1>4. CASE Done(s) /\ UNCHANGED uses
  <2>1. req' = [req EXCEPT ![s] = Idle] /\ UNCHANGED <<code, sent, uses, lost>>
    BY <1>1, <1>4 DEF Done
  <2> QED
    BY <1>1, <2>1, EndKeeps
<1> QED
  BY <1>3, <1>4 DEF SaveReset

\* The code goes: nobody can take it up again, whatever was done with it.
LEMMA SpendKeeps ==
    ASSUME Finite, IInv, NEW s \in Slots, SpendCode(s)
    PROVE  IInv'
<1> DEFINE k == req[s].code
           o == req[s].u
<1>1. /\ req[s].op = "saved" /\ code' = [code EXCEPT ![o] = 0] /\ req' = [req EXCEPT ![s] = Idle]
      /\ UNCHANGED <<sent, uses, lost>>
  BY DEF SpendCode, Done
<1>2. Idle.op = "idle" /\ Shaped(Idle)
  BY DEF Idle, Shaped
<1>3. /\ req = [t \in Slots |-> req[t]] /\ \A t \in Slots : req'[t] = IF t = s THEN Idle ELSE req[t]
      /\ o \in Accounts /\ k \in 1..sent /\ \A v \in Accounts : code[v] = k => v = o
      /\ sent \in 0..MaxCodes /\ code \in [Accounts -> 0..sent] /\ sent \in Nat
  BY <1>1 DEF IInv, CodeTypes, OwnersOK, CodeOps, Finite
<1>4. /\ code' \in [Accounts -> 0..sent]
      /\ \A v \in Accounts : code'[v] = IF v = o THEN 0 ELSE code[v]
  BY <1>1, <1>3
<1>5. CodeTypes'
  BY <1>1, <1>2, <1>3, <1>4 DEF IInv, CodeTypes
<1>6. OwnersOK'
  BY <1>1, <1>2, <1>3, <1>4 DEF IInv, OwnersOK, CodeOps, Holding
<1>7. ASSUME NEW c \in 1..MaxCodes PROVE CountsOK(c)'
  <2>1. ~In(req[s], Holding, c) /\ ~In(Idle, Holding, c) /\ ~In(Idle, {"saved"}, c)
    BY <1>1, <1>2 DEF In, Holding
  <2>2. Cardinality(Doing(Holding, c))' = Cardinality(Doing(Holding, c))
    BY <1>1, <1>3, <2>1, Counted
  <2>3. CountsOK(c)
    BY DEF IInv
  <2>4. CASE c = k
    <3>1. ~ \E v \in Accounts : code'[v] = c
      BY <1>3, <1>4, <2>4
    <3> QED
      BY <1>1, <2>2, <2>3, <3>1 DEF CountsOK
  <2>5. CASE c # k
    <3>1. ~In(req[s], {"saved"}, c)
      BY <2>5 DEF In
    <3>2. Cardinality(Doing({"saved"}, c))' = Cardinality(Doing({"saved"}, c))
      BY <1>1, <1>3, <2>1, <3>1, Counted
    <3>3. (\E v \in Accounts : code'[v] = c) => \E v \in Accounts : code[v] = c
      BY <1>4
    <3> QED
      BY <1>1, <2>2, <2>3, <3>2, <3>3 DEF CountsOK
  <2> QED
    BY <2>4, <2>5
<1> QED
  BY <1>5, <1>6, <1>7 DEF IInv

\* A handler that saved and stops before it deleted the code is one of lost.
LEMMA AbandonKeeps ==
    ASSUME Finite, IInv, NEW s \in Slots, Abandon(s)
    PROVE  IInv'
<1>1. /\ req' = [req EXCEPT ![s] = Idle] /\ UNCHANGED <<code, sent, uses>>
      /\ lost' = IF req[s].op = "saved" THEN lost + 1 ELSE lost
  BY DEF Abandon, Done
<1>2. CASE req[s].op # "saved"
  BY <1>1, <1>2, EndKeeps
<1>3. CASE req[s].op = "saved"
  <2>1. lost' = lost + 1 /\ lost \in Nat
    BY <1>1, <1>3 DEF IInv, CodeTypes
  <2>2. Idle.op = "idle" /\ Shaped(Idle)
    BY DEF Idle, Shaped
  <2>3. req = [t \in Slots |-> req[t]] /\ \A t \in Slots : req'[t] = IF t = s THEN Idle ELSE req[t]
    BY <1>1 DEF IInv, CodeTypes
  <2>4. CodeTypes'
    BY <1>1, <2>1, <2>2, <2>3 DEF IInv, CodeTypes
  <2>5. OwnersOK'
    BY <1>1, <2>2, <2>3 DEF IInv, OwnersOK, CodeOps, Holding
  <2>6. ASSUME NEW c \in 1..MaxCodes PROVE CountsOK(c)'
    <3>1. ~In(req[s], Holding, c) /\ ~In(Idle, Holding, c) /\ ~In(Idle, {"saved"}, c)
      BY <1>3, <2>2 DEF In, Holding
    <3>2. Cardinality(Doing(Holding, c))' = Cardinality(Doing(Holding, c))
      BY <1>1, <2>3, <3>1, Counted
    <3>3. /\ Cardinality(Doing({"saved"}, c)) \in Nat /\ Cardinality(Doing({"saved"}, c))' \in Nat
          /\ Cardinality(Doing({"saved"}, c))' >= Cardinality(Doing({"saved"}, c)) - 1
      BY <1>1, <2>3, <3>1, Counted
    <3>4. CountsOK(c) /\ uses[c] \in Nat /\ Cardinality(Slots) \in Nat
          /\ Cardinality(Doing(Holding, c)) \in Nat
      BY DoingFinite DEF IInv, CodeTypes
    <3> QED
      BY <1>1, <2>1, <3>2, <3>3, <3>4 DEF CountsOK
  <2> QED
    BY <2>4, <2>5, <2>6 DEF IInv
<1> QED
  BY <1>2, <1>3

\* A session is looked up or an edit begins, in a slot that was free.
LEMMA BeginKeeps ==
    ASSUME Finite, IInv, NEW s \in Slots, NEW u, NEW op, req[s] = Idle,
           op \in EditOps \cup {"session"},
           req' = [req EXCEPT ![s] = [Idle EXCEPT !.op = op, !.u = u, !.seen = row[u]]],
           UNCHANGED <<code, sent, uses, lost>>
    PROVE  IInv'
<1> DEFINE r == [Idle EXCEPT !.op = op, !.u = u, !.seen = row[u]]
<1>1. r.op = op /\ Idle.op = "idle" /\ Shaped(r)
  BY DEF Idle, Shaped
<1>2. req' = [req EXCEPT ![s] = r]
  OBVIOUS
<1> HIDE DEF r
<1>3. req[s].op \notin CodeOps /\ r.op \notin CodeOps
  BY <1>1 DEF CodeOps, Holding, EditOps
<1> QED
  BY <1>1, <1>2, <1>3, OtherKeeps

\* A session is kept or an edit is saved, and the slot is free again.
LEMMA CommitKeeps ==
    ASSUME Finite, IInv, NEW s \in Slots, req[s].op \in EditOps \cup {"session"}, Done(s),
           UNCHANGED <<code, sent, uses, lost>>
    PROVE  IInv'
<1>1. req' = [req EXCEPT ![s] = Idle] /\ req[s].op # "saved"
  BY DEF Done, EditOps
<1> QED
  BY <1>1, EndKeeps

-----------------------------------------------------------------------------
(* Every step, and the theorems.                                           *)

\* So does every step of Accounts.
LEMMA NextIInv == ASSUME Finite, IInv, [Next]_vars PROVE IInv'
<1>1. ASSUME NEW u \in Accounts, NEW ph, NEW pw,
             RegisterCustomer(u, ph, pw) \/ \E role \in Roles : Register(u, ph, role, pw)
      PROVE  IInv'
  BY <1>1, SameKeeps DEF Register, RegisterCustomer, Rest
<1>2. ASSUME NEW u \in Accounts, NEW role, allowRole(u, role) \/ TokenExpires(u, role)
      PROVE  IInv'
  BY <1>2, SameKeeps DEF allowRole, TokenExpires
<1>3. ASSUME NEW u \in Accounts,
             \/ \E b \in BOOLEAN : SetActive(u, b)
             \/ Login(u) \/ SessionExpires(u) \/ DeleteUser(u) \/ RestEnds(u)
      PROVE  IInv'
  BY <1>3, SameKeeps DEF SetActive, Login, SessionExpires, DeleteUser, RestEnds
<1>4. ASSUME NEW u \in Accounts, SendPasswordResetOTP(u) PROVE IInv'
  BY <1>4, SendKeeps
<1>5. ASSUME NEW u \in Accounts, CodeExpires(u) PROVE IInv'
  BY <1>5, ExpireKeeps
<1>6. ASSUME NEW s \in Slots, NEW u \in Accounts, NEW op \in EditOps, BeginEdit(s, u, op) PROVE IInv'
  BY <1>6, BeginKeeps DEF BeginEdit
<1>7. ASSUME NEW s \in Slots, NEW u \in Accounts, BeginGetSession(s, u) PROVE IInv'
  BY <1>7, BeginKeeps DEF BeginGetSession, Rest
<1>8. ASSUME NEW s \in Slots, NEW u \in Accounts, MatchCode(s, u) PROVE IInv'
  BY <1>8, MatchKeeps
<1>9. ASSUME NEW s \in Slots, NEW ph,
             UpdateCustomerProfile(s, ph) \/ \E role \in Roles : UpdateUser(s, ph, role)
      PROVE  IInv'
  BY <1>9, CommitKeeps DEF UpdateUser, UpdateCustomerProfile, CommitEdit, Rest, EditOps
<1>10. ASSUME NEW s \in Slots, NEW pw, ResetPassword(s, pw) \/ ChangePassword(s, pw) PROVE IInv'
  BY <1>10, CommitKeeps DEF ResetPassword, ChangePassword, CommitEdit, Rest, EditOps
<1>11. ASSUME NEW s \in Slots, ToggleUserActive(s) PROVE IInv'
  BY <1>11, CommitKeeps DEF ToggleUserActive, CommitEdit, Rest, EditOps
<1>12. ASSUME NEW s \in Slots, CommitGetSession(s) PROVE IInv'
  BY <1>12, CommitKeeps DEF CommitGetSession
<1>13. ASSUME NEW s \in Slots, NEW pw, SaveReset(s, pw) PROVE IInv'
  BY <1>13, SaveResetKeeps
<1>14. ASSUME NEW s \in Slots, ReadForReset(s) \/ SpendCode(s) \/ Abandon(s) PROVE IInv'
  BY <1>14, ReadKeeps, SpendKeeps, AbandonKeeps
<1>15. CASE UNCHANGED vars
  BY <1>15, SameKeeps DEF vars
<1> QED
  BY <1>1, <1>2, <1>3, <1>4, <1>5, <1>6, <1>7, <1>8, <1>9, <1>10, <1>11, <1>12, <1>13, <1>14,
     <1>15 DEF Next

\* The inductive invariant, for any number of handlers and of codes.
THEOREM AlwaysIInv == ASSUME Finite PROVE Spec => []IInv
<1>1. Init => IInv
  BY InitIInv
<1>2. IInv /\ [Next]_vars => IInv'
  BY NextIInv
<1> QED
  BY <1>1, <1>2, PTL DEF Spec

\* One reset code sets at most as many passwords as there are handlers at
\* once, and one more for each handler that stopped between saving a password
\* and deleting the code, with any number of accounts, handlers and codes.
THEOREM CodesNeverOverspent == ASSUME Finite PROVE Spec => []CodeSpentBounded
<1>1. IInv => CodeSpentBounded
  <2> SUFFICES ASSUME IInv, NEW c \in 1..sent
               PROVE  uses[c] <= Cardinality(Slots) + lost
    BY DEF CodeSpentBounded
  <2>1. c \in 1..MaxCodes /\ lost \in Nat /\ uses[c] \in Nat
    BY DEF IInv, CodeTypes, Finite
  <2>2. CountsOK(c)
    BY <2>1 DEF IInv
  <2>3. Cardinality(Doing(Holding, c)) \in Nat /\ Cardinality(Slots) \in Nat
    BY DoingFinite
  <2> QED
    BY <2>1, <2>2, <2>3 DEF CountsOK
<1> QED
  BY <1>1, AlwaysIInv, PTL

-----------------------------------------------------------------------------
(* Accounts: types.                                                        *)

\* What an edit, a session or a reset has read is a row that was live.
ReadsLive(r) == r.op \in EditOps \cup {"session", "confirm"} => r.seen.st = "live"
Request == [op : Ops, u : Accounts, seen : Rows, code : 0..MaxCodes]

AccountInv ==
    /\ IInv
    /\ TypeOK
    /\ \A s \in Slots : ReadsLive(req[s])

\* A handler that is at something holds a request.
LEMMA Busy ==
    ASSUME AccountInv, NEW s \in Slots, req[s].op # "idle"
    PROVE  /\ req[s] \in Request
           /\ req[s].u \in Accounts /\ req[s].seen \in Rows /\ req[s].code \in 0..MaxCodes
<1>1. req[s] \in Request \cup {Idle}
  BY DEF AccountInv, TypeOK, Request
<1>2. req[s] # Idle
  BY DEF Idle
<1> QED
  BY <1>1, <1>2 DEF Request

\* A live row stays a row under any edit.
LEMMA EditedRows ==
    ASSUME NEW r \in Rows, r.st = "live"
    PROVE  /\ \A ph \in Phones : [r EXCEPT !.phone = ph] \in Rows
           /\ [r EXCEPT !.phone = @] \in Rows
           /\ \A ph \in Phones, role \in Roles : [r EXCEPT !.phone = ph, !.role = role] \in Rows
           /\ \A role \in Roles : [r EXCEPT !.phone = @, !.role = role] \in Rows
           /\ [r EXCEPT !.active = ~@] \in Rows
           /\ \A b \in BOOLEAN : [r EXCEPT !.active = b] \in Rows
           /\ \A pw \in Passwords : [r EXCEPT !.pw = pw] \in Rows
           /\ [r EXCEPT !.st = "deleted"] \in Rows
           /\ r.role \in Roles /\ r.phone \in Phones
<1>0. r # NoRow
  <2>1. NoRow.st = "none"
    BY DEF NoRow
  <2> QED
    BY <2>1
<1>1. r \in [st : {"live", "deleted"}, phone : Phones, role : Roles, active : BOOLEAN, pw : Passwords]
  BY <1>0 DEF Rows
<1> QED
  BY <1>1 DEF Rows

\* A save leaves rows.
LEMMA SaveRows ==
    ASSUME TypeOK, NEW u \in Accounts, NEW r \in Rows
    PROVE  Save(u, r) \in [Accounts -> Rows]
BY DEF Save, TypeOK

\* A slot that is filled, or emptied.
LEMMA SlotFilled ==
    ASSUME AccountInv, NEW s \in Slots, NEW r \in Request \cup {Idle}, ReadsLive(r),
           req' = [req EXCEPT ![s] = r]
    PROVE  /\ req' \in [Slots -> Request \cup {Idle}]
           /\ \A t \in Slots : ReadsLive(req'[t])
<1>1. \A t \in Slots : req'[t] = IF t = s THEN r ELSE req[t]
  BY DEF AccountInv, TypeOK
<1> QED
  BY <1>1 DEF AccountInv, TypeOK, Request

\* An idle slot has read nothing.
LEMMA IdleLive == ReadsLive(Idle) /\ Idle.op = "idle"
BY DEF ReadsLive, Idle, EditOps

\* A slot as it is filled.
LEMMA ShapedRequest ==
    ASSUME NEW r, Shaped(r), r.op \in Ops, r.u \in Accounts, r.seen \in Rows, r.code \in 0..MaxCodes
    PROVE  r \in Request
<1>1. r = [op |-> r.op, u |-> r.u, seen |-> r.seen, code |-> r.code]
  BY DEF Shaped
<1> QED
  BY <1>1 DEF Request

\* The steps outside the slots,
RowStep(u) ==
    \/ \E ph \in Phones, pw \in Passwords :
          \/ \E role \in Roles : Register(u, ph, role, pw)
          \/ RegisterCustomer(u, ph, pw)
    \/ \E role \in Roles : allowRole(u, role) \/ TokenExpires(u, role)
    \/ \E b \in BOOLEAN : SetActive(u, b)
    \/ Login(u) \/ SessionExpires(u) \/ DeleteUser(u)
    \/ SendPasswordResetOTP(u) \/ CodeExpires(u) \/ RestEnds(u)

\* and those of the handlers.
HandlerStep(s) ==
    \/ \E u \in Accounts :
          \/ \E op \in EditOps : BeginEdit(s, u, op)
          \/ BeginGetSession(s, u) \/ MatchCode(s, u)
    \/ \E ph \in Phones :
          \/ \E role \in Roles : UpdateUser(s, ph, role)
          \/ UpdateCustomerProfile(s, ph)
    \/ \E pw \in Passwords : ResetPassword(s, pw) \/ ChangePassword(s, pw) \/ SaveReset(s, pw)
    \/ ToggleUserActive(s) \/ CommitGetSession(s) \/ ReadForReset(s) \/ SpendCode(s)
    \/ Abandon(s)

\* The steps outside the slots keep the types.
LEMMA RowTypes ==
    ASSUME Finite, FrontAssumption, AccountInv, IInv', NEW u \in Accounts,
           RowStep(u)
    PROVE  AccountInv'
<1>0. /\ TypeOK /\ row[u] \in Rows
      /\ MaxCodes \in Nat /\ MaxEdits \in Nat /\ MaxRenewals \in Nat /\ MaxLost \in Nat
      /\ Customer \in Roles
  BY FrontAssumption DEF AccountInv, TypeOK
<1>1. req' = req
  BY DEF RowStep, Register, RegisterCustomer, allowRole, TokenExpires, SetActive, Login, SessionExpires,
         DeleteUser, SendPasswordResetOTP, CodeExpires, RestEnds
<1>2. \A s \in Slots : ReadsLive(req'[s])
  BY <1>1 DEF AccountInv
<1>3. ASSUME NEW ph \in Phones, NEW pw \in Passwords, NEW role \in Roles,
             Register(u, ph, role, pw) \/ RegisterCustomer(u, ph, pw)
      PROVE  TypeOK'
  <2>1. \A q \in Roles :
          [st |-> "live", phone |-> ph, role |-> q, active |-> TRUE, pw |-> pw] \in Rows
    BY DEF Rows
  <2>0. row \in [Accounts -> Rows] /\ tokens \in [Accounts -> SUBSET Roles]
    BY <1>0 DEF TypeOK
  <2>2. row' \in [Accounts -> Rows]
    BY <1>0, <1>3, <2>0, <2>1 DEF Register, RegisterCustomer
  <2>3. tokens' \in [Accounts -> SUBSET Roles]
    BY <1>0, <1>3, <2>0 DEF Register, RegisterCustomer, Rest
  <2>4. UNCHANGED <<code, resting, session, sent, uses, lost, edits, renewals, req>>
    BY <1>3 DEF Register, RegisterCustomer, Rest
  <2> QED
    BY <1>0, <2>2, <2>3, <2>4 DEF TypeOK
<1>4. ASSUME NEW ph \in Phones, NEW pw \in Passwords, RegisterCustomer(u, ph, pw) PROVE TypeOK'
  BY <1>0, <1>3, <1>4
<1>5. ASSUME NEW role \in Roles, allowRole(u, role) \/ TokenExpires(u, role) PROVE TypeOK'
  <2>1. tokens' \in [Accounts -> SUBSET Roles]
    BY <1>0, <1>5 DEF allowRole, TokenExpires, TypeOK
  <2>2. renewals' \in 0..MaxRenewals
    BY <1>0, <1>5 DEF allowRole, TokenExpires, TypeOK
  <2>3. UNCHANGED <<row, code, resting, session, sent, uses, lost, edits, req>>
    BY <1>5 DEF allowRole, TokenExpires
  <2> QED
    BY <1>0, <2>1, <2>2, <2>3 DEF TypeOK
<1>6. ASSUME NEW b \in BOOLEAN, SetActive(u, b) PROVE TypeOK'
  <2>1. [row[u] EXCEPT !.active = b] \in Rows
    BY <1>0, <1>6, EditedRows DEF SetActive, Live
  <2> QED
    BY <1>0, <1>6, <2>1 DEF SetActive, TypeOK
<1>7. ASSUME Login(u) PROVE TypeOK'
  <2>1. row[u].role \in Roles
    BY <1>0, <1>7, EditedRows DEF Login, LoginAccepts, Live
  <2> QED
    BY <1>0, <1>7, <2>1 DEF Login, TypeOK
<1>8. ASSUME DeleteUser(u) PROVE TypeOK'
  <2>1. [row[u] EXCEPT !.st = "deleted"] \in Rows
    BY <1>0, <1>8, EditedRows DEF DeleteUser, Live
  <2> QED
    BY <1>0, <1>8, <2>1 DEF DeleteUser, TypeOK
<1>9. ASSUME SessionExpires(u) \/ SendPasswordResetOTP(u) \/ CodeExpires(u) \/ RestEnds(u)
      PROVE  TypeOK'
  <2>1. session' \in [Accounts -> Roles \cup {NoRole}]
    BY <1>0, <1>9 DEF SessionExpires, SendPasswordResetOTP, CodeExpires, RestEnds, TypeOK
  <2>2. sent' \in 0..MaxCodes
    BY <1>0, <1>9 DEF SessionExpires, SendPasswordResetOTP, CodeExpires, RestEnds, TypeOK
  <2>3. code' \in [Accounts -> 0..MaxCodes]
    BY <1>0, <1>9 DEF SessionExpires, SendPasswordResetOTP, CodeExpires, RestEnds, TypeOK
  <2>4. resting' \subseteq Accounts
    BY <1>0, <1>9 DEF SessionExpires, SendPasswordResetOTP, CodeExpires, RestEnds, TypeOK
  <2>5. UNCHANGED <<row, tokens, uses, lost, edits, renewals, req>>
    BY <1>9 DEF SessionExpires, SendPasswordResetOTP, CodeExpires, RestEnds
  <2> QED
    BY <1>0, <2>1, <2>2, <2>3, <2>4, <2>5 DEF TypeOK
<1>10. TypeOK'
  BY <1>3, <1>4, <1>5, <1>6, <1>7, <1>8, <1>9 DEF RowStep
<1> QED
  BY <1>2, <1>10 DEF AccountInv

\* A row is written back, and the slot is free again.
LEMMA CommitTypes ==
    ASSUME AccountInv, IInv', NEW s \in Slots, req[s].op # "idle", NEW r \in Rows, CommitEdit(s, r)
    PROVE  AccountInv'
<1>1. req[s].u \in Accounts
  BY Busy
<1>2. row' \in [Accounts -> Rows]
  BY <1>1, SaveRows DEF AccountInv, CommitEdit
<1>3. /\ req' \in [Slots -> Request \cup {Idle}]
      /\ \A t \in Slots : ReadsLive(req'[t])
  BY IdleLive, SlotFilled DEF CommitEdit, Done
<1> QED
  BY <1>2, <1>3 DEF AccountInv, CommitEdit, Rest, TypeOK, Request

\* So do the steps of the handlers.
LEMMA HandlerTypes ==
    ASSUME Finite, FrontAssumption, AccountInv, IInv', NEW s \in Slots,
           HandlerStep(s)
    PROVE  AccountInv'
<1>0. /\ TypeOK /\ ReadsLive(req[s]) /\ MaxCodes \in Nat /\ MaxEdits \in Nat /\ MaxLost \in Nat
      /\ NoRow \in Rows
  BY FrontAssumption DEF AccountInv, Rows
<1>1. ASSUME NEW u \in Accounts, NEW op \in EditOps \cup {"session"}, Live(u),
             req' = [req EXCEPT ![s] = [Idle EXCEPT !.op = op, !.u = u, !.seen = row[u]]],
             UNCHANGED <<row, code, resting, session, tokens, sent, uses, lost, renewals>>,
             edits' \in 0..MaxEdits
      PROVE  AccountInv'
  <2> DEFINE r == [Idle EXCEPT !.op = op, !.u = u, !.seen = row[u]]
  <2>1. row[u] \in Rows /\ row[u].st = "live" /\ op \in Ops
    BY <1>0, <1>1 DEF TypeOK, Live, Ops
  <2>2. r \in Request /\ ReadsLive(r)
    <3>1. r.op = op /\ r.u = u /\ r.seen = row[u] /\ r.code = 0 /\ Shaped(r)
      BY DEF Idle, Shaped
    <3> HIDE DEF r
    <3> QED
      BY <1>0, <2>1, <3>1, ShapedRequest DEF ReadsLive
  <2>3. req' = [req EXCEPT ![s] = r]
    BY <1>1
  <2> HIDE DEF r
  <2>4. req' \in [Slots -> Request \cup {Idle}] /\ \A t \in Slots : ReadsLive(req'[t])
    BY <2>2, <2>3, SlotFilled
  <2> QED
    BY <1>0, <1>1, <2>4 DEF AccountInv, TypeOK, Request
<1>2. ASSUME NEW u \in Accounts, NEW op \in EditOps, BeginEdit(s, u, op) PROVE AccountInv'
  <2>1. edits' \in 0..MaxEdits
    BY <1>0, <1>2 DEF BeginEdit, TypeOK
  <2> QED
    BY <1>1, <1>2, <2>1 DEF BeginEdit
<1>3. ASSUME NEW u \in Accounts, BeginGetSession(s, u) PROVE AccountInv'
  BY <1>0, <1>1, <1>3 DEF BeginGetSession, Rest, TypeOK
<1>4. ASSUME NEW u \in Accounts, MatchCode(s, u) PROVE AccountInv'
  <2> DEFINE r == [Idle EXCEPT !.op = "matched", !.u = u, !.code = code[u]]
  <2>1. r \in Request /\ ReadsLive(r)
    <3>1. r.op = "matched" /\ r.u = u /\ r.seen = NoRow /\ r.code = code[u] /\ Shaped(r)
      BY DEF Idle, Shaped
    <3>2. code[u] \in 0..MaxCodes /\ "matched" \in Ops
      BY <1>0 DEF TypeOK, Ops
    <3> HIDE DEF r
    <3> QED
      BY <1>0, <3>1, <3>2, ShapedRequest DEF ReadsLive, EditOps
  <2>2. req' = [req EXCEPT ![s] = r] /\ UNCHANGED <<row, Rest>>
    BY <1>4 DEF MatchCode
  <2> HIDE DEF r
  <2>3. req' \in [Slots -> Request \cup {Idle}] /\ \A t \in Slots : ReadsLive(req'[t])
    BY <2>1, <2>2, SlotFilled
  <2> QED
    BY <1>0, <2>2, <2>3 DEF AccountInv, TypeOK, Request, Rest
<1>5. ASSUME req[s].op \in EditOps \cup {"session", "confirm"}
      PROVE  req[s] \in Request /\ req[s].u \in Accounts /\ req[s].seen \in Rows /\ req[s].seen.st = "live"
  <2>1. req[s].op # "idle"
    BY <1>5 DEF EditOps
  <2> QED
    BY <1>0, <1>5, <2>1, Busy DEF ReadsLive
<1>6. ASSUME NEW ph \in Phones, NEW role \in Roles, UpdateUser(s, ph, role) PROVE AccountInv'
  <2>1. req[s].op = "update"
    BY <1>6 DEF UpdateUser
  <2>2. [req[s].seen EXCEPT !.phone = IF ph = NoPhone THEN @ ELSE ph, !.role = role] \in Rows
    BY <1>5, <2>1, EditedRows DEF EditOps
  <2> QED
    BY <1>6, <2>1, <2>2, CommitTypes DEF UpdateUser
<1>7. ASSUME NEW ph \in Phones, UpdateCustomerProfile(s, ph) PROVE AccountInv'
  <2>1. req[s].op = "profile"
    BY <1>7 DEF UpdateCustomerProfile
  <2>2. [req[s].seen EXCEPT !.phone = IF ph = NoPhone THEN @ ELSE ph] \in Rows
    BY <1>5, <2>1, EditedRows DEF EditOps
  <2> QED
    BY <1>7, <2>1, <2>2, CommitTypes DEF UpdateCustomerProfile
<1>8. ASSUME NEW pw \in Passwords, ResetPassword(s, pw) \/ ChangePassword(s, pw) PROVE AccountInv'
  <2>1. req[s].op \in {"reset", "change"} /\ CommitEdit(s, [req[s].seen EXCEPT !.pw = pw])
    BY <1>8 DEF ResetPassword, ChangePassword
  <2>2. [req[s].seen EXCEPT !.pw = pw] \in Rows
    BY <1>5, <2>1, EditedRows DEF EditOps
  <2> QED
    BY <2>1, <2>2, CommitTypes
<1>9. ASSUME ToggleUserActive(s) PROVE AccountInv'
  <2>1. req[s].op = "toggle" /\ CommitEdit(s, [req[s].seen EXCEPT !.active = ~@])
    BY <1>9 DEF ToggleUserActive
  <2>2. [req[s].seen EXCEPT !.active = ~@] \in Rows
    BY <1>5, <2>1, EditedRows DEF EditOps
  <2> QED
    BY <2>1, <2>2, CommitTypes
<1>10. ASSUME Done(s) PROVE req' \in [Slots -> Request \cup {Idle}] /\ \A t \in Slots : ReadsLive(req'[t])
  BY <1>10, IdleLive, SlotFilled DEF Done
<1>11. ASSUME NEW pw \in Passwords, SaveReset(s, pw) PROVE AccountInv'
  <2>1. req[s].op = "confirm"
    BY <1>11 DEF SaveReset
  <2>2. req[s] \in Request /\ req[s].u \in Accounts /\ req[s].seen \in Rows /\ req[s].seen.st = "live"
    BY <1>5, <2>1
  <2>3. [req[s].seen EXCEPT !.pw = pw] \in Rows
    BY <2>2, EditedRows
  <2>4. row' \in [Accounts -> Rows]
    BY <1>0, <1>11, <2>2, <2>3, SaveRows DEF SaveReset
  <2> DEFINE r == [req[s] EXCEPT !.op = "saved"]
  <2>5. r \in Request /\ ReadsLive(r)
    BY <2>2 DEF Request, ReadsLive, Ops, EditOps
  <2>6. req' = [req EXCEPT ![s] = r] \/ Done(s)
    BY <1>11 DEF SaveReset
  <2> HIDE DEF r
  <2>7. req' \in [Slots -> Request \cup {Idle}] /\ \A t \in Slots : ReadsLive(req'[t])
    BY <1>10, <2>5, <2>6, SlotFilled
  <2>8. uses' \in [1..MaxCodes -> Nat]
    BY DEF IInv, CodeTypes
  <2> QED
    BY <1>0, <1>11, <2>4, <2>7, <2>8 DEF AccountInv, SaveReset, TypeOK, Request
<1>12. ASSUME CommitGetSession(s) PROVE AccountInv'
  <2>1. req[s].op = "session"
    BY <1>12 DEF CommitGetSession
  <2>2. req[s].u \in Accounts /\ req[s].seen.role \in Roles
    BY <1>5, <2>1, EditedRows
  <2>3. session' \in [Accounts -> Roles \cup {NoRole}]
    BY <1>0, <1>12, <2>2 DEF CommitGetSession, TypeOK
  <2> QED
    BY <1>0, <1>10, <1>12, <2>3 DEF AccountInv, CommitGetSession, TypeOK, Request
<1>13. ASSUME ReadForReset(s) PROVE AccountInv'
  <2> DEFINE r == [req[s] EXCEPT !.op = "confirm", !.seen = row[req[s].u]]
  <2>1. req[s].op = "matched" /\ row[req[s].u].st = "live"
    BY <1>13 DEF ReadForReset, Live
  <2>2. req[s] \in Request /\ req[s].u \in Accounts
    BY <2>1, Busy
  <2>3. row[req[s].u] \in Rows
    BY <1>0, <2>2 DEF TypeOK
  <2>4. r \in Request /\ ReadsLive(r)
    BY <2>1, <2>2, <2>3 DEF Request, ReadsLive, Ops
  <2>5. req' = [req EXCEPT ![s] = r] /\ UNCHANGED <<row, Rest>>
    BY <1>13 DEF ReadForReset
  <2> HIDE DEF r
  <2>6. req' \in [Slots -> Request \cup {Idle}] /\ \A t \in Slots : ReadsLive(req'[t])
    BY <2>4, <2>5, SlotFilled
  <2> QED
    BY <1>0, <2>5, <2>6 DEF AccountInv, TypeOK, Request, Rest
<1>14. ASSUME SpendCode(s) PROVE AccountInv'
  <2>1. code' \in [Accounts -> 0..MaxCodes] /\ resting' \subseteq Accounts
    <3>1. code \in [Accounts -> 0..MaxCodes] /\ resting \subseteq Accounts /\ 0 \in 0..MaxCodes
      BY <1>0 DEF TypeOK
    <3>2. code' = [code EXCEPT ![req[s].u] = 0] /\ resting' = resting \ {req[s].u}
      BY <1>14 DEF SpendCode
    <3> QED
      BY <3>1, <3>2
  <2>2. Done(s) /\ UNCHANGED <<row, session, tokens, sent, uses, lost, edits, renewals>>
    BY <1>14 DEF SpendCode
  <2> QED
    BY <1>0, <1>10, <2>1, <2>2 DEF AccountInv, TypeOK, Request
<1>15. ASSUME Abandon(s) PROVE AccountInv'
  <2>1. lost' \in 0..MaxLost
    BY <1>0, <1>15 DEF Abandon, TypeOK
  <2> QED
    BY <1>0, <1>10, <1>15, <2>1 DEF AccountInv, Abandon, TypeOK, Request
<1> QED
  BY <1>2, <1>3, <1>4, <1>6, <1>7, <1>8, <1>9, <1>11, <1>12, <1>13, <1>14, <1>15 DEF HandlerStep

\* The types hold at first,
LEMMA InitAccounts ==
    ASSUME Finite, FrontAssumption, Init
    PROVE  AccountInv
<1>1. IInv
  BY InitIInv
<1>2. /\ MaxCodes \in Nat /\ MaxEdits \in Nat /\ MaxRenewals \in Nat /\ MaxLost \in Nat
      /\ NoRow \in Rows
  BY FrontAssumption DEF Rows
<1>3. TypeOK
  BY <1>2 DEF Init, TypeOK
<1> QED
  BY <1>1, <1>3, IdleLive DEF AccountInv, Init

\* and every step keeps them.
LEMMA NextAccounts ==
    ASSUME Finite, FrontAssumption, AccountInv, [Next]_vars
    PROVE  AccountInv'
<1>1. IInv'
  BY NextIInv DEF AccountInv
<1>2. CASE UNCHANGED vars
  BY <1>1, <1>2 DEF vars, AccountInv, TypeOK
<1> QED
  BY <1>1, <1>2, RowTypes, HandlerTypes DEF Next, RowStep, HandlerStep

-----------------------------------------------------------------------------
(* The address book.                                                       *)

\* A book A is a function from addresses to rows; u says that the customer took
\* the mark off the default.
LiveIn(A) == {a \in Addresses : A[a].st = "live"}
MarkedIn(A) == {a \in LiveIn(A) : A[a].default}

\* What a customer with addresses may expect between two requests.
Tidy(A, u) ==
    /\ \A a, b \in MarkedIn(A) : a = b
    /\ LiveIn(A) # {} /\ ~u => MarkedIn(A) # {}

\* What a handler is about to write: a live row, which is the default whenever
\* the others are to lose their mark first.
WritesLive(r) ==
    /\ r.op = "save" => r.a \in Addresses /\ r.row.st = "live"
    /\ r.op = "delete" => r.a \in Addresses
    /\ r.op = "save" /\ r.unset => r.row.default
    /\ r.op = "idle" => r = B!Idle

\* How far a handler that runs alone has come: nothing else is marked when it
\* saves a default, and before that the book is as it found it.
OnItsWay(r, A, u) ==
    /\ r.op = "save" /\ ~r.unset /\ r.row.default => MarkedIn(A) \subseteq {r.a}
    /\ r.op = "save" /\ ~r.row.default => Tidy(A, u) /\ LiveIn(A) # {}
    /\ r.op = "save" /\ r.unset => Tidy(A, u)
    /\ r.op = "delete" => Tidy(A, u) /\ r.a \in LiveIn(A) /\ r.row = A[r.a]

AddressInv ==
    /\ B!TypeOK
    /\ \A s \in Slots : WritesLive(addressReq[s])
    /\ ~torn =>
          /\ \A s, t \in Slots : addressReq[s] # B!Idle /\ addressReq[t] # B!Idle => s = t
          /\ (\A s \in Slots : addressReq[s] = B!Idle) => Tidy(address, unticked)
          /\ \A s \in Slots : OnItsWay(addressReq[s], address, unticked)

\* An idle slot writes nothing.
LEMMA AddressIdle ==
    ASSUME NEW A, NEW u
    PROVE  B!Idle.op = "idle" /\ WritesLive(B!Idle) /\ OnItsWay(B!Idle, A, u)
BY DEF B!Idle, WritesLive, OnItsWay

\* The instance counts as everyone does.
LEMMA SameCount == \A S : B!Cardinality(S) = Cardinality(S)
BY Zenon DEF B!Cardinality, Cardinality

\* The number of a new address is at most the number of addresses.
LEMMA BornTypes ==
    ASSUME FrontAssumption
    PROVE  /\ B!Cardinality({b \in Addresses : address[b].st # "none"}) \in 0..B!Cardinality(Addresses)
           /\ 0 \in 0..B!Cardinality(Addresses)
<1>1. IsFiniteSet(Addresses)
  BY DEF FrontAssumption
<1> DEFINE S == {b \in Addresses : address[b].st # "none"}
<1>2. S \in SUBSET Addresses
  OBVIOUS
<1> HIDE DEF S
<1>3. IsFiniteSet(S) /\ Cardinality(S) <= Cardinality(Addresses)
  BY <1>1, <1>2, FS_Subset
<1>4. Cardinality(S) \in Nat /\ Cardinality(Addresses) \in Nat
  BY <1>1, <1>3, FS_CardinalityType
<1>5. B!Cardinality(S) = Cardinality(S) /\ B!Cardinality(Addresses) = Cardinality(Addresses)
  BY SameCount
<1> QED
  BY <1>3, <1>4, <1>5 DEF S

\* Types of a book request.
AddressRequest ==
    [op : {"idle", "save", "delete"}, a : Addresses \cup {NoAddress}, row : B!Rows, unset : BOOLEAN]

\* The types of the book, without the shape of a row.
LEMMA AddressTypes ==
    ASSUME B!TypeOK
    PROVE  /\ address \in [Addresses -> B!Rows] /\ addressReq \in [Slots -> AddressRequest]
           /\ unticked \in BOOLEAN /\ torn \in BOOLEAN
BY DEF B!TypeOK, AddressRequest

\* A slot that is filled, or emptied.
LEMMA AddressSlot ==
    ASSUME AddressInv, NEW s \in Slots, NEW r \in AddressRequest, WritesLive(r),
           addressReq' = [addressReq EXCEPT ![s] = r]
    PROVE  /\ addressReq' \in [Slots -> AddressRequest]
           /\ \A t \in Slots : addressReq'[t] = IF t = s THEN r ELSE addressReq[t]
           /\ \A t \in Slots : WritesLive(addressReq'[t])
<1>1. addressReq \in [Slots -> AddressRequest] /\ \A t \in Slots : WritesLive(addressReq[t])
  BY AddressTypes DEF AddressInv
<1> QED
  BY <1>1

\* Types, put together.
LEMMA AddressTyped ==
    ASSUME address' \in [Addresses -> B!Rows], addressReq' \in [Slots -> AddressRequest],
           unticked' \in BOOLEAN, torn' \in BOOLEAN
    PROVE  B!TypeOK'
BY DEF B!TypeOK, AddressRequest, B!Rows

\* A handler that goes on, alone or in a torn book.
LEMMA AddressStep ==
    ASSUME AddressInv, NEW s \in Slots, NEW r \in AddressRequest, WritesLive(r),
           addressReq' = [addressReq EXCEPT ![s] = r],
           address' \in [Addresses -> B!Rows], unticked' \in BOOLEAN, torn' \in BOOLEAN,
           ~torn' => /\ B!Alone(s)
                     /\ r = B!Idle => Tidy(address', unticked')
                     /\ OnItsWay(r, address', unticked')
    PROVE  AddressInv'
<1>1. /\ addressReq' \in [Slots -> AddressRequest]
      /\ \A t \in Slots : addressReq'[t] = IF t = s THEN r ELSE addressReq[t]
      /\ \A t \in Slots : WritesLive(addressReq'[t])
  BY AddressSlot
<1>2. ASSUME ~torn' PROVE \A t \in Slots \ {s} : addressReq'[t] = B!Idle
  BY <1>1, <1>2 DEF B!Alone
<1>3. ASSUME ~torn' PROVE \A t, v \in Slots : addressReq'[t] # B!Idle /\ addressReq'[v] # B!Idle => t = v
  BY <1>2, <1>3
<1>4. ASSUME ~torn', \A t \in Slots : addressReq'[t] = B!Idle PROVE Tidy(address', unticked')
  BY <1>1, <1>4
<1>5. ASSUME ~torn', NEW t \in Slots PROVE OnItsWay(addressReq'[t], address', unticked')
  BY <1>1, <1>2, <1>5, AddressIdle
<1>6. B!TypeOK'
  BY <1>1, AddressTyped
<1> QED
  BY <1>1, <1>3, <1>4, <1>5, <1>6 DEF AddressInv

\* A handler begins.  If another is running the book is torn, otherwise this
\* one found it tidy.
LEMMA AddressBegin ==
    ASSUME AddressInv, NEW s \in Slots, NEW r \in AddressRequest, WritesLive(r),
           B!Begin(s, r), Tidy(address, unticked) => OnItsWay(r, address, unticked),
           r.op # "idle", UNCHANGED <<address, unticked>>
    PROVE  AddressInv'
<1>1. /\ addressReq[s] = B!Idle /\ addressReq' = [addressReq EXCEPT ![s] = r]
      /\ torn' = (torn \/ ~B!Alone(s))
  BY DEF B!Begin
<1>2. address \in [Addresses -> B!Rows] /\ unticked \in BOOLEAN /\ torn \in BOOLEAN
  BY AddressTypes DEF AddressInv
<1>3. torn' \in BOOLEAN
  BY <1>1, <1>2
<1>4. ASSUME ~torn' PROVE ~torn /\ B!Alone(s) /\ \A t \in Slots : addressReq[t] = B!Idle
  BY <1>1, <1>4 DEF B!Alone
<1>5. ASSUME ~torn' PROVE B!Alone(s) /\ OnItsWay(r, address', unticked')
  BY <1>4, <1>5 DEF AddressInv
<1>6. r # B!Idle
  BY AddressIdle
<1> QED
  BY <1>1, <1>2, <1>3, <1>5, <1>6, AddressStep

\* In a book that is not torn, a handler that runs is alone.
LEMMA AddressAlone ==
    ASSUME AddressInv, NEW s \in Slots, addressReq[s] # B!Idle, ~torn
    PROVE  B!Alone(s) /\ OnItsWay(addressReq[s], address, unticked)
BY DEF AddressInv, B!Alone

\* The empty row and the empty request have their types.
LEMMA IdleTypes ==
    ASSUME FrontAssumption
    PROVE  B!NoRow \in B!Rows /\ B!Idle \in AddressRequest
<1>1. B!NoRow \in B!Rows
  BY BornTypes DEF B!NoRow, B!Rows
<1> QED
  BY <1>1 DEF B!Idle, AddressRequest

\* Create inserts a row the user did not have, marked if it is the first.
LEMMA AddressCreate ==
    ASSUME FrontAssumption, AddressInv, NEW s \in Slots, NEW a \in Addresses,
           NEW isDefault \in BOOLEAN, B!Create(s, a, isDefault)
    PROVE  AddressInv'
<1>0. PICK mark \in {isDefault \/ B!List = {}, TRUE} :
         /\ B!Begin(s, [op |-> "save", a |-> a, unset |-> mark,
                        row |-> [st |-> "live", default |-> mark,
                                 born |-> B!Cardinality({b \in Addresses : address[b].st # "none"})]])
         /\ UNCHANGED <<address, unticked>>
  BY DEF B!Create
<1> DEFINE row0 == [st |-> "live", default |-> mark,
                    born |-> B!Cardinality({b \in Addresses : address[b].st # "none"})]
           r == [op |-> "save", a |-> a, unset |-> mark, row |-> row0]
<1>1. B!Begin(s, r) /\ UNCHANGED <<address, unticked>>
  BY <1>0
<1>2. mark \in BOOLEAN
  BY <1>0
<1>3. row0 \in B!Rows
  BY <1>2, BornTypes DEF B!Rows
<1>4. r \in AddressRequest
  BY <1>2, <1>3 DEF AddressRequest
<1>5. WritesLive(r)
  BY DEF WritesLive
<1>6. mark = FALSE => LiveIn(address) # {}
  BY <1>0 DEF B!List, LiveIn
<1>7. Tidy(address, unticked) => OnItsWay(r, address, unticked)
  BY <1>6 DEF OnItsWay
<1>8. r.op # "idle"
  OBVIOUS
<1> QED
  BY <1>1, <1>4, <1>5, <1>7, <1>8, AddressBegin

\* Update copies the row it read.
LEMMA AddressUpdate ==
    ASSUME AddressInv, NEW s \in Slots, NEW a \in Addresses,
           NEW isDefault \in BOOLEAN, B!Update(s, a, isDefault)
    PROVE  AddressInv'
<1> DEFINE row0 == [address[a] EXCEPT !.default = isDefault]
           r == [op |-> "save", a |-> a, row |-> row0, unset |-> isDefault /\ ~address[a].default]
<1>1. B!Begin(s, r) /\ UNCHANGED <<address, unticked>> /\ a \in LiveIn(address)
  BY DEF B!Update, B!List, LiveIn
<1>2. address[a] \in B!Rows
  BY AddressTypes DEF AddressInv
<1>3. row0 \in B!Rows /\ row0.st = "live" /\ row0.default = isDefault /\ address[a].default \in BOOLEAN
  BY <1>1, <1>2 DEF B!Rows, LiveIn
<1> HIDE DEF row0
<1>4. r \in AddressRequest
  BY <1>3 DEF AddressRequest
<1>5. WritesLive(r)
  BY <1>3 DEF WritesLive
<1>6. Tidy(address, unticked) => OnItsWay(r, address, unticked)
  BY <1>1, <1>3 DEF OnItsWay, Tidy, MarkedIn
<1>7. r.op # "idle"
  OBVIOUS
<1> QED
  BY <1>1, <1>4, <1>5, <1>6, <1>7, AddressBegin

\* Delete first looks the row up.
LEMMA AddressBeginDelete ==
    ASSUME AddressInv, NEW s \in Slots, NEW a \in Addresses, B!BeginDelete(s, a)
    PROVE  AddressInv'
<1> DEFINE r == [op |-> "delete", a |-> a, row |-> address[a], unset |-> FALSE]
<1>1. B!Begin(s, r) /\ UNCHANGED <<address, unticked>> /\ a \in LiveIn(address)
  BY DEF B!BeginDelete, B!List, LiveIn
<1>2. address[a] \in B!Rows
  BY AddressTypes DEF AddressInv
<1>3. r \in AddressRequest /\ WritesLive(r) /\ r.op # "idle"
  BY <1>2 DEF AddressRequest, WritesLive
<1>4. Tidy(address, unticked) => OnItsWay(r, address, unticked)
  BY <1>1 DEF OnItsWay
<1> QED
  BY <1>1, <1>3, <1>4, AddressBegin

\* The statement clears every mark; the row that gets it follows.  If it fails
\* the book is torn.
LEMMA AddressUnset ==
    ASSUME AddressInv, NEW s \in Slots, B!UnsetOthers(s)
    PROVE  AddressInv'
<1> DEFINE r == [addressReq[s] EXCEPT !.unset = FALSE]
<1>1. /\ addressReq[s].op = "save" /\ addressReq[s].unset
      /\ addressReq' = [addressReq EXCEPT ![s] = r] /\ unticked' = unticked
  BY DEF B!UnsetOthers
<1>2. /\ address \in [Addresses -> B!Rows] /\ addressReq[s] \in AddressRequest
      /\ unticked \in BOOLEAN
  BY AddressTypes DEF AddressInv
<1>3. /\ r \in AddressRequest /\ r.op = "save" /\ r.unset = FALSE
      /\ r.row = addressReq[s].row /\ r.a = addressReq[s].a
  BY <1>1, <1>2 DEF AddressRequest
<1>4. WritesLive(addressReq[s])
  BY DEF AddressInv
<1>5. WritesLive(r) /\ r.row.default /\ r # B!Idle
  BY <1>1, <1>3, <1>4, AddressIdle DEF WritesLive
<1> HIDE DEF r
<1>6. CASE torn' = TRUE /\ address' = address
  BY <1>1, <1>2, <1>3, <1>5, <1>6, AddressStep
<1>7. CASE /\ address' = [a \in Addresses |->
                 IF a \in B!List THEN [address[a] EXCEPT !.default = FALSE] ELSE address[a]]
           /\ torn' = ~B!Alone(s)
  <2>1. address' \in [Addresses -> B!Rows]
    BY <1>2, <1>7 DEF B!Rows
  <2>2. MarkedIn(address') = {}
    BY <1>2, <1>7 DEF MarkedIn, LiveIn, B!List, B!Rows
  <2>3. OnItsWay(r, address', unticked')
    BY <1>3, <1>5, <2>2 DEF OnItsWay
  <2>4. torn' \in BOOLEAN
    BY <1>7 DEF B!Alone
  <2> QED
    BY <1>1, <1>2, <1>3, <1>5, <1>7, <2>1, <2>3, <2>4, AddressStep
<1>8. \/ torn' = TRUE /\ address' = address
      \/ /\ address' = [a \in Addresses |->
                 IF a \in B!List THEN [address[a] EXCEPT !.default = FALSE] ELSE address[a]]
         /\ torn' = ~B!Alone(s)
  BY DEF B!UnsetOthers
<1> QED
  BY <1>6, <1>7, <1>8

\* The save that follows puts the one mark, or none.
LEMMA AddressSave ==
    ASSUME FrontAssumption, AddressInv, NEW s \in Slots, B!SaveRow(s)
    PROVE  AddressInv'
<1> DEFINE q == addressReq[s]
<1>1. /\ q.op = "save" /\ ~q.unset
      /\ address' = [address EXCEPT ![q.a] = q.row]
      /\ unticked' = IF q.row.default THEN FALSE ELSE unticked \/ address[q.a].default
      /\ addressReq' = [addressReq EXCEPT ![s] = B!Idle]
      /\ torn' = torn
  BY DEF B!SaveRow
<1>2. /\ address \in [Addresses -> B!Rows] /\ q \in AddressRequest
      /\ unticked \in BOOLEAN /\ torn \in BOOLEAN
  BY AddressTypes DEF AddressInv
<1>3. WritesLive(q)
  BY DEF AddressInv
<1>4. q.a \in Addresses /\ q.row.st = "live" /\ q.row \in B!Rows /\ q.row.default \in BOOLEAN
  BY <1>1, <1>2, <1>3 DEF WritesLive, AddressRequest, B!Rows
<1>5. address' \in [Addresses -> B!Rows]
  BY <1>1, <1>2, <1>4
<1>6. address[q.a].default \in BOOLEAN
  BY <1>2, <1>4 DEF B!Rows
<1>7. unticked' \in BOOLEAN
  BY <1>1, <1>2, <1>6
<1>8. q # B!Idle
  BY <1>1, AddressIdle
<1>9. ASSUME ~torn' PROVE B!Alone(s) /\ OnItsWay(q, address, unticked)
  BY <1>1, <1>8, <1>9, AddressAlone
<1>10. \A a \in Addresses : address'[a] = IF a = q.a THEN q.row ELSE address[a]
  BY <1>1, <1>2
<1>11. ASSUME ~torn' PROVE Tidy(address', unticked')
  <2>1. CASE q.row.default
    <3>1. MarkedIn(address) \subseteq {q.a}
      BY <1>1, <1>9, <1>11, <2>1 DEF OnItsWay
    <3>2. MarkedIn(address') = {q.a}
      BY <1>4, <1>10, <2>1, <3>1 DEF MarkedIn, LiveIn
    <3> QED
      BY <3>2 DEF Tidy
  <2>2. CASE ~q.row.default
    <3>1. Tidy(address, unticked) /\ LiveIn(address) # {}
      BY <1>1, <1>9, <1>11, <2>2 DEF OnItsWay
    <3>2. MarkedIn(address') = MarkedIn(address) \ {q.a}
      BY <1>4, <1>10, <2>2 DEF MarkedIn, LiveIn
    <3>3. ~unticked' => ~unticked /\ ~address[q.a].default
      BY <1>1, <2>2
    <3>4. \A a, b \in MarkedIn(address') : a = b
      BY <3>1, <3>2 DEF Tidy
    <3>5. ~unticked' => MarkedIn(address') # {}
      BY <3>1, <3>2, <3>3 DEF Tidy, MarkedIn
    <3> QED
      BY <3>4, <3>5 DEF Tidy
  <2> QED
    BY <2>1, <2>2
<1> HIDE DEF q
<1>12. OnItsWay(B!Idle, address', unticked') /\ WritesLive(B!Idle) /\ B!Idle \in AddressRequest
  BY AddressIdle, IdleTypes
<1> QED
  BY <1>1, <1>2, <1>5, <1>7, <1>9, <1>11, <1>12, AddressStep

\* A deleted default passes its mark on.
LEMMA AddressDelete ==
    ASSUME FrontAssumption, AddressInv, NEW s \in Slots, B!Delete(s)
    PROVE  AddressInv'
<1> DEFINE q == addressReq[s]
<1>1. /\ q.op = "delete" /\ address' = [address EXCEPT ![q.a].st = "deleted"]
      /\ unticked' = unticked /\ torn' = torn
  BY DEF B!Delete
<1>2. /\ address \in [Addresses -> B!Rows] /\ q \in AddressRequest
      /\ unticked \in BOOLEAN /\ torn \in BOOLEAN
  BY AddressTypes DEF AddressInv
<1>3. q.a \in Addresses
  BY <1>1 DEF AddressInv, WritesLive
<1>4. address' \in [Addresses -> B!Rows]
  BY <1>1, <1>2, <1>3 DEF B!Rows
<1>5. q # B!Idle
  BY <1>1, AddressIdle
<1>6. ASSUME ~torn'
      PROVE  /\ B!Alone(s) /\ Tidy(address, unticked)
             /\ q.a \in LiveIn(address) /\ q.row = address[q.a]
  BY <1>1, <1>5, <1>6, AddressAlone DEF OnItsWay
<1>7. \A a \in Addresses : address'[a] = IF a = q.a THEN [address[a] EXCEPT !.st = "deleted"] ELSE address[a]
  BY <1>1, <1>2, <1>3
<1>8. LiveIn(address') = LiveIn(address) \ {q.a} /\ MarkedIn(address') = MarkedIn(address) \ {q.a}
  <2>1. address'[q.a].st = "deleted"
    BY <1>2, <1>3, <1>7 DEF B!Rows
  <2> QED
    BY <1>7, <2>1 DEF LiveIn, MarkedIn
<1>9. CASE q.row.default /\ B!List \ {q.a} # {}
  <2>1. PICK b \in B!Newest(B!List \ {q.a}) :
           addressReq' = [addressReq EXCEPT ![s] = [op |-> "save", a |-> b, unset |-> FALSE,
                                        row |-> [address[b] EXCEPT !.default = TRUE]]]
    BY <1>9 DEF B!Delete
  <2> DEFINE row0 == [address[b] EXCEPT !.default = TRUE]
             r == [op |-> "save", a |-> b, unset |-> FALSE, row |-> row0]
  <2>2. b \in Addresses /\ address[b].st = "live" /\ address[b] \in B!Rows
    BY <1>2 DEF B!Newest, B!List
  <2>3. row0 \in B!Rows /\ row0.st = "live" /\ row0.default = TRUE
    BY <2>2 DEF B!Rows
  <2> HIDE DEF row0
  <2>4. r \in AddressRequest /\ WritesLive(r) /\ r.op = "save" /\ r.a = b /\ r.row = row0
    BY <2>2, <2>3 DEF AddressRequest, WritesLive
  <2>5. addressReq' = [addressReq EXCEPT ![s] = r]
    BY <2>1 DEF row0
  <2>6. ASSUME ~torn' PROVE OnItsWay(r, address', unticked')
    <3>1. q.a \in MarkedIn(address)
      BY <1>6, <1>9, <2>6 DEF MarkedIn
    <3>2. MarkedIn(address') = {}
      BY <1>6, <1>8, <2>6, <3>1 DEF Tidy
    <3> QED
      BY <2>3, <2>4, <3>2 DEF OnItsWay
  <2>7. r # B!Idle
    BY <2>4, AddressIdle
  <2> HIDE DEF r
  <2> QED
    BY <1>1, <1>2, <1>4, <1>6, <2>4, <2>5, <2>6, <2>7, AddressStep
<1>10. CASE ~(q.row.default /\ B!List \ {q.a} # {})
  <2>1. addressReq' = [addressReq EXCEPT ![s] = B!Idle]
    BY <1>10 DEF B!Delete
  <2>2. ASSUME ~torn' PROVE Tidy(address', unticked')
    <3>1. CASE ~q.row.default
      <4>1. MarkedIn(address') = MarkedIn(address)
        BY <1>6, <1>8, <2>2, <3>1 DEF MarkedIn
      <4>2. LiveIn(address') \subseteq LiveIn(address)
        BY <1>8
      <4> QED
        BY <1>1, <1>6, <2>2, <4>1, <4>2 DEF Tidy
    <3>2. CASE B!List \ {q.a} = {}
      <4>1. LiveIn(address') = {} /\ MarkedIn(address') = {}
        BY <1>8, <3>2 DEF B!List, LiveIn, MarkedIn
      <4> QED
        BY <4>1 DEF Tidy
    <3> QED
      BY <1>10, <3>1, <3>2
  <2>3. OnItsWay(B!Idle, address', unticked') /\ WritesLive(B!Idle) /\ B!Idle \in AddressRequest
    BY AddressIdle, IdleTypes
  <2> QED
    BY <1>1, <1>2, <1>4, <1>6, <2>1, <2>2, <2>3, AddressStep
<1> QED
  BY <1>9, <1>10

\* A handler that stops after it took the mark off is noted in torn; before
\* that the book is as it found it.
LEMMA AddressAbandon ==
    ASSUME FrontAssumption, AddressInv, NEW s \in Slots, B!Abandon(s)
    PROVE  AddressInv'
<1> DEFINE q == addressReq[s]
<1>1. /\ q # B!Idle /\ addressReq' = [addressReq EXCEPT ![s] = B!Idle]
      /\ torn' = (torn \/ (q.op = "save" /\ ~q.unset /\ q.row.default))
      /\ UNCHANGED <<address, unticked>>
  BY DEF B!Abandon
<1>2. /\ address \in [Addresses -> B!Rows] /\ q \in AddressRequest
      /\ unticked \in BOOLEAN /\ torn \in BOOLEAN
  BY AddressTypes DEF AddressInv
<1>3. WritesLive(B!Idle) /\ B!Idle \in AddressRequest /\ OnItsWay(B!Idle, address', unticked')
  BY AddressIdle, IdleTypes
<1>4. torn' \in BOOLEAN
  BY <1>1, <1>2
<1>5. ASSUME ~torn' PROVE B!Alone(s) /\ Tidy(address', unticked')
  <2>1. B!Alone(s) /\ OnItsWay(q, address, unticked)
    BY <1>1, <1>5, AddressAlone
  <2>2. q.op # "idle"
    BY <1>2, <1>1 DEF AddressInv, WritesLive
  <2>3. q.op \in {"save", "delete"}
    BY <1>2, <2>2 DEF AddressRequest
  <2>4. q.op = "save" => q.unset \/ ~q.row.default
    BY <1>1, <1>5
  <2> QED
    BY <1>1, <2>1, <2>3, <2>4 DEF OnItsWay
<1> HIDE DEF q
<1> QED
  BY <1>1, <1>2, <1>3, <1>4, <1>5, AddressStep

\* The address book starts empty.
LEMMA InitAddresses == ASSUME FrontAssumption, B!Init PROVE AddressInv
<1>1. \A s \in Slots : addressReq[s] = B!Idle
  BY DEF B!Init
<1>2. LiveIn(address) = {} /\ MarkedIn(address) = {}
  BY DEF B!Init, LiveIn, MarkedIn, B!NoRow
<1>3. Tidy(address, unticked)
  BY <1>2 DEF Tidy
<1>4. B!TypeOK
  BY IdleTypes DEF B!Init, B!TypeOK, AddressRequest, B!Rows
<1> QED
  BY <1>1, <1>3, <1>4, AddressIdle DEF AddressInv

\* Every step of Addresses keeps the invariant.
LEMMA NextAddresses == FrontAssumption /\ AddressInv /\ [B!Next]_addressVars => AddressInv'
<1> SUFFICES ASSUME FrontAssumption, AddressInv, [B!Next]_addressVars PROVE AddressInv'
  OBVIOUS
<1>1. CASE UNCHANGED addressVars
  BY <1>1 DEF addressVars, AddressInv, B!TypeOK
<1>2. CASE B!Next
  <2>1. PICK s \in Slots :
           \/ \E a \in Addresses :
                 \/ \E isDefault \in BOOLEAN : B!Create(s, a, isDefault) \/ B!Update(s, a, isDefault)
                 \/ B!BeginDelete(s, a)
           \/ B!UnsetOthers(s) \/ B!SaveRow(s) \/ B!Delete(s) \/ B!Abandon(s)
    BY <1>2 DEF B!Next
  <2> QED
    BY <2>1, AddressCreate, AddressUpdate, AddressBeginDelete, AddressUnset, AddressSave,
       AddressDelete, AddressAbandon
<1> QED
  BY <1>1, <1>2

\* Between requests: one default, and none only by taking the mark off it.
LEMMA TidyIsOneDefault == AddressInv => OneDefault
<1> SUFFICES ASSUME AddressInv, ~torn, \A s \in Slots : addressReq[s] = B!Idle
             PROVE  B!Cardinality(B!Default) <= 1 /\ (B!List # {} /\ ~unticked => B!Default # {})
  BY DEF OneDefault, B!OneDefault
<1>1. Tidy(address, unticked)
  BY DEF AddressInv
<1>2. B!Default = MarkedIn(address) /\ B!List = LiveIn(address)
  BY DEF B!Default, B!List, MarkedIn, LiveIn
<1>3. Cardinality(MarkedIn(address)) <= 1
  <2>1. CASE MarkedIn(address) = {}
    BY <2>1, FS_EmptySet
  <2>2. CASE MarkedIn(address) # {}
    <3>1. PICK a : MarkedIn(address) = {a}
      BY <1>1, <2>2 DEF Tidy
    <3>2. Cardinality({a}) = 1
      BY Zenon, FS_Singleton
    <3> QED
      BY <3>1, <3>2
  <2> QED
    BY <2>1, <2>2
<1> QED
  BY <1>1, <1>2, <1>3, SameCount DEF Tidy

-----------------------------------------------------------------------------
(* The pages: their types, and the caches.                                 *)

PageRequest ==
    [op : {"idle", "tayang", "nama", "forget", "add"}, shop : P!Shops,
     set : SUBSET P!Shops, name : Names \cup {NoName},
     p : Products \cup {NoProduct}, n : 0..MaxStock]
SettingsRow == [on : BOOLEAN, name : Names, min : Minimums \cup {0}]
GoodsRow ==
    [avail : BOOLEAN, active : BOOLEAN, gone : BOOLEAN, stock : 0..MaxStock,
     min : Minimums \cup {1}, ecom : {P!NoPrice, P!Price, P!EcomPrice}]

\* What the pages read and the admin writes, apart from the slots.
PageTypes ==
    /\ settings \in [P!Shops -> SettingsRow]
    /\ shown \in (SUBSET P!Shops) \cup {P!NotRead} /\ names \in [P!Shops -> Names \cup {NoName}]
    /\ behind \subseteq P!Shops \cup {P!ShownKey}
    /\ goods \in [Products -> GoodsRow] /\ cart \in [Products -> 0..MaxStock]
    /\ pageEdits \in 0..MaxPageEdits
    /\ pageReq \in [Slots -> PageRequest]

\* The instance's type invariant, in names of this module.
LEMMA PageTypesAre == P!TypeOK <=> PageTypes
BY DEF P!TypeOK, PageTypes, PageRequest, SettingsRow, GoodsRow

PageInv == PageTypes /\ P!ChangesShowAtOnce

\* The shops that are shown are shops.
LEMMA VisibleTypes == P!Visible \in SUBSET P!Shops
BY DEF P!Visible, P!Shops

\* What a handler keeps while it runs.
LEMMA PageIdle ==
    ASSUME FrontAssumption
    PROVE  P!Idle \in PageRequest /\ P!Idle.op = "idle"
BY DEF FrontAssumption, P!Idle, PageRequest, P!Shops

\* A slot is filled, or emptied.
LEMMA PageSlot ==
    ASSUME PageTypes, NEW s \in Slots, NEW r \in PageRequest, pageReq' = [pageReq EXCEPT ![s] = r]
    PROVE  /\ pageReq' \in [Slots -> PageRequest]
           /\ \A t \in Slots : pageReq'[t] = IF t = s THEN r ELSE pageReq[t]
BY DEF PageTypes

\* The steps that change one of the caches.
CacheStep(s) ==
    \/ P!BeginTempatTayang(s) \/ P!StoreTempatTayang(s)
    \/ \E l \in P!Shops : P!BeginNamaToko(s, l)
    \/ P!StoreNamaToko(s) \/ P!LupakanTempatTayang(s)

\* A handler takes a slot for anything but clearing the caches.
LEMMA PageTake ==
    ASSUME PageInv, NEW s \in Slots, NEW r \in PageRequest, P!Take(s, r), r.op # "forget",
           UNCHANGED <<settings, shown, names, behind, goods, cart, pageEdits>>
    PROVE  PageInv'
<1>1. pageReq[s] = P!Idle /\ pageReq' = [pageReq EXCEPT ![s] = r]
  BY DEF P!Take
<1>2. /\ pageReq' \in [Slots -> PageRequest]
      /\ \A t \in Slots : pageReq'[t] = IF t = s THEN r ELSE pageReq[t]
  BY <1>1, PageSlot DEF PageInv
<1>3. pageReq[s].op = "idle"
  BY <1>1 DEF P!Idle
<1>4. PageTypes'
  BY <1>2 DEF PageInv, PageTypes
<1>5. P!ChangesShowAtOnce'
  BY <1>2, <1>3 DEF PageInv, P!ChangesShowAtOnce, P!Visible
<1> QED
  BY <1>4, <1>5 DEF PageInv

\* The caches are filled with rows that were read.
LEMMA CacheTypes ==
    ASSUME FrontAssumption, PageInv, NEW s \in Slots, CacheStep(s)
    PROVE  PageInv'
<1>1. PageTypes /\ pageReq[s] \in PageRequest /\ P!Idle \in PageRequest /\ P!Idle.op = "idle"
  BY PageIdle DEF PageInv, PageTypes
<1>2. CASE P!BeginTempatTayang(s)
  <2> DEFINE r == [P!Idle EXCEPT !.op = "tayang", !.set = P!Visible]
  <2>1. r \in PageRequest /\ r.op = "tayang"
    BY <1>1, VisibleTypes DEF PageRequest
  <2>2. P!Take(s, r) /\ UNCHANGED <<settings, shown, names, behind, goods, cart, pageEdits>>
    BY <1>2 DEF P!BeginTempatTayang, P!caches
  <2> QED
    BY <2>1, <2>2, PageTake
<1>3. ASSUME NEW l \in P!Shops, P!BeginNamaToko(s, l) PROVE PageInv'
  <2> DEFINE r == [P!Idle EXCEPT !.op = "nama", !.shop = l, !.name = settings[l].name]
  <2>1. settings[l].name \in Names
    BY <1>1 DEF PageTypes, SettingsRow
  <2>2. r \in PageRequest /\ r.op = "nama"
    BY <1>1, <2>1 DEF PageRequest
  <2>3. P!Take(s, r) /\ UNCHANGED <<settings, shown, names, behind, goods, cart, pageEdits>>
    BY <1>3 DEF P!BeginNamaToko, P!caches
  <2> QED
    BY <2>2, <2>3, PageTake
<1>4. ASSUME P!Done(s)
      PROVE  /\ pageReq' \in [Slots -> PageRequest]
             /\ \A t \in Slots : pageReq'[t] = IF t = s THEN P!Idle ELSE pageReq[t]
  BY <1>1, <1>4, PageSlot DEF P!Done
<1>5. CASE P!StoreTempatTayang(s)
  <2>1. /\ pageReq[s].op = "tayang" /\ shown' = pageReq[s].set
        /\ behind' = IF pageReq[s].set = P!Visible THEN behind \ {P!ShownKey}
                     ELSE behind \cup {P!ShownKey}
        /\ P!Done(s) /\ UNCHANGED <<settings, names, goods, cart, pageEdits>>
    BY <1>5 DEF P!StoreTempatTayang
  <2>2. shown' \in SUBSET P!Shops /\ behind' \subseteq P!Shops \cup {P!ShownKey}
    BY <1>1, <2>1 DEF PageTypes, PageRequest
  <2>3. PageTypes'
    BY <1>1, <1>4, <2>1, <2>2 DEF PageTypes
  <2>4. P!Visible' = P!Visible
    BY <2>1 DEF P!Visible
  <2>5. ASSUME \A t \in Slots : pageReq'[t].op # "forget"
        PROVE  \A t \in Slots : pageReq[t].op # "forget"
    BY <1>4, <2>1, <2>5
  <2>6. ASSUME \A t \in Slots : pageReq'[t].op # "forget"
        PROVE  \A l \in P!Shops : names[l] \in {NoName, settings[l].name} \/ l \in behind'
    BY <2>1, <2>5, <2>6 DEF PageInv, P!ChangesShowAtOnce, P!Shops, P!Home, P!Store, P!ShownKey
  <2>7. P!ChangesShowAtOnce'
    BY <2>1, <2>4, <2>6 DEF P!ChangesShowAtOnce
  <2> QED
    BY <2>3, <2>7 DEF PageInv
<1>6. CASE P!StoreNamaToko(s)
  <2> DEFINE l == pageReq[s].shop
  <2>1. /\ pageReq[s].op = "nama" /\ names' = [names EXCEPT ![l] = pageReq[s].name]
        /\ behind' = IF pageReq[s].name = settings[l].name THEN behind \ {l} ELSE behind \cup {l}
        /\ P!Done(s) /\ UNCHANGED <<settings, shown, goods, cart, pageEdits>>
    BY <1>6 DEF P!StoreNamaToko
  <2>2. l \in P!Shops /\ pageReq[s].name \in Names \cup {NoName}
    BY <1>1 DEF PageRequest
  <2> HIDE DEF l
  <2>3. names' \in [P!Shops -> Names \cup {NoName}] /\ behind' \subseteq P!Shops \cup {P!ShownKey}
    BY <1>1, <2>1, <2>2 DEF PageTypes
  <2>4. PageTypes'
    BY <1>1, <1>4, <2>1, <2>3 DEF PageTypes
  <2>5. P!Visible' = P!Visible
    BY <2>1 DEF P!Visible
  <2>6. ASSUME \A t \in Slots : pageReq'[t].op # "forget"
        PROVE  \A t \in Slots : pageReq[t].op # "forget"
    BY <1>4, <2>1, <2>6
  <2>7. l # P!ShownKey
    BY <2>2 DEF P!Shops, P!Home, P!Store, P!ShownKey
  <2>8. \A k \in P!Shops : names'[k] = IF k = l THEN pageReq[s].name ELSE names[k]
    BY <1>1, <2>1 DEF PageTypes
  <2>9. P!ChangesShowAtOnce'
    BY <2>1, <2>5, <2>6, <2>7, <2>8 DEF PageInv, P!ChangesShowAtOnce
  <2> QED
    BY <2>4, <2>9 DEF PageInv
<1>7. CASE P!LupakanTempatTayang(s)
  <2>1. /\ shown' = P!NotRead /\ names' = [l \in P!Shops |-> NoName] /\ behind' = {}
        /\ P!Done(s) /\ UNCHANGED <<settings, goods, cart, pageEdits>>
    BY <1>7 DEF P!LupakanTempatTayang
  <2>2. PageTypes'
    BY <1>1, <1>4, <2>1 DEF PageTypes
  <2>3. P!ChangesShowAtOnce'
    BY <2>1 DEF P!ChangesShowAtOnce
  <2> QED
    BY <2>2, <2>3 DEF PageInv
<1> QED
  BY <1>2, <1>3, <1>5, <1>6, <1>7 DEF CacheStep

\* A copy that ages out leaves the pages as the settings say.
LEMMA PagesExpire ==
    ASSUME PageInv, P!ShownExpires \/ \E l \in P!Shops : P!NameExpires(l)
    PROVE  PageInv'
<1>1. PageTypes
  BY DEF PageInv
<1>2. CASE P!ShownExpires
  <2>1. /\ shown' = P!NotRead /\ behind' = behind \ {P!ShownKey}
        /\ UNCHANGED <<settings, names, goods, cart, pageEdits, pageReq>>
    BY <1>2 DEF P!ShownExpires
  <2>2. PageTypes'
    BY <1>1, <2>1 DEF PageTypes
  <2>3. P!ChangesShowAtOnce'
    BY <2>1 DEF PageInv, P!ChangesShowAtOnce, P!Shops, P!Home, P!Store, P!ShownKey
  <2> QED
    BY <2>2, <2>3 DEF PageInv
<1>3. ASSUME NEW l \in P!Shops, P!NameExpires(l) PROVE PageInv'
  <2>1. /\ names' = [names EXCEPT ![l] = NoName] /\ behind' = behind \ {l}
        /\ UNCHANGED <<settings, shown, goods, cart, pageEdits, pageReq>>
    BY <1>3 DEF P!NameExpires
  <2>2. PageTypes'
    BY <1>1, <2>1 DEF PageTypes
  <2>3. P!Visible' = P!Visible /\ l # P!ShownKey
    BY <2>1 DEF P!Visible, P!Shops, P!Home, P!Store, P!ShownKey
  <2>4. \A k \in P!Shops : names'[k] = IF k = l THEN NoName ELSE names[k]
    BY <1>1, <2>1 DEF PageTypes
  <2>5. P!ChangesShowAtOnce'
    BY <2>1, <2>3, <2>4 DEF PageInv, P!ChangesShowAtOnce
  <2> QED
    BY <2>2, <2>5 DEF PageInv
<1> QED
  BY <1>2, <1>3

\* A change of the settings leaves the caches to its second step.
LEMMA PagesWrite ==
    ASSUME FrontAssumption, PageInv, NEW s \in Slots, NEW l \in P!Shops, NEW row0 \in SettingsRow,
           P!WriteSettings(s, l, row0)
    PROVE  PageInv'
<1> DEFINE r == [P!Idle EXCEPT !.op = "forget"]
<1>1. PageTypes /\ P!Idle \in PageRequest
  BY PageIdle DEF PageInv
<1>2. r \in PageRequest /\ r.op = "forget"
  BY <1>1 DEF PageRequest
<1>3. /\ pageEdits < MaxPageEdits /\ pageEdits' = pageEdits + 1
      /\ settings' = [settings EXCEPT ![l] = row0]
      /\ pageReq' = [pageReq EXCEPT ![s] = r]
      /\ UNCHANGED <<shown, names, behind, goods, cart>>
  BY DEF P!WriteSettings, P!Edit, P!Take, P!caches
<1> HIDE DEF r
<1>4. /\ pageReq' \in [Slots -> PageRequest]
      /\ \A t \in Slots : pageReq'[t] = IF t = s THEN r ELSE pageReq[t]
  BY <1>1, <1>2, <1>3, PageSlot
<1>5. settings' \in [P!Shops -> SettingsRow]
  BY <1>1, <1>3 DEF PageTypes
<1>6. pageEdits' \in 0..MaxPageEdits
  BY <1>1, <1>3 DEF PageTypes, FrontAssumption
<1>7. PageTypes'
  BY <1>1, <1>3, <1>4, <1>5, <1>6 DEF PageTypes
<1>8. P!ChangesShowAtOnce'
  BY <1>2, <1>4 DEF P!ChangesShowAtOnce
<1> QED
  BY <1>7, <1>8 DEF PageInv

\* Steps that touch neither settings nor caches.
LEMMA PagesApart ==
    ASSUME PageInv, UNCHANGED <<settings, shown, names, behind>>, PageTypes',
           \A s \in Slots : pageReq[s].op = "forget" => pageReq'[s].op = "forget"
    PROVE  PageInv'
BY DEF PageInv, P!ChangesShowAtOnce, P!Visible

\* Edits of a product touch no cache.
LEMMA GoodsTypes ==
    ASSUME FrontAssumption, PageInv, NEW p \in Products, NEW r \in GoodsRow, P!EditGoods(p, r)
    PROVE  PageInv'
<1>1. /\ pageEdits < MaxPageEdits /\ pageEdits' = pageEdits + 1
      /\ goods' = [goods EXCEPT ![p] = r]
      /\ UNCHANGED <<settings, shown, names, behind, cart, pageReq>>
  BY DEF P!EditGoods, P!Edit, P!caches
<1>2. goods' \in [Products -> GoodsRow] /\ pageEdits' \in 0..MaxPageEdits
  BY <1>1 DEF PageInv, PageTypes, FrontAssumption
<1>3. PageTypes'
  BY <1>1, <1>2 DEF PageInv, PageTypes
<1> QED
  BY <1>1, <1>3, PagesApart

\* The admin's panel, and a sale over the counter.
GoodsStep(p) ==
    \/ \E b \in BOOLEAN :
          \/ P!BulkSetAvailable(p, b)
          \/ \E ecom \in {P!NoPrice, P!EcomPrice}, m \in Minimums : P!UpdateEcomFields(p, b, ecom, m)
    \/ P!BulkSyncPrice(p) \/ P!BulkResetPrice(p) \/ P!ToggleActive(p) \/ P!Delete(p)
    \/ P!Sell(p)

\* The admin's and the counter's writes of a product keep its type.
LEMMA GoodsSteps ==
    ASSUME FrontAssumption, PageInv, NEW p \in Products, GoodsStep(p)
    PROVE  PageInv'
<1> DEFINE g == goods[p]
<1>1. g \in GoodsRow
  BY DEF PageInv, PageTypes
<1>2. MaxStock \in Nat
  BY DEF FrontAssumption
<1>3. ASSUME NEW b \in BOOLEAN, P!BulkSetAvailable(p, b) PROVE PageInv'
  <2>1. [g EXCEPT !.avail = b] \in GoodsRow
    BY <1>1 DEF GoodsRow
  <2> QED
    BY <1>3, <2>1, GoodsTypes DEF P!BulkSetAvailable
<1>4. ASSUME NEW b \in BOOLEAN, NEW ecom \in {P!NoPrice, P!EcomPrice}, NEW m \in Minimums,
             P!UpdateEcomFields(p, b, ecom, m)
      PROVE  PageInv'
  <2>1. [g EXCEPT !.avail = b, !.ecom = ecom, !.min = m] \in GoodsRow
    BY <1>1 DEF GoodsRow
  <2> QED
    BY <1>4, <2>1, GoodsTypes DEF P!UpdateEcomFields
<1>5. CASE P!BulkSyncPrice(p)
  <2>1. [g EXCEPT !.ecom = P!Price] \in GoodsRow
    BY <1>1 DEF GoodsRow
  <2> QED
    BY <1>5, <2>1, GoodsTypes DEF P!BulkSyncPrice
<1>6. CASE P!BulkResetPrice(p)
  <2>1. [g EXCEPT !.ecom = P!NoPrice] \in GoodsRow
    BY <1>1 DEF GoodsRow
  <2> QED
    BY <1>6, <2>1, GoodsTypes DEF P!BulkResetPrice
<1>7. CASE P!ToggleActive(p)
  <2>1. [g EXCEPT !.active = ~@] \in GoodsRow
    BY <1>1 DEF GoodsRow
  <2> QED
    BY <1>7, <2>1, GoodsTypes DEF P!ToggleActive
<1>8. CASE P!Sell(p)
  <2>1. g.stock \in 0..MaxStock /\ g.stock > 0
    BY <1>1, <1>8 DEF GoodsRow, P!Sell
  <2>2. g.stock - 1 \in 0..MaxStock
    BY <1>2, <2>1
  <2>3. [g EXCEPT !.stock = @ - 1] \in GoodsRow
    BY <1>1, <2>2 DEF GoodsRow
  <2> QED
    BY <1>8, <2>3, GoodsTypes DEF P!Sell
<1>9. CASE P!Delete(p)
  <2>1. [g EXCEPT !.gone = TRUE] \in GoodsRow
    BY <1>1 DEF GoodsRow
  <2> QED
    BY <1>9, <2>1, GoodsTypes DEF P!Delete
<1> QED
  BY <1>3, <1>4, <1>5, <1>6, <1>7, <1>8, <1>9 DEF GoodsStep

\* The cart.
LEMMA CartTypes ==
    ASSUME PageInv, cart' \in [Products -> 0..MaxStock],
           UNCHANGED <<settings, shown, names, behind, goods, pageEdits, pageReq>>
    PROVE  PageInv'
<1>1. PageTypes'
  BY DEF PageInv, PageTypes
<1> QED
  BY <1>1, PagesApart

\* Writes of a cart line keep its type.
LEMMA CartSteps ==
    ASSUME FrontAssumption, PageInv, NEW p \in Products,
           (\E n \in 0..MaxStock : P!UpdateItem(p, n)) \/ P!RemoveItem(p) \/ P!Clear
    PROVE  PageInv'
<1>1. cart \in [Products -> 0..MaxStock] /\ 0 \in 0..MaxStock
  BY DEF PageInv, PageTypes, FrontAssumption
<1>2. cart' \in [Products -> 0..MaxStock]
  BY <1>1 DEF P!UpdateItem, P!RemoveItem, P!Clear
<1>3. UNCHANGED <<settings, shown, names, behind, goods, pageEdits, pageReq>>
  BY DEF P!UpdateItem, P!RemoveItem, P!Clear, P!caches
<1> QED
  BY <1>2, <1>3, CartTypes

\* So do the two halves of AddItem.
LEMMA AddItemTypes ==
    ASSUME FrontAssumption, PageInv, NEW s \in Slots,
           (\E p \in Products, n \in 1..MaxStock : P!BeginAddItem(s, p, n)) \/ P!CommitAddItem(s)
    PROVE  PageInv'
<1>1. PageTypes /\ pageReq[s] \in PageRequest /\ P!Idle \in PageRequest /\ P!Idle.op = "idle"
  BY PageIdle DEF PageInv, PageTypes
<1>2. ASSUME NEW p \in Products, NEW n \in 1..MaxStock, P!BeginAddItem(s, p, n) PROVE PageInv'
  <2> DEFINE r == [P!Idle EXCEPT !.op = "add", !.p = p, !.n = cart[p] + n]
  <2>1. cart[p] + n <= goods[p].stock /\ goods[p].stock \in 0..MaxStock /\ cart[p] \in 0..MaxStock
    BY <1>1, <1>2 DEF P!BeginAddItem, P!CanAdd, PageTypes, GoodsRow
  <2>2. MaxStock \in Nat
    BY DEF FrontAssumption
  <2>3. cart[p] + n \in 0..MaxStock
    BY <2>1, <2>2
  <2>4. r \in PageRequest /\ r.op = "add"
    BY <1>1, <2>3 DEF PageRequest
  <2>5. P!Take(s, r) /\ UNCHANGED <<settings, shown, names, behind, goods, cart, pageEdits>>
    BY <1>2 DEF P!BeginAddItem, P!caches
  <2> HIDE DEF r
  <2> QED
    BY <2>4, <2>5, PageTake
<1>3. CASE P!CommitAddItem(s)
  <2>1. /\ pageReq[s].op = "add" /\ cart' = [cart EXCEPT ![pageReq[s].p] = pageReq[s].n]
        /\ pageReq' = [pageReq EXCEPT ![s] = P!Idle]
        /\ UNCHANGED <<settings, shown, names, behind, goods, pageEdits>>
    BY <1>3 DEF P!CommitAddItem, P!Done, P!caches
  <2>2. cart' \in [Products -> 0..MaxStock]
    BY <1>1, <2>1 DEF PageTypes, PageRequest
  <2>3. /\ pageReq' \in [Slots -> PageRequest]
        /\ \A t \in Slots : pageReq'[t] = IF t = s THEN P!Idle ELSE pageReq[t]
    BY <1>1, <2>1, PageSlot
  <2>4. PageTypes'
    BY <1>1, <2>1, <2>2, <2>3 DEF PageTypes
  <2> QED
    BY <2>1, <2>3, <2>4, PagesApart
<1> QED
  BY <1>2, <1>3

\* A checkout takes no more than there is.
LEMMA CheckoutTypes ==
    ASSUME FrontAssumption, PageInv, NEW chosen \in SUBSET Products, P!CreateOrder(chosen)
    PROVE  PageInv'
<1> DEFINE n == [p \in Products |-> IF p \in chosen THEN cart[p] ELSE 0]
<1>1. /\ P!Accepts(n) /\ goods' = [p \in Products |-> [goods[p] EXCEPT !.stock = @ - n[p]]]
      /\ pageEdits < MaxPageEdits /\ pageEdits' = pageEdits + 1
      /\ cart' = [p \in Products |-> IF p \in chosen THEN 0 ELSE cart[p]]
      /\ UNCHANGED <<settings, shown, names, behind, pageReq>>
  BY DEF P!CreateOrder, P!Edit, P!caches
<1>2. MaxStock \in Nat /\ MaxPageEdits \in Nat
  BY DEF FrontAssumption
<1>3. goods \in [Products -> GoodsRow] /\ cart \in [Products -> 0..MaxStock] /\ pageEdits \in 0..MaxPageEdits
  BY DEF PageInv, PageTypes
<1>4. n \in [Products -> 0..MaxStock]
  BY <1>2, <1>3
<1>5. \A p \in Products : n[p] > 0 => n[p] <= goods[p].stock
  <2> HIDE DEF n
  <2> QED
    BY <1>1 DEF P!Accepts
<1> HIDE DEF n
<1>6. ASSUME NEW p \in Products PROVE [goods[p] EXCEPT !.stock = @ - n[p]] \in GoodsRow
  <2>1. goods[p] \in GoodsRow /\ goods[p].stock \in 0..MaxStock /\ n[p] \in 0..MaxStock
    BY <1>3, <1>4 DEF GoodsRow
  <2>2. goods[p].stock - n[p] \in 0..MaxStock
    BY <1>2, <1>5, <2>1
  <2> QED
    BY <2>1, <2>2 DEF GoodsRow
<1>7. goods' \in [Products -> GoodsRow]
  BY <1>1, <1>6
<1>8. cart' \in [Products -> 0..MaxStock] /\ pageEdits' \in 0..MaxPageEdits
  BY <1>1, <1>2, <1>3
<1>9. PageTypes'
  BY <1>1, <1>7, <1>8 DEF PageInv, PageTypes
<1> QED
  BY <1>1, <1>9, PagesApart

\* The pages start with nothing cached.
LEMMA InitPages == ASSUME FrontAssumption, P!Init PROVE PageInv
<1>1. pageReq \in [Slots -> PageRequest]
  BY PageIdle DEF P!Init
<1>2. settings \in [P!Shops -> SettingsRow]
  BY DEF P!Init, SettingsRow, FrontAssumption
<1>3. goods \in [Products -> GoodsRow]
  BY DEF P!Init, GoodsRow, FrontAssumption, P!NoPrice
<1>4. cart \in [Products -> 0..MaxStock] /\ pageEdits \in 0..MaxPageEdits
  BY DEF P!Init, FrontAssumption
<1>5. shown = P!NotRead /\ names \in [P!Shops -> Names \cup {NoName}] /\ behind = {}
  BY DEF P!Init
<1>6. PageTypes
  BY <1>1, <1>2, <1>3, <1>4, <1>5 DEF PageTypes
<1>7. P!ChangesShowAtOnce
  BY DEF P!Init, P!ChangesShowAtOnce
<1> QED
  BY <1>6, <1>7 DEF PageInv

\* Every step of ShopPage keeps the invariant.
LEMMA NextPages == FrontAssumption /\ PageInv /\ [P!Next]_pageVars => PageInv'
<1> SUFFICES ASSUME FrontAssumption, PageInv, [P!Next]_pageVars PROVE PageInv'
  OBVIOUS
<1>1. CASE UNCHANGED pageVars
  BY <1>1 DEF pageVars, PageInv, PageTypes, P!ChangesShowAtOnce, P!Visible
<1>2. CASE P!Next
  <2>1. \/ \E s \in Slots : CacheStep(s)
        \/ \E s \in Slots, l \in P!Shops, b \in BOOLEAN, v \in Names, m \in Minimums :
              P!WriteSettings(s, l, [on |-> b, name |-> v, min |-> m])
        \/ \E s \in Slots :
              (\E p \in Products, n \in 1..MaxStock : P!BeginAddItem(s, p, n)) \/ P!CommitAddItem(s)
        \/ P!ShownExpires \/ \E l \in P!Shops : P!NameExpires(l)
        \/ \E p \in Products : GoodsStep(p)
        \/ \E p \in Products : (\E n \in 0..MaxStock : P!UpdateItem(p, n)) \/ P!RemoveItem(p)
        \/ P!Clear
        \/ \E chosen \in SUBSET Products : P!CreateOrder(chosen)
    BY <1>2 DEF P!Next, CacheStep, GoodsStep
  <2>2. ASSUME NEW s \in Slots, NEW l \in P!Shops, NEW b \in BOOLEAN, NEW v \in Names,
               NEW m \in Minimums, P!WriteSettings(s, l, [on |-> b, name |-> v, min |-> m])
        PROVE  PageInv'
    <3>1. [on |-> b, name |-> v, min |-> m] \in SettingsRow
      BY DEF SettingsRow
    <3> QED
      BY <2>2, <3>1, PagesWrite
  <2>3. CASE P!Clear
    <3>1. PICK p \in Products : cart[p] > 0
      BY <2>3 DEF P!Clear
    <3> QED
      BY <2>3, <3>1, CartSteps
  <2> QED
    BY <2>1, <2>2, <2>3, CacheTypes, AddItemTypes, PagesExpire, GoodsSteps, CartSteps, CheckoutTypes
<1> QED
  BY <1>1, <1>2

-----------------------------------------------------------------------------
(* Pages, cart and checkout.                                               *)

\* Where every line can be had, the cart and the checkout add up the same sum.
LEMMA SameSum ==
    ASSUME NEW l \in P!Shops, NEW n,
           \A p \in Products : n[p] > 0 /\ Shop[p] = l <=>
               p \in P!ShownLines(l) /\ ~P!Unavailable(p),
           \A p \in P!ShownLines(l) : n[p] = cart[p]
    PROVE  P!buildResponse(l) = P!Subtotal(n, l)
<1> DEFINE S == {p \in P!ShownLines(l) : ~P!Unavailable(p)}
           Shows(g) == g = [T \in SUBSET S |->
              IF T = {} THEN 0
              ELSE P!ecomBasePrice(CHOOSE p \in T : TRUE) * cart[CHOOSE p \in T : TRUE]
                   + g[T \ {CHOOSE p \in T : TRUE}]]
           Asks(g) == g = [T \in SUBSET S |->
              IF T = {} THEN 0
              ELSE P!ecomBasePrice(CHOOSE p \in T : TRUE) * n[CHOOSE p \in T : TRUE]
                   + g[T \ {CHOOSE p \in T : TRUE}]]
<1>1. {p \in Products : n[p] > 0 /\ Shop[p] = l} = S
  BY DEF P!ShownLines, P!InCart
<1>2. P!buildResponse(l) = (CHOOSE g : Shows(g))[S]
  BY DEF P!buildResponse, P!MapThenSumSet, P!MapThenFoldSet
<1>3. P!Subtotal(n, l) = (CHOOSE g : Asks(g))[S]
  <2> HIDE DEF S
  <2> QED
    BY <1>1 DEF P!Subtotal, P!MapThenSumSet, P!MapThenFoldSet
<1>4. ASSUME NEW g PROVE Shows(g) <=> Asks(g)
  <2>1. ASSUME NEW T \in SUBSET S, T # {}
        PROVE  cart[CHOOSE p \in T : TRUE] = n[CHOOSE p \in T : TRUE]
    <3>1. (CHOOSE p \in T : TRUE) \in T
      BY <2>1
    <3> QED
      BY <3>1
  <2> HIDE DEF S
  <2> QED
    BY <2>1
<1>5. (CHOOSE g : Shows(g)) = (CHOOSE g : Asks(g))
  <2> HIDE DEF Shows, Asks
  <2> QED
    BY <1>4
<1> QED
  BY <1>2, <1>3, <1>5

\* What a list offers can be opened, and its smallest quantity put into an
\* empty cart.
LEMMA OfferedCanBeHad ==
    ASSUME FrontAssumption, PageTypes, NEW p \in P!Catalogue,
           goods[p].active, goods[p].avail, P!TempatBolehTayang(Shop[p])
    PROVE  /\ P!GetProduct(p)
           /\ cart[p] = 0 /\ goods[p].min <= goods[p].stock => P!CanAdd(p, goods[p].min)
<1>1. goods[p] \in GoodsRow
  BY DEF PageTypes, P!Catalogue
<1>2. goods[p].min \in Nat /\ goods[p].stock \in Int
  <2>1. goods[p].min \in Minimums \cup {1} /\ goods[p].stock \in 0..MaxStock
    BY <1>1 DEF GoodsRow
  <2>2. Minimums \subseteq Nat
    BY DEF FrontAssumption
  <2>3. \A m \in Minimums \cup {1} : m \in Nat
    <3>1. ASSUME NEW m \in Minimums PROVE m \in Nat
      BY <2>2
    <3>2. 1 \in Nat
      OBVIOUS
    <3> QED
      BY <3>1, <3>2
  <2>4. goods[p].min \in Nat
    BY <2>1, <2>3
  <2> QED
    BY <2>1, <2>4
<1> QED
  BY <1>2 DEF P!GetProduct, P!CanAdd

\* The lines the cart shows of some shops, and what the checkout is asked for.
Lines(shops) == UNION {P!ShownLines(l) : l \in shops}
Chosen(shops) == [p \in Products |-> IF p \in Lines(shops) THEN cart[p] ELSE 0]

\* A line the cart shows is of a product that was not deleted.
LEMMA LineIs ==
    ASSUME NEW l, NEW p \in Products
    PROVE  p \in P!ShownLines(l) <=> Shop[p] = l /\ cart[p] > 0 /\ p \in P!Catalogue
BY DEF P!ShownLines, P!InCart

\* The checkout's selection is what the cart shows of the shops it is for.
LEMMA ChosenIs ==
    ASSUME FrontAssumption, PageTypes, NEW shops \in SUBSET P!Shops, NEW p \in Products
    PROVE  /\ Shop[p] \in P!Shops /\ cart[p] \in Nat /\ goods[p].stock \in Nat
           /\ Chosen(shops)[p] > 0 <=> Shop[p] \in shops /\ p \in P!ShownLines(Shop[p])
           /\ Chosen(shops)[p] > 0 => Chosen(shops)[p] = cart[p]
<1>1. Shop[p] \in P!Shops
  BY DEF FrontAssumption
<1>2. MaxStock \in Nat
  BY DEF FrontAssumption
<1>3. cart[p] \in 0..MaxStock /\ goods[p].stock \in 0..MaxStock
  BY DEF PageTypes, GoodsRow
<1>4. cart[p] \in Nat /\ goods[p].stock \in Nat
  BY <1>2, <1>3
<1>5. p \in Lines(shops) <=> Shop[p] \in shops /\ p \in P!ShownLines(Shop[p])
  BY LineIs DEF Lines
<1>6. p \in P!ShownLines(Shop[p]) => cart[p] > 0
  BY LineIs
<1> QED
  BY <1>1, <1>4, <1>5, <1>6 DEF Chosen

\* If no line of a chosen shop is unavailable, the two sums are one.
LEMMA ChosenSum ==
    ASSUME FrontAssumption, PageTypes, NEW shops \in SUBSET P!Shops, NEW l \in shops,
           \A p \in P!ShownLines(l) : ~P!Unavailable(p)
    PROVE  P!buildResponse(l) = P!Subtotal(Chosen(shops), l)
<1> DEFINE n == Chosen(shops)
<1>1. P!ShownLines(l) \subseteq Products
  BY DEF P!ShownLines, P!InCart
<1>2. \A p \in Products : n[p] > 0 /\ Shop[p] = l <=> p \in P!ShownLines(l)
  BY ChosenIs, LineIs
<1>3. \A p \in Products : n[p] > 0 => n[p] = cart[p]
  BY ChosenIs
<1> HIDE DEF n
<1>4. \A p \in Products : n[p] > 0 /\ Shop[p] = l <=> p \in P!ShownLines(l) /\ ~P!Unavailable(p)
  BY <1>2
<1>5. \A p \in P!ShownLines(l) : n[p] = cart[p]
  BY <1>1, <1>2, <1>3
<1>6. l \in P!Shops
  OBVIOUS
<1>7. P!buildResponse(l) = P!Subtotal(n, l)
  BY <1>4, <1>5, <1>6, SameSum
<1> QED
  BY <1>7 DEF n

\* Lines without a problem, of shops that are shown, are accepted.
LEMMA GoodCartAccepted ==
    ASSUME FrontAssumption, PageTypes, NEW shops \in SUBSET P!Shops,
           \A l \in shops : P!CartLooksGood(l) /\ P!TempatBolehTayang(l)
    PROVE  P!Accepts(Chosen(shops))
<1> DEFINE n == Chosen(shops)
<1>1. ASSUME NEW p \in Products, n[p] > 0
      PROVE  /\ p \in P!Catalogue /\ P!TempatBolehTayang(Shop[p])
             /\ goods[p].avail /\ n[p] <= goods[p].stock
  <2>1. Shop[p] \in shops /\ p \in P!ShownLines(Shop[p]) /\ n[p] = cart[p]
    BY <1>1, ChosenIs
  <2>2. cart[p] \in Nat /\ goods[p].stock \in Nat
    BY ChosenIs
  <2>3. p \in P!Catalogue
    BY <2>1, LineIs
  <2>4. ~P!Unavailable(p)
    BY <2>1 DEF P!CartLooksGood
  <2> QED
    BY <2>1, <2>2, <2>3, <2>4 DEF P!Unavailable
<1>2. ASSUME NEW l \in P!Shops, NEW p \in Products, n[p] > 0, Shop[p] = l
      PROVE  P!Subtotal(n, l) >= P!minimalBelanja(l)
  <2>1. l \in shops
    BY <1>2, ChosenIs
  <2>2. P!CartLooksGood(l)
    BY <2>1
  <2>3. P!buildResponse(l) = P!Subtotal(n, l)
    BY <2>1, <2>2, ChosenSum DEF P!CartLooksGood
  <2> QED
    BY <2>2, <2>3 DEF P!CartLooksGood
<1> HIDE DEF n
<1>3. P!Accepts(n)
  BY <1>1, <1>2 DEF P!Accepts
<1> QED
  BY <1>3 DEF n

\* And no other lines are, nor for another sum.
LEMMA AcceptedCartGood ==
    ASSUME FrontAssumption, PageTypes, NEW shops \in SUBSET P!Shops,
           \A l \in shops : P!ShownLines(l) # {}, P!Accepts(Chosen(shops)), NEW l \in shops
    PROVE  /\ P!CartLooksGood(l) /\ P!TempatBolehTayang(l)
           /\ P!buildResponse(l) = P!Subtotal(Chosen(shops), l)
<1> DEFINE n == Chosen(shops)
<1>1. ASSUME NEW p \in P!ShownLines(l)
      PROVE  p \in Products /\ Shop[p] = l /\ n[p] > 0 /\ P!TempatBolehTayang(l) /\ ~P!Unavailable(p)
  <2>1. p \in Products /\ Shop[p] = l /\ cart[p] > 0
    BY <1>1 DEF P!ShownLines, P!InCart
  <2>2. n[p] > 0 /\ n[p] = cart[p] /\ cart[p] \in Nat /\ goods[p].stock \in Nat
    BY <1>1, <2>1, ChosenIs
  <2>3. P!TempatBolehTayang(l) /\ goods[p].avail /\ n[p] <= goods[p].stock
    BY <2>1, <2>2 DEF P!Accepts
  <2> QED
    BY <2>1, <2>2, <2>3 DEF P!Unavailable
<1>2. P!buildResponse(l) = P!Subtotal(n, l)
  BY <1>1, ChosenSum
<1>3. P!Subtotal(n, l) >= P!minimalBelanja(l) /\ P!TempatBolehTayang(l)
  <2>1. PICK p \in P!ShownLines(l) : TRUE
    OBVIOUS
  <2>2. p \in Products /\ n[p] > 0 /\ Shop[p] = l /\ P!TempatBolehTayang(l)
    BY <1>1, <2>1
  <2>3. l \in P!Shops
    OBVIOUS
  <2> HIDE DEF n
  <2> QED
    BY <2>2, <2>3 DEF P!Accepts, n
<1> QED
  BY <1>1, <1>2, <1>3 DEF P!CartLooksGood

\* Whatever the rows are, the checkout does what the cart shows, but for shops
\* that are hidden and products that were deleted.
LEMMA Foretells == ASSUME FrontAssumption, PageTypes PROVE CartForetellsCheckout
<1> DEFINE offered == UNION {P!ListedIn(l) : l \in P!ListCategories}
           suggested == IF P!TempatBolehTayang(P!Home)
                        THEN UNION {P!GetRelated(p) : p \in offered} ELSE {}
<1>1. ASSUME NEW p \in offered \cup suggested
      PROVE  /\ P!GetProduct(p)
             /\ cart[p] = 0 /\ goods[p].min <= goods[p].stock => P!CanAdd(p, goods[p].min)
  <2>1. CASE p \in offered
    <3>1. p \in P!ListProducts
      BY <2>1 DEF P!ListedIn
    <3> QED
      BY <3>1, OfferedCanBeHad DEF P!ListProducts
  <2>2. CASE p \in suggested
    <3>1. PICK q : p \in P!GetRelated(q)
      BY <2>2
    <3>2. P!TempatBolehTayang(P!Home)
      BY <2>2
    <3> QED
      BY <3>1, <3>2, OfferedCanBeHad DEF P!GetRelated
  <2> QED
    BY <1>1, <2>1, <2>2
<1> HIDE DEF offered, suggested
<1>2. ASSUME NEW shops \in SUBSET {l \in P!Shops : P!ShownLines(l) # {}}
      PROVE  /\ P!Accepts(Chosen(shops)) <=>
                   \A l \in shops : P!CartLooksGood(l) /\ P!TempatBolehTayang(l)
             /\ P!Accepts(Chosen(shops)) =>
                   \A l \in shops : P!buildResponse(l) = P!Subtotal(Chosen(shops), l)
  <2>1. shops \in SUBSET P!Shops /\ \A l \in shops : P!ShownLines(l) # {}
    OBVIOUS
  <2> QED
    BY <2>1, GoodCartAccepted, AcceptedCartGood
<1>3. ASSUME ~(P!InCart \subseteq P!Catalogue) PROVE ~P!Accepts(cart)
  BY <1>3 DEF P!InCart, P!Accepts
<1> QED
  BY <1>1, <1>2, <1>3
     DEF CartForetellsCheckout, P!CartForetellsCheckout, offered, suggested, Chosen, Lines

-----------------------------------------------------------------------------
(* A behaviour is that of one part, and the others rest.                   *)

\* Each part keeps its invariant, and the parts that rest keep theirs.
LEMMA AlwaysParts == FrontSpec => [](AccountInv /\ PageInv /\ AddressInv)
<1>1. FrontInit => AccountInv /\ PageInv /\ AddressInv
  BY FrontAssumption, InitAccounts, InitPages, InitAddresses DEF FrontInit, Finite
<1>2. AccountInv /\ PageInv /\ AddressInv /\ [FrontNext]_<<part, vars, pageVars, addressVars>>
         => (AccountInv /\ PageInv /\ AddressInv)'
  <2> SUFFICES ASSUME AccountInv, PageInv, AddressInv,
                      [FrontNext]_<<part, vars, pageVars, addressVars>>
               PROVE  AccountInv' /\ PageInv' /\ AddressInv'
    OBVIOUS
  <2>1. [Next]_vars /\ [P!Next]_pageVars /\ [B!Next]_addressVars
    BY DEF FrontNext
  <2> QED
    BY <2>1, FrontAssumption, NextAccounts, NextPages, NextAddresses DEF Finite
<1> QED
  BY <1>1, <1>2, PTL DEF FrontSpec

\* Accounts, pages and address book keep their types, for any number of each
\* and of handlers.
THEOREM TypesAreCorrect == FrontSpec => []AllTypesOK
<1>1. AccountInv /\ PageInv /\ AddressInv => AllTypesOK
  BY PageTypesAre DEF AccountInv, PageInv, AddressInv, AllTypesOK
<1> QED
  BY <1>1, AlwaysParts, PTL

\* A change of the settings shows at once, unless a page was loading the old
\* value meanwhile, with any number of pages that load and of changes.
THEOREM ChangesShow == FrontSpec => []ChangesShowAtOnce
<1>1. PageInv => ChangesShowAtOnce
  BY DEF PageInv, ChangesShowAtOnce
<1> QED
  BY <1>1, AlwaysParts, PTL

\* Lists, pages, cart and checkout agree on what can be had and what it costs,
\* but for hidden shops and deleted products, which the checkout alone refuses:
\* for any catalogue, any split between the shops, any quantities and minimums.
THEOREM CartAndCheckoutAgree == FrontSpec => []CartForetellsCheckout
<1>1. PageInv => CartForetellsCheckout
  BY FrontAssumption, Foretells DEF PageInv
<1> QED
  BY <1>1, AlwaysParts, PTL

\* A customer has one default address, and none only by taking the mark off
\* it, with any number of addresses and of requests that overlapped, stopped or
\* failed before.
THEOREM OneDefaultAlways == FrontSpec => []OneDefault
<1> QED
  BY TidyIsOneDefault, AlwaysParts, PTL
=============================================================================
