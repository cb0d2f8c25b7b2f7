-------------------------------- MODULE Front --------------------------------
(***************************************************************************)
(* What a customer meets before an order: accounts, the pages with the     *)
(* cart, and the address book.  The three share no row and no lock, so a   *)
(* behaviour is one of them from its first state on: part says which.      *)
(*                                                                         *)
(* Accounts is extended and keeps its names; the others are instances.     *)
(***************************************************************************)
EXTENDS Accounts

CONSTANTS
    Products, Shop, Names, FirstName, Minimums, NoName, NoProduct, MaxStock, MaxPageEdits,
    Addresses, NoAddress

VARIABLES
    part,
    settings, shown, names, goods, cart, behind, pageEdits, pageReq,
    address, unticked, torn, addressReq

P == INSTANCE ShopPage WITH edits <- pageEdits, req <- pageReq, MaxEdits <- MaxPageEdits
B == INSTANCE Addresses WITH req <- addressReq

ASSUME FrontAssumption ==
    /\ IsFiniteSet(Slots) /\ IsFiniteSet(Products) /\ IsFiniteSet(Addresses)
    /\ Customer \in Roles /\ FirstName \in Names
    /\ Shop \in [Products -> P!Shops]
    /\ MaxStock \in Nat /\ Minimums \subseteq Nat
    /\ MaxCodes \in Nat /\ MaxEdits \in Nat /\ MaxRenewals \in Nat /\ MaxLost \in Nat
    /\ MaxPageEdits \in Nat

pageVars == <<settings, shown, names, goods, cart, behind, pageEdits, pageReq>>
addressVars == <<address, unticked, torn, addressReq>>

FrontInit == part \in {"accounts", "pages", "addresses"} /\ Init /\ P!Init /\ B!Init

FrontNext ==
    /\ UNCHANGED part
    /\ \/ part = "accounts" /\ Next /\ UNCHANGED <<pageVars, addressVars>>
       \/ part = "pages" /\ P!Next /\ UNCHANGED <<vars, addressVars>>
       \/ part = "addresses" /\ B!Next /\ UNCHANGED <<vars, pageVars>>

FrontSpec ==
    FrontInit /\ [][FrontNext]_<<part, vars, pageVars, addressVars>> /\ Fairness /\ P!Fairness

-----------------------------------------------------------------------------
AllTypesOK == TypeOK /\ P!TypeOK /\ B!TypeOK
ChangesShowAtOnce == P!ChangesShowAtOnce
CartForetellsCheckout == P!CartForetellsCheckout
OneDefault == B!OneDefault

\* Every copy agrees with its row in the end, or is gone: sessions and tokens,
\* the cache of shown shops and of their names.
EveryCopyCatchesUp == <>[](CopiesCorrect /\ P!PagesCorrect)
=============================================================================
