----------------------------- MODULE Settlement -----------------------------
(***************************************************************************)
(* What the marketplace promises its users, in terms of the offers and the *)
(* USDC balances that are visible between calls: a basket of offers is     *)
(* settled whole or not at all, against payment of exactly its price, of   *)
(* which the treasury retains at most the fee, rounded in favour of the    *)
(* sellers by less than one stroop for each credit bought.                 *)
(***************************************************************************)
EXTENDS Integers, FiniteSetsExt

CONSTANTS
  Accounts,     \* holders of USDC
  OfferIds,
  BpsDivisor,   \* 10000 basis points are the whole
  None          \* no offer

VARIABLES
  book,      \* the offers, by id
  funds,     \* USDC balances
  treasury,  \* the account that receives the fees
  bps        \* the fee, in basis points

vars == <<book, funds, treasury, bps>>

Open(id) == /\ book[id] # None
            /\ book[id].status \in {"Active", "PartiallyFilled"}

Init ==
  /\ book = [id \in OfferIds |-> None]
  /\ funds \in [Accounts -> Nat]
  /\ treasury = None
  /\ bps \in 1 .. BpsDivisor

\* An offer is made, under a new id or in the place of an earlier one.
Offer(id) ==
  /\ book' = [book EXCEPT ![id] = book'[id]]
  /\ book'[id] # None
  /\ book'[id].status = "Active"
  /\ book'[id].amount > 0
  /\ book'[id].price > 0
  /\ UNCHANGED <<funds, treasury, bps>>

\* An offer is withdrawn; what is left of it does not change.
Withdraw(id) ==
  /\ book[id] # None
  /\ book' = [book EXCEPT ![id].status = "Delisted"]
  /\ UNCHANGED <<funds, treasury, bps>>

-----------------------------------------------------------------------------
Bought == {id \in OfferIds : book'[id] # book[id]}

Quantity(id) == book[id].amount - book'[id].amount

Price(ids) ==
  SumFunctionOnSet([id \in ids |-> book[id].price * Quantity(id)], ids)

Credits(ids) == SumFunctionOnSet([id \in ids |-> Quantity(id)], ids)

\* What an account received of the payment, and what its offers cost.
Received(buyer, a) ==
  funds'[a] - funds[a] + (IF a = buyer THEN Price(Bought) ELSE 0)

Sold(a) == {id \in Bought : book[id].seller = a}

Withheld(buyer, a) == Price(Sold(a)) - Received(buyer, a)

Filled(id) ==
  /\ Open(id)
  /\ 0 < Quantity(id)
  /\ book'[id] = [book[id] EXCEPT
       !.amount = book'[id].amount,
       !.status = IF book'[id].amount = 0 THEN "Sold" ELSE "PartiallyFilled"]
  /\ book'[id].amount >= 0

Settle(buyer) ==
  /\ Bought # {}
  /\ \A id \in Bought : Filled(id)
  /\ SumFunctionOnSet([a \in Accounts |-> Received(buyer, a)], Accounts)
       = Price(Bought)
  /\ \A a \in Accounts :
       /\ funds'[a] >= 0
       /\ Received(buyer, a) >= 0
       /\ a # treasury =>
            LET fee == Withheld(buyer, a)
                exact == Price(Sold(a)) * bps
            IN /\ 0 <= fee
               /\ BpsDivisor * fee <= exact
               /\ exact <= BpsDivisor * (fee + Credits(Sold(a)))
  /\ UNCHANGED <<treasury, bps>>

\* The administrator is set once, and changes the fee.
Govern ==
  /\ \/ treasury = None /\ bps' = bps
     \/ UNCHANGED treasury /\ bps' \in 1 .. BpsDivisor
  /\ UNCHANGED <<book, funds>>

Next ==
  \/ \E id \in OfferIds : Offer(id) \/ Withdraw(id)
  \/ \E buyer \in Accounts : Settle(buyer)
  \/ Govern

Spec == Init /\ [][Next]_vars
=============================================================================
