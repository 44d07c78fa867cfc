------------------------------- MODULE Baskets -------------------------------
(***************************************************************************)
(* The books of a purchase that runs: what it has taken from the listings  *)
(* against what has been paid, between its steps.                          *)
(*                                                                         *)
(* "old" are the listings the purchase began from, "new" those it has      *)
(* written so far.  The operators take them as parameters, so that they    *)
(* speak of one state and of the next alike.                               *)
(***************************************************************************)
EXTENDS CarbonMarketplace, FiniteSetsExt

\* The listings bought from so far, and from whom; how many credits of a
\* listing, and what they cost.
Taken(old, new) == {l \in ListingIds : new[l] # old[l]}

TakenFrom(old, new, a) == {l \in Taken(old, new) : old[l].seller = a}

Quantity(old, new, l) == old[l].amount - new[l].amount

Number(old, new, S) == SumFunctionOnSet([l \in S |-> Quantity(old, new, l)], S)

Price(old, new, S) ==
  SumFunctionOnSet([l \in S |-> old[l].price * Quantity(old, new, l)], S)

\* A listing of which a part, or all, has been sold.
PartSold(old, new, l) ==
  /\ old[l] # None
  /\ old[l].status \in {"Active", "PartiallyFilled"}
  /\ 0 < Quantity(old, new, l)
  /\ new[l] # None
  /\ new[l] = [old[l] EXCEPT
       !.amount = new[l].amount,
       !.status = IF new[l].amount = 0 THEN "Sold" ELSE "PartiallyFilled"]

\* Every listing bought from has been sold in part or whole.
SalesAgree(old, new) ==
  /\ IsFiniteSet(Taken(old, new))
  /\ \A l \in Taken(old, new) : PartSold(old, new, l)

\* What account a has of an amount that goes to x.
Share(a, x, amount) == IF a = x THEN amount ELSE 0

\* What an account has yet to receive, less what it has yet to pay, of the
\* item that is being paid for.
Due(c, treasury, a) ==
  (IF c.stage = "proceeds"
     THEN Share(a, c.due.seller, c.due.proceeds)
            - Share(a, c.buyer, c.due.proceeds)
     ELSE 0)
  + (IF c.stage # "item"
       THEN Share(a, treasury, c.due.fee) - Share(a, c.buyer, c.due.fee)
       ELSE 0)

\* The balances once the item is paid for.
Settling(money, c, treasury) ==
  [a \in Addresses |-> money[a] + Due(c, treasury, a)]

\* What each account has received of the price.
Receipts(funds, c, price) ==
  [a \in Addresses |->
     funds[a] - c.saved.usdc[a] + Share(a, c.buyer, price)]

\* The fee withheld from a price for n credits: never too much, and less than
\* one stroop for each credit too little.
FairFee(price, withheld, n, rate) ==
  /\ 0 <= withheld
  /\ BpsDivisor * withheld <= price * rate
  /\ price * rate <= BpsDivisor * (withheld + n)

\* The listings sold from and the money received agree.
SharesAgree(old, new, receipts, treasury, rate) ==
  /\ \A a \in Addresses : receipts[a] \in Nat
  /\ SumFunctionOnSet(receipts, Addresses) = Price(old, new, Taken(old, new))
  /\ \A a \in Addresses : a # treasury =>
       LET S == TakenFrom(old, new, a) IN
         FairFee(Price(old, new, S), Price(old, new, S) - receipts[a],
                 Number(old, new, S), rate)

\* The books of purchase c, when the listings are book and the balances money.
BasketAgrees(book, money, c, treasury, rate) ==
  LET old == c.saved.listings
      taken == Taken(old, book)
  IN
    /\ SalesAgree(old, book)
    /\ SharesAgree(old, book,
                   Receipts(Settling(money, c, treasury), c,
                            Price(old, book, taken)),
                   treasury, rate)
    /\ taken = {} => c.stage = "item" /\ money = c.saved.usdc

(***************************************************************************)
(* Between any two steps of a purchase what has been taken from the        *)
(* listings is what has been paid, or is about to be: no stroop of the     *)
(* price is lost or made, a listing that occurs several times in the       *)
(* basket is charged for all of them, and every seller gets the price of   *)
(* what was bought from him less the fee, rounded down item by item        *)
(* (purchase_credits and bulk_purchase).                                   *)
(***************************************************************************)
BasketInv ==
  call # None => BasketAgrees(listings, usdc, call, admin, feeBps)
=============================================================================
