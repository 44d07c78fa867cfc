-------------------------- MODULE SettlementProofs --------------------------
(***************************************************************************)
(* The marketplace implements Settlement, for all finite sets of           *)
(* addresses, all baskets, prices and fees: the books of a purchase that   *)
(* is not finished agree after every step.                                 *)
(***************************************************************************)
EXTENDS Baskets, CarbonMarketplaceProofs, FiniteSums

USE TimelockAssumption, PendingOpAssumption, MarketAssumption,
    MarketRecordAssumption

Book == [ListingIds -> MarketListing \cup {None}]

Cost(old, l, q) == old[l].price * q

\* From the listings of a purchase, q more are taken from listing l.
Taking(old, new, next, l, q) ==
  /\ old \in Book /\ new \in Book /\ next \in Book
  /\ SalesAgree(old, new) /\ SalesAgree(old, next)
  /\ l \in ListingIds /\ old[l] \in MarketListing
  /\ q \in Nat \ {0}
  /\ Taken(old, next) = Taken(old, new) \cup {l}
  /\ \A m \in ListingIds \ {l} : next[m] = new[m]
  /\ l \in Taken(old, new) =>
       Quantity(old, next, l) = Quantity(old, new, l) + q
  /\ l \notin Taken(old, new) => Quantity(old, next, l) = q

\* Of a payment x has received d, and y has received e.
PaidOut(r, r2, x, d, y, e) ==
  \A a \in Addresses : r2[a] = r[a] + Share(a, x, d) + Share(a, y, e)

\* The fee for a cost, rounded down.
Rounded(fee, cost, rate) ==
  /\ fee \in 0 .. cost
  /\ BpsDivisor * fee <= cost * rate
  /\ cost * rate < BpsDivisor * (fee + 1)

-----------------------------------------------------------------------------
\* The fee is the exact part of the cost, rounded down.
LEMMA FeeRounds ==
  ASSUME NEW cost \in Nat, NEW rate \in 1 .. BpsDivisor
  PROVE  Rounded((cost * rate) \div BpsDivisor, cost, rate)
<1>1. BpsDivisor \in Nat /\ BpsDivisor > 0 /\ rate \in Nat
  OBVIOUS
<1>2. cost * rate \in Nat
  BY <1>1
<1> SUFFICES ASSUME NEW n \in Nat, NEW k \in Nat, k > 0
             PROVE  k * (n \div k) <= n /\ n < k * ((n \div k) + 1)
  BY <1>1, <1>2, FeeWithinCost DEF Rounded
<1> QED
  OBVIOUS

\* Fees that are fair item by item are fair in sum.
LEMMA FairFeesAdd ==
  ASSUME NEW price \in Nat, NEW withheld \in Int, NEW n \in Nat,
         NEW rate \in 1 .. BpsDivisor, FairFee(price, withheld, n, rate),
         NEW cost \in Nat, NEW fee, Rounded(fee, cost, rate),
         NEW q \in Nat \ {0}
  PROVE  FairFee(price + cost, withheld + fee, n + q, rate)
<1>0. /\ BpsDivisor \in Nat /\ rate \in Nat /\ fee \in Nat
      /\ BpsDivisor * fee <= cost * rate
      /\ cost * rate < BpsDivisor * (fee + 1)
  BY DEF Rounded
<1>1. /\ withheld >= 0
      /\ BpsDivisor * withheld <= price * rate
      /\ price * rate <= BpsDivisor * (withheld + n)
  BY DEF FairFee
<1>2. /\ (price + cost) * rate = price * rate + cost * rate
      /\ BpsDivisor * (withheld + fee)
           = BpsDivisor * withheld + BpsDivisor * fee
      /\ BpsDivisor * ((withheld + fee) + (n + q))
           = BpsDivisor * (withheld + n) + BpsDivisor * (fee + q)
  BY <1>0, <1>1
<1>3. BpsDivisor * (fee + 1) <= BpsDivisor * (fee + q)
  BY <1>0, <1>1
<1>4. /\ price * rate \in Int /\ cost * rate \in Int
      /\ BpsDivisor * withheld \in Int /\ BpsDivisor * fee \in Int
      /\ BpsDivisor * (withheld + n) \in Int
      /\ BpsDivisor * (fee + 1) \in Int
      /\ BpsDivisor * (fee + q) \in Int
  BY <1>0, <1>1
<1>5. /\ BpsDivisor * (withheld + fee) <= (price + cost) * rate
      /\ (price + cost) * rate <= BpsDivisor * ((withheld + fee) + (n + q))
  BY <1>0, <1>1, <1>2, <1>3, <1>4
<1> QED
  BY <1>0, <1>1, <1>5 DEF FairFee

-----------------------------------------------------------------------------
\* What is sold of a listing that has been bought from.
LEMMA SaleFacts ==
  ASSUME NEW old \in Book, NEW new \in Book, SalesAgree(old, new),
         NEW l \in Taken(old, new)
  PROVE  /\ l \in ListingIds
         /\ old[l] \in MarketListing /\ new[l] \in MarketListing
         /\ old[l].seller \in Addresses
         /\ new[l].seller = old[l].seller /\ new[l].price = old[l].price
         /\ new[l].status =
              IF new[l].amount = 0 THEN "Sold" ELSE "PartiallyFilled"
         /\ old[l].price \in Nat /\ new[l].amount \in Nat
         /\ Quantity(old, new, l) \in Nat \ {0}
         /\ old[l].price * Quantity(old, new, l) \in Nat
<1>1. /\ l \in ListingIds
      /\ PartSold(old, new, l)
  BY DEF SalesAgree, Taken
<1>2. old[l] \in MarketListing
  BY <1>1 DEF PartSold, Book
<1>3. /\ old[l].amount \in Nat /\ old[l].price \in Nat
      /\ old[l].seller \in Addresses
  BY <1>2 DEF MarketListing
<1> DEFINE n == new[l].amount
           s == IF n = 0 THEN "Sold" ELSE "PartiallyFilled"
<1>4. new[l] = [old[l] EXCEPT !.amount = n, !.status = s]
  BY <1>1 DEF PartSold
<1>5. /\ new[l].seller = old[l].seller /\ new[l].price = old[l].price
      /\ new[l].status = s
  BY <1>2, <1>4 DEF MarketListing
<1>6. new[l] # None
  BY <1>1 DEF PartSold
<1> QED
  BY <1>1, <1>2, <1>3, <1>5, <1>6 DEF PartSold, Quantity, Book, MarketListing

\* The next item is taken from a listing that the purchase may have bought
\* from before.
LEMMA TakeBook ==
  ASSUME NEW old \in Book, NEW new \in Book, SalesAgree(old, new),
         NEW l \in ListingIds, new[l] # None,
         new[l].status \notin {"Delisted", "Sold"},
         NEW q \in 1 .. new[l].amount, NEW next,
         next = [new EXCEPT
           ![l].amount = new[l].amount - q,
           ![l].status = IF new[l].amount - q = 0 THEN "Sold"
                                                  ELSE "PartiallyFilled"]
  PROVE  /\ Taking(old, new, next, l, q)
         /\ old[l].seller = new[l].seller /\ old[l].price = new[l].price
<1> DEFINE left == new[l].amount - q
           status == IF left = 0 THEN "Sold" ELSE "PartiallyFilled"
           rec == [new[l] EXCEPT !.amount = left, !.status = status]
<1>1. new[l] \in MarketListing /\ q \in Nat \ {0}
  BY DEF Book, MarketListing
<1>2. left \in 0 .. I128Max
  <2> SUFFICES ASSUME NEW n \in 0 .. I128Max, NEW p \in 1 .. n
               PROVE  n - p \in 0 .. I128Max
    BY <1>1 DEF MarketListing
  <2> QED
    OBVIOUS
<1>3. status \in {"Sold", "PartiallyFilled"}
  OBVIOUS
<1>4. next = [new EXCEPT ![l] = rec]
  OBVIOUS
<1>5. /\ rec \in MarketListing
      /\ rec.amount = left /\ rec.status = status
      /\ rec.seller = new[l].seller /\ rec.price = new[l].price
  <2> HIDE DEF left, status
  <2> QED
    BY <1>1, <1>2, <1>3 DEF MarketListing, ListingStatus
<1> HIDE DEF rec
<1>6. /\ next \in Book
      /\ \A m \in ListingIds : next[m] = IF m = l THEN rec ELSE new[m]
  BY <1>4, <1>5 DEF Book
<1>7. /\ old[l] \in MarketListing
      /\ old[l].seller = new[l].seller /\ old[l].price = new[l].price
      /\ old[l].status \in {"Active", "PartiallyFilled"}
      /\ old[l].amount >= new[l].amount
      /\ l \notin Taken(old, new) => old[l] = new[l]
  <2>1. CASE l \in Taken(old, new)
    <3>1. PartSold(old, new, l)
      BY <2>1 DEF SalesAgree
    <3>2. /\ old[l] \in MarketListing
          /\ old[l].seller = new[l].seller /\ old[l].price = new[l].price
          /\ Quantity(old, new, l) \in Nat \ {0}
      BY <2>1, SaleFacts
    <3>3. old[l].amount >= new[l].amount
      BY <1>1, <3>2 DEF Quantity, MarketListing
    <3> QED
      BY <2>1, <3>1, <3>2, <3>3 DEF PartSold
  <2>2. CASE l \notin Taken(old, new)
    <3>1. old[l] = new[l]
      BY <2>2 DEF Taken
    <3>2. new[l].amount \in Nat
      BY <1>1 DEF MarketListing
    <3> QED
      BY <1>1, <3>1, <3>2 DEF MarketListing, ListingStatus
  <2> QED
    BY <2>1, <2>2
<1>8. /\ old[l].amount \in Nat /\ new[l].amount \in Nat
      /\ left < old[l].amount /\ left # old[l].amount
  BY <1>1, <1>7 DEF MarketListing
<1>9. Taken(old, next) = Taken(old, new) \cup {l}
  <2>1. next[l].amount = left
    BY <1>5, <1>6
  <2>2. next[l] # old[l]
    BY <1>8, <2>1
  <2> QED
    BY <1>6, <2>2 DEF Taken
<1>10. PartSold(old, next, l)
  <2>1. /\ next[l] = rec /\ rec # None
    BY <1>5, <1>6
  <2>2. rec = [old[l] EXCEPT !.amount = left, !.status = status]
    <3>1. CASE l \in Taken(old, new)
      <4> DEFINE full == [seller |-> old[l].seller, amount |-> left,
                          price |-> old[l].price, status |-> status]
                 sold == [old[l] EXCEPT !.amount = left, !.status = status]
      <4> HIDE DEF left, status
      <4>1. rec = full
        BY <1>5, <1>7 DEF MarketListing
      <4>2. /\ sold \in MarketListing
            /\ sold.amount = left /\ sold.status = status
            /\ sold.seller = old[l].seller /\ sold.price = old[l].price
        BY <1>2, <1>3, <1>7 DEF MarketListing, ListingStatus
      <4> HIDE DEF sold
      <4>3. sold = full
        BY <4>2 DEF MarketListing
      <4> QED
        BY <4>1, <4>3 DEF sold
    <3>2. CASE l \notin Taken(old, new)
      BY <1>7, <3>2 DEF rec
    <3> QED
      BY <3>1, <3>2
  <2>3. 0 < Quantity(old, next, l)
    BY <1>2, <1>5, <1>8, <2>1 DEF Quantity
  <2>4. old[l] # None
    BY <1>7
  <2> QED
    BY <1>5, <1>7, <2>1, <2>2, <2>3, <2>4 DEF PartSold
<1>11. SalesAgree(old, next)
  <2>1. ASSUME NEW m \in Taken(old, next), m # l PROVE PartSold(old, next, m)
    <3>1. m \in Taken(old, new) /\ m \in ListingIds /\ next[m] = new[m]
      BY <1>6, <1>9, <2>1 DEF Taken
    <3> QED
      BY <3>1 DEF SalesAgree, PartSold, Quantity
  <2>2. IsFiniteSet(Taken(old, next))
    <3>1. IsFiniteSet(Taken(old, new))
      BY DEF SalesAgree
    <3>2. IsFiniteSet(Taken(old, new) \cup {l})
      BY <3>1, FS_AddElement
    <3> QED
      BY <1>9, <3>2
  <2> QED
    BY <1>10, <2>1, <2>2 DEF SalesAgree
<1>12. /\ l \in Taken(old, new) =>
            Quantity(old, next, l) = Quantity(old, new, l) + q
       /\ l \notin Taken(old, new) => Quantity(old, next, l) = q
  <2>1. /\ Quantity(old, next, l) = old[l].amount - left
        /\ Quantity(old, new, l) = old[l].amount - new[l].amount
    BY <1>5, <1>6 DEF Quantity
  <2>2. l \notin Taken(old, new) => old[l].amount = new[l].amount
    BY <1>7
  <2> QED
    BY <1>1, <1>8, <2>1, <2>2
<1> QED
  BY <1>1, <1>6, <1>7, <1>9, <1>11, <1>12 DEF Taking

-----------------------------------------------------------------------------
\* What has been bought of some listings is a number of credits, and has a
\* price.
LEMMA SumsType ==
  ASSUME NEW old \in Book, NEW new \in Book, SalesAgree(old, new),
         NEW S \in SUBSET Taken(old, new)
  PROVE  /\ IsFiniteSet(S)
         /\ Price(old, new, S) \in Nat
         /\ Number(old, new, S) \in Nat
<1>1. IsFiniteSet(S)
  <2>1. IsFiniteSet(Taken(old, new))
    BY DEF SalesAgree
  <2> QED
    BY <2>1, FS_Subset
<1>2. \A m \in S : /\ Quantity(old, new, m) \in Nat
                   /\ old[m].price * Quantity(old, new, m) \in Nat
  BY SaleFacts
<1>3. Price(old, new, S) \in Nat
  <2> DEFINE w == [m \in S |-> old[m].price * Quantity(old, new, m)]
  <2>1. \A m \in S : w[m] \in Nat
    BY <1>2
  <2> HIDE DEF w
  <2>2. SumFunctionOnSet(w, S) \in Nat
    BY <1>1, <2>1, SumNat
  <2> QED
    BY <2>2 DEF w, Price
<1>4. Number(old, new, S) \in Nat
  <2> DEFINE w == [m \in S |-> Quantity(old, new, m)]
  <2>1. \A m \in S : w[m] \in Nat
    BY <1>2
  <2> HIDE DEF w
  <2>2. SumFunctionOnSet(w, S) \in Nat
    BY <1>1, <2>1, SumNat
  <2> QED
    BY <2>2 DEF w, Number
<1> QED
  BY <1>1, <1>3, <1>4

\* The item taken counts in every sum that its listing belongs to.
LEMMA TakeSums ==
  ASSUME NEW old, NEW new, NEW next, NEW l, NEW q,
         Taking(old, new, next, l, q),
         NEW S \in SUBSET Taken(old, new), l \in Taken(old, new) => l \in S
  PROVE  /\ Price(old, next, S \cup {l}) = Price(old, new, S) + Cost(old, l, q)
         /\ Number(old, next, S \cup {l}) = Number(old, new, S) + q
<1> DEFINE sold == [m \in S |-> Quantity(old, new, m)]
           cost == [m \in S |-> old[m].price * Quantity(old, new, m)]
           sold2 == [m \in S \cup {l} |-> Quantity(old, next, m)]
           cost2 == [m \in S \cup {l} |-> old[m].price * Quantity(old, next, m)]
           p == old[l].price
<1>0. /\ old \in Book /\ new \in Book /\ SalesAgree(old, new)
      /\ l \in ListingIds /\ old[l] \in MarketListing /\ q \in Nat
  BY DEF Taking
<1>1. IsFiniteSet(S)
  BY <1>0, SumsType
<1>2. \A m \in S : /\ m \in ListingIds
                   /\ Quantity(old, new, m) \in Nat
                   /\ old[m].price * Quantity(old, new, m) \in Nat
  BY <1>0, SaleFacts
<1>3. p \in Nat
  BY <1>0 DEF MarketListing
<1>4. /\ \A m \in S : sold[m] \in Nat /\ cost[m] \in Nat
      /\ l \in S => cost[l] = p * sold[l]
  BY <1>2
<1>5. \A m \in S \ {l} : sold2[m] = sold[m] /\ cost2[m] = cost[m]
  <2>1. \A m \in S \ {l} : Quantity(old, next, m) = Quantity(old, new, m)
    BY <1>2 DEF Taking, Quantity
  <2> QED
    BY <2>1
<1>6. /\ l \in S => sold2[l] = sold[l] + q
      /\ l \notin S => sold2[l] = q
      /\ cost2[l] = p * sold2[l]
  BY DEF Taking
<1> HIDE DEF sold, cost, sold2, cost2, p
<1>7. p * q \in Nat /\ sold2[l] \in Nat
  BY <1>0, <1>3, <1>4, <1>6
<1>8. CASE l \in S
  <2>1. S \cup {l} = S
    BY <1>8
  <2>2. sold2[l] \in Int /\ cost2[l] \in Int /\ cost2[l] = cost[l] + p * q
    <3> SUFFICES p * (sold[l] + q) = p * sold[l] + p * q
      BY <1>0, <1>3, <1>4, <1>6, <1>7, <1>8
    <3> QED
      BY <1>0, <1>3, <1>4, <1>8
  <2>3. SumFunctionOnSet(sold2, S) =
          SumFunctionOnSet(sold, S) + (sold2[l] - sold[l])
    BY <1>1, <1>4, <1>5, <1>8, <2>2, SumChanges
  <2>4. SumFunctionOnSet(cost2, S) =
          SumFunctionOnSet(cost, S) + (cost2[l] - cost[l])
    BY <1>1, <1>4, <1>5, <1>8, <2>2, SumChanges
  <2>5. sold2[l] - sold[l] = q /\ cost2[l] - cost[l] = p * q
    BY <1>0, <1>4, <1>6, <1>7, <1>8, <2>2
  <2> QED
    BY <2>1, <2>3, <2>4, <2>5 DEF sold, cost, sold2, cost2, p, Price, Number,
                                    Cost
<1>9. CASE l \notin S
  <2>1. sold2[l] = q /\ cost2[l] = p * q /\ q \in Int /\ p * q \in Int
    BY <1>0, <1>6, <1>7, <1>9
  <2>2. \A m \in S : /\ sold[m] \in Int /\ sold2[m] = sold[m]
                     /\ cost[m] \in Int /\ cost2[m] = cost[m]
    BY <1>4, <1>5, <1>9
  <2>3. SumFunctionOnSet(sold2, S \cup {l}) =
          SumFunctionOnSet(sold, S) + sold2[l]
    BY <1>1, <1>9, <2>1, <2>2, SumGains
  <2>4. SumFunctionOnSet(cost2, S \cup {l}) =
          SumFunctionOnSet(cost, S) + cost2[l]
    BY <1>1, <1>9, <2>1, <2>2, SumGains
  <2> QED
    BY <2>1, <2>3, <2>4 DEF sold, cost, sold2, cost2, p, Price, Number,
                                    Cost
<1> QED
  BY <1>8, <1>9

\* The sums that the listing of the item does not belong to stay.
LEMMA OtherSums ==
  ASSUME NEW old, NEW new, NEW next, NEW l, NEW q,
         Taking(old, new, next, l, q),
         NEW S \in SUBSET Taken(old, new), l \notin S
  PROVE  /\ Price(old, next, S) = Price(old, new, S)
         /\ Number(old, next, S) = Number(old, new, S)
<1>0. /\ old \in Book /\ new \in Book /\ SalesAgree(old, new)
      /\ \A m \in ListingIds \ {l} : next[m] = new[m]
  BY DEF Taking
<1>1. IsFiniteSet(S)
  BY <1>0, SumsType
<1>2. \A m \in S : /\ Quantity(old, next, m) = Quantity(old, new, m)
                   /\ Quantity(old, new, m) \in Int
                   /\ old[m].price * Quantity(old, new, m) \in Int
  <2> SUFFICES ASSUME NEW m \in S
               PROVE  /\ Quantity(old, next, m) = Quantity(old, new, m)
                      /\ Quantity(old, new, m) \in Int
                      /\ old[m].price * Quantity(old, new, m) \in Int
    OBVIOUS
  <2>1. /\ m \in ListingIds
        /\ Quantity(old, new, m) \in Nat
        /\ old[m].price * Quantity(old, new, m) \in Nat
    BY <1>0, SaleFacts
  <2> QED
    BY <1>0, <2>1 DEF Quantity
<1>3. Price(old, next, S) = Price(old, new, S)
  <2> DEFINE w == [m \in S |-> old[m].price * Quantity(old, new, m)]
             v == [m \in S |-> old[m].price * Quantity(old, next, m)]
  <2>1. \A m \in S : w[m] \in Int /\ v[m] = w[m]
    BY <1>2
  <2> HIDE DEF w, v
  <2>2. SumFunctionOnSet(v, S) = SumFunctionOnSet(w, S)
    BY <1>1, <2>1, SumSameTerms
  <2> QED
    BY <2>2 DEF w, v, Price
<1>4. Number(old, next, S) = Number(old, new, S)
  <2> DEFINE w == [m \in S |-> Quantity(old, new, m)]
             v == [m \in S |-> Quantity(old, next, m)]
  <2>1. \A m \in S : w[m] \in Int /\ v[m] = w[m]
    BY <1>2
  <2> HIDE DEF w, v
  <2>2. SumFunctionOnSet(v, S) = SumFunctionOnSet(w, S)
    BY <1>1, <2>1, SumSameTerms
  <2> QED
    BY <2>2 DEF w, v, Number
<1> QED
  BY <1>3, <1>4

-----------------------------------------------------------------------------
\* A payment is shared between two accounts, which may be the same.
LEMMA SumShared ==
  ASSUME IsFiniteSet(Addresses),
         NEW r, \A a \in Addresses : r[a] \in Nat,
         NEW x \in Addresses, NEW y \in Addresses, NEW d \in Nat, NEW e \in Nat,
         NEW r2, PaidOut(r, r2, x, d, y, e)
  PROVE  SumFunctionOnSet(r2, Addresses)
           = SumFunctionOnSet(r, Addresses) + d + e
<1> DEFINE mid == [a \in Addresses |-> IF a = x THEN r[a] + d ELSE r[a]]
<1>1. /\ \A a \in Addresses : mid[a] \in Nat
      /\ \A a \in Addresses \ {x} : mid[a] = r[a]
      /\ mid[x] = r[x] + d
  OBVIOUS
<1>2. /\ \A a \in Addresses \ {y} : r2[a] = mid[a]
      /\ r2[y] = mid[y] + e
  BY DEF PaidOut, Share
<1> HIDE DEF mid
<1>3. /\ r[x] \in Int /\ mid[x] \in Int /\ mid[y] \in Int /\ r2[y] \in Int
      /\ mid[x] - r[x] = d /\ r2[y] - mid[y] = e
  BY <1>1, <1>2
<1>4. SumFunctionOnSet(mid, Addresses)
        = SumFunctionOnSet(r, Addresses) + (mid[x] - r[x])
  BY <1>1, <1>3, SumChanges
<1>5. SumFunctionOnSet(r2, Addresses)
        = SumFunctionOnSet(mid, Addresses) + (r2[y] - mid[y])
  BY <1>1, <1>2, <1>3, SumChanges
<1>6. SumFunctionOnSet(r, Addresses) \in Int
  BY SumType
<1> QED
  BY <1>3, <1>4, <1>5, <1>6

\* With the item, the listings sold from and the money received still agree.
LEMMA TakeShares ==
  ASSUME IsFiniteSet(Addresses),
         NEW old, NEW new, NEW next, NEW l, NEW q,
         Taking(old, new, next, l, q),
         NEW treasury \in Addresses, NEW rate \in 1 .. BpsDivisor,
         NEW r, SharesAgree(old, new, r, treasury, rate),
         NEW cost \in Nat, cost = Cost(old, l, q),
         NEW fee, Rounded(fee, cost, rate),
         NEW r2, PaidOut(r, r2, old[l].seller, cost - fee, treasury, fee)
  PROVE  SharesAgree(old, next, r2, treasury, rate)
<1> DEFINE seller == old[l].seller
<1>0. /\ old \in Book /\ new \in Book /\ SalesAgree(old, new)
      /\ old[l] \in MarketListing /\ q \in Nat \ {0}
      /\ Taken(old, next) = Taken(old, new) \cup {l}
  BY DEF Taking
<1>1. /\ \A a \in Addresses : r[a] \in Nat
      /\ SumFunctionOnSet(r, Addresses) = Price(old, new, Taken(old, new))
  BY DEF SharesAgree
<1>2. /\ seller \in Addresses
      /\ fee \in Nat /\ cost - fee \in Nat
      /\ q \in Nat
  BY <1>0 DEF MarketListing, Rounded
<1>3. \A a \in Addresses : r2[a] \in Nat
  <2>1. \A a \in Addresses : /\ Share(a, seller, cost - fee) \in Nat
                             /\ Share(a, treasury, fee) \in Nat
    BY <1>2 DEF Share
  <2> QED
    BY <1>1, <2>1 DEF PaidOut
<1>4. SumFunctionOnSet(r2, Addresses) = Price(old, next, Taken(old, next))
  <2> DEFINE S == Taken(old, new)
  <2>1. Price(old, next, S \cup {l}) = Price(old, new, S) + cost
    BY <1>2, TakeSums
  <2>2. SumFunctionOnSet(r2, Addresses)
          = SumFunctionOnSet(r, Addresses) + (cost - fee) + fee
    <3> DEFINE d == cost - fee
    <3> HIDE DEF d, seller
    <3>1. PaidOut(r, r2, seller, d, treasury, fee)
      BY DEF d, seller
    <3>2. d \in Nat
      BY <1>2 DEF d
    <3>3. SumFunctionOnSet(r2, Addresses)
            = SumFunctionOnSet(r, Addresses) + d + fee
      BY <1>1, <1>2, <3>1, <3>2, SumShared
    <3> QED
      BY <3>3 DEF d
  <2>3. Price(old, new, S) \in Nat
    BY <1>0, SumsType
  <2> QED
    BY <1>0, <1>1, <1>2, <2>1, <2>2, <2>3
<1>5. ASSUME NEW a \in Addresses, a # treasury
      PROVE  LET S == TakenFrom(old, next, a) IN
               FairFee(Price(old, next, S), Price(old, next, S) - r2[a],
                       Number(old, next, S), rate)
  <2> DEFINE S == TakenFrom(old, new, a)
  <2>1. S \in SUBSET Taken(old, new)
    BY DEF TakenFrom
  <2>2. FairFee(Price(old, new, S), Price(old, new, S) - r[a],
                Number(old, new, S), rate)
    BY <1>5 DEF SharesAgree
  <2>3. /\ Price(old, new, S) \in Nat /\ Number(old, new, S) \in Nat
        /\ r[a] \in Nat
    BY <1>0, <1>1, <2>1, SumsType
  <2>4. CASE a = seller
    <3>1. /\ TakenFrom(old, next, a) = S \cup {l}
          /\ l \in Taken(old, new) => l \in S
      BY <1>0, <2>4 DEF TakenFrom
    <3>2. /\ Price(old, next, S \cup {l}) = Price(old, new, S) + cost
          /\ Number(old, next, S \cup {l}) = Number(old, new, S) + q
      <4> HIDE DEF S, seller
      <4>1. Price(old, next, S \cup {l}) = Price(old, new, S) + Cost(old, l, q)
        BY <2>1, <3>1, TakeSums
      <4>2. Number(old, next, S \cup {l}) = Number(old, new, S) + q
        BY <2>1, <3>1, TakeSums
      <4> QED
        BY <4>1, <4>2
    <3>3. r2[a] = r[a] + (cost - fee)
      BY <1>1, <1>2, <1>5, <2>4 DEF PaidOut, Share
    <3> HIDE DEF S
    <3> DEFINE p == Price(old, new, S)
               n == Number(old, new, S)
    <3>4. FairFee(p + cost, (p - r[a]) + fee, n + q, rate)
      <4>1. p - r[a] \in Int /\ p \in Nat /\ n \in Nat
        BY <2>3
      <4> HIDE DEF p, n
      <4> QED
        BY <1>0, <1>2, <2>2, <4>1, FairFeesAdd DEF p, n
    <3>5. (p + cost) - r2[a] = (p - r[a]) + fee
      BY <1>2, <2>3, <3>3
    <3> QED
      BY <3>1, <3>2, <3>4, <3>5
  <2>5. CASE a # seller
    <3>1. TakenFrom(old, next, a) = S /\ l \notin S
      BY <1>0, <2>5 DEF TakenFrom
    <3>2. /\ Price(old, next, S) = Price(old, new, S)
          /\ Number(old, next, S) = Number(old, new, S)
      BY <2>1, <3>1, OtherSums
    <3>3. r2[a] = r[a]
      BY <1>1, <1>5, <2>5 DEF PaidOut, Share
    <3> QED
      BY <2>2, <3>1, <3>2, <3>3
  <2> QED
    BY <2>4, <2>5
<1> QED
  BY <1>3, <1>4, <1>5 DEF SharesAgree

-----------------------------------------------------------------------------
\* A purchase begins with nothing taken and nothing paid.
LEMMA BeginBasket ==
  ASSUME NEW book \in Book, NEW money \in [Addresses -> Nat],
         NEW c, c.stage = "item", c.saved.listings = book, c.saved.usdc = money,
         NEW treasury, NEW rate \in Nat
  PROVE  BasketAgrees(book, money, c, treasury, rate)
<1> DEFINE r == Receipts(Settling(money, c, treasury), c, 0)
<1>1. Taken(book, book) = {} /\ \A a : TakenFrom(book, book, a) = {}
  BY DEF Taken, TakenFrom
<1>2. Price(book, book, {}) = 0 /\ Number(book, book, {}) = 0
  BY SumEmpty DEF Price, Number
<1>3. SalesAgree(book, book)
  BY <1>1, FS_EmptySet DEF SalesAgree
<1>4. \A a \in Addresses : r[a] = 0
  BY DEF Receipts, Settling, Due, Share
<1>5. SumFunctionOnSet(r, Addresses) = 0
  <2> HIDE DEF r
  <2> QED
    BY <1>4, FiniteAssumption, SumZero
<1>6. FairFee(0, 0, 0, rate)
  <2> SUFFICES BpsDivisor * 0 <= 0 * rate /\ 0 * rate <= BpsDivisor * (0 + 0)
    BY DEF FairFee
  <2> QED
    OBVIOUS
<1> HIDE DEF r
<1>7. SharesAgree(book, book, r, treasury, rate)
  <2>1. 0 - 0 = 0
    OBVIOUS
  <2>2. \A a \in Addresses : r[a] \in Nat /\ 0 - r[a] = 0
    BY <1>4
  <2> QED
    BY <1>1, <1>2, <1>5, <1>6, <2>2 DEF SharesAgree
<1> QED
  BY <1>1, <1>2, <1>3, <1>7 DEF BasketAgrees, r

\* An item is taken, and its price is due.
LEMMA TakeBasket ==
  ASSUME NEW book \in Book, NEW money \in [Addresses -> Nat],
         NEW c \in Purchase, c.stage = "item",
         NEW treasury \in Addresses, NEW rate \in 1 .. BpsDivisor,
         BasketAgrees(book, money, c, treasury, rate),
         NEW next, NEW l, NEW q, Taking(c.saved.listings, book, next, l, q),
         NEW cost \in Nat, cost = Cost(c.saved.listings, l, q),
         NEW fee, Rounded(fee, cost, rate),
         NEW d, d.stage = "proceeds", d.buyer = c.buyer, d.saved = c.saved,
         d.due = [seller |-> c.saved.listings[l].seller,
                  proceeds |-> cost - fee, fee |-> fee]
  PROVE  BasketAgrees(next, money, d, treasury, rate)
<1> DEFINE old == c.saved.listings
           paid == c.saved.usdc
           before == Price(old, book, Taken(old, book))
           after == Price(old, next, Taken(old, next))
           r == Receipts(Settling(money, c, treasury), c, before)
           r2 == Receipts(Settling(money, d, treasury), d, after)
           seller == old[l].seller
<1>1. /\ old \in Book /\ paid \in [Addresses -> Nat] /\ c.buyer \in Addresses
  BY DEF Purchase, Book
<1>2. SharesAgree(old, book, r, treasury, rate)
  BY DEF BasketAgrees
<1>3. after = before + cost
  <2>1. Taken(old, next) = Taken(old, book) \cup {l}
    BY DEF Taking
  <2> HIDE DEF old
  <2>2. Price(old, next, Taken(old, book) \cup {l})
          = Price(old, book, Taken(old, book)) + Cost(old, l, q)
    BY TakeSums DEF old
  <2> QED
    BY <2>1, <2>2 DEF old
<1>4. before \in Nat
  BY <1>1, SumsType DEF BasketAgrees
<1>5. fee \in Nat /\ cost - fee \in Nat
  BY DEF Rounded
<1>6. PaidOut(r, r2, seller, cost - fee, treasury, fee)
  <2> HIDE DEF old, before, after, seller, paid
  <2> SUFFICES ASSUME NEW a \in Addresses
               PROVE  r2[a] = r[a] + Share(a, seller, cost - fee)
                                   + Share(a, treasury, fee)
    BY DEF PaidOut
  <2>1. r[a] = money[a] - paid[a] + Share(a, c.buyer, before)
    BY <1>1, <1>4 DEF Receipts, Settling, Due, paid
  <2>2. r2[a] = (money[a] +
                 (Share(a, seller, cost - fee) - Share(a, c.buyer, cost - fee)
                  + (Share(a, treasury, fee) - Share(a, c.buyer, fee))))
                - paid[a] + Share(a, c.buyer, after)
    <3>1. /\ d.due.seller = seller /\ d.due.proceeds = cost - fee
          /\ d.due.fee = fee
      BY DEF seller, old
    <3>2. Due(d, treasury, a) =
            Share(a, seller, cost - fee) - Share(a, c.buyer, cost - fee)
              + (Share(a, treasury, fee) - Share(a, c.buyer, fee))
      BY <3>1 DEF Due
    <3>3. r2[a] = (money[a] + Due(d, treasury, a)) - paid[a]
                    + Share(a, c.buyer, after)
      <4>1. Settling(money, d, treasury)[a] = money[a] + Due(d, treasury, a)
        BY DEF Settling
      <4>2. r2[a] = Settling(money, d, treasury)[a] - d.saved.usdc[a]
                      + Share(a, d.buyer, after)
        BY DEF Receipts
      <4>3. d.saved.usdc[a] = paid[a] /\ d.buyer = c.buyer
        BY DEF paid
      <4> HIDE DEF r2
      <4> QED
        BY <4>1, <4>2, <4>3
    <3> QED
      BY <3>2, <3>3
  <2> HIDE DEF r, r2
  <2>3. Share(a, c.buyer, after) =
          Share(a, c.buyer, before) + Share(a, c.buyer, cost - fee)
            + Share(a, c.buyer, fee)
    BY <1>3, <1>4, <1>5 DEF Share
  <2>4. /\ money[a] \in Int /\ paid[a] \in Int
        /\ Share(a, c.buyer, before) \in Int
        /\ Share(a, c.buyer, cost - fee) \in Int
        /\ Share(a, c.buyer, fee) \in Int
        /\ Share(a, seller, cost - fee) \in Int
        /\ Share(a, treasury, fee) \in Int
    BY <1>1, <1>4, <1>5 DEF Share
  <2> QED
    BY <2>1, <2>2, <2>3, <2>4
<1> HIDE DEF r, r2
<1>7. SharesAgree(old, next, r2, treasury, rate)
  BY <1>2, <1>6, FiniteAssumption, TakeShares
<1>8. SalesAgree(old, next) /\ Taken(old, next) # {}
  BY DEF Taking
<1> QED
  BY <1>7, <1>8 DEF BasketAgrees, r2

\* The payments move what is due.
LEMMA PayBasket ==
  ASSUME NEW book, NEW money, NEW c, NEW money2, NEW d, NEW treasury, NEW rate,
         BasketAgrees(book, money, c, treasury, rate),
         d.buyer = c.buyer, d.saved = c.saved, c.stage # "item",
         \A a \in Addresses :
           money2[a] + Due(d, treasury, a) = money[a] + Due(c, treasury, a)
  PROVE  BasketAgrees(book, money2, d, treasury, rate)
<1>1. Settling(money2, d, treasury) = Settling(money, c, treasury)
  BY DEF Settling
<1>2. \A m, price : Receipts(m, d, price) = Receipts(m, c, price)
  BY DEF Receipts
<1>3. Taken(c.saved.listings, book) # {}
  BY DEF BasketAgrees
<1> QED
  BY <1>1, <1>2, <1>3 DEF BasketAgrees

-----------------------------------------------------------------------------
\* What the steps of a purchase do to the listings, the balances and what is
\* due: the next item is taken.
LEMMA TakeKeepsBasket ==
  ASSUME MarketInv, BasketInv, call # None, TakeItem
  PROVE  BasketInv'
<1> DEFINE old == call.saved.listings
           item == Head(call.items)
           l == item.listing
           q == item.amount
           cost == TotalCost(item)
           fee == ProtocolFee(item)
           due == [seller |-> old[l].seller, proceeds |-> cost - fee,
                   fee |-> fee]
<1>1. /\ call \in Purchase /\ call.stage = "item"
      /\ old \in Book /\ listings \in Book /\ usdc \in [Addresses -> Nat]
      /\ admin \in Addresses /\ feeBps \in 1 .. BpsDivisor
  <2>1. admin # None
    BY DEF TakeItem, Purchasable
  <2>2. call.stage = "item"
    BY DEF TakeItem
  <2> QED
    BY <2>1, <2>2, CallFacts DEF MarketInv, MarketTypeOK, Book
<1>2. BasketAgrees(listings, usdc, call, admin, feeBps)
  BY DEF BasketInv
<1>3. /\ item \in Item /\ l \in ListingIds
      /\ listings[l] \in MarketListing
      /\ q \in 1 .. listings[l].amount
      /\ cost \in Nat
  BY ItemFacts DEF Item
<1>4. /\ listings[l] # None
      /\ listings[l].status \notin {"Delisted", "Sold"}
  BY DEF TakeItem, Purchasable, Tradable
<1>5. listings' = [listings EXCEPT
        ![l].amount = listings[l].amount - q,
        ![l].status = IF listings[l].amount - q = 0 THEN "Sold"
                                                    ELSE "PartiallyFilled"]
  BY DEF TakeItem
<1>6. /\ Taking(old, listings, listings', l, q)
      /\ old[l].seller = listings[l].seller /\ old[l].price = listings[l].price
  <2>1. SalesAgree(old, listings)
    BY <1>2 DEF BasketAgrees
  <2> HIDE DEF old, l, q
  <2> QED
    BY <1>1, <1>3, <1>4, <1>5, <2>1, TakeBook
<1>7. cost = Cost(old, l, q)
  BY <1>6 DEF TotalCost, Cost
<1>8. Rounded(fee, cost, feeBps)
  BY <1>1, <1>3, FeeRounds DEF ProtocolFee
<1>9. /\ call'.stage = "proceeds" /\ call'.buyer = call.buyer
      /\ call'.saved = call.saved /\ call'.due = due
      /\ UNCHANGED <<usdc, admin, feeBps>>
  <2>1. call' = [call EXCEPT !.items = Tail(call.items), !.stage = "proceeds",
                             !.due = due]
    BY <1>6 DEF TakeItem
  <2> HIDE DEF due
  <2>2. /\ call'.stage = "proceeds" /\ call'.buyer = call.buyer
        /\ call'.saved = call.saved /\ call'.due = due
    BY <1>1, <2>1 DEF Purchase
  <2> QED
    BY <2>2 DEF TakeItem
<1> HIDE DEF l, q, cost, fee
<1>10. BasketAgrees(listings', usdc, call', admin, feeBps)
  BY <1>1, <1>2, <1>3, <1>6, <1>7, <1>8, <1>9, TakeBasket
<1> QED
  BY <1>9, <1>10 DEF BasketInv

\* The seller and the administrator are paid, who may be the buyer.
LEMMA PayKeepsBasket ==
  ASSUME MarketInv, BasketInv, call # None, PaySeller \/ PayFee
  PROVE  BasketInv'
<1>1. /\ call \in Purchase /\ call.stage # "item"
      /\ call.buyer \in Addresses /\ call.due \in Payment
      /\ usdc \in [Addresses -> Nat] /\ admin \in Addresses
  <2>1. call.stage # "item"
    BY DEF PaySeller, PayFee
  <2> QED
    BY <2>1, CallFacts DEF MarketInv, MarketTypeOK
<1>2. /\ call.due.seller \in Addresses
      /\ call.due.proceeds \in Nat /\ call.due.fee \in Nat
  BY <1>1 DEF Payment
<1>3. UNCHANGED <<listings, admin, feeBps>>
  BY DEF PaySeller, PayFee
<1>4. call'.buyer = call.buyer /\ call'.saved = call.saved
  BY <1>1 DEF PaySeller, PayFee, Purchase
<1>5. \A a \in Addresses :
        usdc'[a] + Due(call', admin, a) = usdc[a] + Due(call, admin, a)
  <2>1. ASSUME NEW to \in Addresses, NEW amount \in Nat,
               Transfer(call.buyer, to, amount), NEW a \in Addresses
        PROVE  usdc'[a] = usdc[a] + Share(a, to, amount)
                            - Share(a, call.buyer, amount)
    <3> DEFINE paid == [usdc EXCEPT ![call.buyer] = @ - amount]
    <3>1. usdc' = [paid EXCEPT ![to] = @ + amount]
      BY <2>1 DEF Transfer
    <3>2. \A b \in Addresses : paid[b] = usdc[b] - Share(b, call.buyer, amount)
      BY <1>1 DEF Share
    <3>3. paid \in [Addresses -> Int]
      BY <1>1
    <3> HIDE DEF paid
    <3>4. usdc'[a] = paid[a] + Share(a, to, amount)
      BY <3>1, <3>3 DEF Share
    <3>5. /\ usdc[a] \in Int /\ Share(a, to, amount) \in Int
          /\ Share(a, call.buyer, amount) \in Int
      BY <1>1 DEF Share
    <3> QED
      BY <3>2, <3>4, <3>5
  <2>2. ASSUME NEW a \in Addresses
        PROVE  /\ usdc[a] \in Int
               /\ \A b, amount : amount \in Nat => Share(a, b, amount) \in Int
    BY <1>1 DEF Share
  <2>3. ASSUME PaySeller, NEW a \in Addresses
        PROVE  usdc'[a] + Due(call', admin, a) = usdc[a] + Due(call, admin, a)
    <3> DEFINE x == Share(a, call.due.seller, call.due.proceeds)
               y == Share(a, call.buyer, call.due.proceeds)
               f == Share(a, admin, call.due.fee)
               g == Share(a, call.buyer, call.due.fee)
    <3>1. usdc'[a] = usdc[a] + x - y
      BY <1>2, <2>1, <2>3 DEF PaySeller
    <3>2. call.stage = "proceeds" /\ call'.stage = "fee" /\ call'.due = call.due
      BY <1>1, <2>3 DEF PaySeller, Purchase
    <3>3. Due(call, admin, a) = x - y + (f - g)
      BY <3>2 DEF Due
    <3>4. Due(call', admin, a) = 0 + (f - g)
      BY <1>4, <3>2 DEF Due
    <3>5. usdc[a] \in Int /\ x \in Int /\ y \in Int /\ f \in Int /\ g \in Int
      BY <1>2, <2>2
    <3> HIDE DEF x, y, f, g
    <3> QED
      BY <3>1, <3>3, <3>4, <3>5
  <2>4. ASSUME PayFee, NEW a \in Addresses
        PROVE  usdc'[a] + Due(call', admin, a) = usdc[a] + Due(call, admin, a)
    <3> DEFINE f == Share(a, admin, call.due.fee)
               g == Share(a, call.buyer, call.due.fee)
    <3>1. usdc'[a] = usdc[a] + f - g
      BY <1>1, <1>2, <2>1, <2>4 DEF PayFee
    <3>2. call.stage = "fee" /\ call'.stage = "item"
      BY <1>1, <2>4 DEF PayFee, Purchase
    <3>3. Due(call, admin, a) = 0 + (f - g)
      BY <3>2 DEF Due
    <3>4. Due(call', admin, a) = 0 + 0
      BY <3>2 DEF Due
    <3>5. usdc[a] \in Int /\ f \in Int /\ g \in Int
      BY <1>2, <2>2
    <3> HIDE DEF f, g
    <3> QED
      BY <3>1, <3>3, <3>4, <3>5
  <2> QED
    BY <2>3, <2>4
<1>6. BasketAgrees(listings, usdc, call, admin, feeBps)
  BY DEF BasketInv
<1>7. BasketAgrees(listings, usdc', call', admin, feeBps)
  BY <1>1, <1>4, <1>5, <1>6, PayBasket
<1> QED
  BY <1>3, <1>7 DEF BasketInv

\* While a purchase runs nothing else happens that the basket depends on.
LEMMA OnlyThePurchase ==
  ASSUME MarketInv, call # None, [Next]_vars, ~PurchaseStep
  PROVE  UNCHANGED <<listings, usdc, call, admin, feeBps>>
<1>1. ~LockFree
  BY CallFacts DEF LockFree
<1>2. Callable => admin # None
  BY DEF Callable, MarketInv
<1> QED
  BY <1>1, <1>2, MarketCases
  DEF Initialize, ListCredits, DelistCredits, BeginPurchase, ProposeUpdateFee,
      marketVars

\* Every step keeps the books of a purchase.
LEMMA BasketStep ==
  ASSUME MarketInv, BasketInv, [Next]_vars
  PROVE  BasketInv'
<1>1. CASE call = None
  <2>1. ASSUME NEW a \in Addresses, NEW items \in Seq(Item),
               BeginPurchase(a, items)
        PROVE  BasketInv'
    <3>1. /\ call'.stage = "item"
          /\ call'.saved.listings = listings /\ call'.saved.usdc = usdc
          /\ UNCHANGED <<listings, usdc, admin, feeBps>>
      BY <2>1 DEF BeginPurchase
    <3>2. listings \in Book /\ usdc \in [Addresses -> Nat] /\ feeBps \in Nat
      BY DEF MarketInv, MarketTypeOK, Book
    <3>3. BasketAgrees(listings, usdc, call', admin, feeBps)
      BY <3>1, <3>2, BeginBasket
    <3> QED
      BY <3>1, <3>3 DEF BasketInv
  <2>2. CASE call' = None
    BY <2>2 DEF BasketInv
  <2> QED
    BY <1>1, <2>1, <2>2, MarketCases
    DEF Initialize, ListCredits, DelistCredits, PurchaseStep, ProposeUpdateFee,
        marketVars
<1>2. CASE call # None /\ PurchaseStep
  <2>1. CASE TakeItem
    BY <1>2, <2>1, TakeKeepsBasket
  <2>2. CASE PaySeller \/ PayFee
    BY <1>2, <2>2, PayKeepsBasket
  <2>3. CASE EndPurchase \/ AbortPurchase
    BY <2>3 DEF EndPurchase, AbortPurchase, BasketInv
  <2> QED
    BY <1>2, <2>1, <2>2, <2>3 DEF PurchaseStep
<1>3. CASE call # None /\ ~PurchaseStep
  BY <1>3, OnlyThePurchase DEF BasketInv
<1> QED
  BY <1>1, <1>2, <1>3

\* The books of a purchase that runs agree: what has been taken from the
\* listings has been paid for, or is about to be, and the fees are fair.
THEOREM BasketsAgree == Spec => []BasketInv
<1>1. Init => MarketInv /\ TimelockInv
  BY MarketInit
<1>2. MarketInv /\ TimelockInv /\ [Next]_vars => MarketInv' /\ TimelockInv'
  BY MarketStep
<1>3. Init => BasketInv
  BY DEF Init, BasketInv
<1>4. MarketInv /\ BasketInv /\ [Next]_vars => BasketInv'
  BY BasketStep
<1> QED
  BY <1>1, <1>2, <1>3, <1>4, PTL DEF Spec

-----------------------------------------------------------------------------
\* A purchase in which nothing was bought has changed nothing.
LEMMA NothingBought ==
  ASSUME MarketInv, BasketInv, call # None,
         Taken(call.saved.listings, listings) = {}
  PROVE  listings = call.saved.listings /\ usdc = call.saved.usdc
<1>1. \A l \in ListingIds : listings[l] = call.saved.listings[l]
  BY DEF Taken
<1>2. listings = call.saved.listings
  <2>1. /\ listings \in [ListingIds -> MarketListing \cup {None}]
        /\ call.saved.listings \in [ListingIds -> MarketListing \cup {None}]
    BY CallFacts DEF MarketInv, MarketTypeOK
  <2> QED
    BY <1>1, <2>1
<1>3. usdc = call.saved.usdc
  BY DEF BasketInv, BasketAgrees
<1> QED
  BY <1>2, <1>3

\* The end of a purchase, as an observer sees it.
LEMMA SeenAtTheEnd ==
  ASSUME MarketInv, call # None, EndPurchase
  PROVE  LET old == call.saved.listings IN
           /\ Settled!Bought = Taken(old, listings)
           /\ \A a : Settled!Sold(a) = TakenFrom(old, listings, a)
           /\ \A l : Settled!Quantity(l) = Quantity(old, listings, l)
           /\ \A l : Settled!Open(l) <=>
                       /\ old[l] # None
                       /\ old[l].status \in {"Active", "PartiallyFilled"}
<1> DEFINE old == call.saved.listings
<1>1. call # None /\ call' = None /\ listings' = listings
  BY DEF EndPurchase
<1>2. Settled!Bought = Taken(old, listings)
  BY <1>1 DEF Settled!Bought, Taken
<1>3. \A a : Settled!Sold(a) = TakenFrom(old, listings, a)
  BY <1>1, <1>2 DEF Settled!Sold, TakenFrom
<1>4. \A l : Settled!Quantity(l) = Quantity(old, listings, l)
  BY <1>1 DEF Settled!Quantity, Quantity
<1>5. \A l : Settled!Open(l) <=>
               /\ old[l] # None
               /\ old[l].status \in {"Active", "PartiallyFilled"}
  BY <1>1 DEF Settled!Open
<1> QED
  BY <1>2, <1>3, <1>4, <1>5

\* The sum of the library, under the name it has in Settlement.
LEMMA SeenSum ==
  ASSUME NEW w, NEW S
  PROVE  Settled!SumFunctionOnSet(w, S) = SumFunctionOnSet(w, S)
BY DEF Settled!SumFunctionOnSet, Settled!FoldFunctionOnSet,
       Settled!MapThenFoldSet, SumFunctionOnSet, FoldFunctionOnSet,
       MapThenFoldSet

\* The sums an observer forms are those of the purchase.
LEMMA SeenSums ==
  ASSUME MarketInv, BasketInv, call # None, EndPurchase,
         NEW S \in SUBSET Taken(call.saved.listings, listings)
  PROVE  /\ Settled!Price(S) = Price(call.saved.listings, listings, S)
         /\ Settled!Credits(S) = Number(call.saved.listings, listings, S)
<1> DEFINE old == call.saved.listings
           new == listings
<1>1. call # None /\ call' = None /\ new' = new
  BY DEF EndPurchase
<1>2. old \in Book /\ new \in Book /\ SalesAgree(old, new)
  BY CallFacts DEF MarketInv, MarketTypeOK, BasketInv, BasketAgrees, Book
<1>3. /\ IsFiniteSet(S)
      /\ \A l \in S : /\ Quantity(old, new, l) \in Int
                      /\ old[l].price * Quantity(old, new, l) \in Int
  BY <1>2, SumsType, SaleFacts
<1>4. \A l : Settled!Quantity(l) = Quantity(old, new, l)
  BY SeenAtTheEnd
<1>5. Settled!Price(S) = Price(old, new, S)
  <2> DEFINE w == [l \in S |-> old[l].price * Quantity(old, new, l)]
             v == [l \in S |-> (IF call = None THEN listings ELSE old)[l].price
                                 * Settled!Quantity(l)]
  <2>1. \A l \in S : w[l] \in Int /\ v[l] = w[l]
    BY <1>1, <1>3, <1>4
  <2>2. Settled!Price(S) = SumFunctionOnSet(v, S)
    BY SeenSum DEF Settled!Price
  <2>3. Price(old, new, S) = SumFunctionOnSet(w, S)
    BY DEF Price
  <2> HIDE DEF w, v
  <2> QED
    BY <1>3, <2>1, <2>2, <2>3, SumSameTerms
<1>6. Settled!Credits(S) = Number(old, new, S)
  <2> DEFINE w == [l \in S |-> Quantity(old, new, l)]
             v == [l \in S |-> Settled!Quantity(l)]
  <2>1. \A l \in S : w[l] \in Int /\ v[l] = w[l]
    BY <1>3, <1>4
  <2>2. Settled!Credits(S) = SumFunctionOnSet(v, S)
    BY SeenSum DEF Settled!Credits
  <2>3. Number(old, new, S) = SumFunctionOnSet(w, S)
    BY DEF Number
  <2> HIDE DEF w, v
  <2> QED
    BY <1>3, <2>1, <2>2, <2>3, SumSameTerms
<1> QED
  BY <1>5, <1>6

\* A purchase that ends well, and in which something was bought, settles the
\* basket.
LEMMA EndSettles ==
  ASSUME MarketInv, BasketInv, call # None, EndPurchase,
         Taken(call.saved.listings, listings) # {}
  PROVE  \E buyer \in Addresses : Settled!Settle(buyer)
<1> DEFINE old == call.saved.listings
           new == listings
           paid == call.saved.usdc
           buyer == call.buyer
           taken == Taken(old, new)
           price == Price(old, new, taken)
           r == Receipts(Settling(usdc, call, admin), call, price)
<1>1. /\ call' = None /\ new' = new /\ usdc' = usdc
      /\ call.stage = "item"
      /\ admin' = admin /\ feeBps' = feeBps
  BY DEF EndPurchase
<1>2. /\ old \in Book /\ new \in Book
      /\ buyer \in Addresses
      /\ paid \in [Addresses -> Nat] /\ usdc \in [Addresses -> Nat]
      /\ SalesAgree(old, new)
      /\ SharesAgree(old, new, r, admin, feeBps)
  BY CallFacts DEF MarketInv, MarketTypeOK, BasketInv, BasketAgrees, Book
<1>3. /\ Settled!Bought = taken
      /\ Settled!Price(taken) = price
      /\ price \in Nat
  BY <1>2, SeenAtTheEnd, SeenSums, SumsType
<1>4. \A a \in Addresses :
        /\ Settled!Received(buyer, a) = r[a]
        /\ r[a] \in Nat
  <2> SUFFICES ASSUME NEW a \in Addresses
               PROVE  Settled!Received(buyer, a) = r[a]
    BY <1>2 DEF SharesAgree
  <2>1. Settled!Received(buyer, a) = usdc[a] - paid[a] + Share(a, buyer, price)
    BY <1>1, <1>3 DEF Settled!Received, Share
  <2>2. Settling(usdc, call, admin)[a] = usdc[a]
    BY <1>1, <1>2 DEF Settling, Due
  <2> HIDE DEF price
  <2>3. r[a] = usdc[a] - paid[a] + Share(a, buyer, price)
    BY <2>2 DEF Receipts
  <2> QED
    BY <2>1, <2>3
<1> HIDE DEF r
<1>5. ASSUME NEW l \in taken PROVE Settled!Filled(l)
  <2>1. PartSold(old, new, l)
    BY <1>2, <1>5 DEF SalesAgree
  <2>2. new[l].amount \in Nat
    BY <1>2, <1>5, SaleFacts
  <2>3. Settled!Open(l) /\ Settled!Quantity(l) = Quantity(old, new, l)
    BY <2>1, SeenAtTheEnd DEF PartSold
  <2> QED
    BY <1>1, <2>1, <2>2, <2>3 DEF Settled!Filled, PartSold
<1>6. price = SumFunctionOnSet(
        [a \in Addresses |-> Settled!Received(buyer, a)], Addresses)
  <2> DEFINE v == [a \in Addresses |-> Settled!Received(buyer, a)]
  <2>1. \A a \in Addresses : r[a] \in Int /\ v[a] = r[a]
    BY <1>4
  <2> HIDE DEF v
  <2>2. SumFunctionOnSet(v, Addresses) = SumFunctionOnSet(r, Addresses)
    BY <2>1, FiniteAssumption, SumSameTerms
  <2> QED
    BY <1>2, <2>2 DEF SharesAgree, v
<1>7. ASSUME NEW a \in Addresses, a # admin
      PROVE  LET fee == Settled!Withheld(buyer, a)
                 exact == Settled!Price(Settled!Sold(a)) * feeBps
             IN /\ 0 <= fee
                /\ BpsDivisor * fee <= exact
                /\ exact <=
                     BpsDivisor * (fee + Settled!Credits(Settled!Sold(a)))
  <2> DEFINE S == TakenFrom(old, new, a)
  <2>1. /\ Settled!Sold(a) = S
        /\ Settled!Price(S) = Price(old, new, S)
        /\ Settled!Credits(S) = Number(old, new, S)
    <3>1. S \in SUBSET taken
      BY DEF TakenFrom
    <3> HIDE DEF S
    <3>2. Settled!Price(S) = Price(old, new, S)
          /\ Settled!Credits(S) = Number(old, new, S)
      BY <3>1, SeenSums
    <3>3. Settled!Sold(a) = S
      BY SeenAtTheEnd DEF S
    <3> QED
      BY <3>2, <3>3
  <2>2. FairFee(Price(old, new, S), Price(old, new, S) - r[a],
                Number(old, new, S), feeBps)
    BY <1>2, <1>7 DEF SharesAgree
  <2>3. Settled!Withheld(buyer, a) = Price(old, new, S) - r[a]
    BY <1>4, <2>1 DEF Settled!Withheld
  <2> HIDE DEF S
  <2> QED
    BY <2>1, <2>2, <2>3 DEF FairFee
<1>8. \A a \in Addresses :
        (IF call = None THEN usdc ELSE paid)'[a] >= 0
  BY <1>1, <1>2
<1>9. Settled!SumFunctionOnSet(
        [a \in Addresses |-> Settled!Received(buyer, a)], Addresses) = price
  BY <1>6, SeenSum
<1> HIDE DEF old, new, paid, price, taken
<1>10. Settled!Settle(buyer)
  BY <1>1, <1>3, <1>4, <1>5, <1>7, <1>8, <1>9
  DEF Settled!Settle, taken, paid, old, new
<1> QED
  BY <1>2, <1>10

-----------------------------------------------------------------------------
\* Listing and delisting, seen from outside.
LEMMA OffersSettle ==
  ASSUME MarketInv, NEW a \in Addresses, NEW l \in ListingIds,
         \/ \E amount \in Amounts, price \in Prices :
              ListCredits(a, l, amount, price)
         \/ DelistCredits(a, l)
  PROVE  Settled!Offer(l) \/ Settled!Withdraw(l)
<1>1. /\ call = None /\ call' = None
      /\ UNCHANGED <<usdc, admin, feeBps>>
  BY DEF ListCredits, DelistCredits, LockFree, MarketInv, StockMatchesStatus
<1>2. listings \in [ListingIds -> MarketListing \cup {None}]
  BY DEF MarketInv, MarketTypeOK
<1>3. ASSUME NEW amount \in Amounts, NEW price \in Prices,
             ListCredits(a, l, amount, price)
      PROVE  Settled!Offer(l)
  <2> DEFINE rec == [seller |-> a, amount |-> amount, price |-> price,
                     status |-> "Active"]
  <2>1. /\ listings' = [listings EXCEPT ![l] = rec]
        /\ amount > 0 /\ price > 0
    BY <1>3 DEF ListCredits
  <2>2. listings'[l] = rec
    BY <1>2, <2>1
  <2>3. rec \in MarketListing
    BY <2>1 DEF MarketListing, ListingStatus, I128
  <2>4. /\ rec.status = "Active" /\ rec.amount > 0 /\ rec.price > 0
        /\ rec # None
    BY <2>1, <2>3
  <2> HIDE DEF rec
  <2> QED
    BY <1>1, <2>1, <2>2, <2>4 DEF Settled!Offer
<1>4. CASE DelistCredits(a, l)
  BY <1>1, <1>4 DEF DelistCredits, Settled!Withdraw
<1> QED
  BY <1>3, <1>4

\* Every step of the contract is a step of Settlement, or is not seen.
LEMMA SettledStep ==
  ASSUME MarketInv, BasketInv, MarketInv', [Next]_vars
  PROVE  [Settled!Next]_(Settled!vars)
<1>1. CASE call = None
  <2>1. ASSUME NEW a \in Addresses, Initialize(a)
        PROVE  Settled!Govern
    BY <1>1, <2>1 DEF Initialize, Settled!Govern
  <2>2. ASSUME NEW a \in Addresses, NEW l \in ListingIds,
               \/ \E amount \in Amounts, price \in Prices :
                    ListCredits(a, l, amount, price)
               \/ DelistCredits(a, l)
        PROVE  Settled!Offer(l) \/ Settled!Withdraw(l)
    BY <2>2, OffersSettle
  <2>3. ASSUME NEW a \in Addresses, NEW items \in Seq(Item),
               BeginPurchase(a, items)
        PROVE  UNCHANGED Settled!vars
    <3>1. /\ call'.saved.listings = listings /\ call'.saved.usdc = usdc
          /\ UNCHANGED <<admin, feeBps>> /\ locked' = TRUE
      BY <2>3 DEF BeginPurchase
    <3>2. call' # None
      BY <3>1 DEF MarketInv, StockMatchesStatus
    <3> QED
      BY <1>1, <3>1, <3>2 DEF Settled!vars
  <2>4. ASSUME NEW a \in Addresses, NEW o \in OpIds, NEW p \in Payloads,
               NEW bps \in FeeBps, ProposeUpdateFee(a, o, p, bps)
        PROVE  Settled!Govern
    <3>1. bps \in 1 .. BpsDivisor
      BY <2>4 DEF ProposeUpdateFee, I128
    <3> QED
      BY <1>1, <2>4, <3>1 DEF ProposeUpdateFee, Settled!Govern
  <2>5. CASE UNCHANGED marketVars /\ UNCHANGED admin
    BY <1>1, <2>5 DEF marketVars, Settled!vars
  <2>6. ~PurchaseStep
    BY <1>1 DEF PurchaseStep
  <2> QED
    BY <2>1, <2>2, <2>3, <2>4, <2>5, <2>6, MarketCases DEF Settled!Next
<1>2. CASE call # None /\ PurchaseStep
  <2>1. CASE TakeItem \/ PaySeller \/ PayFee
    <3>1. /\ call'.saved = call.saved
          /\ UNCHANGED <<admin, feeBps>> /\ locked' = locked
      BY <1>2, <2>1, CallFacts DEF TakeItem, PaySeller, PayFee, Purchase
    <3>2. call' # None
      BY <1>2, <3>1 DEF MarketInv, StockMatchesStatus
    <3> QED
      BY <1>2, <3>1, <3>2 DEF Settled!vars
  <2>2. CASE AbortPurchase
    BY <1>2, <2>2 DEF AbortPurchase, Settled!vars
  <2>3. CASE EndPurchase /\ Taken(call.saved.listings, listings) = {}
    BY <1>2, <2>3, NothingBought DEF EndPurchase, Settled!vars
  <2>4. CASE EndPurchase /\ Taken(call.saved.listings, listings) # {}
    BY <1>2, <2>4, EndSettles DEF Settled!Next
  <2> QED
    BY <1>2, <2>1, <2>2, <2>3, <2>4 DEF PurchaseStep
<1>3. CASE call # None /\ ~PurchaseStep
  BY <1>3, OnlyThePurchase DEF Settled!vars
<1> QED
  BY <1>1, <1>2, <1>3

\* Seen from outside a purchase happens at once and whole, or not at all:
\* whatever is bought together, whenever it fails and whoever calls in
\* between, the seller and the treasury get what Settlement says.
THEOREM ImplementsSettlement == Spec => SettlementSpec
<1>1. Init => MarketInv /\ TimelockInv
  BY MarketInit
<1>2. MarketInv /\ TimelockInv /\ [Next]_vars => MarketInv' /\ TimelockInv'
  BY MarketStep
<1>3. Init => BasketInv
  BY DEF Init, BasketInv
<1>4. MarketInv /\ BasketInv /\ [Next]_vars => BasketInv'
  BY BasketStep
<1>5. Init => Settled!Init
  BY DEF Init, Settled!Init
<1>6. MarketInv /\ BasketInv /\ MarketInv' /\ [Next]_vars
        => [Settled!Next]_(Settled!vars)
  BY SettledStep
<1> QED
  BY <1>1, <1>2, <1>3, <1>4, <1>5, <1>6, PTL
     DEF Spec, SettlementSpec, Settled!Spec

-----------------------------------------------------------------------------
\* What a purchase has still to do: two transfers and a step for each item,
\* and its end.
Remaining ==
  IF call = None
    THEN 0
    ELSE 3 * Len(call.items)
           + (IF call.stage = "proceeds" THEN 3
              ELSE IF call.stage = "fee" THEN 2 ELSE 1)

\* A purchase cannot run for ever: each of its steps leaves less to do, and
\* nothing else that happens meanwhile, calls back from the token included,
\* gives it more.
PurchaseShrinks ==
  [][ call # None =>
        /\ Remaining \in Nat /\ Remaining' \in Nat
        /\ PurchaseStep => Remaining' < Remaining
        /\ ~PurchaseStep => Remaining' = Remaining ]_vars

\* The steps of a purchase come to an end, for baskets of any length; that one
\* is taken is what the fairness of the host adds.
THEOREM PurchasesAreFinite == Spec => PurchaseShrinks
<1>1. ASSUME MarketInv, [Next]_vars, call # None
      PROVE  /\ Remaining \in Nat /\ Remaining' \in Nat
             /\ PurchaseStep => Remaining' < Remaining
             /\ ~PurchaseStep => Remaining' = Remaining
  <2> DEFINE n == Len(call.items)
  <2>1. /\ call \in Purchase /\ call.items \in Seq(Item) /\ n \in Nat
        /\ call.stage \in {"item", "proceeds", "fee"}
    BY <1>1, CallFacts
  <2>2. Remaining \in Nat /\ Remaining > 0
    <3>1. /\ call.stage = "proceeds" => Remaining = 3 * n + 3
          /\ call.stage = "fee" => Remaining = 3 * n + 2
          /\ call.stage = "item" => Remaining = 3 * n + 1
      BY <1>1 DEF Remaining
    <3>2. n \in Nat
      BY <2>1
    <3> HIDE DEF n
    <3>3. /\ 3 * n + 3 \in Nat /\ 3 * n + 3 > 0
          /\ 3 * n + 2 \in Nat /\ 3 * n + 2 > 0
          /\ 3 * n + 1 \in Nat /\ 3 * n + 1 > 0
      BY <3>2
    <3> QED
      BY <2>1, <3>1, <3>3
  <2>3. CASE TakeItem
    <3>1. /\ call.stage = "item" /\ call.items # <<>>
          /\ call' # None /\ call'.items = Tail(call.items)
          /\ call'.stage = "proceeds"
      <4>1. MarketInv' /\ locked' = TRUE
        BY <1>1, <2>3, TakeKeeps, CallFacts DEF TakeItem
      <4>2. call' # None
        BY <4>1 DEF MarketInv, StockMatchesStatus
      <4> QED
        BY <2>1, <2>3, <4>2 DEF TakeItem, Purchase
    <3>2. Len(call'.items) = n - 1 /\ n - 1 \in Nat
      BY <2>1, <3>1
    <3>3. Remaining = 3 * n + 1 /\ Remaining' = 3 * (n - 1) + 3
      BY <1>1, <3>1, <3>2 DEF Remaining
    <3> QED
      BY <1>1, <2>1, <2>3, <3>2, <3>3 DEF PurchaseStep
  <2>4. CASE PaySeller \/ PayFee
    <3>1. call' # None
      <4>1. MarketInv' /\ locked' = TRUE
        BY <1>1, <2>4, PayKeeps, CallFacts DEF PaySeller, PayFee
      <4> QED
        BY <4>1 DEF MarketInv, StockMatchesStatus
    <3>2. /\ Len(call'.items) = n
          /\ \/ call.stage = "proceeds" /\ call'.stage = "fee"
             \/ call.stage = "fee" /\ call'.stage = "item"
      BY <2>1, <2>4 DEF PaySeller, PayFee, Purchase
    <3>3. \/ Remaining = 3 * n + 3 /\ Remaining' = 3 * n + 2
          \/ Remaining = 3 * n + 2 /\ Remaining' = 3 * n + 1
      BY <1>1, <3>1, <3>2 DEF Remaining
    <3>4. n \in Nat
      BY <2>1
    <3> HIDE DEF n
    <3>5. Remaining' \in Nat /\ Remaining' < Remaining
      BY <3>3, <3>4
    <3> QED
      BY <1>1, <2>2, <2>4, <3>5 DEF PurchaseStep
  <2>5. CASE EndPurchase \/ AbortPurchase
    <3>1. Remaining' = 0
      BY <2>5 DEF EndPurchase, AbortPurchase, Remaining
    <3> QED
      BY <1>1, <2>2, <2>5, <3>1 DEF PurchaseStep
  <2>6. CASE ~PurchaseStep
    <3>1. Remaining' = Remaining
      BY <1>1, <2>6, OnlyThePurchase DEF Remaining
    <3> QED
      BY <2>2, <2>6, <3>1
  <2> QED
    BY <1>1, <2>3, <2>4, <2>5, <2>6 DEF PurchaseStep
<1>2. MarketInv /\ [Next]_vars =>
        [ call # None =>
            /\ Remaining \in Nat /\ Remaining' \in Nat
            /\ PurchaseStep => Remaining' < Remaining
            /\ ~PurchaseStep => Remaining' = Remaining ]_vars
  BY <1>1
<1> QED
  BY <1>2, MarketInvariant, PTL DEF Spec, PurchaseShrinks
=============================================================================
