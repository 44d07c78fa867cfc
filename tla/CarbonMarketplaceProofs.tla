----------------------- MODULE CarbonMarketplaceProofs -----------------------
(***************************************************************************)
(* Proofs about the marketplace, for all sets of addresses and listings,   *)
(* all arguments and all widths of the integers.                           *)
(***************************************************************************)
EXTENDS CarbonMarketplace, TimelockProofs

USE TimelockAssumption, PendingOpAssumption, MarketAssumption,
    MarketRecordAssumption

-----------------------------------------------------------------------------
\* The fee is a part of the whole: with at most 10000 basis points, what the
\* seller receives and what the admin receives are both natural numbers.
LEMMA FeeWithinCost ==
  ASSUME NEW cost \in Nat, NEW bps \in 1 .. BpsDivisor
  PROVE  (cost * bps) \div BpsDivisor \in 0 .. cost
<1> DEFINE fee == (cost * bps) \div BpsDivisor
<1>1. BpsDivisor \in Nat /\ BpsDivisor > 0 /\ bps \in Nat
  OBVIOUS
<1>2. cost * bps \in Nat /\ cost * bps <= cost * BpsDivisor
  BY <1>1
<1>3. fee \in Int /\ 0 <= fee /\ BpsDivisor * fee <= cost * bps
  BY <1>1, <1>2
<1>4. ASSUME fee > cost PROVE FALSE
  <2>1. BpsDivisor * fee >= BpsDivisor * (cost + 1)
    BY <1>1, <1>3, <1>4
  <2>2. BpsDivisor * (cost + 1) = cost * BpsDivisor + BpsDivisor
    BY <1>1
  <2> HIDE DEF fee
  <2> QED
    BY <1>1, <1>2, <1>3, <2>1, <2>2
<1> QED
  BY <1>3, <1>4

\* What the invariant says of a purchase that runs.
LEMMA CallFacts ==
  ASSUME MarketInv, call # None
  PROVE  /\ call \in Purchase
         /\ call.buyer \in Addresses
         /\ call.items \in Seq(Item)
         /\ call.stage \in {"item", "proceeds", "fee"}
         /\ call.due = None <=> call.stage = "item"
         /\ call.stage # "item" => call.due \in Payment
         /\ call.saved.listings \in [ListingIds -> MarketListing \cup {None}]
         /\ call.saved.usdc \in [Addresses -> Nat]
         /\ WellStocked(call.saved.listings)
         /\ locked = TRUE
<1>1. call \in Purchase /\ (call.due = None <=> call.stage = "item")
  BY DEF MarketInv, MarketTypeOK
<1>2. locked = TRUE /\ WellStocked(call.saved.listings)
  BY DEF MarketInv, MarketTypeOK, StockMatchesStatus
<1> QED
  BY <1>1, <1>2 DEF Purchase

\* The contract starts in a state of the invariant.
LEMMA MarketInit == Init => MarketInv /\ TimelockInv
<1> SUFFICES ASSUME Init PROVE MarketInv /\ TimelockInv
  OBVIOUS
<1>1. TimelockInv
  BY TimelockInitInv DEF Init
<1>2. MarketTypeOK
  <2>1. TimelockTypeOK
    BY <1>1 DEF TimelockInv
  <2>2. << >> \in Seq(ListingIds)
    OBVIOUS
  <2> QED
    BY <2>1, <2>2 DEF Init, MarketTypeOK
<1>3. StockMatchesStatus
  BY DEF Init, StockMatchesStatus, WellStocked
<1> QED
  BY <1>1, <1>2, <1>3 DEF MarketInv, Init

-----------------------------------------------------------------------------
\* The calls of governance that only touch the time-lock, the passing of time
\* and stuttering keep the invariant.
LEMMA MarketUntouched ==
  ASSUME MarketInv, UNCHANGED marketVars, UNCHANGED admin, TimelockTypeOK'
  PROVE  MarketInv'
<1>1. MarketTypeOK'
  BY DEF MarketInv, MarketTypeOK, marketVars
<1>2. StockMatchesStatus'
  BY DEF MarketInv, StockMatchesStatus, WellStocked, marketVars
<1> QED
  BY <1>1, <1>2 DEF MarketInv, marketVars

\* propose_update_fee keeps the fee within the whole price.
LEMMA ProposeKeeps ==
  ASSUME MarketInv, TimelockTypeOK',
         NEW a \in Addresses, NEW o \in OpIds, NEW p \in Payloads,
         NEW bps \in FeeBps, ProposeUpdateFee(a, o, p, bps)
  PROVE  MarketInv'
<1>1. bps \in 1 .. BpsDivisor
  BY DEF ProposeUpdateFee, I128
<1>2. MarketTypeOK'
  BY <1>1 DEF MarketInv, MarketTypeOK, ProposeUpdateFee
<1>3. StockMatchesStatus'
  BY DEF MarketInv, StockMatchesStatus, WellStocked, ProposeUpdateFee
<1> QED
  BY <1>2, <1>3 DEF MarketInv, ProposeUpdateFee

\* initialize sets an admin and empties the index, which no part of the
\* invariant depends on.
LEMMA InitializeKeeps ==
  ASSUME MarketInv, NEW a \in Addresses, Initialize(a)
  PROVE  MarketInv'
<1>1. MarketTypeOK'
  BY DEF MarketInv, MarketTypeOK, TimelockTypeOK, Initialize, timelockVars
<1>2. StockMatchesStatus'
  BY DEF MarketInv, StockMatchesStatus, WellStocked, Initialize
<1>3. a # None
  OBVIOUS
<1> QED
  BY <1>1, <1>2, <1>3 DEF MarketInv, Initialize

\* list_credits stores a listing with something to sell.
LEMMA ListKeeps ==
  ASSUME MarketInv, NEW a \in Addresses, NEW l \in ListingIds,
         NEW amount \in Amounts, NEW price \in Prices,
         ListCredits(a, l, amount, price)
  PROVE  MarketInv'
<1> DEFINE new == [seller |-> a, amount |-> amount, price |-> price,
                   status |-> "Active"]
<1>1. amount \in 1 .. I128Max /\ price \in 1 .. I128Max
  BY DEF ListCredits, I128
<1>2. new \in MarketListing
  BY <1>1 DEF MarketListing, ListingStatus
<1>3. MarketTypeOK'
  BY <1>2 DEF MarketInv, MarketTypeOK, TimelockTypeOK, ListCredits, timelockVars
<1>4. \A m \in ListingIds : listings'[m] = IF m = l THEN new ELSE listings[m]
  BY DEF ListCredits, MarketInv, MarketTypeOK
<1>5. call = None /\ call' = None /\ locked' = locked
  BY DEF ListCredits, LockFree, MarketInv, StockMatchesStatus
<1>6. WellStocked(listings)'
  BY <1>1, <1>4 DEF WellStocked, MarketInv, StockMatchesStatus
<1> QED
  BY <1>3, <1>5, <1>6 DEF MarketInv, StockMatchesStatus

\* delist_credits says nothing about what is left of a listing.
LEMMA DelistKeeps ==
  ASSUME MarketInv, NEW a \in Addresses, NEW l \in ListingIds,
         DelistCredits(a, l)
  PROVE  MarketInv'
<1> DEFINE new == [listings[l] EXCEPT !.status = "Delisted"]
<1>1. listings[l] \in MarketListing
  BY DEF DelistCredits, MarketInv, MarketTypeOK
<1>2. new \in MarketListing /\ new.status = "Delisted"
  BY <1>1 DEF MarketListing, ListingStatus
<1>3. listings' = [listings EXCEPT ![l] = new]
  BY DEF DelistCredits
<1>4. MarketTypeOK'
  BY <1>2, <1>3
  DEF MarketInv, MarketTypeOK, TimelockTypeOK, DelistCredits, timelockVars
<1>5. \A m \in ListingIds : listings'[m] = IF m = l THEN new ELSE listings[m]
  BY <1>3 DEF MarketInv, MarketTypeOK
<1>6. call = None /\ call' = None /\ locked' = locked
  BY DEF DelistCredits, LockFree, MarketInv, StockMatchesStatus
<1> HIDE DEF new
<1>7. WellStocked(listings)'
  BY <1>2, <1>5 DEF WellStocked, MarketInv, StockMatchesStatus
<1> QED
  BY <1>4, <1>6, <1>7 DEF MarketInv, StockMatchesStatus

-----------------------------------------------------------------------------
\* A purchase begins: what it will restore is what is there now.
LEMMA BeginKeeps ==
  ASSUME MarketInv, NEW buyer \in Addresses, NEW items \in Seq(Item),
         BeginPurchase(buyer, items)
  PROVE  MarketInv'
<1> DEFINE new == [buyer |-> buyer, items |-> items, stage |-> "item",
                   due |-> None,
                   saved |-> [listings |-> listings, usdc |-> usdc]]
<1>1. call' = new
  BY DEF BeginPurchase
<1>2. new \in Purchase
  BY DEF MarketInv, MarketTypeOK, Purchase
<1>3. call' # None /\ call'.stage = "item" /\ call'.due = None
      /\ call'.saved.listings = listings
  BY <1>1, <1>2
<1>4. MarketTypeOK'
  BY <1>1, <1>2, <1>3
  DEF MarketInv, MarketTypeOK, TimelockTypeOK, BeginPurchase, timelockVars
<1>5. StockMatchesStatus'
  BY <1>3 DEF MarketInv, StockMatchesStatus, WellStocked, BeginPurchase
<1> QED
  BY <1>3, <1>4, <1>5 DEF MarketInv

\* The item at the head of a purchase that may be taken: a listing of the
\* type, a quantity it has, and a cost whose parts are natural numbers.
LEMMA ItemFacts ==
  ASSUME MarketInv, call # None, TakeItem
  PROVE  LET item == Head(call.items)
             l == item.listing
         IN /\ item \in Item
            /\ Tail(call.items) \in Seq(Item)
            /\ listings[l] \in MarketListing
            /\ item.amount \in 1 .. listings[l].amount
            /\ TotalCost(item) \in Nat
            /\ ProtocolFee(item) \in 0 .. TotalCost(item)
            /\ admin # None
<1> DEFINE item == Head(call.items)
           l == item.listing
<1>1. /\ call.items # <<>>
      /\ Purchasable(item)
  BY DEF TakeItem
<1>2. call.items \in Seq(Item)
  BY CallFacts
<1>3. item \in Item /\ Tail(call.items) \in Seq(Item)
  BY <1>1, <1>2
<1>4. listings[l] \in MarketListing
  <2>1. l \in ListingIds
    BY <1>3 DEF Item
  <2>2. listings[l] # None
    BY <1>1 DEF Purchasable, Tradable
  <2> QED
    BY <2>1, <2>2 DEF MarketInv, MarketTypeOK
<1>5. /\ item.amount \in 1 .. listings[l].amount
      /\ listings[l].price \in Nat
  <2>1. item.amount \in Int /\ listings[l].amount \in Int
    BY <1>3, <1>4 DEF Item, MarketListing, I128
  <2>2. item.amount > 0 /\ item.amount <= listings[l].amount
    BY <1>1 DEF Purchasable
  <2>3. listings[l].price \in Nat
    BY <1>4 DEF MarketListing
  <2> QED
    BY <2>1, <2>2, <2>3
<1>6. TotalCost(item) \in Nat
  <2> SUFFICES ASSUME NEW p \in Nat, NEW q \in Nat PROVE p * q \in Nat
    BY <1>4, <1>5 DEF TotalCost, MarketListing
  <2> QED
    OBVIOUS
<1>7. ProtocolFee(item) \in 0 .. TotalCost(item)
  BY <1>6, FeeWithinCost DEF ProtocolFee, MarketInv, MarketTypeOK
<1> QED
  BY <1>1, <1>3, <1>4, <1>5, <1>6, <1>7 DEF Purchasable

\* Taking an item keeps stock and status of the listing in step, also when
\* the same listing comes again later in the basket.
LEMMA TakeKeeps ==
  ASSUME MarketInv, call # None, TakeItem
  PROVE  MarketInv'
<1> DEFINE item == Head(call.items)
           l == item.listing
           left == listings[l].amount - item.amount
           new == [listings[l] EXCEPT
                     !.amount = left,
                     !.status = IF left = 0 THEN "Sold" ELSE "PartiallyFilled"]
           due == [seller |-> listings[l].seller,
                   proceeds |-> TotalCost(item) - ProtocolFee(item),
                   fee |-> ProtocolFee(item)]
<1>1. /\ item \in Item
      /\ Tail(call.items) \in Seq(Item)
      /\ listings[l] \in MarketListing
      /\ item.amount \in 1 .. listings[l].amount
      /\ TotalCost(item) \in Nat
      /\ ProtocolFee(item) \in 0 .. TotalCost(item)
      /\ admin # None
  BY ItemFacts
<1>2. l \in ListingIds
  BY <1>1 DEF Item
<1>3. left \in 0 .. I128Max
  <2> SUFFICES ASSUME NEW m \in 0 .. I128Max, NEW q \in 1 .. m
               PROVE  m - q \in 0 .. I128Max
    BY <1>1 DEF MarketListing
  <2> QED
    OBVIOUS
<1>4. /\ new \in MarketListing
      /\ new.amount = left
      /\ new.status = IF left = 0 THEN "Sold" ELSE "PartiallyFilled"
  BY <1>1, <1>3 DEF MarketListing, ListingStatus
<1>5. due \in Payment /\ due # None
  <2>1. listings[l].seller \in Addresses
    BY <1>1 DEF MarketListing
  <2>2. TotalCost(item) - ProtocolFee(item) \in Nat /\ ProtocolFee(item) \in Nat
    BY <1>1
  <2> QED
    BY <2>1, <2>2 DEF Payment
<1>6. /\ listings' = [listings EXCEPT ![l] = new]
      /\ call' = [call EXCEPT !.items = Tail(call.items),
                             !.stage = "proceeds", !.due = due]
      /\ UNCHANGED <<timelockVars, admin, allListings, feeBps, locked, usdc>>
  BY DEF TakeItem
<1>7. call \in Purchase
  BY CallFacts
<1> HIDE DEF new, due, left
<1>8. /\ call' \in Purchase
      /\ call'.stage = "proceeds"
      /\ call'.due = due
      /\ call'.saved = call.saved
  BY <1>1, <1>5, <1>6, <1>7 DEF Purchase
<1>9. call' # None
  BY <1>8
<1>10. MarketTypeOK'
  BY <1>4, <1>5, <1>6, <1>8, <1>9
  DEF MarketInv, MarketTypeOK, TimelockTypeOK, timelockVars
<1>11. \A m \in ListingIds : listings'[m] = IF m = l THEN new ELSE listings[m]
  BY <1>6 DEF MarketInv, MarketTypeOK
<1>12. WellStocked(listings')
  BY <1>3, <1>4, <1>11 DEF WellStocked, MarketInv, StockMatchesStatus
<1>13. StockMatchesStatus'
  BY <1>6, <1>8, <1>9, <1>12, CallFacts
  DEF MarketInv, StockMatchesStatus, WellStocked
<1> QED
  BY <1>1, <1>6, <1>10, <1>13 DEF MarketInv

\* A transfer that the token accepts leaves every balance a natural number.
LEMMA TransferKeeps ==
  ASSUME usdc \in [Addresses -> Nat], NEW from \in Addresses,
         NEW to \in Addresses, NEW amount \in Nat, Transfer(from, to, amount)
  PROVE  usdc' \in [Addresses -> Nat]
<1> DEFINE paid == [usdc EXCEPT ![from] = @ - amount]
<1>1. usdc' = [paid EXCEPT ![to] = @ + amount]
  BY DEF Transfer
<1>2. usdc[from] - amount \in Nat
  <2>1. usdc[from] \in Nat /\ usdc[from] >= amount
    BY DEF Transfer
  <2> QED
    BY <2>1
<1>3. paid \in [Addresses -> Nat]
  BY <1>2
<1> HIDE DEF paid
<1>4. paid[to] + amount \in Nat
  BY <1>3
<1> QED
  BY <1>1, <1>3, <1>4

\* The transfers move USDC and nothing else.
LEMMA PayKeeps ==
  ASSUME MarketInv, call # None, PaySeller \/ PayFee
  PROVE  MarketInv'
<1>0. admin # None
  BY DEF PaySeller, PayFee, MarketInv
<1>1. /\ call \in Purchase
      /\ call.buyer \in Addresses
      /\ call.due \in Payment
  BY CallFacts DEF PaySeller, PayFee
<1>2. usdc' \in [Addresses -> Nat]
  <2>1. /\ usdc \in [Addresses -> Nat]
        /\ call.due.seller \in Addresses
        /\ call.due.proceeds \in Nat
        /\ call.due.fee \in Nat
        /\ admin \in Addresses
    BY <1>0, <1>1 DEF MarketInv, MarketTypeOK, Payment
  <2>2. CASE PaySeller
    BY <1>1, <2>1, <2>2, TransferKeeps DEF PaySeller
  <2>3. CASE PayFee
    BY <1>1, <2>1, <2>3, TransferKeeps DEF PayFee
  <2> QED
    BY <2>2, <2>3
<1>3. /\ call' \in Purchase
      /\ call'.saved = call.saved
      /\ call'.due = None <=> call'.stage = "item"
  <2>1. CASE PaySeller
    BY <1>1, <2>1 DEF PaySeller, Purchase
  <2>2. CASE PayFee
    BY <1>1, <2>2 DEF PayFee, Purchase
  <2> QED
    BY <2>1, <2>2
<1>4. call' # None
  BY <1>3
<1>5. UNCHANGED <<timelockVars, admin, listings, allListings, feeBps, locked>>
  BY DEF PaySeller, PayFee
<1>6. MarketTypeOK'
  BY <1>2, <1>3, <1>4, <1>5
  DEF MarketInv, MarketTypeOK, TimelockTypeOK, timelockVars
<1>7. StockMatchesStatus'
  BY <1>3, <1>4, <1>5 DEF MarketInv, StockMatchesStatus, WellStocked
<1> QED
  BY <1>0, <1>5, <1>6, <1>7 DEF MarketInv

\* At its end, good or bad, a purchase gives the lock back; a rollback puts
\* back listings and balances that the invariant held of.
LEMMA FinishKeeps ==
  ASSUME MarketInv, call # None, EndPurchase \/ AbortPurchase
  PROVE  MarketInv'
<1>1. /\ call' = None
      /\ locked' = FALSE
      /\ UNCHANGED <<timelockVars, admin, allListings, feeBps>>
  BY DEF EndPurchase, AbortPurchase
<1>2. /\ listings' \in [ListingIds -> MarketListing \cup {None}]
      /\ usdc' \in [Addresses -> Nat]
      /\ WellStocked(listings')
  <2>1. CASE EndPurchase
    BY <2>1 DEF EndPurchase, MarketInv, MarketTypeOK, StockMatchesStatus
  <2>2. CASE AbortPurchase
    BY <2>2, CallFacts DEF AbortPurchase
  <2> QED
    BY <2>1, <2>2
<1>3. MarketTypeOK'
  BY <1>1, <1>2 DEF MarketInv, MarketTypeOK, TimelockTypeOK, timelockVars
<1>4. StockMatchesStatus'
  BY <1>1, <1>2 DEF StockMatchesStatus, WellStocked
<1> QED
  BY <1>1, <1>3, <1>4 DEF MarketInv

-----------------------------------------------------------------------------
\* The items of a basket TLC enumerates are a sequence of items.
LEMMA BasketType ==
  ASSUME NEW n \in 0 .. MaxItems,
         NEW items \in [1 .. n -> [listing : ListingIds, amount : Amounts]]
  PROVE  items \in Seq(Item)
<1>1. items \in [1 .. n -> Item]
  BY DEF Item
<1> QED
  BY <1>1

\* Every step of the marketplace is one of these.
LEMMA MarketCases ==
  ASSUME [Next]_vars
  PROVE  \/ \E a \in Addresses : Initialize(a)
         \/ \E a \in Addresses, l \in ListingIds :
              \/ \E amount \in Amounts, price \in Prices :
                   ListCredits(a, l, amount, price)
              \/ DelistCredits(a, l)
         \/ \E a \in Addresses, items \in Seq(Item) : BeginPurchase(a, items)
         \/ PurchaseStep
         \/ \E a \in Addresses, o \in OpIds, p \in Payloads, bps \in FeeBps :
              ProposeUpdateFee(a, o, p, bps)
         \/ /\ UNCHANGED marketVars
            /\ UNCHANGED admin
            /\ [TimelockStep]_timelockVars
            /\ UNCHANGED timelockVars \/ call = None \/ LockFree
<1>1. CASE Offers
  BY <1>1 DEF Offers
<1>2. CASE Purchases
  <2>1. ASSUME NEW a \in Addresses, NEW l \in ListingIds,
               NEW amount \in Amounts, PurchaseCredits(a, l, amount)
        PROVE  \E items \in Seq(Item) : BeginPurchase(a, items)
    <3>1. <<[listing |-> l, amount |-> amount]>> \in Seq(Item)
      BY DEF Item
    <3> QED
      BY <2>1, <3>1 DEF PurchaseCredits
  <2>2. ASSUME NEW a \in Addresses, NEW n \in 0 .. MaxItems,
               NEW items \in [1 .. n -> [listing : ListingIds, amount : Amounts]],
               BulkPurchase(a, items)
        PROVE  \E basket \in Seq(Item) : BeginPurchase(a, basket)
    BY <2>2, BasketType DEF BulkPurchase
  <2> QED
    BY <1>2, <2>1, <2>2 DEF Purchases
<1>3. CASE Governance
  BY <1>3 DEF Governance, ExecuteUpdateFee, Rollback, Contest, SetDelay,
              CloseLedger, TimelockStep
<1>4. CASE UNCHANGED vars
  BY <1>4 DEF vars
<1> QED
  BY <1>1, <1>2, <1>3, <1>4 DEF Next

\* Every step keeps the invariant, and the time-lock's.
LEMMA MarketStep ==
  MarketInv /\ TimelockInv /\ [Next]_vars => MarketInv' /\ TimelockInv'
<1> SUFFICES ASSUME MarketInv, TimelockInv, [Next]_vars
             PROVE  MarketInv' /\ TimelockInv'
  OBVIOUS
<1>1. ASSUME UNCHANGED timelockVars PROVE TimelockInv' /\ TimelockTypeOK'
  BY <1>1, TimelockStepInv DEF TimelockInv
<1>2. ASSUME NEW a \in Addresses, Initialize(a)
      PROVE  MarketInv' /\ TimelockInv'
  BY <1>1, <1>2, InitializeKeeps DEF Initialize
<1>3. ASSUME NEW a \in Addresses, NEW l \in ListingIds,
             NEW amount \in Amounts, NEW price \in Prices,
             ListCredits(a, l, amount, price)
      PROVE  MarketInv' /\ TimelockInv'
  BY <1>1, <1>3, ListKeeps DEF ListCredits
<1>4. ASSUME NEW a \in Addresses, NEW l \in ListingIds, DelistCredits(a, l)
      PROVE  MarketInv' /\ TimelockInv'
  BY <1>1, <1>4, DelistKeeps DEF DelistCredits
<1>5. ASSUME NEW a \in Addresses, NEW items \in Seq(Item),
             BeginPurchase(a, items)
      PROVE  MarketInv' /\ TimelockInv'
  BY <1>1, <1>5, BeginKeeps DEF BeginPurchase
<1>6. ASSUME PurchaseStep
      PROVE  MarketInv' /\ TimelockInv'
  <2>1. call # None /\ UNCHANGED timelockVars
    BY <1>6 DEF PurchaseStep, TakeItem, PaySeller, PayFee, EndPurchase,
                AbortPurchase
  <2>2. MarketInv'
    BY <1>6, <2>1, TakeKeeps, PayKeeps, FinishKeeps DEF PurchaseStep
  <2> QED
    BY <1>1, <2>1, <2>2
<1>7. ASSUME NEW a \in Addresses, NEW o \in OpIds, NEW p \in Payloads,
             NEW bps \in FeeBps, ProposeUpdateFee(a, o, p, bps)
      PROVE  MarketInv' /\ TimelockInv'
  <2>1. TimelockInv'
    BY <1>7, TimelockStepInv DEF ProposeUpdateFee, TimelockStep
  <2> QED
    BY <1>7, <2>1, ProposeKeeps DEF TimelockInv
<1>8. ASSUME UNCHANGED marketVars, UNCHANGED admin,
             [TimelockStep]_timelockVars
      PROVE  MarketInv' /\ TimelockInv'
  <2>1. TimelockInv'
    BY <1>8, TimelockStepInv
  <2> QED
    BY <1>8, <2>1, MarketUntouched DEF TimelockInv
<1> QED
  BY <1>2, <1>3, <1>4, <1>5, <1>6, <1>7, <1>8, MarketCases

\* The marketplace keeps its inductive invariant: types, stock and status of
\* the listings in step, also in what a rollback would restore, the lock held
\* exactly while a purchase runs, and no transfer without an admin.
THEOREM MarketInvariant == Spec => []MarketInv
<1>1. Init => MarketInv /\ TimelockInv
  BY MarketInit
<1>2. MarketInv /\ TimelockInv /\ [Next]_vars => MarketInv' /\ TimelockInv'
  BY MarketStep
<1> QED
  BY <1>1, <1>2, PTL DEF Spec

\* The variables of the marketplace keep their types: no amount leaves i128,
\* no payment and no balance is negative, and the fee is a part of the whole.
THEOREM MarketTypeCorrect == Spec => []MarketTypeOK
<1>1. MarketInv => MarketTypeOK
  BY DEF MarketInv
<1> QED
  BY <1>1, MarketInvariant, PTL

\* What can be bought has stock and what is marked Sold has none, whatever
\* baskets are bought, whenever they fail.
THEOREM StockAgreesWithStatus == Spec => []StockMatchesStatus
<1>1. MarketInv => StockMatchesStatus
  BY DEF MarketInv
<1> QED
  BY <1>1, MarketInvariant, PTL

\* The fee updates of the marketplace are contested inside their windows only,
\* and no contest outlives its operation.
THEOREM MarketContestsInWindow == Spec => []ContestsInWindow
<1>1. Init => MarketInv /\ TimelockInv
  BY MarketInit
<1>2. MarketInv /\ TimelockInv /\ [Next]_vars => MarketInv' /\ TimelockInv'
  BY MarketStep
<1>3. TimelockInv => ContestsInWindow
  BY DEF TimelockInv
<1> QED
  BY <1>1, <1>2, <1>3, PTL DEF Spec

\* A token that calls the marketplace back during a transfer changes nothing
\* in it, whichever operation it calls.
THEOREM QuietWhileWaiting == Spec => NoEffectWhileWaiting
<1>1. ASSUME MarketInv, [Next]_vars,
             call # None, call.stage # "item", call' # None
      PROVE  UNCHANGED <<listings, allListings, feeBps, admin, ops, contests,
                         delay>>
  <2>1. ~LockFree /\ admin # None
    <3>1. locked = TRUE
      BY <1>1, CallFacts
    <3>2. admin # None
      BY <1>1 DEF MarketInv
    <3> QED
      BY <1>1, <3>1, <3>2 DEF LockFree
  <2>2. CASE PurchaseStep
    BY <1>1, <2>2 DEF PurchaseStep, TakeItem, PaySeller, PayFee, EndPurchase,
                      AbortPurchase, timelockVars
  <2>3. CASE UNCHANGED marketVars /\ UNCHANGED admin /\ UNCHANGED timelockVars
    BY <2>3 DEF marketVars, timelockVars
  <2> QED
    BY <1>1, <2>1, <2>2, <2>3, MarketCases
    DEF Initialize, ListCredits, DelistCredits, BeginPurchase,
        ProposeUpdateFee
<1>2. MarketInv /\ [Next]_vars =>
        [ (call # None /\ call.stage # "item" /\ call' # None) =>
            UNCHANGED <<listings, allListings, feeBps, admin, ops, contests,
                        delay>> ]_vars
  BY <1>1
<1> QED
  BY <1>2, MarketInvariant, PTL DEF Spec, NoEffectWhileWaiting


-----------------------------------------------------------------------------
\* A purchase that runs puts nothing on offer: what can be bought now could
\* be bought when it began.
SellsOnly == call # None => OnOffer(listings) \subseteq OnOffer(call.saved.listings)

\* Nothing goes on offer without being in the index.
Remembered == admin # None => Unindexed' \subseteq Unindexed

\* A step that changes neither offers nor index, nor the purchase.
LEMMA OffersUntouched ==
  ASSUME SellsOnly, UNCHANGED <<listings, allListings, call>>
  PROVE  SellsOnly' /\ Remembered
  BY DEF SellsOnly, Remembered, Unindexed, Offered, OnOffer

\* list_credits puts a listing on offer, and in the index; delist_credits
\* takes one away.
LEMMA ListingRemembers ==
  ASSUME MarketInv, NEW a \in Addresses, NEW l \in ListingIds,
         \/ \E amount \in Amounts, price \in Prices :
              ListCredits(a, l, amount, price)
         \/ DelistCredits(a, l)
  PROVE  SellsOnly' /\ Remembered
<1> DEFINE indexed == {allListings[i] : i \in DOMAIN allListings}
           indexed2 == {allListings'[i] : i \in DOMAIN allListings'}
<1>1. call = None /\ call' = None
  BY DEF ListCredits, DelistCredits, LockFree, MarketInv, StockMatchesStatus
<1>2. /\ listings \in [ListingIds -> MarketListing \cup {None}]
      /\ allListings \in Seq(ListingIds)
  BY DEF MarketInv, MarketTypeOK
<1>3. CASE \E amount \in Amounts, price \in Prices :
             ListCredits(a, l, amount, price)
  <2>1. /\ allListings' = Append(allListings, l)
        /\ \A m \in ListingIds : m # l => listings'[m] = listings[m]
    BY <1>2, <1>3 DEF ListCredits
  <2>2. indexed \cup {l} \subseteq indexed2
    <3>1. l \in indexed2
      <4>1. /\ Len(allListings) + 1 \in DOMAIN allListings'
            /\ allListings'[Len(allListings) + 1] = l
        BY <1>2, <2>1
      <4> QED
        BY <4>1
    <3>2. \A i \in DOMAIN allListings :
            i \in DOMAIN allListings' /\ allListings'[i] = allListings[i]
      BY <1>2, <2>1
    <3> QED
      BY <3>1, <3>2
  <2>3. OnOffer(listings)' \subseteq OnOffer(listings) \cup {l}
    BY <2>1 DEF OnOffer
  <2> QED
    BY <1>1, <2>2, <2>3 DEF SellsOnly, Remembered, Unindexed, Offered
<1>4. CASE DelistCredits(a, l)
  <2>1. /\ UNCHANGED allListings
        /\ listings' = [listings EXCEPT ![l].status = "Delisted"]
        /\ listings[l] \in MarketListing
    BY <1>2, <1>4 DEF DelistCredits
  <2>2. /\ listings'[l].status = "Delisted"
        /\ \A m \in ListingIds : m # l => listings'[m] = listings[m]
    BY <1>2, <2>1 DEF MarketListing
  <2>3. OnOffer(listings)' \subseteq OnOffer(listings)
    BY <2>2 DEF OnOffer
  <2> QED
    BY <1>1, <2>1, <2>3 DEF SellsOnly, Remembered, Unindexed, Offered
<1> QED
  BY <1>3, <1>4

\* A purchase from its beginning to its end, good or bad.
LEMMA PurchaseRemembers ==
  ASSUME MarketInv, MarketInv', SellsOnly,
         \/ \E a \in Addresses, items \in Seq(Item) : BeginPurchase(a, items)
         \/ PurchaseStep
  PROVE  SellsOnly' /\ Remembered
<1>1. UNCHANGED allListings
  BY DEF BeginPurchase, PurchaseStep, TakeItem, PaySeller, PayFee, EndPurchase,
         AbortPurchase
<1>2. CASE \E a \in Addresses, items \in Seq(Item) : BeginPurchase(a, items)
  <2>1. /\ call = None /\ UNCHANGED listings
        /\ call'.saved.listings = listings
        /\ locked' = TRUE
    BY <1>2 DEF BeginPurchase, LockFree, MarketInv, StockMatchesStatus
  <2>2. call' # None
    BY <2>1 DEF MarketInv, StockMatchesStatus
  <2> QED
    BY <1>1, <2>1, <2>2 DEF SellsOnly, Remembered, Unindexed, Offered, OnOffer
<1>3. CASE call # None /\ (TakeItem \/ PaySeller \/ PayFee)
  <2>1. call'.saved = call.saved
    BY <1>3, CallFacts DEF TakeItem, PaySeller, PayFee, Purchase
  <2>2. call' # None
    BY <1>3 DEF TakeItem, PaySeller, PayFee, MarketInv, StockMatchesStatus
  <2>3. OnOffer(listings)' \subseteq OnOffer(listings)
    <3>1. CASE PaySeller \/ PayFee
      BY <3>1 DEF PaySeller, PayFee, OnOffer
    <3>2. CASE TakeItem
      <4> DEFINE l == Head(call.items).listing
      <4>1. /\ Tradable(l)
            /\ \A m \in ListingIds : m # l => listings'[m] = listings[m]
        BY <3>2 DEF TakeItem, Purchasable, MarketInv, MarketTypeOK
      <4> QED
        BY <4>1 DEF OnOffer, Tradable
    <3> QED
      BY <1>3, <3>1, <3>2
  <2> QED
    BY <1>1, <1>3, <2>1, <2>2, <2>3
       DEF SellsOnly, Remembered, Unindexed, Offered, OnOffer
<1>4. CASE call # None /\ (EndPurchase \/ AbortPurchase)
  BY <1>1, <1>4 DEF EndPurchase, AbortPurchase, SellsOnly, Remembered,
                    Unindexed, Offered, OnOffer
<1> QED
  BY <1>2, <1>3, <1>4 DEF PurchaseStep

\* Once the contract is initialised every listing that goes on offer is in the
\* index, and none on offer leaves it.
THEOREM NothingForgotten == Spec => NoListingForgotten
<1>1. Init => SellsOnly
  BY DEF Init, SellsOnly
<1>2. MarketInv /\ MarketInv' /\ SellsOnly /\ [Next]_vars
        => SellsOnly' /\ Remembered
  <2> SUFFICES ASSUME MarketInv, MarketInv', SellsOnly, [Next]_vars
               PROVE  SellsOnly' /\ Remembered
    OBVIOUS
  <2>1. ASSUME NEW a \in Addresses, Initialize(a)
        PROVE  SellsOnly' /\ Remembered
    BY <2>1 DEF Initialize, SellsOnly, Remembered, OnOffer
  <2>2. ASSUME NEW a \in Addresses, NEW o \in OpIds, NEW p \in Payloads,
               NEW bps \in FeeBps, ProposeUpdateFee(a, o, p, bps)
        PROVE  SellsOnly' /\ Remembered
    BY <2>2, OffersUntouched DEF ProposeUpdateFee
  <2>3. CASE UNCHANGED marketVars
    BY <2>3, OffersUntouched DEF marketVars
  <2> QED
    BY <2>1, <2>2, <2>3, ListingRemembers, PurchaseRemembers, MarketCases
<1>3. Init => MarketInv /\ TimelockInv
  BY MarketInit
<1>4. MarketInv /\ TimelockInv /\ [Next]_vars => MarketInv' /\ TimelockInv'
  BY MarketStep
<1>5. Remembered => [admin # None => Unindexed' \subseteq Unindexed]_vars
  BY DEF Remembered
<1> QED
  BY <1>1, <1>2, <1>3, <1>4, <1>5, PTL DEF Spec, NoListingForgotten

-----------------------------------------------------------------------------
\* The fee updates keep the promise of the time-lock, whatever purchases and
\* calls back run between their steps.
THEOREM MarketContestWindow == Spec => ContestWindowSpec
<1>1. Init => TimelockInit
  BY DEF Init
<1>2. [Next]_vars => [TimelockStep]_timelockVars
  <2> SUFFICES ASSUME [Next]_vars PROVE [TimelockStep]_timelockVars
    OBVIOUS
  <2>1. ASSUME NEW a \in Addresses, Initialize(a)
        PROVE  UNCHANGED timelockVars
    BY <2>1 DEF Initialize
  <2>2. ASSUME NEW a \in Addresses, NEW l \in ListingIds,
               \/ \E amount \in Amounts, price \in Prices :
                    ListCredits(a, l, amount, price)
               \/ DelistCredits(a, l)
        PROVE  UNCHANGED timelockVars
    BY <2>2 DEF ListCredits, DelistCredits
  <2>3. ASSUME NEW a \in Addresses, NEW items \in Seq(Item),
               BeginPurchase(a, items)
        PROVE  UNCHANGED timelockVars
    BY <2>3 DEF BeginPurchase
  <2>4. CASE PurchaseStep
    BY <2>4 DEF PurchaseStep, TakeItem, PaySeller, PayFee, EndPurchase,
                AbortPurchase
  <2>5. ASSUME NEW a \in Addresses, NEW o \in OpIds, NEW p \in Payloads,
               NEW bps \in FeeBps, ProposeUpdateFee(a, o, p, bps)
        PROVE  TimelockStep
    BY <2>5 DEF ProposeUpdateFee, TimelockStep
  <2> QED
    BY <2>1, <2>2, <2>3, <2>4, <2>5, MarketCases
<1>3. Init => MarketInv /\ TimelockInv
  BY MarketInit
<1>4. MarketInv /\ TimelockInv /\ [Next]_vars => MarketInv' /\ TimelockInv'
  BY MarketStep
<1>5. TimelockInit => Window!WindowInit
  BY TimelockInitRefines
<1>6. TimelockInv /\ [TimelockStep]_timelockVars => [Window!WindowNext]_StageOf
  BY TimelockStepRefines
<1> QED
  BY <1>1, <1>2, <1>3, <1>4, <1>5, <1>6, PTL
     DEF Spec, ContestWindowSpec, Window!WindowSpec
=============================================================================
