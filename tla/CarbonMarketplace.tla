-------------------------- MODULE CarbonMarketplace --------------------------
(***************************************************************************)
(* The carbon_marketplace contract: offers of credits at a fixed USDC      *)
(* price, purchases of one or of several of them, and the protocol fee.    *)
(*                                                                         *)
(* A purchase is the one invocation that calls another contract, the USDC  *)
(* token, between its first write and its last.  It is modelled step by    *)
(* step: the effects on one listing, the transfer to the seller, the       *)
(* transfer of the fee, and so on for each item.  While a transfer runs    *)
(* the token may call the marketplace back, so the other operations are    *)
(* possible then as far as the re-entrancy lock lets them.  When a check   *)
(* or a transfer fails the host restores what was there before the call.   *)
(*                                                                         *)
(* The other invocations call nobody and are single steps, which find the  *)
(* lock free and leave it free.  A failing one is a stuttering step.       *)
(*                                                                         *)
(* Left out of a listing: batch, project, vintage, methodology, country    *)
(* and date, which are checked to be well formed when it is created and    *)
(* then only filtered by in the getters.                                   *)
(***************************************************************************)
EXTENDS Timelock, Sequences, FiniteSets

CONSTANTS
  Addresses,
  ListingIds,
  Amounts,         \* i128 arguments: numbers of credits
  Prices,          \* i128 arguments: USDC stroops for a credit
  FeeBps,          \* i128 arguments: fees in basis points
  DefaultFeeBps,   \* DEFAULT_PROTOCOL_FEE_BPS: 100
  BpsDivisor,      \* 10_000
  I128Max,         \* the largest i128
  InitialUsdc,     \* the USDC balances at the start
  MaxItems,        \* bound of the model: items in one bulk_purchase
  MaxListCalls     \* bound of the model: successful calls of list_credits

I128 == (-I128Max - 1) .. I128Max

ASSUME MarketAssumption ==
  /\ I128Max \in Nat
  /\ Amounts \subseteq I128
  /\ Prices \subseteq I128
  /\ FeeBps \subseteq I128
  /\ BpsDivisor \in Nat \ {0}
  /\ DefaultFeeBps \in 1 .. BpsDivisor
  /\ InitialUsdc \in [Addresses -> Nat]
  /\ MaxItems \in Nat
  /\ MaxListCalls \in Nat
  /\ None \notin Addresses

\* There are finitely many addresses of a fixed length.
ASSUME FiniteAssumption == IsFiniteSet(Addresses)

VARIABLES
  admin,        \* DataKey::Admin; set together with DataKey::UsdcToken
  listings,     \* DataKey::Listing
  allListings,  \* DataKey::AllListings
  feeBps,       \* DataKey::ProtocolFeeBps, or its default
  locked,       \* DataKey::Locked
  usdc,         \* the balances kept by the USDC token
  call          \* the purchase that is executing, or None

marketVars == <<listings, allListings, feeBps, locked, usdc, call>>
vars == <<timelockVars, admin, marketVars>>

ListingStatus == {"Active", "Sold", "PartiallyFilled", "Delisted"}

MarketListing ==
  [seller : Addresses, amount : 0 .. I128Max, price : 1 .. I128Max,
   status : ListingStatus]

Item == [listing : ListingIds, amount : I128]

\* What is to be paid for an item, and a purchase that is executing.
Payment == [seller : Addresses, proceeds : Nat, fee : Nat]

Purchase ==
  [buyer : Addresses,
   items : Seq(Item),
   stage : {"item", "proceeds", "fee"},
   due   : Payment \cup {None},
   saved : [listings : [ListingIds -> MarketListing \cup {None}],
            usdc : [Addresses -> Nat]]]

ASSUME MarketRecordAssumption ==
  None \notin MarketListing /\ None \notin Payment /\ None \notin Purchase

Init ==
  /\ TimelockInit
  /\ admin = None
  /\ listings = [l \in ListingIds |-> None]
  /\ allListings = <<>>
  /\ feeBps = DefaultFeeBps
  /\ locked = FALSE
  /\ usdc = InitialUsdc
  /\ call = None

-----------------------------------------------------------------------------
\* Mutation: acquire_lock does not look at the lock.
LockFreeUnchecked == TRUE

\* acquire_lock fails while the lock is held.
LockFree == ~locked

RequireAdmin(caller) == admin = caller

Tradable(l) ==
  /\ listings[l] # None
  /\ listings[l].status \notin {"Delisted", "Sold"}

\* get_active_listings goes through the index.
ActiveListings ==
  {l \in {allListings[i] : i \in DOMAIN allListings} :
     /\ listings[l] # None
     /\ listings[l].status \in {"Active", "PartiallyFilled"}}

-----------------------------------------------------------------------------
\* An invocation begins while no other runs, or is called by the token.
Callable == call # None => call.stage # "item"

\* The only operation that does not take the lock.
Initialize(a) ==
  /\ Callable
  /\ admin = None
  /\ admin' = a
  /\ allListings' = <<>>
  /\ UNCHANGED <<timelockVars, listings, feeBps, locked, usdc, call>>

\* Mutation: the index is overwritten instead of extended.
ListCreditsNewIndex(seller, l, amount, price) ==
  /\ LockFree
  /\ amount > 0
  /\ price > 0
  /\ Len(allListings) < MaxListCalls
  /\ listings' = [listings EXCEPT ![l] =
       [seller |-> seller, amount |-> amount, price |-> price,
        status |-> "Active"]]
  /\ allListings' = <<l>>
  /\ UNCHANGED <<timelockVars, admin, feeBps, locked, usdc, call>>

\* Neither an admin nor a free id is required; a listing stored under the id
\* is replaced.
ListCredits(seller, l, amount, price) ==
  /\ LockFree
  /\ amount > 0
  /\ price > 0
  /\ Len(allListings) < MaxListCalls
  /\ listings' = [listings EXCEPT ![l] =
       [seller |-> seller, amount |-> amount, price |-> price,
        status |-> "Active"]]
  /\ allListings' = Append(allListings, l)
  /\ UNCHANGED <<timelockVars, admin, feeBps, locked, usdc, call>>

\* Whatever the status of the listing.
DelistCredits(seller, l) ==
  /\ LockFree
  /\ listings[l] # None
  /\ listings[l].seller = seller
  /\ listings' = [listings EXCEPT ![l].status = "Delisted"]
  /\ UNCHANGED <<timelockVars, admin, allListings, feeBps, locked, usdc, call>>

-----------------------------------------------------------------------------
\* A purchase begins: the lock is taken.  "saved" is what the host restores
\* when the invocation fails; "due" is what the current item costs.
BeginPurchase(buyer, items) ==
  /\ LockFree
  /\ locked' = TRUE
  /\ call' = [buyer |-> buyer, items |-> items, stage |-> "item",
              due |-> None,
              saved |-> [listings |-> listings, usdc |-> usdc]]
  /\ UNCHANGED <<timelockVars, admin, listings, allListings, feeBps, usdc>>

PurchaseCredits(buyer, l, amount) ==
  BeginPurchase(buyer, <<[listing |-> l, amount |-> amount]>>)

BulkPurchase(buyer, items) == BeginPurchase(buyer, items)

TotalCost(item) == listings[item.listing].price * item.amount

\* Mutation: the fee is rounded up.
ProtocolFeeUp(item) ==
  (TotalCost(item) * feeBps + BpsDivisor - 1) \div BpsDivisor

ProtocolFee(item) == (TotalCost(item) * feeBps) \div BpsDivisor

\* Mutation: what is left of a listing is looked up before the first item.
PurchasableStale(item) ==
  /\ item.amount > 0
  /\ Tradable(item.listing)
  /\ item.amount <= call.saved.listings[item.listing].amount
  /\ TotalCost(item) <= I128Max
  /\ TotalCost(item) * feeBps <= I128Max
  /\ admin # None

\* Mutation: the first transfer is made whether or not there is an admin.
PurchasableWithoutAdmin(item) ==
  /\ item.amount > 0
  /\ Tradable(item.listing)
  /\ item.amount <= listings[item.listing].amount
  /\ TotalCost(item) <= I128Max
  /\ TotalCost(item) * feeBps <= I128Max

\* The checks on an item, the multiplications in i128 included.  Without an
\* admin and a token the invocation panics before its first transfer.
Purchasable(item) ==
  /\ item.amount > 0
  /\ Tradable(item.listing)
  /\ item.amount <= listings[item.listing].amount
  /\ TotalCost(item) <= I128Max
  /\ TotalCost(item) * feeBps <= I128Max
  /\ admin # None

\* Mutation: what is left is computed from what there was before the basket.
TakeItemStale ==
  LET item == Head(call.items)
      l == item.listing
      left == call.saved.listings[l].amount - item.amount
  IN
    /\ call.stage = "item"
    /\ call.items # <<>>
    /\ Purchasable(item)
    /\ listings' = [listings EXCEPT
         ![l].amount = left,
         ![l].status = IF left = 0 THEN "Sold" ELSE "PartiallyFilled"]
    /\ call' = [call EXCEPT
         !.items = Tail(call.items),
         !.stage = "proceeds",
         !.due = [seller |-> listings[l].seller,
                  proceeds |-> TotalCost(item) - ProtocolFee(item),
                  fee |-> ProtocolFee(item)]]
    /\ UNCHANGED <<timelockVars, admin, allListings, feeBps, locked, usdc>>

\* The listing is updated before any USDC moves.
TakeItem ==
  LET item == Head(call.items)
      l == item.listing
      left == listings[l].amount - item.amount
  IN
    /\ call.stage = "item"
    /\ call.items # <<>>
    /\ Purchasable(item)
    /\ listings' = [listings EXCEPT
         ![l].amount = left,
         ![l].status = IF left = 0 THEN "Sold" ELSE "PartiallyFilled"]
    /\ call' = [call EXCEPT
         !.items = Tail(call.items),
         !.stage = "proceeds",
         !.due = [seller |-> listings[l].seller,
                  proceeds |-> TotalCost(item) - ProtocolFee(item),
                  fee |-> ProtocolFee(item)]]
    /\ UNCHANGED <<timelockVars, admin, allListings, feeBps, locked, usdc>>

\* transfer of the token contract, external to the repository: it moves the
\* amount when the payer has it.
Transfer(from, to, amount) ==
  LET paid == [usdc EXCEPT ![from] = @ - amount] IN
    /\ usdc[from] >= amount
    /\ usdc' = [paid EXCEPT ![to] = @ + amount]

PaySeller ==
  /\ call.stage = "proceeds"
  /\ Transfer(call.buyer, call.due.seller, call.due.proceeds)
  /\ call' = [call EXCEPT !.stage = "fee"]
  /\ UNCHANGED <<timelockVars, admin, listings, allListings, feeBps, locked>>

PayFee ==
  /\ call.stage = "fee"
  /\ Transfer(call.buyer, admin, call.due.fee)
  /\ call' = [call EXCEPT !.stage = "item", !.due = None]
  /\ UNCHANGED <<timelockVars, admin, listings, allListings, feeBps, locked>>

\* Mutation: the path that succeeds does not release the lock.
EndPurchaseLocked ==
  /\ call.stage = "item"
  /\ call.items = <<>>
  /\ call' = None
  /\ UNCHANGED <<timelockVars, admin, listings, allListings, feeBps, locked,
                 usdc>>

\* All items are done: the lock is released.
EndPurchase ==
  /\ call.stage = "item"
  /\ call.items = <<>>
  /\ locked' = FALSE
  /\ call' = None
  /\ UNCHANGED <<timelockVars, admin, listings, allListings, feeBps, usdc>>

\* Mutation: the error is dropped, and what has been written so far stays.
AbortPurchaseCommitted ==
  /\ \/ call.stage \in {"proceeds", "fee"}
     \/ /\ call.stage = "item"
        /\ call.items # <<>>
        /\ ~Purchasable(Head(call.items))
  /\ locked' = FALSE
  /\ call' = None
  /\ UNCHANGED <<timelockVars, admin, listings, allListings, feeBps, usdc>>

\* A check fails, or the token refuses a transfer, for lack of funds or for
\* reasons of its own: every write of the invocation is undone.
AbortPurchase ==
  /\ \/ call.stage \in {"proceeds", "fee"}
     \/ /\ call.stage = "item"
        /\ call.items # <<>>
        /\ ~Purchasable(Head(call.items))
  /\ listings' = call.saved.listings
  /\ usdc' = call.saved.usdc
  /\ locked' = FALSE
  /\ call' = None
  /\ UNCHANGED <<timelockVars, admin, allListings, feeBps>>

PurchaseStep ==
  /\ call # None
  /\ TakeItem \/ PaySeller \/ PayFee \/ EndPurchase \/ AbortPurchase

-----------------------------------------------------------------------------
\* Mutation: a fee above the whole price is accepted.
ProposeUpdateFeeUnbounded(caller, o, p, bps) ==
  /\ LockFree
  /\ RequireAdmin(caller)
  /\ bps > 0
  /\ ProposeOp(o, p)
  /\ feeBps' = bps
  /\ UNCHANGED <<admin, listings, allListings, locked, usdc, call>>

\* The new fee is in force as soon as it is proposed.
ProposeUpdateFee(caller, o, p, bps) ==
  /\ LockFree
  /\ RequireAdmin(caller)
  /\ bps > 0
  /\ bps <= BpsDivisor
  /\ ProposeOp(o, p)
  /\ feeBps' = bps
  /\ UNCHANGED <<admin, listings, allListings, locked, usdc, call>>

\* Executing an update and rolling one back leave the fee as it is.
ExecuteUpdateFee(caller, o) ==
  /\ LockFree
  /\ RequireAdmin(caller)
  /\ ExecuteOp(o)
  /\ UNCHANGED <<admin, marketVars>>

Contest(o) ==
  /\ LockFree
  /\ ContestOperation(o)
  /\ UNCHANGED <<admin, marketVars>>

Rollback(caller, o) ==
  /\ LockFree
  /\ RequireAdmin(caller)
  /\ RollbackOperation(o)
  /\ UNCHANGED <<admin, marketVars>>

SetDelay(caller, d) ==
  /\ LockFree
  /\ RequireAdmin(caller)
  /\ SetTimelockDelay(d)
  /\ UNCHANGED <<admin, marketVars>>

\* Time passes between invocations.
CloseLedger ==
  /\ call = None
  /\ Tick
  /\ UNCHANGED <<admin, marketVars>>

-----------------------------------------------------------------------------
Offers ==
  \/ \E a \in Addresses : Initialize(a)
  \/ \E a \in Addresses, l \in ListingIds :
       \/ \E amount \in Amounts, price \in Prices :
            ListCredits(a, l, amount, price)
       \/ DelistCredits(a, l)

Purchases ==
  \/ \E a \in Addresses :
       \/ \E l \in ListingIds, amount \in Amounts : PurchaseCredits(a, l, amount)
       \/ \E n \in 0 .. MaxItems :
            \E items \in [1 .. n -> [listing : ListingIds, amount : Amounts]] :
              BulkPurchase(a, items)
  \/ PurchaseStep

Governance ==
  \/ \E a \in Addresses, o \in OpIds :
       \/ \E p \in Payloads, bps \in FeeBps : ProposeUpdateFee(a, o, p, bps)
       \/ ExecuteUpdateFee(a, o)
       \/ Rollback(a, o)
  \/ \E o \in OpIds : Contest(o)
  \/ \E a \in Addresses, d \in Delays : SetDelay(a, d)
  \/ CloseLedger

Next == Offers \/ Purchases \/ Governance

Spec == Init /\ [][Next]_vars

\* The host runs an invocation it has begun to its end.
FairSpec == Spec /\ WF_vars(PurchaseStep)

-----------------------------------------------------------------------------
MarketTypeOK ==
  /\ TimelockTypeOK
  /\ admin \in Addresses \cup {None}
  /\ listings \in [ListingIds -> MarketListing \cup {None}]
  /\ allListings \in Seq(ListingIds)
  /\ feeBps \in 1 .. BpsDivisor
  /\ locked \in BOOLEAN
  /\ usdc \in [Addresses -> Nat]
  /\ call \in Purchase \cup {None}
  /\ call # None => (call.due = None <=> call.stage = "item")

\* A listing that can be bought has something left, and one marked Sold has
\* nothing left (I-MKT-1 and I-MKT-2 of docs/formal-spec.md).
WellStocked(offers) ==
  \A l \in ListingIds : offers[l] # None =>
    /\ offers[l].status \in {"Active", "PartiallyFilled"} => offers[l].amount > 0
    /\ offers[l].status = "Sold" => offers[l].amount = 0

(***************************************************************************)
(* Status and remaining amount of a listing agree, however often the same  *)
(* listing occurs in a bulk purchase, and also in what is restored when a  *)
(* later item of it fails; the lock is held exactly while a purchase runs. *)
(***************************************************************************)
StockMatchesStatus ==
  /\ locked <=> call # None
  /\ WellStocked(listings)
  /\ call # None => WellStocked(call.saved.listings)

(***************************************************************************)
(* The inductive invariant of the contract.  Its last part is why          *)
(* initialize, which takes no lock, cannot run inside a purchase either: a *)
(* purchase reaches a transfer only where there is an admin already.       *)
(***************************************************************************)
MarketInv ==
  /\ MarketTypeOK
  /\ StockMatchesStatus
  /\ (call # None /\ call.stage # "item") => admin # None

(***************************************************************************)
(* While a purchase waits for the token, no other operation of the         *)
(* marketplace takes effect, even if the token calls it back: not one that *)
(* replaces or withdraws the listing being paid for, nor one that changes  *)
(* the fee between two items of a basket (REENTRANCY.md; acquire_lock).    *)
(***************************************************************************)
NoEffectWhileWaiting ==
  [][ (call # None /\ call.stage # "item" /\ call' # None) =>
        UNCHANGED <<listings, allListings, feeBps, admin, ops, contests, delay>>
    ]_vars

(***************************************************************************)
(* Seen from outside, a purchase happens at once and whole: the contract   *)
(* implements Settlement, where what an observer finds while a purchase    *)
(* runs is the state the purchase began from.                              *)
(***************************************************************************)
Settled ==
  INSTANCE Settlement
    WITH Accounts <- Addresses,
         OfferIds <- ListingIds,
         book <- IF call = None THEN listings ELSE call.saved.listings,
         funds <- IF call = None THEN usdc ELSE call.saved.usdc,
         treasury <- admin,
         bps <- feeBps
SettlementSpec == Settled!Spec

(***************************************************************************)
(* Every purchase ends, well or not, and gives the lock back: no sequence  *)
(* of calls leaves the marketplace locked.                                 *)
(***************************************************************************)
LockIsReleased == locked ~> ~locked

\* The listings that can be bought, in the storage an observer finds: while a
\* purchase runs, that is what it began from.
OnOffer(book) ==
  {l \in ListingIds : book[l] # None /\ book[l].status \notin {"Delisted", "Sold"}}

Offered == OnOffer(IF call = None THEN listings ELSE call.saved.listings)

Unindexed == Offered \ {allListings[i] : i \in DOMAIN allListings}

(***************************************************************************)
(* A listing that can be bought is among those get_active_listings goes    *)
(* through: once the contract is initialised, no call of list_credits, no  *)
(* delisting and no purchase, completed or rolled back, makes a listing    *)
(* that the index does not have.                                           *)
(***************************************************************************)
NoListingForgotten == [][ admin # None => Unindexed' \subseteq Unindexed ]_vars

-----------------------------------------------------------------------------
(***************************************************************************)
(* What the documentation says and the code does not do.                   *)
(***************************************************************************)

\* "Stage the proposed fee -- activated on execute": the fee changes only
\* when a due operation that nobody contests is executed.
FeeChangesOnExecute ==
  [][ feeBps' # feeBps =>
        \E o \in OpIds : Executable(o) /\ ops'[o] = None ]_vars

\* "Returns all listings with Active or PartiallyFilled status", listings made
\* before initialize included.
AllActiveListingsReturned ==
  \A l \in ListingIds : Tradable(l) => l \in ActiveListings
=============================================================================
