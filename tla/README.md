# CarbonLedger: a TLA+ model of the contracts

This directory models the four Soroban contracts of the repository in TLA+,
checks them with TLC on small instances, and proves theorems about them, for
every value of the constants, with TLAPS. The code is the reference: a
definition names in `PROJECT.json` ("map") the source lines it stands for.

## 1. The system

| component | state it keeps | operations | what makes it correct |
|---|---|---|---|
| `carbon_registry` | projects and their status, verifiers, oracle, issued totals | register, verify, reject, update status, suspend (directly, or proposed and executed), `increment_issued` | a time-locked suspension takes effect only after its window and on its project; a project is registered once; the issued total stays in its range (that a rejection is final and that the total only grows is documented, and not enforced: section 3) |
| `carbon_credit` | batches, the global list of serial ranges, batches by project, credits retired by batch, certificates | `initialize`, `mint_credits`, `retire_credits`, `transfer_credits` (checks only), pause, getters | a serial is issued once and burned once; counters, statuses, index and certificates agree |
| `carbon_marketplace` | listings, index of listings, fee, re-entrancy lock | `initialize`, `list_credits`, `delist_credits`, `purchase_credits`, `bulk_purchase`, fee update, getters | a purchase settles whole or not at all at its exact price; nothing happens to a listing being paid for; the lock is always given back |
| `carbon_oracle` | monitoring data, benchmark prices (temporary storage with a TTL), flags | submit data, update price (directly, or proposed and executed), flag, freshness | data is fresh within the window, a price is in force when it should be |
| time-lock | pending operations, contests, delay; the same code in each of the four | propose, execute, contest, roll back, set delay | an operation runs only after its delay and uncontested; a contest blocks the operation it was raised against and no other |
| `carbonledger/backend` | none | DTO validation | accepts what the contracts accept |
| `carbon_fuzz` | none | test harness | -- |
| USDC token (external) | balances | `transfer` | -- |

Interaction. The contracts do not call one another: what the documentation
describes across contracts (a suspended project cannot mint, the registry counts
what is issued) rests on callers, and on readers of the contracts' events. The only call out of a contract is the
marketplace's to the token's `transfer`, twice for each item bought.

The host executes invocations one at a time. An invocation that returns an error
or panics has no effect: all its writes are discarded. Ledger time advances
between invocations.

What is hard in this code: writes before the last check (`mint_credits`,
`bulk_purchase`), which rely on the rollback by the host; writes before the
call to the token, and calls back while it runs; records that several functions
must keep in step under different keys; arithmetic at the ends of `u64` and
`i128`; identifiers chosen by callers that may come back; operations that wait
for a delay while the clock, the delay and the operation itself change; storage
that expires in ledgers beside windows counted in seconds; totals kept from
events that may be late, reordered or refused. The list
with lines is in `PROJECT.json` ("hazards").

## 2. Modules

| module | what it is |
|---|---|
| `Timelock` | the governance time-lock of all four contracts, extended by each contract's module |
| `ContestWindow` | what the time-lock promises, without clocks and without saying what an operation does: a window, then due; a contest is raised in the window and ends by withdrawal only |
| `CarbonRegistry` | `carbon_registry`; one action per operation |
| `Suspensions` | what `carbon_registry` promises about time-locked suspensions: `ContestWindow`, with the project that each operation suspends when it is executed |
| `CarbonCredit` | `carbon_credit`; one action per operation |
| `SerialLedger` | what `carbon_credit` promises about serials: a batch is issued once, no serial is in two batches, a serial is burned at most once and under its own batch |
| `CarbonMarketplace` | `carbon_marketplace`; purchases step by step around the token's transfers |
| `Settlement` | what the marketplace promises between calls: baskets settle whole, at their exact price, less the fee |
| `Baskets` | the books of a purchase between its steps: what it has taken from the listings against what has been paid or is about to be |
| `CarbonOracle` | `carbon_oracle`; one action per operation, and ledgers that close |
| `OracleFeed` | what `carbon_oracle` promises to its readers: quotes and reports with an age, young again only by a new quote or report |
| `CarbonLedger` | `carbon_registry` and `carbon_credit` composed, with the `minted` events on their way from one to the other |
| `MCCarbonRegistry`, `MCCarbonCredit`, `MCCarbonMarketplace`, `MCCarbonOracle`, `MCCarbonLedger` | values for TLC; one `.cfg` per run |
| `FiniteSums` | lemmas on sums over finite sets, for the two modules below that need them |
| `TimelockProofs`, `CarbonRegistryProofs`, `CarbonCreditProofs`, `CarbonMarketplaceProofs`, `CarbonOracleProofs`, `SettlementProofs`, `CarbonLedgerProofs` | theorems and proofs |

### Correspondence with the code

*Storage.* A storage key with an argument is a function from the argument's set,
with `None` where the key is not set; a key with a default (`TimelockDelay`,
`ProtocolFeeBps`, `BatchRetired`) starts at the default. `SerialRegistry` is a
list in the code that is only ever scanned as a whole, hence a set here.

*Invocations.* An action is a successful invocation: its guard collects the
conditions under which the code does not return early, its primed variables are
the writes. A failing one is a stuttering step. `mint_credits` writes the range
before `assert_valid_batch`; in `MintCredits` a failing validation therefore
disables the whole action, as the host discards the range, and the mutation
`MintCreditsKeepRange` shows which property depends on that.

*Re-entrancy lock.* Outside the marketplace an invocation takes the lock first,
releases it last and calls nobody, so the lock is never seen taken and is not a
variable. In the marketplace it is (`locked`): a purchase is the steps
`BeginPurchase`, then for each item `TakeItem`, `PaySeller`, `PayFee`, then
`EndPurchase`, or `AbortPurchase` when a check fails or the token refuses. While
it is at a transfer all other operations may be called by the token and are
stopped only by `LockFree`, which is the code's own guard (Soroban's host
refuses re-entry by itself; the model does not rely on that, because
`REENTRANCY.md` claims the guard suffices). `call.saved` is the storage the host
restores when the invocation fails.

*Data.* Serials, timestamps and delays are in `0..U64Max`; the casts and checked
additions of the code are modelled at that width. Amounts, prices and fees of
the marketplace are `i128`, with overflow of the two products. Names, reasons,
CIDs and hashes are left out: they are only checked to be non-empty, and a
retirement, listing or mint with an empty one has no effect. A certificate's
list of serials is its first and last one, since the code builds the list by
counting from one to the other. The retiring holder, beneficiary and dates are
not told apart by any property. Events are left out except "paused", which is
the only trace of an executed pause, and "minted" in `CarbonLedger`.

*Two clocks.* Timestamps are seconds, lives of temporary storage are ledgers. In
all modules a tick moves the clock by any number of seconds, as the gap between
ledgers is not fixed; in `CarbonOracle` it closes exactly one ledger
(`CloseLedger`). What `temporary().set` and `extend_ttl` do is the host's code,
not the repository's (marked external): `set` gives a new or expired entry the
network's shortest life (`MinTempTTL`) and leaves a live entry its life;
`extend_ttl` acts only when no more than the threshold is left, and never
shortens. An entry past its life is absent for every reader.

*Between contracts.* `CarbonLedger` instantiates two modules unchanged over one
clock. `unreported` holds the batches whose `minted` event has not been applied;
`Report` is the oracle calling `increment_issued` with the batch's project and
amount. An event may wait, be overtaken or be refused and tried again, and the
project may be registered after the mint. That each event is applied once, and
that the oracle sends nothing else, are assumptions: `increment_issued` carries
no batch and could not tell a repetition.

## 3. Runs

Every property of a passing run has a mutation of the code (an operator of its
own beside the original) that breaks it.

| run | bounds | what it shows |
|---|---|---|
| `registry_lifecycle` | two addresses in every combination of admin, oracle and verifiers, two projects, one operation, corrections by -1 and 1, totals up to 1, clock up to 3 with overflow of the eta, delays 0, 1, 2 | `RegistryInv` (totals in range, though a correction may make one smaller, a target for every pending suspension, contests in their windows, nothing before `initialize`) and refinement of `Suspensions` |
| `credit_serials` | serials `0..4` are the whole type; three batches, three retirement ids, two projects; amounts `0..5`; a valid and an invalid year | types, uniqueness of serials, agreement of registry, counters, statuses, index and certificates, the inductive invariant itself, refinement of `SerialLedger`, and that the certificates account for every burned serial while retirement ids are fresh |
| `credit_governance` | clock, etas and delays up to 5 (overflow included), two operations, delays 0, 1, 3 | `ContestsInWindow` and refinement of `ContestWindow` |
| `market_baskets` | two addresses, two listings, two `list_credits`, baskets of up to two items | stock and status, no effect while the token runs, the books of a purchase at each of its steps (`BasketInv`), refinement of `Settlement`, and that after `initialize` neither a call nor a purchase, completed or rolled back, puts on offer what the index of listings does not have (`NoListingForgotten`) |
| `market_fees` | three addresses in all roles, one listing, fees of 1%, 50.01% and 100% (rounding, and an `i128` that overflows), one time-locked update, clock up to 2 | types, the inductive invariant, `ContestsInWindow` and refinement of `ContestWindow`, no effect while the token runs (governance calls included), refinement of `Settlement` with rounding, and that every purchase gives the lock back |
| `oracle_feed` | two addresses, one project with two periods, one price key; four ledgers over five seconds in every distribution; a price lives 2 ledgers, data is fresh for 1 second; one operation, delays 0, 1, 2 | `OracleInv`, that the freshness answer, read from one time stamp, agrees with the data of all periods, refinement of `OracleFeed` and `ContestWindow`, and that prices run out and data goes stale |
| `ledger_issued` | two projects, three batches, serials `0..2` as the whole type, totals up to 3, one address in all roles, no time-locked operations | that issued totals and events on their way account for every credit minted (`IssuedAccounted`), and that no report about a registered project overflows (`ReportsFit`) |

Five serials are enough for three disjoint ranges, for two ranges in each of the
relative positions two ranges can have, for a batch retired in three slices, and
for the range of all values whose length does not fit. Two items suffice for a
basket with a repetition and for a failure after a success; three addresses for
buyer, seller and admin apart or in any coincidence. Operations of the registry
share only the projects, so one operation against two projects (proposed for one,
contested, proposed again for the other) has the cases; any number of them is
proved. In `oracle_feed` a price can be written, prolonged while it lives, written
again after it expired, and expire again within four ledgers; two keys are too many
for the five minutes a run may take, and that keys do not disturb one another is
part of `ImplementsOracleFeed`, proved for any number. In `ledger_issued` three
batches can exhaust the serials, in one project or divided between two, and
`I128Max` is the least that the assumption on the widths allows, where a report
that did not fit would show. The time-lock plays no part in the totals, and has its own runs.
`MaxListCalls`, `MaxItems`, `MaxTime` and `MaxSeq` bound only the model. `Permutations` symmetry is used where no
definition names an element and the run has no liveness property.

Runs that find a disagreement between the documentation and the code:

| run | property | counterexample |
|---|---|---|
| `registry_issued` | `IssuedNeverDecreases` | the oracle reports 1 credit and then -1: the issued total goes from 1 to 0 |
| `credit_pause` | `PauseHaltsMutations` | a pause is proposed, waited for and executed; the next mint succeeds |
| `market_staging` | `FeeChangesOnExecute` | the fee is in force as soon as it is proposed |
| `market_early` | `AllActiveListingsReturned` | a listing made before `initialize` is dropped from the index, and is never among the active listings, though it can be bought |
| `oracle_staged` | `ExecutedPriceInForce` | a price is proposed and waited for: when the update is executed the price has expired, as the delay is 48 hours and its life 24 |

Other divergences from the documentation are visible in the definitions, and have
no run of their own:

* `retire_credits` accepts a retirement id that was used before, and the new
  certificate replaces the old one (the comment at
  `carbon_credit/src/lib.rs:273` calls retirement permanent; Gap 2 of
  `docs/formal-spec.md`). `FreshIdsKeepAccount` says what holds while ids are fresh.
* A rejection is final (`carbon_registry/src/lib.rs:265`; I-REG-4, and line 423 of
  the formal specification): `verify_project`, `update_project_status` and both
  suspensions write a status over any other. Gap 1 concedes it of
  `update_project_status`.
* The fee is always 1% (`carbon_marketplace/src/lib.rs:261`; I-MKT-3 and S9 of the
  formal specification): it is what `ProtocolFeeBps` holds, 1% until
  `propose_update_fee` sets another, up to the whole price. `SettlementSpec` is
  stated for the fee in force.
* `list_credits` with an id in use replaces the listing, its price included
  (I-MKT-6 of the formal specification: a price is immutable), and
  `delist_credits` turns a sold listing into a delisted one (its line 1096).
* `flag_project` "halts new credit issuance" (`carbon_oracle/src/lib.rs:282`);
  no function reads the flag.
* `mint_credits` does not ask for the status of the project (Gap 3), and
  suspending one halts neither minting nor trading (`DEPLOYMENT.md:568`).
* `increment_issued` is "called by carbon_credit contract"
  (`carbon_registry/src/lib.rs:553`); `carbon_credit` calls nothing.

*Deadlock.* `CHECK_DEADLOCK FALSE` everywhere: the bounds stop the model
(serials, retirement amounts and listings run out) and the real system may be
idle forever.

*Fairness.* `LockIsReleased` (run `market_fees`) needs weak fairness of
`PurchaseStep`: the host runs an invocation it has begun to its end, as an
invocation is one call that returns or traps. `PricesRunOut` and `DataGoesStale`
(run `oracle_feed`) need weak fairness of `CloseLedger`: the network goes on
closing ledgers. Nothing is assumed about who calls what: a purchase need not
succeed, no proposal need ever be executed, and the oracle may renew a price for
ever, which is why both properties allow a renewal. They do not ask about lives
that end with the bound of the model, where the clocks stop.

## 4. Proofs

`tlapm` checks all theorems to the last leaf. They hold for all constants that
satisfy the named assumptions of the modules (`TimelockAssumption`,
`PendingOpAssumption`, `OracleAssumption`, `OracleRecordAssumption`,
`RegistryAssumption`, `ProjectAssumption`, `CreditAssumption`, `RecordAssumption`,
`MarketAssumption`, `MarketRecordAssumption`, `FiniteAssumption`,
`WidthAssumption`, `LedgerAssumption`), which type the constants and keep `None`
apart from other values. Beyond that they say three things: the network's shortest
life of a temporary entry is not longer than the one the contract asks for; an
`i128` holds more than a `u64`; and there are finitely many addresses (an address
is 32 bytes), without which the USDC of all of them is no sum. Projects, batches,
listings and operations may be infinitely many.

`TimelockProofs`: `TimelockInv` (types and `ContestsInWindow`) is preserved by
every operation of the time-lock. The point is re-proposing: a new eta is not
before `now`, so strictly after it as the delay is not zero, and a contest is
never later than `now`. The refinement of `ContestWindow` is proved there operation
by operation, and each contract's theorem (`CreditContestWindow`,
`MarketContestWindow`, `OracleContestWindow`) adds that its other operations leave
the time-lock alone.

`CarbonRegistryProofs`:

* `RegistryInvariant` -- `Spec => []RegistryInv`, with `RegistryTypeCorrect`. That a
  pending suspension finds its project rests on two things: it is looked up when
  proposed, and no project ever goes away.
* `ImplementsSuspensions` -- `Spec => SuspensionsSpec`, under the mapping of operation,
  contest and clock to a stage. A proposal opens a window because the delay is
  never zero; a tick of the clock closes those windows that end there; a second
  contest of one operation stutters; execution is the step from due to free that
  suspends the target. `ContestsInWindow` is what makes a contested stage imply a
  pending operation.

* `TotalsOnlyGrow` -- `Spec => IssuedNeverDecreases` if no amount is negative, the
  condition that the counterexample of `registry_issued` lacks.

`CarbonCreditProofs`:

* `CreditInvariant` -- `Spec => []CreditInv`. No part is inductive alone.
  Uniqueness of serials needs the registry to be exact, since `mint_credits`
  compares with the registry and not with the batches (`RegistryMatchesBatches`).
  Exactness needs `initialize` to run before the first batch only
  (`admin = None => Minted = {}`). Disjoint certificates need every certificate to
  lie among the burned serials of its batch, the burned serials to be a prefix
  counted by `retired`, and batches to be disjoint. Types of `retired` and of the
  certificates need `BatchAccounting`, which ties counter, amount and range.
* `SerialUniqueness`, `RetirementUniqueness`, `CreditTypeCorrect`,
  `CreditContestsInWindow` follow.
* `ImplementsSerialLedger` -- `Spec => LedgerSpec`: a mint gives one new
  batch a non-empty set of serials that no batch has, a retirement burns a non-empty
  set of live serials of one batch, any other step changes neither.
* `CertificatesAreExact` -- each certificate names exactly the serials its own
  retirement burns. `FreshIdsKeepTheAccount` adds that while ids are fresh the
  certificates name every burned serial: a fresh id replaces no certificate.
* `RegistryIsExact`, `AccountsAgree`, `ProjectIndexIsExact`
  -- the conjuncts of `CreditInv` of those names. The index lists each
  batch once because `mint_credits` appends under an id it has checked to be new.

`CarbonMarketplaceProofs`:

* `MarketInvariant` -- `Spec => []MarketInv`, with `MarketTypeCorrect`,
  `StockAgreesWithStatus` and `MarketContestsInWindow`. The stock of the listings
  alone is not inductive: a rollback puts back what was saved, so the saved
  listings are typed and well stocked too, and the lock is held exactly while a
  purchase runs. That payments are natural numbers rests on the fee being at
  most 10000 basis points (`FeeWithinCost`).
* `QuietWhileWaiting` -- `Spec => NoEffectWhileWaiting`: as the lock is held, every
  operation that takes it is disabled while a purchase waits; `initialize` does not
  take it, and is disabled because a purchase reaches a transfer only where there
  is an admin (the last part of `MarketInv`).

* `NothingForgotten` -- `Spec => NoListingForgotten`. It needs an invariant of its own
  besides `MarketInv` (`SellsOnly`): while a purchase runs, what is on offer is no
  more than what was on offer when it began, so that a rollback brings back no
  listing that the index does not have.

`CarbonOracleProofs`:

* `OracleInvariant` -- `Spec => []OracleInv`. `LatestIsNewest` is inductive because
  the clock does not go back: a correction of an old period stamps the project with
  a time that no period exceeds.
* `FreshnessIsExact` -- `FreshnessMatchesData`, from `LatestIsNewest`.
* `ImplementsOracleFeed` -- `Spec => FeedSpec`. The lemma on `WritePrice` says that
  after `set` and `extend_ttl` an entry has exactly `PriceTTL` ledgers to live,
  whether it was absent, live or expired; that takes the threshold to be `PriceTTL`
  itself and `PricesWithinTTL`. A closing ledger ages every quote by one and
  withdraws those whose life ends.

`FiniteSums`: a sum over a finite set can be taken apart at any of its elements
(`SumUnfolds`), whichever element the definition in the library chose, and from
there what an element added, changed or left alone does to it (`SumExtends`,
`SumChanges`, `SumAgrees`), and that sizes of disjoint intervals sum up to the size
of their union (`SumOfSizes`). The induction over finite sets that this rests on is
stated for a set of sets, not for a predicate, and comes from the well-foundedness of
strict inclusion.

`CarbonLedgerProofs`:

* `LedgerInvariant` -- `Spec => []LedgerInv`, from which `AllIssuedAccounted`. The
  invariants of the two contracts are carried along by the theorems on their steps;
  what is new is the account. A mint adds the same amount to both sides, as the new
  batch is its project's and unreported; a report moves its batch's amount from the
  events to the total; a project is registered with a total of zero, and its earlier
  batches are still unreported, as a report about an unknown project is refused.
  For that the sums must be over finite sets, and batches are only ever added one
  at a time (`BatchesGrow`).
* `IssuedOnlyGrows` -- where the reports are those of mints, totals only grow: the
  composition implies the registry's specification with amounts of at least one
  (`ImplementsRegistry`), and `TotalsOnlyGrow` applies.
* `EveryReportFits` -- `Spec => []ReportsFit`. The total after a report is at most
  the credits of all the project's batches (`IssuedAccounted`), these are as many
  as their serials (`BatchAccounting`), the serials are distinct (`SerialsUnique`)
  and there are `U64Max + 1` of them, which an `i128` holds.
* `ImplementsCredit`, `ImplementsRegistry` -- the composition implies the
  specification of each contract, so that what is proved of one alone holds of
  it in company.

`SettlementProofs`:

* `BasketsAgree` -- `Spec => []BasketInv`. It says of every state of a purchase what
  `Settlement` says of its end, for the balances once the item at hand is paid for
  (`Settling`): `TakeItem` adds an item to what was taken and to what is due in
  one step, a payment turns what is due into what is paid. A listing bought for the
  second time changes a term of the sums, one bought for the first time adds one.
  That the fee is rounded item by item while `Settlement` looks at what a seller sold
  altogether is why `FairFee` allows up to a stroop for each credit.
* `ImplementsSettlement` -- `Spec => SettlementSpec`: the end of a purchase is a
  `Settle` of everything taken, its other steps and its failure stutter, since until
  the end the storage that counts is `call.saved`, and while it runs nothing else
  moves (`QuietWhileWaiting`).
* `PurchasesAreFinite` -- `Spec => PurchaseShrinks`: three times the items left and
  the transfers of the present one are a natural number that each step of a purchase
  makes smaller and nothing else changes. It is the safe half of `LockIsReleased`.

So the invariants and action properties of all passing runs are proved for every
value of the constants. Only model-checked are the liveness properties
(`LockIsReleased`, `PricesRunOut`, `DataGoesStale`), as fairness is out of the reach
of the prover (what safety they rest on is proved: `PurchasesAreFinite`, and in
`ImplementsOracleFeed` that every ledger ages each price and report), and the
counterexamples of the runs that find a disagreement.

## 5. Not modelled

* `transfer_credits` and the getters change no state. The getters over an index
  are represented by the index properties.
* Limits of the host (fees, metering, storage rent and expiry of persistent
  entries) and authentication: `require_auth` is taken to succeed for the address
  that acts.
* `PauseContract` and `ChangeTimelockDelay` of the marketplace's `GovAction` are
  never constructed by any function.
* The registry's `UnsuspendProject` and `ChangeTimelockDelay` are never constructed
  either; its total of retired credits is never written.
* The backend validators (`carbonledger/backend`, TypeScript) hold no state; they
  check requests before these reach a contract, and a contract does not rely on
  them. The fuzz harness is a test.
* A report delivered twice to `increment_issued`: see *Between contracts*.

## 6. Plan

1. The serial range validator of the backend against `Mintable` and
   `AssertValidBatch`, over bounded inputs.
2. The composition of `carbon_credit` and `carbon_marketplace` by their callers:
   what is listed against what is minted and not retired, which no code compares.
