# StellarForge in TLA+

StellarForge puts real-world assets on Stellar: Soroban contracts (Rust, under
`contracts/`) for the asset token, its compliance register, a fractionalization
vault, governance, an oracle adapter and a registry, with a TypeScript SDK and
an appraisal reporter that call them. The value is in the contracts, so most of
the specifications are about them; two are about the off-chain programs that
wait for them. This directory models all of these in TLA+, checks small instances
with TLC and proves what matters most with TLAPS.

Paths are relative to the repository root. Line numbers in comments of the form
`lib.rs:NNN` refer to the `src/lib.rs` of the contract the module models.

## 1. The system

### How contracts run

A Soroban invocation runs alone and to completion. A panic anywhere in it,
in a called contract too, rolls back everything it wrote. So **one invocation
is one step**, the checks that panic are conjuncts of the action's guard, and
interleaving is between invocations: any signer may call any entry point
between any two calls of others, and ledgers close (the sequence number and the
clock advance) in between. What is hard about such code is therefore not data
races but *long sequences of legal calls by several parties*: state checked in
one call and used in a later one, books kept in several places that every path
has to update, two-step protocols that can be superseded, and integer limits.

Every checked amount in the code is an `i128` with `checked_*` arithmetic; the
largest is the constant `IMax`. A call that would exceed it panics, and so is
not enabled.

### Components

| Component | Source | State | Operations |
|---|---|---|---|
| rwa-asset | `contracts/rwa-asset/src/lib.rs` | balances, supply, holder count, allowances, metadata and version, pending cap, governance, holder cap, roles, freezes, lock-ups, compliance policy, pause, admin and pending admin | `mint`, `burn`, `burn_from`, `transfer`, `transfer_from`, `forced_transfer`, `approve`, role/freeze/lock-up/pause setters, `update_metadata`, cap increase (propose, approve, cancel), admin handover |
| compliance | `contracts/compliance/src/lib.rs` | KYC records, denied jurisdictions, pause, admin | `set_kyc`, `revoke_kyc`, their batch forms, `set_jurisdiction_denied`, `set_paused`, handover; `screen` / `is_compliant` |
| vault | `contracts/vault/src/lib.rs` | share balances, supply, units held, lock-ups, allowances, checkpoints of every balance and of the supply, pause, admin | `deposit`, `redeem`, share `transfer`, `transfer_from`, `approve`, `balance_at`, `total_supply_at`, `set_paused`, `transfer_admin`, oracle configuration and NAV |
| governance | `contracts/governance/src/lib.rs` | proposals, votes, content slots, deposits, quorum, threshold, weight source, admin | `propose`, `vote`, `finalize`, `cancel_proposal`, configuration, handover |
| oracle-adapter | `contracts/oracle-adapter/src/{lib,math}.rs` | assets, latest price and linked history by tick, reporter, deviation limit | `report`, `override_price`, `prices`, configuration, handover |
| registry | `contracts/registry/src/lib.rs` | id to entry, index to id, count | `register`, `set_active`, paging, handover |
| common storage | `contracts/common/src/storage.rs` | lifetimes of entries | extension on access |
| SDK | `sdk/src/base.ts`, `registry.ts`, `sponsored.ts`, the other clients | a transaction in flight; the pages of a walk; authorization entries | sign, submit, await settlement; `listAllAssets`; check what a sponsor is asked to sign |
| nav-reporter | `tools/nav-reporter/src/reporter.ts` | an appraisal being submitted | submit, read back after an unknown outcome |
| benchmark, scripts | `tools/benchmark`, `scripts/` | none of the system's | measurement, deployment |

Interactions: rwa-asset and vault **call** compliance (`screen`) before they move
value; the vault calls rwa-asset (any SEP-41 token) to pull units in and pay them
out; governance calls a deposit token and a weight source; the vault reads prices
from oracle adapters; rwa-asset accepts a cap increase from whatever address is
configured as governance; the reporter and the SDK submit transactions and learn
their outcome late or not at all. No contract calls back into its caller.

### What makes each part correct, and what is hard about it

* **rwa-asset.** Supply = sum of balances and holder count = number of positive
  balances over six entry points; a cap that only governance loosens, across
  proposals that mints, burns and metadata updates overtake; balances that fall
  only by consent; restrictions (pause, freeze, lock-up, screening) that no
  delegated path goes around; a two-step handover that cannot be replayed.
* **compliance.** Nobody becomes compliant but by the admin's word; validity at
  write and at read agree to the second; the events of single calls and batches, in
  order, account for every change; a pause that stops decisions.
* **vault.** Shares = units × rate always; what can be redeemed is there; a
  remembered balance never changes and remembered balances add up to the
  remembered supply; lock-ups hold whoever moves the shares.
* **governance.** One vote per address counted as weighed; no vote after the
  decision can be taken; one decision; one refund per deposit, in the token paid;
  one open proposal per content.
* **oracle-adapter.** One record per tick, each strictly later than the last and
  not ahead of the clock; a linked history that loses nothing; only the admin moves
  a price beyond the limit, whatever order reports arrive in.
* **vault NAV.** No value from a stale, future, missing or one-sided price, and
  never more than either source supports, through every rounding.
* **registry.** Two mappings and a counter that are one bijection; a paged walk
  that meets each asset once while the directory grows, and returns.
* **SDK.** What a client is told of a transaction is true and stays true: nothing
  reported as over can still land.
* **nav-reporter.** A successful exit code means the price is recorded; every run
  ends.

`PROJECT.json` lists, under `hazards`, each of these at the line where it bites
with the properties that cover it.

## 2. Modules

| Module | What it is |
|---|---|
| `TokenUnits` | the total of a table of balances, as the cardinality of the set of units (no recursion, so both TLC and TLAPS work with it) |
| `TokenLedger` | **abstract**: what a token promises about its books: create, destroy, pass |
| `AdminHandover` | **abstract**: the two-step admin handover shared by five contracts |
| `PriceFeed` | **abstract**: what a price feed promises: a dated history that only grows |
| `RwaAsset` | the asset contract; implements `TokenLedger` and `AdminHandover` |
| `Compliance` | the compliance contract; EXTENDS `AdminHandover` |
| `CheckpointLog` | operators: how the vault records an amount by ledger and searches it |
| `Vault` | the vault's shares, units and checkpoints; implements `TokenLedger` |
| `VaultNav` | the vault's price sources and NAV, with names of their own so that it can be extended together with `Vault`; EXTENDS `PriceFeed`: adapters do what the feed promises, other oracles answer anything |
| `Governance` | proposals, votes and deposits; implements `AdminHandover` |
| `OracleAdapter` | the price feed; EXTENDS `AdminHandover`, implements `PriceFeed` |
| `Registry` | the directory together with the SDK's paged walk over it; EXTENDS `AdminHandover` |
| `Settlement` | the SDK's write path against a network that delays and drops and a node that lags |
| `NavReporter` | the appraisal command; EXTENDS `Settlement` and composes it with the feed and other reporters |
| `MC*` | values of constants for TLC |
| `*Proofs` | theorems about the module of that name; `ComplianceProofs` also about `AdminHandover`, `VaultProofs` about `CheckpointLog` and `VaultNav`, `NavReporterProofs` about `Settlement`, `TokenLedgerProofs` about `TokenUnits` |

Contracts are composed through what they promise each other: `VaultNav` uses the
feed `OracleAdapter` is shown to implement, `Vault` and `RwaAsset` use the
standings `Compliance` is shown to answer, and theorems about `TokenLedger` and
`AdminHandover` carry over to whatever implements them. The off-chain programs
are composed step by step, because their requests interleave with the network.

### How state and actions correspond to the code

* A storage key is a variable; keys per address are a function of addresses.
  Instance, persistent and temporary storage are not told apart, and
  lifetimes (`extend_*`) are left out, as are events and read-only queries that
  no property is about. The events modelled are the `KycSet` and `KycRevoked` of
  `Compliance`, by which indexers follow the register (`docs/threat-models/compliance.md`).
* An entry point is an action with its name in CamelCase and its arguments as
  parameters, quantified in `Next` over constants such as `Amounts`, which include
  values the code rejects (zero, negative, malformed). Helpers keep their names
  (`MintShares` is `mint_shares`, `ValidRecord` is `validate_record`).
* `require_auth` becomes `RequireAuth`. In `RwaAsset`, `Governance` and the
  handover it records whose signature the call carried in `signer`, in `Vault` it
  requires the addresses to be among those that can sign (the vault cannot).
* *History variables* are read by properties and by no guard: `signer`,
  `proposedBy`, `seized` (units left the vault without a redemption), `published`
  (when a price was recorded), `startCount` (how long the directory was when a walk
  began), `events` (what the last step of `Compliance` announced: a function on the
  positions of its loop, without those that announce nothing).
* Hashes, names, documents and jurisdictions are model values or short
  sequences of them. `Governance!Hash` is equal exactly if the concatenation of
  title and description is, as `proposal_content_hash` computes it.
* **Compliance in other contracts.** `RwaAsset` and `Vault` know an address by
  its *standing*: the highest level it passes, or -1. `StandingChanges` lets that
  number change arbitrarily between calls. `Compliance!AnswersAreAStanding` is
  what justifies it: record, expiry and denial always come down to one number.
* **The underlying token in the vault.** `Vault` keeps `units`, the balances in
  the other contract. A transfer moves them or fails, and then the call rolls
  back. Units move without the vault too: `Donate` (sent to it directly) and
  `Seize` (`forced_transfer` out of it).
* **Token and weight source in governance.** `escrow` is what the contract owns
  of each deposit token; `power` is what the weight source reports, changing
  arbitrarily.
* **Network and node.** In `Settlement` each RPC request is a step. A ledger closes
  with at most one transaction of the account; the node answers from `seen`, a copy
  of the network of any age; a request may fail before or after it reached the
  node; the local clock, which sets the time limit, may be wrong by anything. In
  `NavReporter` `seenFeed` is the feed as of the same `seen`.
* *Reductions*, each leaving out only steps nothing could observe: a standing
  changes only while something is screened (`StandingChanges` in `Vault`), a
  weight only while votes are weighed (`PowerChanges`).
* Mutants (`X_Something`, defined before `X`) are plausible bugs of `X`. No
  specification uses them; they are there to show that each property can fail.

## 3. Runs

Each cfg opens the inputs of the part it is about and leaves the others
empty: `XInputs = {}` disables an entry point in that run, not in the module.
Deadlock is checked in every run. `PROJECT.json` lists the properties of each, and
every one of them is violated by at least one mutant.

| Run | States | What it shows |
|---|---|---|
| `Compliance` | 21,456 | `CompliantOnlyByAdmin`, `WrittenRecordsCount` (written records count at once), `AnswersAreAStanding`, `EventsTellEveryDecision` (who follows the events of single calls and batches, in order, holds the records), `AdminChangesWithBothSignatures` |
| `RwaBooks` | 523,296 | `Conservation`, `HolderCountExact`, `ImplementsLedger` over all six ways to move value; `HolderLimitBindsGrowth`; `CapCoversSupply` and `CapLoosensOnlyWithGovernance` while mints, burns and metadata overtake a pending increase |
| `RwaPolicy` | 1,275,264 | `BalanceFallsOnlyByConsent`, `RestrictedHolderKeepsTokens`, `MovedValueIsScreened` through every path, with allowances that lapse and standings that change |
| `Vault` | 591,564 | `SharesAreBacked`, `DepositAndRedeemAtPar`, `RedeemableCanBePaid` for the books; `RecordedSharesAddUp`, `PastBalancesStay` for what is remembered of them; `LockHolds`, `MovedSharesAreScreened` for who may move shares; `ImplementsLedger` |
| `Governance` | 2,695,184 | `OpenProposalHoldsItsSlot`, `EscrowCoversOpenDeposits`, `TalliesAreBallots`, `ClosedProposalsAreFinal`, `PassesOnSupport`; two proposals while deposit, quorum, threshold, weights and admin change under them |
| `Oracle` | 114,180 | `HistoryIsLinked`, `PricesAreNewestFirst`, `OnlyAdminMovesBeyondLimit` with reports late, early, repeated and in ticks; `ImplementsFeed` |
| `Nav` | 106,240 | `NavRestsOnFreshPrices`, `NavClaimsNoMore`, `SourcesHoldEachOther`; one source keeps the feed's promise, the other answers anything |
| `Registry` | 557,944 | `DirectoryIsABijection`, `WalkIsExact` while assets are registered between pages, and `WalkReturns` (liveness) |
| `Reporter` | 509,736 | `AnswersAreTrue` (nothing reported over lands later), `SuccessMeansRecorded` through the read-back after an unknown outcome, and `EveryRunEnds` (liveness) |
| `CompliancePaused` | violated | a record changes while the contract is paused |
| `GovCancelled` | violated | a cancelled proposal keeps its slot and its deposit |
| `ReporterDeviation` | violated | a price beyond the deviation limit passes the pre-flight checks |

### Bounds and why they are enough

* *Accounts*: three where two parties and a delegate (spender, court operator)
  must differ (`RwaBooks`), or two and the vault itself; two where roles may
  coincide (`RwaPolicy`, `Governance`). Every property relates at most two accounts
  and a signer.
* *Amounts*: `IMax` 2 or 3 reaches overflow within a few calls, so the checked
  additions bite; amounts -1 and 0 test the sign checks. The vault's rates 1 and 2
  give divisible and indivisible share amounts, and a cap of 1 at rate 2 is met by
  no deposit exactly. In `Governance` `IMax` is 35,000: votes of up to 2 times 10,000
  basis points are representable for three votes and saturate for four, so both
  ranges of the threshold test occur. `Oracle` (1,200,000) and `Nav` (150,000) put
  the products of the deviation tests on both sides of the largest amount.
* *Time*: three ledgers (0 to 2) for contracts that count ledgers, so that an
  allowance, a deadline or a lock-up has a ledger before, at and after its limit,
  and a checkpoint log has entries that are replaced, kept and searched past. The
  vault's clock jumps by 3 to the end of a lock-up, up to 7, where adding another
  would overflow (`MaxTime` there is `u64::MAX`). Four seconds for `Compliance`,
  `Nav` and `Reporter`; five in ticks of two for `Oracle`, the last tick incomplete.
* *`Oracle`*: three assets of which two may be listed (`MaxAssets`), so the limit
  bites; prices 100 and 111 with limits of 0, 10 and 200 percent: the step up is
  refused and the step down allowed at 10 percent, since the base differs.
  `MaxRecords` 2 of three ticks, so that `prices()` is cut off.
* *`Nav`*: NAV has one decimal, the adapter two and the other oracle none, so prices
  are scaled up and down; 85, 120 and 265 hundredths round away a digit, agree
  with, or diverge from the other's 1 and 2. Units 10,000 times 27 overflow.
* *`Registry`*: five contracts, counter up to 4 (`u32::MAX`), pages of 2: walks of
  none, exactly one, and two pages, with a full last page and a counter that is used
  up.
* *`Reporter`*: two transactions, the second built after any answer to the first;
  up to two polls; appraisals of two ticks, with a good and a bad signature, one at
  the price 5 that others report and one further from it than the limit of 2.
* *`MaxVersion` 3* (`u32::MAX`): construction and two metadata writes.
  *`MaxProposals` 2*: one proposal blocks another's content and shares the escrow
  with it. *`MaxBatchSize` 2* (50 in the code) with a batch of three.

Guards the code does not have: `MaxLedger`, `LastLedger`, `MaxProposals`,
`MaxBallots`, `Attempts`, `MaxPolls` and, except in the vault, `MaxTime`.

### Fairness

The contracts run only when somebody calls, and nothing obliges anyone to call: a
proposal that is never finalized or a handover never accepted is legal, so no
fairness is assumed of any entry point. What the code does promise is that such
a step is not *refused* (that an open deposit can be refunded, that shares can be
redeemed), and that is stated as safety: `EscrowCoversOpenDeposits`,
`RedeemableCanBePaid`.

Two loops off chain run by themselves:

* `WF_vars(NextPage)` in `Registry`: `listAllAssets` requests the next page as soon
  as it has one. That the directory may grow during the walk is what makes
  `WalkReturns` more than a loop over a constant; it is finite because the counter
  is.
* `WF_vars(Run)` in `NavReporter`: the program executes its next step, and its
  requests are answered or fail. Nothing is assumed of the network: no ledger has
  to close, no node has to catch up, and no request has to fail. That a run ends
  nevertheless rests on polling being bounded by the client's own time.

## 4. Where code and documentation differ

Checked by a violation run, with the quotation, in `PROJECT.json` under `findings`:

1. `set_kyc_batch` and `revoke_kyc_batch` do not check the pause, which the
   contract's README says blocks them.
2. `cancel_proposal` releases neither the content slot nor the deposit; only
   `finalize` does, and a cancelled proposal cannot be finalized.
3. `submitSignedAppraisal` (`tools/nav-reporter/src/reporter.ts:160`) ignores what
   `checkDeviation` answers, so a price beyond the limit is submitted, and a dry run
   of it succeeds, where its test says it "refuses deviation exceeding limit". The
   contract still refuses it.

Seen while modelling, and part of the models without a run of their own:

* `proposal_content_hash` (`contracts/governance/src/lib.rs:756`) separates title and
  description by nothing, so contents that differ only in where one ends block each
  other, against the comment at lines 201-203.
* Two tallies may each fit `i128` while their sum does not, and `finalize` then
  fails for good. Well below that, once the votes for alone come to `i128::MAX` /
  10,000, both products of the threshold test can saturate and be equal, so that a
  minority passes.
  The comment at `contracts/governance/src/lib.rs:382-385` calls the sum bounded and
  the product out of reach. The guard `TotalVotes(p) <= IMax` and `SaturatingMul`
  model this; `PassesOnSupport` promises the quorum always and the threshold where
  the products are representable.
* The default threshold of 5,001 basis points rejects a majority below
  50.01 percent, although `contracts/governance/src/lib.rs:88-91` keeps it as "more
  for than against".
* `set_governance` needs the admin alone and accepts the admin's own address,
  so the admin can raise the cap by itself, against the comment at
  `contracts/rwa-asset/src/lib.rs:1139`. `CapLoosensOnlyWithGovernance` therefore
  speaks of the configured governance address and not of a second party.
* `forced_transfer` of the underlying asset can take units from the vault, so
  `underlying_held() <= balance(vault)` (`docs/architecture/006-vault.md:68`) holds
  only until it does: `RedeemableCanBePaid` says `\/ seized`.
* `deposit` and `redeem` do not consult the vault's own compliance contract
  (`docs/guides/vault-operations.md:43`, `docs/architecture/006-vault.md:96` say
  holders are screened); they are screened only if the underlying token does it.
  `MovedSharesAreScreened` is about share transfers.
* `docs/guides/vault-operations.md:138` (the oracle's error 12) has a deviation limit
  above 10,000 basis points rejected; the contract rejects only 0.
* `docs/architecture/005-oracle-adapter.md:73` calls the resolution a rate limit: one
  report per tick can move the price by the limit. Reports may be about any past tick not yet
  passed (`contracts/oracle-adapter/src/lib.rs:515-545`), so a feed that fell behind
  can be walked through all missed ticks at once. `OnlyAdminMovesBeyondLimit`
  is about the single step.
* `sdk/src/errors.ts:6-8` has a plain `Error` of the write path mean that the outcome
  is known. A transport failure (`sdk/src/base.ts:184`, `:227`) arrives as one too,
  and the transaction may have been taken in. `AnswersAreTrue` promises nothing of
  it (`"transport"`).
* The reporter calls the SDK in ways its interface does not have
  (`authorizeEntries` on the client; the argument lists of `finalizeSponsoredTx` and
  `submitSponsoredTx`, `sdk/src/base.ts:319`, `:356`; an `OracleAdapterClient` without
  `contracts` in `cli.ts`). The model follows the order of steps as written.
* `contracts/compliance/src/lib.rs:10-14` imports `AdminTransferred`, `KycRevoked` and
  `KycSet` twice, which Rust rejects; the model reads the functions as written.

## 5. Proofs

All theorems hold for every value of the constants that satisfies the
`ASSUME`s of the modules: finitely many accounts, `None` not an account, inputs of
the types the code's interfaces give them. TLC evaluates each `ASSUME`. Every
property of a passing run is also a theorem, except the two of liveness.

### Recursive functions

The code searches, walks, folds and takes powers, and the models of that are
recursive functions on numbers (`f[n \in Nat] == ... f[n - 1] ...`). No induction
theorem that takes a predicate as its argument can be used here, so each proof of
one goes by *least counterexample* (`LeastNat`): the set of numbers for which the
claim fails is a set of naturals; if it is not empty it has a least element,
because `<` on the naturals is well founded; and the step from *n - 1* to *n*
contradicts it. That such a function exists at all is shown first, either by
naming one that solves its equation (the fold in `WriteAll`, `Search`) or by
extending the longest beginning of one (the walk of `PricesOf`, `Pow10`).

### Token, handover and compliance

**`TokenLedgerProofs`** begins with how totals and holders change when one or two
balances change, or one holder is added. A balance of *n* is *n* units, so a total
is a cardinality, and crediting *n* adds a disjoint set of *n* units, which avoids
induction. Then (`LedgerConserves`), with
`LedgerInv == LedgerTypeOK /\ Conservation` inductive, the supply is the sum of the
balances. Conservation is needed for the *types*: that a balance credited by a
transfer stays representable follows only from both balances being part of a
representable supply (`CreditFits`). This is why the contract's checked addition
in `transfer` never fails.

**`ComplianceProofs`**: of the handover, with `HandoverInv`, a pending proposal is
the present admin's (`ProposalsAreCurrent`), from which it follows that a change of
admin carries the consent of both sides (`HandoverNeedsBoth`); `ComplianceHandsOver`
carries that over to the contract. The other four contracts with this handover are
proved to implement `HandoverSpec` too, each in its own module
(`AssetImplementsHandover`, `GovernanceImplementsHandover`,
`RegistryImplementsHandover`, `OracleImplementsHandover`), so it holds of them alike. `ComplianceInv == TypeOK /\ HandoverInv` gives
that every answer comes down to a standing (`ComplianceIsAStanding`), that what was
written counts at once (`ComplianceWritesCount`), and that only calls the admin
signed make anyone compliant (`ComplianceByAdminOnly`). `ComplianceEventsTellAll`
says that the events account for every change of the records, for batches of any
length: the fold over a batch leaves each subject its last entry (`BatchLeavesLast`,
by the least length at which it would not), which is the last event about it
(`BatchTells`), and a revocation announces each record it finds once, at the first
position that names its subject (`RevokeTells`).

**`RwaAssetProofs`**:

* `AssetImplementsLedger`: every call creates, destroys or passes value as the
  abstract ledger allows or leaves the books alone; `AssetConserves` carries
  conservation over.
* `AssetCountsHolders`: `CountInv == LedgerInv /\ HolderCountExact`. The count alone
  is not inductive: a credit of a positive amount makes a holder only if the
  balance before was not negative.
* `AssetTypes`: `AssetInv == TypeOK /\ LedgerInv`; the ledger part bounds credits.
* `AssetImplementsHandover`, step by step.
* `AssetCapCoversSupply`: that the cap covers the supply **and** that a pending
  increase still loosens and still covers it. The second part is needed because
  `approve_cap_increase` writes the pending value long after it was validated.
* `AssetCapNeedsGovernance`: from the former: an approval of a pending value is the
  only step that loosens.
* `AssetMovesByConsent`, `AssetKeepsRestricted`, `AssetScreensMoved`,
  `AssetHolderLimitBinds`: what a call may never do to a balance, entry point by
  entry point, from `AssetInv`.

### Vault

**`VaultProofs`** has four parts with an invariant each. The second and the third
build on the first.

* *Books.* `VaultInv == CountsOK /\ Conservation /\ SharesAreBacked`. The books are
  typed (`CountsOK`) only because conservation bounds what is credited and backing
  bounds what is redeemed. From it follow `VaultSharesAreBacked` for every rate and
  cap, `VaultImplementsLedger`, and the action properties `VaultExchangesAtPar`
  (which also needs the units to be natural numbers), `VaultLockHolds` and
  `VaultScreensMovedShares`.
* *Checkpoints.* `LogsOK`: in every log the ledgers increase up to the present one
  and the last amount is what is owned now. That is what the binary search of
  `balance_at` needs to find the newest checkpoint not after the ledger asked for
  (`SearchFinds`). Then `VaultPastBalancesStay`: a write is dated now, so it changes no
  answer about an earlier ledger; and `VaultRecordsAddUp`: for every ledger that is
  over, the remembered balances add up to the remembered supply. The former carries
  this from step to step; for the ledger just closed it is conservation.
* *Solvency.* `UnitsHeld`: until something is seized the vault owns what it accounts
  for. With backing and rounding down, `VaultCanPay`: what `redeemable` promises all
  holders together can be paid.
* *NAV.* `QueryInv`: each feed is in order and has a newest entry, entries are not
  dated after their publication, and the configuration is one `set_oracles` let
  through. On it rest `VaultNavIsFresh`, `VaultNavClaimsNoMore` (through the
  change of decimals, in which `PowersMultiply` cancels the digits dropped or added,
  the lower of two prices, and both divisions) and `VaultSourcesHoldEachOther`.

### Governance

**`GovernanceProofs`**: `Typed` says in addition to `TypeOK` that there are finitely
many ballots, without which a sum over them means nothing. On it rest
`GovernanceKeepsSlots`, `GovernanceCoversDeposits` (the total over open proposals,
by `TotalExtend` when one is made), `GovernanceCountsBallots`,
`GovernanceClosesOnce`, `GovernancePassesOnSupport` and
`GovernanceImplementsHandover`. The lemmas about totals are those of
`TokenLedgerProofs`, instantiated as `Books`.

### Feed and registry

**`OracleAdapterProofs`**: `OracleInv` adds to the linked history the types and that
every record is a report, with a moment of publication, at a time already cut to a
tick (rounding down twice is rounding once, `RoundsOnce`). From it
`OracleHistoryIsLinked`, `OnlyAdminOverrides`, `OracleImplementsFeed` (a step publishes
one entry later than all others, or stutters) and `OracleListIsExact` (listed once,
within the limit, and whatever has a reporter or a price is listed).
`OraclePricesAreNewestFirst`: the walk of `prices()` along the links returns the
newest records, newest first, none left out and no more than asked for. If that
holds of *n* steps from every record, it holds of one more (`OneMoreRecord`), for
between a record and the one it links to there is none. `OracleLastPriceIsNewest`:
what `lastprice()` answers, a key of its own in storage, is the newest entry of the
series that `OracleImplementsFeed` puts in the place of `PriceFeed`'s. `LastPrice` in
`VaultNav` reads exactly that entry of a source's series, so the price and the date
the vault works with are those the adapter answers.

**`RegistryProofs`**: `RegistryIsABijection`; `RegistryWalkIsExact`, strengthened by
`StartIsPast` (a walk began when the directory was no longer than now), which the
last page needs. `RegistryWalkMovesOn` is the variant of the walk: `LeftToList`, a
natural number that is positive while it walks, falls with every page and stays
under every call to the contract. `WalkIsExact` is what makes it a natural number.

### Off-chain programs

**`NavReporterProofs`**: `SettlementInv` says why an answer can be relied on, in three
parts besides the types. `QueueInv`: what waits in the network was submitted and has
not landed, and a transaction under way is the one built last, still unanswered. `NodeInv`:
what the node has seen is true, and what landed without its seeing it did so in a
ledger later than the node's own and within the transaction's time. `AnswerInv`: why no
answer is belied later; what was refused is not in the network, and what has expired
is past its time *in the network*. The last is the point: the client looks at the
node's ledger only, which is older than the network's, and it is `NodeInv` that
excludes a transaction landed meanwhile. `ReporterIsToldTheTruth` follows.

`FeedInv` says that prices recorded stay, that a report applied successfully is in the
feed, and that the node has seen nothing that is not. `ReporterInv` joins these with
the steps of the program: `ReporterTypes`, and `ReporterSucceedsOnlyIfRecorded`,
through the read-back as well. `ReporterKeepsWhatHappened` adds that no answer, no
applied transaction and no price recorded is ever changed afterwards.

`ReporterRunsAreBounded` is the variant of a run: `StepsLeft`, at most 4 more than the
polls allowed, falls with each of its steps, answered or lost, and stays under every
step of the network. It needs `RunPhase` besides: a transaction is under way exactly
while the run waits for it.

### Model-checked only

* `WalkReturns` and `EveryRunEnds`: liveness under fairness, which rests on `ENABLED`,
  is out of TLAPS' reach. Their arguments are proved but for that: `RegistryWalkMovesOn`
  and `ReporterRunsAreBounded` show that a walk and a run can take finitely many steps
  only; that the next of them can be taken is what TLC checks.
* The three violations, which are counterexamples.

## 6. Not modelled

* *Sponsored transactions* (`sdk/src/sponsored.ts`): the comparison of a signed
  authorization tree with the one that was built is a pure function of one pair of
  entries; nonce and expiry are enforced by the network.
* *Storage lifetimes* (`contracts/common`, `extend_*`): an archived entry is restored
  before a transaction reads it, so no contract observes one. Allowances carry a
  limit of their own, which is modelled.
* *Clients of the SDK*: encoding and decoding, without state. The exception,
  `listAllAssets`, is in `Registry`. Of `base.ts` the checks of configuration before
  signing and the read-only path are left out.
* *Of the reporter*: the canonical encoding, the Ed25519 check (a flag of the
  appraisal), the parsing of prices, and the command line.
* Events; muxed ids; decimals and presentation; paging of `list_proposals`.
* Benchmark and scripts, which have no behaviour of the system.

## 7. Plan

What would come next, in order of what can go wrong:

1. `VaultSystem`: Vault, RwaAsset and Compliance as one state machine, instead of
   `units` and `standing`; it would show in one model that these abstractions are
   sound.
2. `OracleAdapter` and `VaultNav` in one proof: `OracleImplementsFeed` gives each adapter
   the promise of `PriceFeed` and `OracleLastPriceIsNewest` what is read of it; the NAV
   theorems could be stated over several adapters' own state, with a clock in common.
3. `SponsoredAuth`: which invocation trees a fee payer signs.
