# A verification project for the RWA token backend

The repository is the server of a platform for tokenised real-world assets: a
NestJS API (`src/src`), Postgres with row-level security (`src/migrations`), an
EVM chain with ERC-3643 tokens, a payment provider and a KYC provider.
Investors reserve and pay for tokens of an offering; the server mints them,
keeps an index of the chain, pays income out, and lets the issuer's admins
operate on the token under a maker-checker rule.

Paths are given from the directory that holds the repository as `src/`, so that
its own `src/` directory is `src/src`.

This directory holds TLA+ models of that code, the TLC runs that check them, and
TLAPS proofs of what matters most. The source is the only reference: each
definition that stands for code is listed in `PROJECT.json` under `map` with the
lines it was read from.

- [1 Inventory](#1-inventory)
- [2 How the models are built](#2-how-the-models-are-built)
- [3 The modules](#3-the-modules)
- [4 The runs](#4-the-runs)
- [5 Fairness](#5-fairness)
- [6 The proofs](#6-the-proofs)
- [7 What the models showed](#7-what-the-models-showed)
- [8 What is not modelled](#8-what-is-not-modelled)
- [9 The plan, and what a continuation could take](#9-the-plan-and-what-a-continuation-could-take)

## 1 Inventory

Paths are relative to `src/src/modules/` unless they begin with `shared/`
(`src/src/shared/`).

| Component | State | Operations | Talks to | Module |
| --- | --- | --- | --- | --- |
| Order reservation (`subscriptions/`) | `subscriptions` rows, the lock on the `offerings` row | `createOrder`, `createOrderAtomic` | indexer's `balances`, chain `balanceOf`, payment checkout | `OrderReservation` |
| Order settlement (`subscriptions/`) | `subscriptions.status`, `tx_hash`, `payment_ref` | `pay`, `payWithCrypto`, `afterPaid`, `settle`, `refundOrder`, `handlePaymentEvent` | provider, signer, chain, webhook | `OrderSettlement` |
| Raise close (`subscriptions/`) | `offerings.status` | `closeOffering`, `claimOfferingClosed`; `setStatus` writes the same column | settlement and refund of each order | `OrderSettlement` |
| Sweeper (`subscriptions/sweeper.service.ts`) | a `worker_lease` row | `expireStaleReservations`, `recoverStaleSettlements` | the chain (receipts), settlement | `OrderSettlement` |
| Payment webhook (`webhooks/`) | `webhook_events`, a ledger of event ids | claim of the id, dispatch | settlement, KYC | `OrderSettlement`, `Verification` |
| Approval queue (`operations/`) | `operation_requests`, `operation_approvals` | `submit`, `approve`, `reject`, `execute` | token operations | `Approvals` |
| Token operations (`tokens/`) | the chain | mint, burn, forced transfer, pause, freeze, `revokeKyc` | signer | `Approvals`, `Onboarding` |
| Indexer (`indexer/`) | `indexer_state`, `transfers`, `balances`, `indexer_block_hashes`, a lease | one tick: head, reset, reorg, chunks | chain; read by reservation and distributions | `Indexer` |
| Distributions (`distributions/`, `shared/money/`) | `distributions`, `distribution_claims` | declare (allocate by largest remainder), claim | balances | `Distributions`, `Payout` |
| Buy-back (`offerings/offering-features.*`) | `buyback_offers`, `buyback_sales` | open, close, sell back | chain (receipts) | `Buyback` |
| Governance (`offerings/offering-features.*`) | `manager_proposals`, `manager_votes`, the offering's manager | propose, vote, close, assign | chain (balances), managers | `Governance` |
| Offerings and deployment (`offerings/`, `issuers/`) | `offerings`, `tokens`, `issuers.kyb_status`, the factory's suites | create, status, remove, deploy (adopts a suite after a crash), KYB decision | chain | `Deployment` |
| KYC and acceptance (`kyc/`, `investors/`) | `accounts.kyc_status`, `kyc_version`, mirrors in `investors`, `issuer_investor_acceptance` | submit, review, decide, provider events, accept | webhook, account | `Verification` |
| Compliance (`compliance/`) | `aml_screenings`, the person's status, accreditations | screen, recompute, decide, revoke on the chain | portfolio, chain | `Screening`, `Onboarding` |
| Onboarding (`onboarding/`) | `investors.onchainid`, `verified`; factory, identities, registry | prepare, confirm, register | chain | `Onboarding` |
| Portfolio (`portfolio/`) | `wallets` | link a wallet; the rest reads | compliance | `Screening` |
| Account and wallet (`account/`, `wallet/`) | `accounts`, `account_otps`, `investor_nonces`, the owner of a row of `investors` | sign up, verify, reset, connect a wallet | mail | `Account` |
| Team, managers, SPV managers (`team/`, `managers/`, `spv-managers/`) | logins, profiles, who reports to whom | create, update, suspend, adopt, release | every write of a manager | `Staff` |
| Cases (`cases/`) | `legal_cases` | open, close, guided recovery of a wallet | onboarding, token operations, approvals | `Cases` |
| Documents (`documents/`, `shared/storage/`) | `kyc_documents`, files | upload, download, the script that moves old rows | audit | `Documents` |
| Signer (`shared/chain/`) | the cached nonce of every key | submit, wait, reset | chain | `Signer` |
| Tenancy, sessions, roles (`shared/auth/`, `shared/db/`) | connections bound to a tenant, leases | scoped transactions, principals | everything | where it decides |
| Audit (`shared/audit/`) | an append-only log | record | documents | `Documents` |
| Login (`auth/`), health, configuration, errors, OpenAPI, valuation, image uploads | throttle counters in memory | reads and single writes | - | not modelled |

### What is hard

- **Every handler is a chain of awaits.** Between two of them any other handler,
  the webhook and the sweeper run. Only single statements and a few
  transactions are atomic. A row that was read is stale when it is written, and
  many updates do not test it again.
- **Three parties decide about one order**: the investor's own call, the provider's
  webhook, and the sweeper; a fourth (the close) decides about all of them.
- **Money and tokens move outside the database.** A mint that was broadcast, a
  refund that was made, an identity or a token suite that was created cannot be
  rolled back; the answer may be lost, the process may die, and the record has to
  be reconciled afterwards.
- **Leases and timers** keep one sweeper and one indexer running. They run out by
  the clock and not when the work is over.
- **The chain is not final**: it reorganises, nodes lag behind each other and a
  development chain may be reset. The next nonce of a key is kept in memory, once
  per instance of the server.
- **Row policies change what a statement means**: the same `SELECT ... FOR UPDATE`
  locks a row on one connection and nothing on another.
- **One person, several rows.** A person has an account, a row per connected wallet
  and a row per linked wallet; a status is of the person, a screening, an identity
  and a vote's weight are of wallets, and the copies have to agree.

### What makes each component correct

- *Reservation*: what is reserved and issued never exceeds the supply, nor what a
  person holds and has reserved the person's cap.
- *Settlement*: an order is minted or refunded, never both or twice; a record says
  settled or refunded only if that happened; nobody's money stays without an
  outcome.
- *Close*: one verdict per raise, drawn from orders that were paid, and applied to
  all of them.
- *Approvals*: nothing is sent without enough approvals of others, and nothing
  twice.
- *Indexer*: balances are the sums of the transfers, the transfers those of the
  canonical chain, and the index catches up while somebody polls.
- *Distributions*: the parts add up to the whole, are pro rata, and are paid once.
- *Buy-back*: a sale rests on a transfer of its own, at the price that was asked
  for, within what was offered.
- *Governance*: a vote weighs what there is, the outcome is what the votes say, and
  it is applied once.
- *Deployment*: a listed token is the issuer's own and live, and a deployment that
  died is finished by the next.
- *KYC and acceptance*: an acceptance counts only for the version it was given
  for; a decision counts once, whoever tells it and how often.
- *Screening*: one bad wallet makes a person bad; a wallet that failed is not linked.
- *Onboarding*: one identity per person; the registry, the factory and the rows
  agree; a rejected accreditation leaves no claim live that was attached when
  it was recorded.
- *Account*: a code or a signature works once, for what it was issued for, and a
  wallet stays with its account.
- *Staff*: the issuer keeps an admin; a suspended manager is out.
- *Cases*: what a recovery submits is still there when it is approved.
- *Documents*: no step of the move leaves a row without its bytes, and no reader is
  without an audit row.
- *Signer*: a send that fails does not leave a gap that blocks the others.

`PROJECT.json` lists under `hazards` the lines where these can go wrong, and the
properties that would show it.

## 2 How the models are built

- A process `p \in Procs` is one HTTP call, webhook delivery or timer tick.
  `pc[p]` names the call it makes next. Every `await` on the database, the
  provider or the chain ends a step, so any interleaving the event loop and
  several instances of the server can produce is a behaviour.
- A row is a function of the order (request, transaction); an update is one step,
  with the `WHERE` clause as its guard. An update without a condition on the
  status has none in the model.
- Failures are named in the constant `Faults`, and the calls before which a
  process may die in `CrashPoints`. A run lists the ones it admits. A fault is
  a disjunct of the step that makes the call; a crash drops the locals of the
  process and leaves everything outside.
- Messages, names and payloads are model values. Amounts are small numbers, and a
  hash of a block is the chain up to it, so that hashes are equal exactly when
  the histories are.
- Bounds are constants named `Max...`; they limit claims, writes, blocks, reorgs
  and failures.
- Variables marked *history* stand for nothing in the code. They record what
  happened (`redeemed`, `proven`, `crossed`, `late`, `missed`) so that a property can speak
  of it; no guard reads them, the bounds excepted.
- Operators that end in the name of a bug (`TakeUnguarded`, `WaitAnyReceipt`) are
  marked *Mutant* and are not part of the model. Put in the place of the
  definition they follow, they break one property of a run: that is how each
  property is shown to be able to fail.

## 3 The modules

### `OrderSettlement` (with `MCOrderSettlement`)

The life of an order from the reservation on. Per order: `status`, `txHash`,
`payRef`, and on the chain `mint[o][n]`, the mint sent under the n-th claim (in the
mempool, mined, reverted, dropped). A claim is a successful
`claimForSettlement` or `claimForRefund`; giving it a number is what lets the
properties speak of *which* attempt bought what. The provider keeps `captured`,
`refunds` (the claims under which it gave money back) and `events`, and
`ledger` is the webhook's table of event ids.

| Code | Actions |
| --- | --- |
| `pay` | `PayStart`, `Capture`, `WritePaid` or `WriteDeclined`, `AfterPaid` |
| `payWithCrypto` | `CryptoStart`, `CryptoDup`, `WriteCrypto`, `AfterPaid` |
| webhook, `handlePaymentEvent` | `ProviderEvent`, `HookClaim`, `HookRead`, `WritePaid`, `WriteDeclined` or `WriteHookRefunded` |
| `settle` | `ClaimSettle`, `Mint`, `Persist` (the `onSent` hook), `Wait`, `WriteSettled`, `WriteUnsettled` (its catch block) |
| `refundOrder` | `ClaimRefund`, `Refund`, `WriteRefunded`, `WriteUnrefunded` |
| `closeOffering` | `CloseStart`, `CloseScan`, `CloseClaim`, `CloseNext` and the two above |
| sweeper | `SweepStart`, `Expire`, `RecoverScan`, `RecoverNext`, `RecoverReceipt`, `RecoverMempool`, `RecoverSettled`, `RecoverRequeue` |
| `setStatus` | `SetStatus` |
| chain, death | `Include`, `Crash` |

An order is stale for the sweeper when its handler is dead or waits for a
transaction that was dropped; that the ten minutes of the scan are longer than a
live handler takes is an assumption the fault `slow` removes. The lease of the
sweeper excludes a second tick; the fault `leaseLapse` removes that.

### `OrderReservation` (with `MCOrderReservation`, `MCOffering`)

`createOrder` and what afterwards frees or keeps a reservation. One order is one
call: `Start`, `ReadHeld` (a `balanceOf` per wallet of the person), then the
transaction of `createOrderAtomic` statement by statement, `TakeLock`,
`ReadReserved`, `ReadIssued`, `ReadPerson`, `Decide` (or `Rollback`), and
`Checkout` after the commit. `READ COMMITTED` gives each statement what was
committed when it starts. `Role` says whether the connection is bound by the row
policies: `owner` is not, `app_tenant`, which `.env.example` prescribes, is. A
policy for updates of `offerings` that admits no investor makes
`SELECT ... FOR UPDATE` return nothing, and other investors' rows are not summed
(`Visible`). The life of the order afterwards is `OrderSettlement` cut down to
what holds supply: paying, expiring, settling, refunding, and the indexer that
learns of a mint later.

### `Approvals` (with `MCBackOffice`)

The maker-checker queue. `Submit` makes a row, or executes at once at threshold 0;
`Approve` is the guard of the call, then `AddApproval`, `Count` and `Claim`
(`claimForExecution`), each a statement of its own, so that two approvals may
both find the threshold reached. `Send`, `Wait`, `WriteExecuted` and `WriteFailed`
are the execution and its catch block; `Reject` tests and `WriteRejected` writes
in a later step, whatever the status is by then.

### `Indexer` (with `MCIndexer`)

`chain` is a sequence of sets of transactions and may lose any suffix no deeper
than `ReorgDepth` below its highest block. A sync is `ReadHead`; `Ensure`, `Mark`,
`Clear`, `ResetIndex`, `Seed` (`ensureState`); `ReorgRead`, `Check`, `ReadHashes`,
`Walk`, `Rewind`, `Prune` (`handleReorg`); then per chunk `Query`, `Apply`,
`EndBlock`, `Advance`, `Record`. `Start` (the lease), `List` (the tokens), `Tick` and
`Lapse` are `onModuleInit`, `start`, the timer and the lease; `Deploy` is the first
row of `tokens`. A process that starts while the lease is another's, be it that of a
process that died, is on `standby` for good; one that starts with no token in the
table holds the lease, sets no timer and is `asleep` for good, and its lease runs
out. `Ripen` is the time a shorter head is tolerated. Blocks are numbered from 1.
`rewindToBlock`, `applyTransfers` and `resetTokenData` are one transaction each and
one step each.

The invariant about the chain needs an assumption the code does not enforce: a
reorg spares what an unfinished sync has read (`Sealed`). The fault `unsealed`
removes it.

### `Payout` and `Distributions` (with `MCOffering`)

`Payout` is the abstract specification: a pot is declared together with every
share, the shares never change, each is handed out whole and at most once.
`Distributions` is the code, and `KeepsPromise` says that it implements `Payout`
(`declared <- Declared`, `owed <- share`, `paid` what claims were answered).

| Code | Actions |
| --- | --- |
| `declare` | `Declare`, `ReadHolders` (the cap table at one instant), `WriteDeclare` (one transaction; the holders may have traded since) |
| `allocatePayout` | `Floor`, `Remainder`, `Leftover`, `Lucky`, `Allocate`: largest remainder; a tie may go either way because the query does not order the holders |
| `claim` | `Claim` (the person's wallets), `ClaimAll` (one `UPDATE ... WHERE status = 'claimable' RETURNING`) |
| elsewhere | `Trade`, `LinkWallet` |

`Roles` says under which roles a claim may be made: each may be made by the owner of
the table or by `app_tenant`, whose row policy admits the session's wallet only
(`Visible`). The properties hold for any mixture.

### `Buyback` (with `MCOffering`)

An issuer's standing bid, and holders who transfer tokens first and tell the
server afterwards. `OpenBuyback` replaces the terms and keeps the count;
`CloseBuyback`. `SellBack` reads the open bid, `VerifyTransfer` reads the receipt
and compares it with the claim, `RecordSale` locks the bid, asks again whether the
transfer was booked and whether the limit leaves room, and writes count and sale at
the price that was read first. `Include` is the chain.

### `Governance` (with `MCOffering`)

| Code | Actions |
| --- | --- |
| `proposeManager` | `ProposeManager` |
| `vote` | `Vote`, `Weigh` (one `balanceOf` per wallet), `WriteVote` (the upsert by proposal and person) |
| `closeProposal` | `CloseProposal`, `Tally`, `WriteClose` (the conditional update), `Install` |
| `assignManager` | `AssignManager` |
| time, chain, death | `VoteEnds`, `Trade`, `Crash` |

### `Account` (with `MCPeople`)

Codes and signatures are kept by people and may be sent at any time, any number of
times. `Signup`/`Create`, `ResendVerification`, `ForgotPassword`, `UpsertOtp`,
`Mail` and `Expire` issue codes; `VerifyEmail`, `ResetPassword`, `ConsumeOtp`
(`DELETE ... RETURNING`), `SetPassword` and `MarkEmailVerified` redeem them.
`RequestNonce`, `ExpireNonce`, `ConnectWallet`, `ConsumeAndRecover`,
`CheckApproved`, `SelectRow` and `InsertRow` or `UpdateRow` connect a wallet.
`Legacy` are wallets whose row was made before there were accounts.

### `Verification` (with `MCPeople`)

`Submit`/`WriteSubmission`, `StartVerifying`, `Decide`/`WriteDecision` are the
person and the reviewer; `Receive`, `ClaimEvent`, `ApplyProviderDecision` the
provider's webhook, delivered any number of times; `ConnectWallet`,
`ReadAccount`, `InsertWallet` the wallet's row with its copy of the status;
`DecideAcceptance`, `ReadVersion`, `UpsertAcceptance` an issuer that relies on a
version. A request keeps what it read in `seen`, and no statement looks again.

### `Screening` (with `MCPeople`)

`Rescreen`, `ScreenOne`, `Recompute`, `ReadLatest`, `SetAmlStatus` screen every
wallet of a person and write the worst. `LinkWallet`, `ScreenForLink`, `CheckLink`,
`CheckInvestor`, `InsertLink` are the link of another wallet; `Connect` a wallet
that gets a row of its own. Any number of requests for one person overlap. Of the
history variables, `fresh` are the rows that were screened or made behind a running
aggregate, and `missed` those that the person's written status does not rest on.

### `Onboarding` (with `MCPeople`)

| Code | Actions |
| --- | --- |
| `prepare`, `ensureIdentity` | `Prepare`, `CheckAccredited`, `ReadStored`, `GetIdentity`, `CreateIdentity`, `SetOnchainId`, `SignClaim` |
| the investor's wallet | `AddClaim`, of any payload that was ever signed, at any time |
| `confirm` | `Confirm`, `CheckClaim`, `Contains`, `RegisterIdentity`, `Check`, `EnsureTrusted`, `CheckAgain`, `SetVerified` |
| `AccreditationService.decide`, `revokeOnChain` | `Grant`, `Reject`, `FindSignature`, `Revoke`, `RevokeFails`, `Revoked` |
| `revokeKyc` | `RevokeKyc`, `SubmitRevokeKyc` |
| death | `Crash`, after the identity was created |

A row may be older than the chain: `Gone` is a recorded identity that has no code, for
which `ReadStored` goes on to the factory. `EnsureTrusted` may end the request with
`CLAIM_ISSUER_NOT_TRUSTED`. `Reject` asks for nothing and may be repeated; `late` are
the claims that were attached since the last rejection was recorded.

### `Staff` (with `MCBackOffice`)

Each request reads, then writes without looking again. Team: `TeamUpdate`,
`CountOtherActiveIssuerAdmins`, `WriteChange`, `TeamCreate`, `InsertMember`.
Managers: `CreateManager`, `CreateLogin`, `CreateProfile`, `AdoptCreated`,
`ManagerUpdate`, `UpdateProfile`, `SetLoginDisabled`. SPV managers: `SpvUpdate`,
`Adopt`, `Release`, `Attach`. What a manager may still do: `Post`, `ReadOffering`,
`AssertOperates`, `WritePost`. `Installed` is the vote of `Governance`.

### `Deployment` (with `MCBackOffice`)

| Code | Actions |
| --- | --- |
| `create`, `createAsset` | `Create`, `CheckExists`, `InsertOffering` |
| `setStatus`, `remove` | `SetStatus`, `WriteStatus`, `Remove`, `DeleteOffering` |
| `deployToken` | `DeployToken`, `TokenSymbolInUse`, `CheckKyb`, then `deploySuite`: `GetToken`, `Adopt`, `DeploySuite`, `UnpauseIfNeeded`, then `RecordToken`, `SetTokenSymbol`, `OpenPlanned` |
| `decideKyb` | `DecideKyb` |

A request keeps what the plan and the status said when it read the offering
(`opens`), and goes by that at its end. The factory keeps one suite per symbol and
hands it out paused. A deployment may
die after the suite, after the unpause and after the row of `tokens`.

### `Cases` (with `MCBackOffice`)

`OpenCase`, `CloseCase`, and the guided recovery, which anybody may run again:
`Recover`, `Find`, `AdminLinkWallet`, `Register`, `Freeze`, `ReadBalance`,
`SubmitTransfer`. `Execute` is the approved transfer, any time later; `Unfreeze`,
`Mint` and `Transfer` are what moves on the chain meanwhile.

### `Documents` (with `MCPeople`)

`Upload`, `Put`, `Insert`; the script: `Migrate` (one `SELECT`), `MoveNext`,
`ReadBack`, `Move`; the reviewer: `Download`, `Get`, `Audit`, `Reply`. A write may
leave wrong bytes, an insert may fail, an audit row may not be written, any process
may die. `SetKey` and `Boot` introduce an encryption key, which the script sees
before the API does.

### `Signer` (with `MCBackOffice`)

Every instance keeps a `NonceManager` per key: `Submit` takes a number before the
first await, `Answer` is the chain's count, `Populate` the estimate, `Broadcast` the
node, `Caught` the catch block with `resetNonces`, `Wait` the receipt, `Mine` a
block, `Restart` an instance that starts anew.

### How they compose

The modules share interfaces and are checked against both sides of each.

- What `OrderReservation` assumes of a settled order (its tokens are minted, once,
  and its row leaves `settling` afterwards) is what `SettledIsMinted` and
  `OneOutcomePerGrant` state of `OrderSettlement`.
- What it assumes of the indexer (a mined mint is in `balances` eventually, as long
  as somebody polls, never before, and once) is what `CatchesUp`, `IndexIsStamped` and `BalancesAdd` state of
  `Indexer`. `Distributions` reads the same table at one instant.
- `Cases` submits to `Approvals`, registers through `Onboarding` and links as
  `Screening` does; `Governance` installs a manager of `Staff`; `Account` asks
  `Verification` whether the person is approved; every send of every module goes
  through `Signer`.

Composing them in one state space would multiply spaces that meet in one number or
one Boolean. `Offering`, `People` and `BackOffice` each put four or five of them side
by side instead: `Offering` extends `Distributions`, `People` extends `Account`,
`BackOffice` extends `Approvals`, and each instantiates the others with variables of
their own, collects the assumptions on constants, and names the properties of its
parts. The proofs are about these modules. `MCOffering`, `MCPeople` and `MCBackOffice`
extend them for TLC: the initial state picks the `part` that moves, so that the state
space is the sum and each part is checked as if alone.

## 4 The runs

`tlc -workers 2 -config <run>.cfg <module>` in this directory. A run that ends in a
violation is a disagreement between the code and a line of the repository
(`findings` in `PROJECT.json` quotes both).

| Run | Instance | Checks | Result |
| --- | --- | --- | --- |
| `settle_faults` | one order without escrow, one crypto transfer, two processes, two claims; all faults of settlement, crashes at seven calls | `TypeOK`, `SettledIsMinted`, `MintedIsPaidFor` | holds |
| `escrow_faults` | one escrowed order, two processes, two claims; closes, chargebacks, refused refunds, lost answers, an issuer who reopens the raise | `OneOutcomePerGrant`, `RefundedIsReturned` | holds |
| `raise_closed_once` | two escrowed orders that must both be paid, two processes, two claims; the failures the code recovers from | `OneOutcome`, `EscrowHeld`, `OneVerdict`, `FundedIsMet` | holds |
| `order_progress` | one order, investor's call and webhook, sweeper, three claims; crashes at four calls of `settle` | `SettlingResolves`, `PaidResolves` | holds |
| `index_sync` | one process, a mint and a transfer, three blocks, chunks of two, two sealed reorgs, two failures, crashes; starts before the first deployment and within a dead lease | `TypeOK`, `BalancesAdd`, `IndexIsStamped`, `CatchesUp` | holds |
| `offering_features` | payouts, bid, vote and orders of one offering: three wallets of two persons; claims under either role | `AllTyped`, `PotIsPaidOut`, `ProRata`, `KeepsPromise`, `SalesAreSound`, `VoteCounts`, `PassedIsApplied`, `ReservationsFit` | holds |
| `people` | account, onboarding, screening, verification, documents: two requests at a time | `AllTyped`, `CodesCountOnce`, `WalletsStay`, `IdentitiesAgree`, `RevocationReaches`, `ScreeningCounts`, `FreshWasRead`, `DecisionsCount`, `DocumentsAreKept` | holds |
| `back_office` | approvals, staff, deployment, recovery, signer: two or three requests at a time | `AllTyped`, `ExecutionIsSound`, `ThresholdActs`, `StaffIsKept`, `ListingsAgree`, `RecoveryHolds`, `NeverWedged` | holds |
| `dbl_mint_pay_webhook` | one order, investor's call and webhook, no failure | `NoDoubleMint` | violated |
| `reserve_tenant` | two investors on a connection bound by the row policies, no failure | `NeverOversold` | violated |
| `revoke_misses_identity` | an identity made for a linked wallet, no failure | `RevokesEveryWallet` | violated |
| `deploy_retry_refused` | one crash between two statements of `deployToken` | `RetryIsAccepted` | violated |

Some properties are conjunctions, one hazard to a part, defined in the module they
belong to:

| Property | Parts |
| --- | --- |
| `OneOutcome` | per order at most one mint that landed or may land, or one refund |
| `PotIsPaidOut` | `WholePot`, `PaidOnce` |
| `SalesAreSound` | `BoughtIsSold`, `SaleIsBacked`, `PaidAsPublished`, `WithinLimit` |
| `VoteCounts` | `AppliedOnce`, `OutcomeIsTally`, `WeightExists` |
| `ReservationsFit` | `ReservedFits`, `PersonReservedFits` |
| `CodesCountOnce` | `AccountOnce`, `CodeOnce`, `PasswordByReset`, `ReplacedIsDead` |
| `WalletsStay` | `SignatureOnce`, `SessionIsOwners`, `LatestNonce`, `OwnerStays` |
| `IdentitiesAgree` | `OneIdentity`, `RegisteredIsRecorded`, `VerifiedWasProven` |
| `ScreeningCounts` | `WorstDecides`, `LinkedHasPassed`, `LinkStays` |
| `DecisionsCount` | `OneVersionEach`, `MirrorAgrees`, `AppliedOnce`, `LinkedWasVerified` |
| `DocumentsAreKept` | `BytesAreKept`, `ReadIsAudited` |
| `ExecutionIsSound` | `ExecutedOnce`, `FourEyes`, `ExecutedIsMined` |
| `StaffIsKept` | `SomeAdmin`, `EmailOnce`, `LoginFollowsProfile`, `SuspendedIsOut`, `ReleaseFirst` |
| `ListingsAgree` | `TokenIsOwn`, `ListedIsLive`, `OpenHasToken`, `OneListing`, `ListedWasApproved`, `KeepsToken` |
| `RecoveryHolds` | `SubmittedStays`, `SamePerson`, `RunsAgain` |

`AllTyped` is the type invariant of all parts of an instance.

Why the bounds are enough:

- *Processes.* The conflicts are between two parties over one row; with two
  processes either may be at any call while the other runs from start to end,
  several times over (a process that has finished starts again). Reservation has
  three calls, because the supply is overdrawn by a third order that two others
  left no room for; approvals three, so that two race to the threshold while the
  third rejects; the signer three on two instances, so that two share a manager
  and one does not.
- *Claims.* Two claims are the first attempt and its retry, which every property
  about a repeated or mixed outcome needs; the liveness run has three, so that a
  retry may die too. `MaxClaims` cuts behaviours off only after that, and
  `PaidResolves` names that case.
- *Orders.* A raise needs two orders to have a minimum that one payment misses. The
  remaining properties of an order speak of one order; orders of one offering
  meet only in the close and in the reservation (three orders, a supply of four,
  a cap of three for one person with two wallets).
- *The chain.* Two transactions are the fewest whose order matters (the second
  spends what the first mints). Three blocks with chunks of two give a full and a
  partial chunk, a cursor in the middle and one at the end; two reorgs a fork of a
  fork; `ReorgDepth` and `Retention` below the height, so that a rewind finds a
  retained hash or falls back to the fixed depth.
- *An offering.* Five paise over balances that do not divide them leave a
  remainder; one person has two wallets, one has one. The bid has three sets of
  terms (price, wallet and limit change apart), two of which may follow each other
  (`MaxTerms`); two transfers of unequal size fit the limit one at a time only. One
  trade between two votes is enough to count a token twice.
- *A person.* Two wallets of one primary wallet, two or three requests, two
  signatures, one grant and any number of rejections: a claim and its replacement, a
  rejection and its repetition. The recorded identity is `Gone`, and the row verified,
  exactly where the token does not trust the claim issuer yet, so that both branches
  are taken and the spaces add up. Two screenings by two requests that
  overlap. Two codes and two nonces: one that replaces another. Two emails and one wallet: two accounts that want it. Two
  events of the provider with different verdicts. Of three documents two are old
  and one of these has no account; two files, so that a second run of the script
  meets the first.
- *The back office.* Two admins are the fewest that can take each other's role; a
  spare email is taken by two; two SPV managers want one manager. Two issuers and
  one symbol, and two offerings of one of them, with six calls between them, give
  an adoption, a refusal and a removal under a deployment. Two recoveries of one
  case over three wallets: a repetition, and two that name one new wallet. Three
  sends leave one behind a gap.
- *Symmetry* is used where only safety is checked, over orders of equal amount,
  processes and crypto transfers.

Deadlock is not checked where the system may come to rest: when every order,
operation or call of a bounded instance has had its outcome, or when every indexer
stands by or sleeps and the chain has reached its bound.

Every property of a run that holds has mutants: definitions of the model replaced
by a plausible mistake, each of which TLC reports as a violation of that property.
A conjunction has several, each about another of its parts.

## 5 Fairness

`LiveSpec` of a module (`MCSpec` of an instance) adds what keeps the code going and
nothing else.

- `OrderSettlement`: weak fairness of `Advance(p)` (a call to the database, the
  provider or the chain is answered or fails), of `SweepStart` (the interval timer
  fires), and of `Include` (a transaction in the mempool is mined or dropped).
  Nobody is obliged to call the API, and no crash is obliged to happen or to stop.
  `tx.wait()` has no timeout, so with `drop` the step `Wait` has no fair outcome:
  `order_progress` runs without that fault.
- `Approvals`: the same for `Advance` and `Include`. No admin has to approve.
- `Governance`: weak fairness of `Advance(p)`. Nobody has to close a vote.
- `Indexer`: weak fairness of `Tick` or the next step of a sync, for each process (the
  interval timer fires, and calls are answered or fail), and of `Ripen` (time passes).
  Nothing is assumed of who starts, restarts or deploys when. `CatchesUp` therefore
  is conditional: if from some time on a token is recorded and there is always a
  process that polls, the index becomes and stays the chain up to the safe head.
  That somebody polls is not what the code guarantees (section 7).

In `order_progress` a process may die between the claim and the recorded outcome
any number of times; it does not die between reading an event id and writing the
payment, where the event is lost (section 7).

The fairness of `Approvals` and `Governance` is stated per action of the part; in
an instance whose `part` is another, no call of theirs is ever begun, so that
nothing is asked of them.

## 6 The proofs

`tlapm <module>.tla` proves the following for every value of the constants, under
the assumptions on constants that the models name (amounts and bounds are natural
numbers, the value for "none" is none of the things it stands beside, sets that are
counted are finite). `OfferingAssumption`, `PeopleAssumption` and
`BackOfficeAssumption` collect them, and TLC evaluates them in the runs
`offering_features`, `people` and `back_office`. Every invariant the runs check is
proved, under the hypothesis in the last column where there is one.

| Theorem | States | Provided |
| --- | --- | --- |
| `OrderSettlementProofs!TypeCorrect` | `[]TypeOK` | |
| `!ClaimsBuyOnce` | `[]OneOutcomePerGrant` | |
| `!SettledMinted`, `RefundedReturned`, `MintedPaidFor` | `[]SettledIsMinted`, `[]RefundedIsReturned`, `[]MintedIsPaidFor` | |
| `RaiseProofs!MintsWaitForFunding`, `ClosesAgree` | `[]EscrowHeld`, `[]OneVerdict` | no `setStatus` |
| `!FundedOnlyWhenMet` | `FundedIsMet` | `NothingReturned` |
| `!OrderHasOneOutcome` | `[]OneOutcome` | `Undisturbed` |
| `IndexerProofs!BalancesOfTransfers` | `[]BalancesAdd` | |
| `!IndexStamped`, `TypeCorrect` | `[]IndexIsStamped`, `[]TypeOK` | `Sealing` |
| `OfferingProofs!TypeCorrect`, `OfferingTyped` | `[]TypeOK`, `[]AllTyped` | |
| `!PotPaidOut`, `SharesAreFair` | `[]PotIsPaidOut`, `[]ProRata` | |
| `!PromiseKept` | `KeepsPromise`: `Distributions` implements `Payout` | |
| `!SalesAlwaysSound` | `[]SalesAreSound` | |
| `!VotesAlwaysCount` | `[]VoteCounts` | `VotesInTime` |
| `!OutcomesApplyOnce` | `[]AppliedOnce`, a part of `VoteCounts` | |
| `!OrdersFit` | `[]ReservationsFit` | `OrdersInTime` |
| `PeopleProofs!CodesHold` | `CodesCountOnce` | |
| `!WalletsHold` | `WalletsStay` | no row older than the accounts |
| `!IdentitiesAlwaysAgree` | `[]IdentitiesAgree` | |
| `!RejectionsReach` | `[]RevocationReaches` | |
| `!ScreeningAlwaysCounts` | `ScreeningCounts` | |
| `!AcceptancesAreRead`, `DecisionsCountOnce` | `[]FreshWasRead`, `[]DecisionsCount` | |
| `!PapersAreKept` | `[]DocumentsAreKept` | |
| `!PeopleTyped` | `[]AllTyped` | |
| `BackOfficeProofs!ExecutionSound` | `[]ExecutionIsSound` | |
| `!StaffStays` | `StaffIsKept` | |
| `!ListingsAlwaysAgree` | `ListingsAgree` | |
| `!RecoveriesHold`, `SendsNeverWedge` | `[]RecoveryHolds`, `[]NeverWedged` | |
| `!BackOfficeTyped` | `[]AllTyped` | |
| `DeploymentProofs!ListingsHold`, `DeploymentTyped` | `ListingsAgree`, `[]TypeOK` of `Deployment` | |
| `DocumentsProofs!BytesKept`, `DocumentsHold`, `DocumentsTyped` | `[]BytesAreKept`, `[]DocumentsAreKept`, `[]TypeOK` of `Documents` | |

Each is an implication from the specification of its component: `Spec` of the module
that the component's module extends, or `Bid!Spec`, `Onboard!Spec`, `Team!Spec` and
so on for the parts that are instances. Nothing is assumed about a part by a theorem
about another. A conjunction is proved from a theorem for each of its parts.

**What the hypotheses leave out.** Each excludes faults or requests that make the
property false; what happens then is in section 7.

- *No `setStatus`*: an issuer who sets a raise back to open gets a second verdict.
- `NothingReturned`: no `setStatus`, and the provider neither declines nor charges
  back: a payment that is taken back between the verdict and its record takes the
  minimum with it.
- `Undisturbed`: payments come by the webhook (`pay` writes `paid` over what the
  webhook has done, and a crypto transfer may be named twice); no `decline` or
  `chargeback`, no failed update (`db`), no lost answer (`lostReply`, `wait`,
  `rpcTx`), no live handler or lease that is taken for lapsed (`slow`, `leaseLapse`),
  no death between broadcast and persisted hash. Deaths at every other call remain, and so do reverted and dropped
  mints, refused refunds, closes and sweeps.
- `Sealing`: a reorg spares what an unfinished sync has read, and no chain returns to
  a fork whose hashes are still in the ledger.
- `OrdersInTime`: the lock locks (`Role` is the owner of the table), no order is paid
  before its checkout was sent (`earlyPay`), and no capture or checkout outlives what
  waits for it (`slowCapture`, `slowCreate`).
- `VotesInTime`: a vote that began in time is written before the tally (`slowVote`),
  and no token moves while its voter is weighed (`midTrade`).

**An order's claims.** `OneOutcomePerGrant` is not inductive: a handler that holds
a claim is about to mint or refund under it, and nothing in the property says that
another does not hold the same claim. `TInv` adds to the types that a process at a
call about an order has one in hand and under a claim has a number
(`OrderAtHand`). `ClaimInv` adds that claims never outnumber the writes that made
the order claimable, one of which is unspent while it *is* claimable (`Counted`);
that a holder's claim was handed out (`Held`), and to nobody else (`Exclusive`);
that what was bought was bought under a claim handed out, of one kind only (`Spent`,
`OfOneKind`). Most steps neither hand out nor spend a claim; `QuietStep` proves
those together, and only `Take`, `Mint` and `Refund` are proved on their own. The
theorem says what the conditional updates achieve, and no more: an order that
is made claimable twice can be bought twice.

**An order's record.** What a row says of money and chain rests on what a handler
knew when it wrote the row, several calls earlier. `OutcomeInv` states that
knowledge for the call each handler makes next (`Grounded`): the order in hand is
paid for, the claim is unused before its mint, the transaction is in a block
before `settled` is written, the refund was taken or reported before `refunded` is.
It stays true because money taken, events, refunds and mined transactions only
grow (`Grows`), and because an unused claim is used by its holder only, which is
`Exclusive` of `ClaimInv` (`Unused`). One lemma per group of steps, and one
(`Calm`) for steps that touch neither money nor chain.

**The raise.** `EscrowHeld` and `OneVerdict` have one invariant (`VerdictInv`): a
process that works through the paid orders does so under the status of the offering,
which says which verdict it is, and an order of a raise is settled by such a process
only. Since only the conditional update of a close leaves `open`, two closes go on
with one status. `FundedIsMet` compares the verdict, drawn from the orders
`CloseScan` has read, with those that are paid when `CloseClaim` writes it. Between
the two, orders may be paid and none may stop being paid: until the verdict is written
nobody settles or refunds an order of the raise (`Waiting`, `UntilVerdict`), so what
the close has read is a subset of what there is (`RaiseInv`), and the amounts of a
subset add up to no more.

**One outcome.** That an order is never both minted and refunded, nor minted twice,
over any number of claims, is the one property here about the whole of an order's
life. The invariant (`HoldInv`) says that an order has one holder (`OneHolder`):
at most one process is between the write that took the order and the write that lets
go of it, be it a webhook about to write `paid`, a settlement or a refund. `Told`
says what the row tells of the mints and refunds of the order: an order one may claim
has no live mint and no refund, a `settling` one without a handler has at most one
live mint, which is the one whose hash it bears, and so on. `Sound` is what a process
knows of the order it holds: before `Mint` there is no live mint, after it there is
one and it is its own. The sweeper takes an order over only when it is abandoned, and
there is one sweeper (`OneSweep`). A second handler with the same order in hand finds
the conditional update refused, because the row tells it so.

**The indexer.** `BalancesAdd` with "balances are integers" is inductive. Only three
transactions move the two tables. `Net` is additive over disjoint sets of
transfers (`NetAdd`, from the cardinality of a union), the new transfers of a
range are disjoint from the stored ones because of the `ON CONFLICT` guard, and those
a rewind takes back are stored ones.

`IndexIsStamped` is far from inductive. `StampInv` says what the index is at every
call of a sync: one process syncs, and it holds the lease (`OneSyncs`); an index
without stamp is the chain up to its cursor, one with a stamp is the stamped chain,
which a reorg cannot change `ReorgDepth` below the cursor (`Stamped`); transfers
above the cursor, left by a call that failed, are of the chain (`AboveIsChain`); a
hash of the ledger that is on the chain says that the index agrees with the chain up
to there (`RetainedMatches`). `Knows` is what the sync has found so far: after the
walk the index and the chain agree up to the ancestor, by a hash or by depth, and
after `applyTransfers` they agree up to the end of the range. The theorem holds for
any number of processes, ranges, depths and failures.

**Distributions.** Sums are cardinalities of sets of units, told apart (`Units`,
`Amount`), so that no induction over holders is needed. The remainders add up to a
multiple of the supply, hence the leftover paise are at most as many as there are
holders with a remainder, and handing one to each of the lucky makes the total exact
(`PotIsWhole`). The same count shows that nobody without a remainder is lucky, so a
share is its proportion or one paisa more, and of two holders the larger remainder
is served first (`ProRata`). For the refinement, each step is either `DeclarePot`,
`HandOut` of the rows one `UPDATE` returned, or a stutter.

**Reservation.** `TakenFits` strengthens the property: what is reserved *and* what is
being refunded, whose refusal writes `paid` back, fits the offering and the caps.
Who is between `TakeLock` and the insert holds the lock (`LockIsHeld`), so nobody
else adds an order meanwhile, while others may be settled, expire or be given back;
and refunds begin when nobody decides any more (`RowsFollowCalls`). Hence what a call
has read of the reservations under the lock is no less than what there is when it
inserts (`ReadsHold`). What remains is arithmetic over `Amount` of a set with one
order more. The property says nothing of issued tokens, for the reason in section 7.

**Buy-back.** A call that reaches the booking has seen its transfer in a block, from
the wallet it names and to the wallet of the bid it read, and that bid was published
(`Verified`). The statement under the lock books a transfer that is in no sale, adds
its tokens to the count and respects the limit that is in force, so the count is the
sum of the sales (`BidInv`). No hypothesis is needed: a bid that is replaced in between
changes none of these facts.

**Governance.** The tally is read in one call and recorded in a later one.
`TallyStands` says that the votes of an ended proposal do not change once counted
(`Counted`: no vote on it is under way and none can begin), so that the recorded outcome
is what the votes say at any later time. `OneApplies`: of the calls that found the
proposal open, the conditional update lets one go on to install. For `WeightExists`
a call's weight is what the wallets it has asked hold together, each once
(`WeightsExist`), and a trade moves tokens and keeps their whole. Each of the three is
kept on its own (`VoteNext`): the first needs no hypothesis, the second only that no
vote is late, the third only that nothing moves during a count.

**Account.** A code or a nonce that is in its table has not worked yet and is the
latest of its key (the email and purpose, or the wallet); the `DELETE` takes it out
in the step in which it works. That a session's account has the wallet needs that a
handler past the check of the row's owner holds a row that is free or its own, and
that the insert is refused where another came first.

**Onboarding.** The salt of a person is taken in the step that makes the first
identity, so that no second one comes; `onchainid` is written with what was
created or found and never replaced; only what is recorded is registered
(`IdentitiesOk`). For a rejection: every live accreditation on an identity
of a row was attached since the rejection was recorded (`late`), or lies ahead of a
request that revokes, in its list or at its present call, or a rejection has noted a
failure (`WillRevoke`, `RevocationOk`). No hypothesis on the investor is needed: a
claim that is attached while nothing is accredited is `late` in the same step, and
the next rejection, which empties `late`, has every wallet in its list.

**Screening.** What a request has gathered rests on the latest screenings of the rows it
has read, but for those that were screened or made behind it (`RestsOn`,
`GatheredOk`); what it writes inherits these exceptions (`fresh` becomes `missed`). A
screening or a new row puts itself among the exceptions of every request that has
passed it and of the status that is written (`Noted`), and an aggregate that begins
later reads it. So the property holds however many requests for one person overlap,
and says of each status which rows it rests on.

**Verification.** Versions are counted: the version, and the decisions that are on
their way, are at most one more than the decisions made and the messages claimed
(`VersionsAreDecided`), and a claimed message has one delivery (`MessagesAreOwn`). The
row of a wallet follows the record because both are written in one transaction, and
an acceptance bears the version its call read (`AcceptancesOk`).

**Documents.** A file a process writes is its own until a row names it, and the
script's update follows a read of the whole file; a row that names a file names a
whole one, sealed as the row says. For the audit, reads that were delivered and those
about to be answered are at most the audit rows and the failures to write one
(`TrailInv`).

**Approvals.** The invariant adds to the three properties that a running call knows
its operation (`Known`), that approvers hold the role and are not the maker
(`Approvers`), that only a request with a row is approved or claimed (`HasRow`), that
whoever claims or executes has counted enough and that what is executed is claimed for
good (`Counted`), and that one call executes (`Alone`). `Claimed` is stable because
no update writes `pending` over anything.

**Staff.** Every request reads and then writes without looking again, so that what it
read may be gone. The properties name the two ways in which they fail, a pair of
requests that cross and a request that died half way, and the invariant makes that
exact: two open requests for one thing are remembered in `crossed` (`Remembered`);
a login that was made for a profile is awaited by that profile alone (`Awaited`); who
takes an admin away leaves another, unless remembered (`Replaceable`); the login
follows the profile at the latest when the request ends (`Follows`).

**Deployment.** What a request knows at each call (`RequestOk`) only grows: a suite
never changes its owner and is never paused again, an issuer that was approved was
approved. Two requests that are open for one offering or one symbol at once are in
`doubled` (`Pairs`), and the statements about shared and replaced tokens are about
the rest.

**Recovery.** A transfer that waits for its approval is covered by a wallet that is
still frozen and holds what is asked for, unless it was thawed or emptied by another
transfer (`TransferOk`). Links are never replaced (`CasesGrow`), so what a recovery
has linked is one person's for good, and when it is run again the link it finds is
its own; two open recoveries for one new wallet are remembered (`SharedOk`).

**The signer.** A nonce that an instance has handed out since it last asked is with a
sender on its way or at the node (`Covered`), and an answer of the node is not beyond
what it has seen (`Answered`); when no sender of the instance is on its way, there is
no gap below what comes next. A restart or a reset forgets the cache and not the
sends, so that the instance's next question may be answered below nonces that are
still on their way under the old cache: that is why `Covered` is about one question
at a time. The types need that answers and caches are bounded by the sends made,
which is a count of senders and nonces (`Room`).

**Instances.** `Deployment` and `Documents` are proved in modules of their own and
brought to `BackOfficeProofs` and `PeopleProofs` by an instance of the proof module;
what is left there is that the two instances are one specification.

**Model-checked only.** Liveness (`SettlingResolves`, `PaidResolves`, `CatchesUp`,
`PassedIsApplied`, `ThresholdActs`), which needs fairness and `ENABLED`. The four runs
that end in a violation. The instances of the other runs satisfy the hypotheses of the
theorems about their invariants and action properties.

## 7 What the models showed

### Kept as runs

1. **`dbl_mint_pay_webhook`.** `pay` writes `paid` after the provider answered,
   whatever the status is by then. If the webhook paid and settled the order in
   between, the order becomes claimable again and is minted twice.
2. **`reserve_tenant`.** As the role the deployment prescribes, `createOrderAtomic`
   locks nothing and sums only the caller's own orders: two investors are sold the
   same tokens.
3. **`revoke_misses_identity`.** An identity is created for the wallet that asks
   first. If that was a linked wallet, the rejection of the accreditation looks for
   identities of wallets with a row in `investors` and does not find it.
4. **`deploy_retry_refused`.** `deployToken` asks for the symbol in `tokens` before
   anything else. After a death between `recordToken` and `setTokenSymbol` the
   issuer's own row refuses every further attempt.

### Found on the way, and left out by the runs that hold

A run that holds leaves these out by its list of faults, crash points or requests,
or the property names the exception.

*Settlement.*

- `closeOffering` reads the paid orders before it claims the close. An order paid
  in between is held as escrow by its handler, which still sees the raise open, and
  is not in the close's list: it stays `paid` until somebody closes the raise again;
- the webhook reads an order as unpaid and writes `failed` over what became of it
  meanwhile, `settled` included (`subscriptions.service.ts:328`); a close or late
  payment may then refund what was minted;
- an order whose close died is refunded after its mint was broadcast, when the answer
  of the broadcast was lost (`:379`): tokens and money both (`lostReply`, `wait`);
- recovery takes an RPC failure of `getTransaction` for a dropped transaction and
  mints again (`:681`, fault `rpcTx`); it does so also when the process died
  between the broadcast and the persisted hash (crash at `persist`);
- a tick of the sweeper that waits for a mint longer than its lease overlaps the
  next (`leaseLapse`);
- two orders may be paid by one crypto transfer: the check and the write are two
  statements (`:434`);
- an event id is committed before the event is applied; a process that dies in
  between loses the event, because the provider's repetition is acknowledged as a
  duplicate. The same holds of a verdict of the KYC provider;
- an issuer who sets a closed raise back to open gets a second verdict (`OneVerdict`
  and `FundedIsMet` are checked without `setStatus`);
- a process that dies after `claimForRefund` leaves the order `refunding`, which no
  scan looks for;
- a settlement may mint to a wallet that a recovery has frozen in the meantime.

*Reservation*, on a connection the policies do not bind:

- with the indexer behind, a settled order counts neither as reserved nor as issued,
  so its tokens are sold again (`NeverOversold` fails; hence `ReservedFits`);
- the balances of a person are read before the lock. `subscriptions.repository.ts:17`
  calls them effectively monotonic, but an order that settles after the read
  counts neither as held nor as reserved, and the cap is exceeded (hence
  `PersonReservedFits`);
- a capture slower than the reservation writes `paid` over `expired` (fault
  `slowCapture`), and a checkout that fails writes `cancelled` over an order the
  investor has paid from the list (fault `earlyPay`): either breaks the supply or
  loses an order;
- `closeOffering` says that "from that moment new orders are rejected", but
  `createOrder` looks at the status before its lock and never again: a call that found
  the raise open takes the place of an order that is being refunded, and a refused
  refund writes that order back to `paid` (fault `slowCreate`).

*Approvals.*

- `reject` tests `pending` and writes `rejected` later, over `executing` too: a
  rejected request may have been sent;
- a process that dies between recording the last approval and the claim leaves a
  request that has every approval and is not executed. `back_office` has no crash
  at `count` and `claim` for that reason.

*Indexer.* Each of the first four breaks `IndexIsStamped` when a reorg is not
`Sealed`:

- the hash a cursor is stamped with is read after the logs. A reorg in between puts
  the new hash over the old events, and no later tick compares anything below it;
- a call fails after the transfers of a range were applied and before the cursor was
  moved, and those blocks are reorganised before the retry; or a rewind clears the
  hash, and until the next chunk is stamped nobody looks for a reorg;
- a process that dies between `rewindToBlock` and the pruning leaves hashes of the
  dead fork; if the chain returns to that fork, one is taken for the fork point
  (fault `return`);
- a fork deeper than the retained hashes is rewound by a fixed depth;
- a process that does not get the lease at start, or loses it, never asks again: after
  a restart within the lease of the process that died, nobody indexes;
- a process that gets the lease while no token is deployed returns from `start` without
  setting the timer (`indexer.service.ts:110`): a token that is deployed later is not
  indexed until a process is started again. Both are behaviours of the model, and the
  reason why `CatchesUp` is conditional.

*Distributions.* The row policy on `distribution_claims` (`migrations/056`) shows a
session the rows of its own wallet only, so that as `app_tenant`, the role that
`.env.example` prescribes, a claim (`distributions.repository.ts:126`) leaves the
shares of the person's other wallets `claimable`, and no call of theirs ever takes
them. Nothing here states that a claim takes everything, because it does not; what is
stated for both roles is that no share is paid twice or in part. Holders who trade between the read of the cap table and
the declaration are paid for what they held.

*Buy-back.* As `app_tenant` every sell-back ends at the lock, because no investor's
session may update a bid. A bid that is opened again keeps the count of what it has
bought. A sale is booked at the price that was read before the lock, also when the
bid was replaced in between (`PaidAsPublished` says this price belonged to the wallet
the tokens went to). A transfer that a reorg removes after it was booked stays booked.

*Governance.* A vote that passed `assertOpen` in time may be written after the
tally. Tokens that move while votes are weighed, or between two votes, count for
both holders. A close that dies between recording `passed` and installing the
manager is not repeated. Two proposals that pass may install in the other order, a
direct assignment may fall into a vote, and a manager who was suspended since the
proposal is installed.

*KYC and acceptance.* A decision does not ask whether the person ever submitted. Two
overlapping approvals bump the version twice. `startVerifying` and `submitKyc` write
what they decided on an earlier read and may overwrite an approval.

*Compliance.* The screening of a linked wallet is recorded under the wallet and
`recomputeStatus` reads rows of `investors` only, so that the aggregate does not
contain it: a link that was screened `review` changes nothing, and neither does a
later result for that wallet. `aml.service.ts:10` promises "the WORST
decision across every wallet they control", and
`portfolio.service.ts:281` recomputes with the words "Fold the newly linked wallet
into the person's aggregate standing". `WorstDecides` is about the rows. Rows made for a
wallet later do not copy the mirrors of screening and accreditation. Of two
overlapping screenings of one person the later write stays, be it the aggregate that
began earlier: a `blocked` result may be taken back by an aggregate that read that
wallet before (`missed` in the model). A grant of accreditation also asks for a screening that is not `blocked`;
`Onboarding` leaves that to `Screening`.

*Onboarding.* Where a linked wallet came first and the process died after
`createIdentity`, the salt is taken and no later call creates or adopts for the
primary wallet. A payload that was signed before a rejection may be attached at any
time after it, because neither the server nor the identity contract asks: the claim is
live on a person whose accreditation is rejected, until the rejection is run again.
`accreditation.service.ts:18` says of the revocation that "an investor must not be able
to keep a privilege by declining to sign". `revokeKyc` writes no row: `verified` stays. A claim that is
replaced between its read of the signature and the revocation stays live.

*Account.* `verifyEmail` gives a session to an account that is verified already,
without a code. Two overlapping resets may leave the earlier password. The mails of
two resends may arrive in the other order. A row of a wallet that no account owns
may be taken by two overlapping connects, and ends with the second.

*Staff.* Two admins who take each other's role at the same time leave none. A login
that is changed from the team page before its profile exists may leave an active
profile with a disabled login. A death after `createLogin` leaves the email taken.
A death between the writes of profile and login leaves a suspended manager with a
working login, which `assertOperates` refuses.

*Deployment.* Two deployments of one offering with different symbols leave one suite
without an offering; two offerings that ask for one symbol at once share a token; an
offering that is removed and created again under a deployment may open without a
token. The write policy of `tokens` is the platform's alone
(`migrations/043`), so that as `app_tenant` an issuer's `deployToken` fails at
`recordToken` with the suite on the chain; the policy of `issuers` (`migrations/042`)
makes an issuer's update of its own record a 404.

*Cases.* A recovery that is under way goes on when its case is closed. One that is
run again submits a second transfer. An approved burn of the old wallet, which is not among
the moves modelled, takes what was submitted as another transfer does.

*Documents.* `LocalDiskStorage.get` goes by the configured key and not by the row's
`encrypted`: plain files written before a key was introduced do not open, and a
sealed file that is read without a key is served as it is. A failed insert leaves a
file without a row. Old rows that no account owns are skipped. The bytes of an
upload are not read back. A read goes on when its audit row cannot be written.

*Signer.* `resetNonces` resets every key, so that sends in flight under other keys
may take one nonce twice and be refused; the next reset heals that. After a failed
estimate, a send that is queued with a later nonce waits for another send to fill
the gap, and `wait()` has no timeout. A transaction that the node drops leaves the
cache ahead until a restart. Two instances count apart; a refused send makes one
ask again.

## 8 What is not modelled

- *Within the modelled parts*: replacement and dropping of transactions other than a
  mint; signature, freshness and amount checks of webhooks and crypto payments; the
  recovery of an address from a signature; rounding of amounts to tokens; parameters
  and pre-flight of operations; several tokens per indexer (each has its own rows);
  `INDEXER_START_BLOCK` other than its default; `rewindToBlock` by two processes whose
  leases overlap; the rotation of an encryption key, for which there is no code.
- *Parts whose calls are one read or one write that nothing else reads*: login (the
  throttle counts in memory, sessions are signed tokens), views of offerings and
  portfolios, valuations, records of issuers, image uploads,
  audit rows other than those of document reads.
- *Parts without state*: tenant context, configuration, errors, OpenAPI, validation
  of request bodies. The row policies are modelled where they change what a statement
  of a modelled component does.
- *Libraries and services*: Postgres, the chain, the contracts of the token suite,
  the payment, KYC and screening providers, KMS, mail. The models take of them what
  the code observes, marked external in the map.

## 9 The plan, and what a continuation could take

Modelled, in this order: `OrderSettlement` (the most important behaviour of the
system), `OrderReservation`, `Approvals`, `Indexer`; then `Payout` and `Distributions`
with the refinement, `Buyback` and `Governance`; `Account`, `Verification`,
`Screening`, `Onboarding`; `Staff`, `Deployment`, `Cases`; `Documents`, `Signer`. The
first plan had one module for KYC, screening and acceptance; they share a person and
no row, and became three. A module of `acquireLease` alone was dropped: its exclusion
and its two lapses are in `OrderSettlement` and `Indexer`, each with the work that
overlaps.

Proved: every invariant and every action property the runs check, and the
refinement. `OrderSettlementProofs` has the claims and the record of an order,
`RaiseProofs` the close and the outcome; `IndexerProofs` the index; `OfferingProofs`
distributions, reservation, bid and votes; `PeopleProofs`, with `DocumentsProofs`, the
account, the identity, the screening, the verification and the documents;
`BackOfficeProofs`, with `DeploymentProofs`, the approvals, the staff, the listings,
the recovery and the nonces.

What is left to prove is to sharpen the hypotheses of section 6. `OneOutcome` has two
halves, no second mint and no refund beside a mint, and neither may need all that
`Undisturbed` leaves out. And what `OrderReservation` assumes of `OrderSettlement`
and `Indexer` (section 3) could be stated as an abstract specification that both implement.

What is left to model: the life of a pending transaction under changing fees, shared
by `Signer` and `OrderSettlement`.
