# A TLA+ model of the P2P backend

The repository is a NestJS server for a custodial exchange on which users trade coins with each
other: it keeps every user's coins in its own wallets, holds them in escrow while two users settle
a trade by bank transfer, and moves them on and off several chains. State lives in PostgreSQL
(TypeORM), in Redis (BullMQ queues, a cache), in files, on the chains, and in the memory of the
process. This directory models the parts that move coins and the services around them that
have state worth a model, checks them with TLC, and proves the results that matter most with TLAPS.

Paths below are relative to `src/src/`.

## 1. The system

| component | state it keeps | operations | talks to |
|---|---|---|---|
| **P2P escrow** `orderbook/*` | `order_books`, `transactions`, `disputes`, the columns `uw_balance` and `uw_lock_balance` of `user_wallets`, the BullMQ queue of expiry jobs | post, update, delete a listing; take part of it; confirm payment, confirm receipt, cancel, dispute; expire; release bought coins | settings (fees), smart referral (rewards), notifications, chat |
| **Deposit addresses** `wallets/wallets.service.ts` | `user_wallet_networks`, `active_wallet_trackers` | derive an address, track it while the user looks at it | sweep |
| **Deposit sync** `wallets/wallets-scheduler.service.ts`, `wallets/chain-sync/*`, `wallets/wallets-file-storage.service.ts` | the list of known transfers in Redis and in a file, deposit rows of `wallet_histories`, `wallet_deposit_tracker` | two-minute cron job, sync on demand, refresh of `uw_balance` | the chains, custody, sweep |
| **Sweep** `admins/admins-wallet-ops.service.ts` | `isMainWithdrawProcessing` in memory, `ADMIN_DEPOSIT` rows, `wdt_withdraw` | collect deposit addresses into the main and CEO wallets | the chains, deposit sync |
| **Custody** `wallets/wallets.service.ts` | withdraw rows of `wallet_histories`, `user_wallets` | withdraw (request, then background work), transfer between users, pay rewards | the chains, settings, deposit sync |
| **Settings** `settings/*` | `admin_settings`, a 60-second cache of them | read, change | everything with a fee or limit |
| **Smart referral** `smart-ref/*` | the referral tree, rewards, their withdrawals | record a chain, distribute a reward, withdraw | escrow, custody |
| **Users** `users/*` | user rows, codes, KYC submissions, bank accounts, level | register, log in, verify, level up, change bank accounts | escrow (level limits the size of a purchase) |
| **Administration** `admins/*` | logs, statuses of users | review KYC, banks, levels; block a user's trading | escrow, users |
| **Chat and support chat** `chat/*`, `support-chat/*` | rooms, conversations, messages | open, write, close, mark seen | notifications |
| **Notifications** `notifications/*`, `systems/redis-pubsub.service.ts` | rows, reference counts of streams in Redis | create, stream | nothing waits for it |
| **Infrastructure** `systems/*`, `common/*`, `middleware/*`, `infrastructure/*` | cache, slots of the RPC rate limiter | | |

What is hard about it:

* **Unlocked reads.** Most handlers of the escrow run in one database transaction and read their
  rows `FOR UPDATE`. Three do not: `confirmPayment`, `createDispute` and `updateOrderBook` read an
  entity, wait, and save all of it. The refresh of a balance does the same with a wallet.
* **Two sources of truth.** `uw_balance` is changed by trades and withdrawals, and is also
  *recomputed* from `wallet_histories`, where trades have no rows.
* **Overlap.** The cron job that syncs deposits has no guard against itself, and a withdrawal syncs
  on its own. The expiry worker runs beside every request.
* **Work in the background of a request.** A withdrawal answers the user and goes on in memory. A
  crash forgets it.
* **Chains that answer late.** A transfer may be on the chain although sending it threw, and the
  code then tries the next URL, and in the end refunds.
* **Parameters that change.** Fees are read when a listing is posted, again when a part of it
  settles and again when it is deleted.

What makes each part correct: coins are neither created nor lost and every promise of a coin is
backed by one; a trade settles at most once and only after payment; what is undone is undone
once; a transfer to a user is credited exactly once; a withdrawal is paid once and its row says so;
and each of these things happens in the end. Around them: a user trades within the limit of a level
that was earned, and not at all when blocked; documents are approved as they were proven; a code is
accepted once; a reward is paid once; a listing is paid to an account that is approved; an address
that is shown is one a sweep can empty.

## 2. The modules

```
Sums ─┬─ Escrow ── EscrowProperties ─┬─ MCEscrow         (TLC)
      │               │ INSTANCE      └─ EscrowProofs     (TLAPS)
      │           EscrowPromise
      ├─ DepositSync ─┬─ MCDepositSync      (TLC)
      │               └─ DepositSyncProofs  (TLAPS)
      ├─ WalletLedger ┬─ MCWalletLedger     (TLC)
      │               └─ WalletLedgerProofs (TLAPS)
      ├─ SumTheorems, which every *Proofs module with sums extends
      ├─ TradingLimits ──────┐
      │  Identity, LevelUp ──┤ INSTANCE
      │  BankAccounts, Kol ──┴─ Members (TLC) ── MembersProofs (TLAPS)
      │
      └─ RpcLimiter, SupportChat ────────────┐
         Streams, Accounts, TransferFiles ───┤ INSTANCE
         DepositAddresses, ChainScan ────────┼─ Services (TLC) ── ChainProofs (TLAPS)
         SmartRef ───────────────────────────┤                      │
         TransferPromise ── ChainTransfer ───┘                   ServicesProofs (TLAPS)
                                                                    │ INSTANCE SmartRefProofs
```

The first three systems share the two columns of a wallet. `Escrow` has all that trades do to them;
`WalletLedger` has everything else that does, and sums trades up as three steps (lock, unlock,
settle); `DepositSync` has the origin of the deposit rows that `WalletLedger` takes as given. Each
system has its behaviours twice: `Spec`, in which everything interleaves as the code lets it, and
`SerialSpec`, in which an unlocked read and its save (a sync, a refresh) are not interrupted. Where
the code makes a promise only of the latter, the property is checked of the latter, and section 4
says what breaks it in the former.

The other components each own their rows and meet the rest of the system in one call. They are
checked side by side: `Members` and `Services` instantiate each of them, and a behaviour is one
of a single instance, named by the variable `which`, while the variables of the others stay as they
were. This is not an interleaving of components; it is a way to check them in one run, and to prove
of all of them from one invariant (`MembersInv`, `ServicesInv`) with a part for each; the two about
a chain have a module to themselves. What the
larger systems sum up, these spell out: `TradingLimits` is the guard on a take that `Escrow` lets
anyone pass, `ChainTransfer` is what `Send` of `WalletLedger` and `SweepLeg` of `DepositSync` do
on a chain, `ChainScan` is `Fetch`, `TransferFiles` is `SaveCache`, `DepositAddresses` is `TrackingWallet`.

### 2.1 Escrow

| state | code |
|---|---|
| `orders`, `trans` | `order_books` and `transactions` rows; an unused key has status `none` |
| `balance`, `lock` | `uw_balance`, `uw_lock_balance` of the one coin |
| `fees` | the settings `transaction fee` and `smartref fee`, in parts of `FeeBase` |
| `disputes` | OPEN disputes per transaction |
| `jobs` | the BullMQ queue: attempts left of job `tx-expiry-<id>-<status>` |
| `confirming`, `disputing`, `updating` | requests between their read and their save, with the entity in memory |

| actions | handler |
|---|---|
| `CreateOrderBook`, `DeleteOrderBook` | `createOrderBook`, `deleteOrderBook` |
| `UpdateOrderBookRead`, `…Save` | `updateOrderBook` |
| `CreateTransaction`, `CancelTransaction`, `ConfirmReceived` | the methods of the same name |
| `ConfirmPaymentRead`, `…Save` | `confirmPayment`; saving also queues the second expiry job |
| `CreateDisputeCheck`, `…Insert`, `…Mark` | `createDispute` |
| `ExpirePending`, `ExpireConfirmed`, `ExpireConfirmedFails` | `applyExpirationJob` run by the worker, and a failed attempt of it |
| `ReleaseDueBuyerLock` | one row of `releaseDueBuyerLocks`; `Picked` is its query, which reads the first `UnlockBatch` rows that are due |
| `ChangeFees` | an administrator saves other fees |
| `Crash` | requests in memory are gone; rows and Redis stay |

`save(entity)` of TypeORM reads the row again and writes the columns that differ from the entity. As
long as no other save comes between this SELECT and its UPDATE, the row *becomes* the entity, whatever
has changed since the handler read it; that is how the `…Save` actions are written here. `Identity` has the two
apart, and section 4 what two saves that mix can do. Amounts are integers (units of 10^-8 coin), and `Percent` rounds as
`formatAmount` does.

Abstractions. The buying limit, bank details, verification and trade-block guards only refuse
requests, so a user may simply not make them (`TradingLimits` and `BankAccounts` have them). Branches for a listing or a wallet that does not
exist cannot be reached. The fees are read and used in the same step. A database transaction is
one step: it holds row locks to its end, and a deadlock between two of them is resolved by
PostgreSQL, which aborts one as if it had not run. Delays of jobs have no duration: a job may run
at any time after it is queued, and as the unlock delay is the constant 0 a settled purchase is due
at once. Either party may confirm receipt, as in the code. The referral rewards that posting and
settlement hand out touch no wallet column.

`EscrowPromise` is the abstract specification: deals are opened, paid or called off, and a paid deal
settles once. It knows nothing of listings, locks or jobs. `EscrowProperties` instantiates it with
the status of a transaction as its stage and `balance + lock` as wealth.

### 2.2 DepositSync

One deposit address of one user, one coin. `sent` and `onAddress` are the chain; `watched` is an
unexpired `active_wallet_trackers` row; `cache` is the list of known transfers (Redis and file are
written together and read as one); `rows` counts the SUCCESS deposit rows of each transfer;
`adminRows` sums the `ADMIN_DEPOSIT` rows by what their `wh_node` says, which is what
`calculateDepositBalance` filters on; `tracker` is `wdt_withdraw`; `sync` is what each sync under way
has read; `busy` is `isMainWithdrawProcessing`; `sweep` is the sweep of this address.

A sync is `CronBegin` or `ManualBegin` (read the list; the cron job looks at watched addresses, a
withdrawal at one whose balance is not what the rows say; `checkCacheConflict` is `Differ`), `Fetch`, `SaveCache`, `ReadRows`, then
`InsertRow` and `TrackDeposit` for each missing transfer, and `SyncEnd` (the refresh). Its failures are
`TrackDepositFails` and `SyncFails`, and an insertion or a fetch that yields less. A sweep is
`SweepStart` (of any active address of the users and networks that have a tracker to sweep, so it may be one whose own
tracker does not ask for it), `SweepSetUp` (the collecting wallets of the network), `SweepGas` (native coin for the
address is supplied, `GasSupplied`, or it is given up, `GasRefused`), `SweepRead` or `SweepSkips`,
`SweepLeg` for each part, `SweepMark`; `SweepStartThrows`, `SweepLegFails` and `SweepLegUnseen` are its
failures. `Restart` forgets the syncs and the sweep and clears the flag.

A transaction may pay the address several times: its transfers share a hash (`Hash`) and may differ in
amount. Rows and list are compared by hash, so a listed transfer may meet a row of its transaction with
another amount. That is a conflict: the list is then *replaced* by what the node returns, unless it
returns nothing (`Final`), where otherwise what is new is added to it.

Abstractions. The explorer is asked for the last 100
transfers, which always include ours. Redis does not lose its list (the file it is read from then is
`TransferFiles`). The balance check and the fetch are one step that may see
different answers (`Fetch` chooses what the node says: the true balance or 0 for one that cannot
be read, and any subset of the transfers). Sending a part and writing its row are one step
(`SweepLegUnseen` is the sending without the row). Insertion order is free. The refresh at the end
is one step here and three in WalletLedger. An address without tokens that holds native coin is
left for later, which `SweepRead` allows. `Failures` turns on the failures nothing tries again.

### 2.3 WalletLedger

`balance` and `lock` of each user; `credits` and `debits`, the sums of the rows of deposits and of
transfers between users; `withdrawals`, the withdraw rows with the stage of the background work on
each; `paid`, how often the chain has paid each; `refresh`, what each refresh has read.

A withdrawal is `WithdrawCheck` (the balance, read without a lock), `WithdrawAccept` (the pending
row), `Reserve`, then for each URL `Send` or `SendThrows` (`SendUnseen`: it throws after the chain took
the transfer), `Record` (`RecordThrows`), or `Fail` with its refund. A refresh is `RefreshCredits` and
`RefreshDebits` (two sums), `RefreshRow` (the wallet), `RefreshSave`. `Crash` loses the background work:
its row stays PENDING, stage `lost`.

`MaxWithdraw` is the cap of the fund (`checkMaxWithdraw`), with `Fund` the amount an administrator sets;
the sweep rows the code counts among the deposits and the fee of a withdrawal are left out of it.

Abstractions. The platform fee is the constant 0, so free withdrawals make no difference. A deposit
is a row, and the balance follows when it is refreshed. Trades are `TradeLock`, `TradeUnlock`,
`SettleTrade`, as none of them writes a row. What sending does on the chain is `ChainTransfer`.

### 2.4 Members: one user's rows

| module | state | handlers |
|---|---|---|
| `Identity` | the row of `users`, `user_verifies`, the entities that requests and administrators hold in memory, what the SELECT of their saves read | `updateProfile`, `changePassword`, `setNewPassword`, `verifyEmail`, the Google login, `setupTwoFactor`, `verifyTwoFactorSetup`, `disableTwoFactor`; `submitKyc`, `retryKyc`, `submitKycPaper`, `renewKycChallenge`, `getKycStatus` (`AskStatus`); `updateKycStatus` (`ReviewRead`, `ReviewRecord`, `ReviewUser`), `updateUserStatus`; the two halves of every save, `SaveBegins` and `SaveUser` or `SaveRecord` |
| `LevelUp` | level, flag and window of a user, trades, the clock | `evaluateLevelUpForUser`, `reviewUserLevelUp` (read, save), late whole-row saves (`HoldRow`, `SaveRow`) |
| `TradingLimits` | listings and purchases of a user, the block | `computeBuyerAvailableCoinBudget` (`Check`, then the commit), `updateUserStatus` to `block_trade` as two loops and an update |
| `BankAccounts` | accounts with their approval, the account of a listing and the one asked for, a request or review per actor | `createMyBank`, `updateMyBank`, `deleteMyBank`, `attachBankToOrderBook`, both reviews |
| `Kol` | the flag, the requests, what is left of an administrator's updates | `registerKol`, `toggleUserKol` |

A handler that reads an entity, awaits and saves it is two actions here, as in Escrow. In `Identity` it
is three: the handler, the SELECT of its save, and the UPDATE of the columns in which the entity differs
from what was selected. `MixedSaves` says whether a save may come between these two of another; section 4
shows what happens when it does. In `BankAccounts`, where the rows have one column, `Saved` is what such
a save may leave: the entity's value or the one written since. Two administrators may review
at the same time, and `TwoVerdicts` lets them decide on one new account. The time a KYC challenge has is left out (a
photo may be in time or late), as are columns no property tells apart.

### 2.5 Services

| module | state | what it models |
|---|---|---|
| `ChainTransfer` | a call, its place in its plan, the wallets, what has been paid | `sendWithdrawTransaction`, `sendTransactionToMain`, `sendGasFromSupportWallet`, `ensureTargetHasSolUsdtAta`: a *plan* is the sequence of RPC requests of a call, each with its outcomes, and the loop over URLs starts it again |
| `TransferPromise` | paid, unseen, result | what a caller may rely on; `ChainTransfer` implements it |
| `SmartRef` | referral tree, rewards, withdrawals of rewards | `recordInviteeReferralChain`, `disputeSmartref`, `withdrawMyReward` with its undo |
| `RpcLimiter` | the promise chain, the time stamps (how many there are of each age), the cached limit | `acquireRpcSlot` |
| `SupportChat` | conversations, unseen messages, the badge | create, write, close, see, and the summary sent to administrators |
| `Streams` | tabs per instance, the channel, the commands on the way to Redis, the count | connect, disconnect, publish, hear, restart |
| `ChainScan` | the chain, the source being read, what was found | `fetchAllDeposits`, `fetchRecentDeposits`, `getDepositBalanceOnChain` of the three kinds of chains |
| `Accounts` | user, codes with their life, tokens | sign-up, sign-in, renewal, the four kinds of codes, blocking, default wallets |
| `TransferFiles` | two files, the lock, the calls | `saveTransactions`, `loadTransactions`, deaths, locks that go stale |
| `DepositAddresses` | address rows, trackers, requests | `createWallet`, `trackingWallet`, the key a sweep derives |

Keys are their derivation paths, codes and transfers are numbers, a file is the set of what is in
it. Each module's header says what else it leaves out.

## 3. What the runs check

Constants are given in the `.cfg`, or, where a module is instantiated beside others, in the
`INSTANCE … WITH` of `Members` and `Services`. Deadlock is not checked in any run: a bounded
number of keys, withdrawals, transfers or codes runs out, and then the modelled system really has
nothing left to do; a call that has returned makes no other step.

| run | behaviours | properties | states |
|---|---|---|---|
| `EscrowSerial` | serial, 2 users, 2 listings, 2 transactions | `Backed`, `ListingBalanced`, `OneOpenDispute`, `KeepsPromise`, `DeletedStaysDeleted` | 1.1 M |
| `EscrowProgress` | serial and fair, whole and half takes, 2 attempts per job, batches of 1 | `EveryDealEnds` | 112 k |
| `EscrowRaces` | every interleaving, fees that rise and fall, crashes | `TypeOK`, `NoCoinCreated` | 1.3 M |
| `DepositRaces` | one sync beside the sweep, all failures, restarts, a transaction that pays twice | `TypeOK`, `CreditedOnce`, `KnownNotForgotten` | 1.3 M |
| `DepositLive` | syncs and sweeps take turns, fair | `CreditedIsSwept`, `EveryDepositCredited`, `SweepCompletes` | 1504 |
| `LedgerSerial` | two competing withdrawals, transfers, locks, refreshes, crashes, a fund that keeps one coin; fair | `TypeOK`, `Solvent`, `PaidAsRecorded`, `EveryWithdrawalEnds`, `HoldingsMatchLedger` | 99 k |
| `Members` | `Identity` and `BankAccounts` with overlapping handlers and with one at a time, `LevelUp`, `TradingLimits`, `Kol` | ten, below | 1.2 M |
| `Services` | nine components, three of them a second time under faults | eleven, below | 362 k |

* `Backed` is the central invariant of the escrow: the lock of a user covers the user's listings,
  running sales and unreleased purchases *together*. Everything that releases or debits a lock
  twice, or for the wrong amount, breaks it, since the lock column has no record of what it is for.
* `ListingBalanced` relates a listing to all transactions that took part of it.
* `KeepsPromise` is the refinement: of `EscrowPromise` by `Escrow`, of `TransferPromise` by
  `ChainTransfer`.
* `KnownNotForgotten` excepts only a conflict of amounts, and even then the list is not emptied.
* `EveryDepositCredited` excepts a deposit after which the address comes to hold, *for good*, just what the rows
  say: the cron job then sees nothing to fetch. That is so when a sweep takes coins no row
  has yet (section 4), or when a later transfer makes up for what was swept: swept coins are
  written under another `wh_node` than is subtracted. It is stated of transfers that each have a transaction.
* `NoCoinCreated` holds even where the others do not: stale saves and changing fees move coins to
  the wrong party or freeze them, but no handler ever credits more than it debits.
* `Solvent` is the same for custody: what the wallets hold and what has gone out is at most what
  came in.

| `Members` | what it says |
|---|---|
| `TwoFactorHasSecret` | two-factor authentication is never on without a secret, two requests saving the row in any order, but neither between the SELECT and the UPDATE of the other's save |
| `ApprovedAsProven` | documents that are approved have a paper photo made for them, however submissions, retries and reviews interleave; saves do not mix, likewise |
| `ApprovedIsVerified` | with one request of the user beside a review: a record that is approved leads to a verified user, unless that request takes the approval back, although the review may stop between the two saves |
| `LevelIsEarned` | each level was reached by a trade of its own, beside a second reviewer and late saves of the row |
| `TradeCounts` | the daily job passes over no window with a trade that counts; a trade that settles after its window was evaluated is the exception. Verdicts are not part of it: section 4 |
| `BoughtWithinLimit` | with one request at a time, what a user is buying stays within the limit of the level, through posting, updating and being sold to |
| `BlockedIsOut` | once a trade block has run, the user has nothing open; if nobody takes or posts while it runs |
| `AttachedIsActive` | the account a listing is paid to is an approved one that exists, with two requests of the user and two reviews overlapping, as long as the reviews are not of the same new account |
| `RevokedIsNotHealed` | repairing a half-written grant undoes no revocation |

| `Services` | what it says |
|---|---|
| `KeepsPromise` | an amount goes out once, and a hash stands for what its caller takes it to |
| `ReferrersInOrder` | the chain above a user is the chain of the referrer, whoever joins meanwhile and however writing it was cut short |
| `RewardPaidOnce` | a reward is in one withdrawal that was paid, through failures and their undo |
| `RateKept` | a slot is given only if fewer than its caller's limit were given in the last second |
| `BadgeIsRight` | when nothing is under way, administrators are shown the number of unseen messages |
| `HeardOnce` | a tab that was open throughout hears a notification once, though two instances publish and listen |
| `ScanIsExact` | a scan that met no failure and fits its windows returns each deposit once |
| `CodesKept` | a code is accepted once, in time, for its kind; a crash in between may let it be used again |
| `SavedIsKept` | what a call has saved to a file is there for the next one, though lock holders die; not if one dies while it writes |
| `TrackedIsSwept` | in the end the address of a tracker is the address of its row and the one whose key a sweep derives |

**Bounds.** Two users are both parties of a deal; a third would only be another counterparty, as no
handler touches more than two wallets. Two listings let one deal be paid out of the lock of
another, two transactions let two takes compete for one listing. In `EscrowSerial` a listing of 8
is taken in two halves, in `EscrowProgress` also whole. `FeeBase = 4` with fees of a quarter keeps
products integral, so that rounding (section 4) is a question of its own. A user holds 12, exactly
what a listing of 8 locks: every second lock is refused unless something was released. One request
in flight is enough to race with handlers, jobs and crashes; the races between two requests use
two. In `DepositRaces` transfers of 2 and 1 are one transaction, so that a list and a row of it can differ, and another 1 is one of its own. In `DepositLive` they
are 4 and 1 with a least sweep of 2 and half of each sweep to the CEO wallet: what an address holds
after any part of a sweep is never what the rows say by coincidence (the exception of
`EveryDepositCredited` above). In `LedgerSerial` one user may receive two coins and the other one, two withdrawals of one coin
compete for them, and the node has two URLs.

Of the members, two requests of the user and one administrator save the same rows (with a second administrator the
states are too many for a run; the theorems are for any number); one KYC record with two documents is the least in which a paper photo can be of
the documents before; windows of two and a time of six give three windows, with a trade for each; a
limit of 2 with amounts 1 and 2 is filled in every way by one listing and three purchases; the
bank accounts are capped at 2 instead of 10, with rows for those that are deleted. Of the services: three users
under two levels of referrers make a chain that is cut off; three callers and limits of 1 and 2
make a queue; three conversations are one that is closed and reopened by a new one; two instances
and two tabs let a notification cross Redis; five blocks, windows of three, pages and chunks of
two put a deposit on each side of every boundary; codes and tokens that live two minutes
expire between any two steps; two transfers with a threshold of 1 change the file from plain to compressed;
users 1 and 6 have ids of different digits to the bases 2.

**Fairness.** Users may always stop. Of the server: a request that has read its row saves it or the
process dies; BullMQ runs a queued job; the unlock scheduler runs every 30 seconds; the cron job
every two minutes; a loop over URLs, rows or parts goes on. Jobs, the scheduler and the start of
a sync have strong fairness because the serial behaviours make them wait for whatever is under
way, again and again. `DepositLive` also assumes that a node answers fully, and an insertion
succeeds, if asked infinitely often. `LedgerSerial` assumes that a user's wallet is refreshed now
and then: the cron job does so while the wallet page is open, and so does every withdrawal.
The scheduler promises a release only to the first `UnlockBatch` rows that are due (100 in the code,
1 in the runs), so `EveryDealEnds` also says that every row gets to the front. It does because with
fixed fees no release throws (`Backed`); a row whose release keeps throwing would keep its place.
`ApprovedIsVerified` assumes that the user opens the status page now and then (it is `getKycStatus`
that repairs a review that stopped half-way), and `TrackedIsSwept` that users keep looking at their
addresses (it is a lookup that corrects a tracker); both that a save that was begun is made.

## 4. Where the code does not keep its word

Four runs expect a violation, each of something a comment or an error message of the code says.

| run | what TLC finds |
|---|---|
| `EscrowStaleConfirm` | `confirmPayment` reads a pending transaction, it is cancelled, and the save makes it `payment_confirmed`: it may settle, out of coins that were given back |
| `EscrowStranded` | a SELL listing is deleted, then a transaction that took part of it is cancelled or expires: the amount returns to a listing nobody can delete again, and its coins stay locked |
| `LedgerTrade` | settled trades have no rows: the next refresh returns the sold coins to the seller |
| `WithdrawUnseen` | a withdrawal the node took, whose confirmation throws, is refunded and marked FAILED; one URL is enough |

For three of them section 5 proves that it takes just that: without the interleaving
(`OnlyPendingWhenSerial`), without the deletion, where fees are fixed and exact and requests take turns
(`OnlyDeletingStrands`), without the unnoticed payment (`PaidWhenNoticed`, crashes included) the property
holds for every value of the constants.

Other properties hold in the behaviours above and not beyond them. To see each counterexample,
change a configuration as follows. Of those about saves that mix and two verdicts too, section 5 has the
converse (`SecretIsThere`, `ApprovalIsProven`, `AttachedStaysActive`): without them the property holds for every
value of the constants.

| start from | change | violated |
|---|---|---|
| `EscrowStaleConfirm.cfg` | check `OneOpenDispute`, `DeletedStaysDeleted`, `ListingBalanced` or `KeepsPromise` | two requests, or a request and a handler, interleave |
| `EscrowStranded.cfg` | `FeeSettings <- FeesRise`, check `Backed` or `ExecuteDebitsTheLock` | a listing is locked at one fee, deleted or settled at another |
| `EscrowStranded.cfg` | `FeeBase = 13`, `MaxTrans = 2`, check `ExecuteDebitsTheLock` | the rounded fees of two halves exceed the rounded fee of the whole |
| `EscrowProgress.cfg` | `ScheduleOutcomes = {TRUE, FALSE}` | `EveryDealEnds`: a job is not queued, nothing expires the deal |
| `EscrowRaces.cfg` | `SPECIFICATION FairSerialSpec`, `MaxTrans = 1`, check `EveryDealEnds` | after a rise of the fees settlement fails until the attempts run out |
| `DepositRaces.cfg` | `Syncs = {s1, s2}`, `s2 = s2`, `NumDeposits = 2`, `Amount <- UnequalAmounts`, `Hash <- OwnHashes`, `Failures = FALSE` | `CreditedOnce`: two overlapping syncs insert two rows for one transfer; `KnownNotForgotten`: the slower one saves the list without what the other has added |
| `DepositLive.cfg` | `NumDeposits = 3`, `Amount <- SharedAmounts`, `Hash <- SharedHash`, check `EveryDepositCredited` | the second transfer of a transaction has the hash of the first, and is never credited |
| `DepositLive.cfg` | check `SweptIsTracked` | a sweep takes every active address of the users and the networks that have a tracker to sweep (`admins/admins-wallet-ops.service.ts:1878`), whether or not this one has: it is emptied before its deposit is credited, and then holds the 0 its rows say |
| `DepositLive.cfg` | `Failures = TRUE` | `CreditedIsSwept`: the tracker is not reset, or a balance read as 0 marks the address |
| `DepositLive.cfg` | `Failures = TRUE`, `SPECIFICATION FairSpec`, check `SweepCompletes` | a query throws after the flag is set |
| `LedgerSerial.cfg` | `SPECIFICATION Spec`, check `Solvent` | a transfer between the sums and the save of a refresh is undone by it |
| `WithdrawUnseen.cfg` | `Rpcs = 2` | `PaidAsRecorded`: the withdrawal is sent through the second URL as well. The settings give one URL per network today (`settings/admin-settings-config.service.ts:154`) |
| `Members.cfg` | in `Members`, `MixedSaves <- TRUE` in `Id` | `TwoFactorHasSecret`: a setup that is pending is verified and cancelled; both saves select the row before either updates it, one sets `u_active_ggauth` (`users/user-security.service.ts:117`), the other deletes `uggauth` (`:165`) |
| `Members.cfg` | the same | `ApprovedAsProven`: an approval selects the record, a retry replaces documents and photo (`users/users.service.ts:1546`), and the approval updates the status alone (`admins/admins-kyc.service.ts:480`) |
| `Members.cfg` | `TwoVerdicts <- TRUE` in `Bank` | `AttachedIsActive`: two administrators read one new account (`users/bank-users.service.ts:228`); one approves it, the owner puts it to use, the other rejects it |
| `Members.cfg` | in `Members`, two `Requests` in `Limits` | `BoughtWithinLimit`: each purchase fits the sum it saw |
| `Members.cfg` | `Quiet <- FALSE` in `Limits` | `BlockedIsOut`: a request that was admitted before commits after the loop |
| `Members.cfg` | `Overlap <- TRUE` in `Kols` | `RevokedIsNotHealed`: a repair that began before a revocation |
| `Services.cfg` | in `Services`, two `Requests` in `Referral` | `RewardPaidOnce`: both read the reward as unpaid |
| `Services.cfg` | `Unseen <- TRUE` in `Referral` | `RewardPaidOnce`: a payment that was made and not noticed is undone, and made again |
| `Services.cfg` | two `Requests` in `Chat` | `BadgeIsRight`: the older total is sent last |
| `Services.cfg` | `Crashes <- TRUE` in `Addresses` | `TrackedIsSwept`: a row that kept its temporary path is never swept |

What modelling showed besides, and no run is about:

* A late save of a user's row undoes what was written meanwhile: a block (`Identity!BlockSticks` is
  the statement), a verification, a level. The administrator's own update names its column; the
  user's handlers save them all.
* `retryKyc` beside an approval, or a paper submitted twice, takes an approval back; an approving
  and a rejecting verdict on one level-up both apply, the later one to the level the earlier left.
* A verdict on a level-up sets the window to now: what was executed between the flag and the verdict counts
  for no level (`admins/admins-users-ops.service.ts:487`).
* Two requests for a new bank account both see one less than the maximum (`BankAccounts!AtMostMaxBanks`
  holds only in turn). Approving a change of bank account applies the account read before the
  transaction and drops a newer request (`orderbook/orderbook.service.ts:1160`, `:1195`).
* Two verifications of one e-mail address create the default wallets twice, a crash after it none.
* The count of streams in Redis (`Streams!OpenStreamIsCounted`) drifts when a command fails or an
  instance dies.
* The SOL wait for a confirmation ignores `value.err`, and TRON has no wait: a hash there stands for a
  broadcast, and `TransferPromise` says no more of them than that. Topping up native coin on an EVM
  chain makes the fee wallet pay the amount, which the comment at `wallets/wallets.service.ts:1148`
  excludes.
* A SELL listing of a referred user is rewarded at posting, and its deals again as they settle
  (`orderbook/orderbook.service.ts:637`, `orderbook/transaction.service.ts:501`).
* Fees are rounded per part (`transaction.service.ts:135`); fees of 100 % or more make a settlement
  negative and it is refused (`:420`); settlement locks the seller's wallet before the buyer's (`:428`),
  so two users who trade with each other may deadlock, which PostgreSQL resolves by aborting one;
  the queue gives up on a job after its attempts and nothing looks at it again.
* Two withdrawals may both pass the cap of the fund before either has a row (`wallets.service.ts:2546`).
* Users whose ids agree in their last seven digits share the short path a row is inserted with, and
  the full path too when the row ids end alike (and only then: `SharedOnlyByDigits`); the short paths of users 382 and 369 are those of the
  main and the fee wallet (`DepositAddresses` keeps to ids that do not meet).

## 5. What is proved

| theorem | statement |
|---|---|
| `EscrowProofs!TypeCorrect` | `Spec => []TypeOK` |
| `EscrowProofs!SerialInvariant` | `SerialSpec => []SerialInv` |
| `EscrowProofs!PromiseKept` | `SerialSpec => KeepsPromise` |
| `EscrowProofs!OneDispute` | `SerialSpec => []OneOpenDispute` |
| `EscrowProofs!DeletedStays` | `SerialSpec => DeletedStaysDeleted` |
| `EscrowProofs!NoneCreated` | `Spec => NoCoinCreated` |
| `EscrowProofs!ListingsBalance` | `SerialSpec => []ListingBalanced` |
| `EscrowProofs!LocksAreBacked` | `SerialSpec => []Backed`, if the fees are fixed and every fee is a whole number of units |
| `EscrowProofs!ExecuteFindsTheLock` | `SerialSpec => []ExecuteDebitsTheLock`, likewise |
| `EscrowProofs!OnlyDeletingStrands` | `SerialSpec /\ [][DeletesNoneTaken]_vars => []NothingStranded`, likewise |
| `EscrowProofs!OnlyPendingWhenSerial` | `SerialSpec => OnlyPendingConfirmed` |
| `DepositSyncProofs!CreditedOnceWithoutOverlap` | `Spec /\ []OneSync => []CreditedOnce` |
| `DepositSyncProofs!ListedStaysListed` | `Spec /\ []OneSync => KnownNotForgotten` |
| `DepositSyncProofs!CreditedAreSwept` | `SerialSpec => []CreditedIsSwept`, if what is asked is answered |
| `DepositSyncProofs!DepositTypes` | `Spec => []TypeOK` |
| `WalletLedgerProofs!PaidWhenSerial` | `SerialSpec => []PaidAsRecorded` |
| `WalletLedgerProofs!PaidWhenNoticed` | `Spec /\ [][Noticed]_vars => []PaidAsRecorded` |
| `WalletLedgerProofs!LedgerTypes` | `Spec => []TypeOK` |
| `WalletLedgerProofs!StaysSolvent` | `SerialSpec => []Solvent` |
| `WalletLedgerProofs!RefreshReconciles` | `SerialSpec => [][\A r \in Refreshes : RefreshSave(r) => SaveReconciles(r)]_vars` |
| `MembersProofs!MembersTypes` | `Spec => []TypeOK` |
| `MembersProofs!SecretIsThere` | `Spec => []TwoFactorHasSecret` |
| `MembersProofs!ApprovalIsProven` | `Spec => []ApprovedAsProven` |
| `MembersProofs!LevelsEarned` | `Spec => []LevelIsEarned` |
| `MembersProofs!TradesCount` | `Spec => TradeCounts` |
| `MembersProofs!BuyingWithinLimit` | `Spec => []BoughtWithinLimit` |
| `MembersProofs!BlockedStaysOut` | `Spec => []BlockedIsOut` |
| `MembersProofs!AttachedStaysActive` | `Spec => []AttachedIsActive` |
| `MembersProofs!RevocationStays` | `Spec => RevokedIsNotHealed` |
| `ServicesProofs!ServicesTypes` | `Spec => []TypeOK` |
| `ServicesProofs!SavedStays` | `Spec => []SavedIsKept` |
| `ServicesProofs!BadgeStaysRight` | `Spec => []BadgeIsRight` |
| `ServicesProofs!TabsHearOnce` | `Spec => []HeardOnce` |
| `ServicesProofs!CodesStayKept` | `Spec => []CodesKept` |
| `ServicesProofs!ReferrersStayInOrder` | `Spec => []ReferrersInOrder` |
| `ServicesProofs!RewardsPaidOnce` | `Spec => []RewardPaidOnce` |
| `ServicesProofs!RateStaysKept` | `Spec => RateKept` |
| `ServicesProofs!CompleteAreSwept` | `Spec => []SweptOnceComplete` |
| `ServicesProofs!SharedOnlyByDigits` | `Spec => []SharedByDigits` |
| `ChainProofs!TransfersKeepPromise` | `Spec => KeepsPromise` |
| `ChainProofs!ScanStaysExact` | `Spec => []ScanIsExact` |

All are for every value of the constants that meets the named assumptions (counts are naturals,
amounts positive, a fee is a natural number, a URL exists); only `LocksAreBacked` and the two after it
assume more of the fees (`FeesFixed`, `FeesExact`), and the runs that check `Backed` choose fees and
amounts that meet it. What a theorem about
`Members` or `Services` takes from the `INSTANCE … WITH` (one request at a time, no late saves, no saves that mix, one verdict on an account) is what
the run takes, and section 4 says what breaks it otherwise. The theorems about referrals are
instances of those in `SmartRefProofs`.

**Trades.**

* **TypeCorrect** says more than it seems to: `balance` and `lock` are naturals, so no interleaving,
  fee change or stale save makes a column negative. What carries it is that each debit is guarded
  by the column it debits *in the same step*. It is inductive as it stands.
* **PromiseKept** needs to know, of a request about to save, that the entity it holds is the row as it
  is (`Fresh`), that there is one such request at a time (`OneRequest`), and that the two parties of a
  transaction are different real users (`GoodRows`): settling with oneself would not move the coins
  the promise says. These and `TypeOK` are `SerialInv`. Each action then maps to a step of
  `EscrowPromise` or to a stutter; `Settle` is the only one that moves coins between users.
* **OneDispute** adds `DisputeInv`: a request that has checked and is yet to insert its dispute found
  none open, and there still is none, because requests take turns. **DeletedStays** needs only `Fresh`
  of an update: the one handler that could reopen a listing saves a row that was pending.
* **NoneCreated** holds of `Spec`, where the others do not. All that it needs of the rows and of the
  entities in memory (`HeldGood`) is that they name two different users: a settlement debits both
  columns of one and credits the other no more.
* **ListingsBalance**: what is left of a listing and what its transactions took are its amount, and a
  transaction is of a listing that exists (`BalanceInv`). A step rewrites one transaction, and
  the sum over all of them changes by what that one takes (`TakenChanges`).
* **LocksAreBacked** compares a column with a sum over two tables. What a listing or a transaction
  holds of a user's lock is a term; each action changes one or two terms (`OrdersHeldChange`,
  `DealsHeldChange`) and the lock by their difference. The strengthening `PartsInv` says why the two
  differences agree: the seller of a deal on a SELL listing is who posted it, and the fee of every amount,
  taken or left, is exact, so that the fee of a part and that of the rest add up to that of the whole
  (`FeesExact`) and it is the same fee when the part settles (`FeesFixed`). Section 4 shows what happens
  where either fails.
* **ExecuteFindsTheLock** is what a settlement takes from it: the sale is one of the terms, so its debit
  is in the lock (`SaleIsCovered`), and a settlement does not fail for coins that are missing.
* **OnlyDeletingStrands** is the other side. The same steps change the lock by *exactly* what the rows hold
  more or less (`Covered`: each of them concludes both), with one exception: an undone sale gives its
  amount back to a listing that was deleted meanwhile, which holds nothing. `Tight` says of the
  other states that a sale under way has its listing and that no coin is locked for a user number that
  was never given, and it is inductive as long as no listing is deleted while a deal on it goes on
  (`DeletesNoneTaken`). So the counterexample of `EscrowStranded` is the only kind there is, where
  fees are fixed and exact and requests take turns; with `LocksAreBacked`, locks and rows are then equal.
* **OnlyPendingWhenSerial** says the same of `EscrowStaleConfirm`: by `Fresh` and `OneRequest` the status
  that `confirmPayment` checked is still there when it saves, so the interleaving is what that
  counterexample takes.

**Deposits.**

* **CreditedOnceWithoutOverlap** isolates what the code lacks. If two syncs of an address never
  overlap (`OneSync`), what a sync found missing is still missing when it inserts it
  (`MissingHasNoRow`, the strengthening), whatever the sweep, failures and restarts do. Section 4
  shows that the hypothesis is needed.
* **ListedStaysListed** is its companion for the list of known transfers: a sync that is yet to save
  has in memory all that is listed (`ListInv`), so its save forgets nothing, unless it found a conflict: then a
  listed transfer still differs from a row of its transaction, and what replaces the list is not empty.
* **CreditedAreSwept**: of a marked tracker, nothing that has a row is still on the address. `SweptInv`
  says how: sync and sweep exclude each other (`Turns`), a sweep under way holds in its parts all that
  it found (`PartsAddUp`), and a sync that has inserted a row takes the mark off before it does anything else.
* **DepositTypes** contains that an address never goes below 0: what is left to send is covered by what
  is on it (`Affordable`) after each part, with the share of the CEO wallet rounded as it is.

**Custody.**

* **PaidWhenNoticed** says what withdrawals rest on: if no payment goes unnoticed, the stage of the work
  determines how often the chain has paid (`StageOK`), and the row follows the stage. It holds in
  the presence of settled trades, overlapping refreshes and crashes. `PaidWhenSerial` is the
  statement the run checks.
* **LedgerTypes**: the columns and the sums a refresh has in memory are naturals, whatever it
  interleaves with, since both are cut off at 0 where they are computed and guarded where they are debited.
* **StaysSolvent** is per user first (`SolventInv`): what a wallet holds, has sent and has withdrawn or
  reserved is at most what it received; a refresh computes the balance from just these sums and nothing
  comes between (`RefreshFresh`). As in the run, no trade is settled: section 4 has what a settled one
  does. The users are then added up, rows by owner (`TotalByOwner`).
* **RefreshReconciles** is the comment at `wallets/wallets-scheduler.service.ts:901` for every single save, where
  `HoldingsMatchLedger` has it in the end: balance and lock together are what the rows leave. It is
  not so in two places where the code cuts a negative number off at 0: the sum, and the lock subtracted
  from it. What excludes both is solvency. If no accepted withdrawal of the user still has its amount in
  the wallet (`Untaken`), all that counts against the user has left it, so the lock is among what is
  left (`LockWithinLedger`).

**Members.** `MembersInv` says of each component what follows, if a behaviour is one of it.

* **SecretIsThere**, **ApprovalIsProven**: a late save of a whole row does no harm if what it holds is as
  consistent as the row. `IdentityInv` says so of every copy in memory, of the user (`Solid`) and of
  the documents (`Proven`: what was sent in has a photo made for it), for any number of requests and
  administrators (`RowsOK`), and of the records a review that stopped half-way goes on with (`ReviewsOK`). That a
  save writes only the columns that differ is why saves must not mix: what its SELECT has read is then
  still the row (`ReadStands`), so the row becomes the entity as a whole.
* **LevelsEarned** counts: each level above the first took a trade of 100 or more, each above the second
  one of 1000 or more. What is inductive is that with the trades *before the window* of each row (`EarnedRow`), of the row in the
  table and of the stale row that may be saved over it; a flag that is up has earned one level more,
  with a trade inside the window that then becomes the past (`MuchLargerSet` adds it to the count).
  Without the window a stale row would spend the same trade again.
* **TradesCount** is about the daily job alone: it looks at the windows one after the other
  (`WindowOf`: an instant lies in exactly one of them), so the one it stops at is the first with a trade
  that counts.
* **BuyingWithinLimit**: a request that has found room still finds it when it commits (`Room`). What the
  deals under way add up to (`Buying`) changes by one term at a time. **BlockedStaysOut** is by phases:
  `BlockInv` says what each of the three loops has done away with and what is left in its list.
* **AttachedStaysActive**: an account that some setting, request or review refers to was approved once and
  so is active or deleted, and what is in a setting is active, since foreign keys keep it (`BanksInv`).
  A new account that an administrator decides on is not yet referred to (`NewIsUnknown`), and stays so because he
  alone decides on it: that is the hypothesis `TwoVerdicts` drops.
* **RevocationStays**: an approved request, or a flag about to be saved, is one of a user whom the last
  decision made a KOL, and none is left once a revocation has begun (`KolInv`).

* **MembersTypes** is more than types where they have bounds: what a listing asks for is at most the limit
  of its user's level. Deals taken from it give their amounts back when they are undone, so what is
  inductive is the bound on the listing *with* all that pending deals may still give back (`RoomInv`, a sum
  that `OwedChanges` changes by one deal at a time), and that only a pending deal is undone.

**Services.** `ServicesInv`, likewise.

* **ServicesTypes** is proved last, since what it says beyond types rests on the invariants of the parts
  (`ServicesFit` has what they lack): a full window of the rate limiter has an oldest slot to wait for, a
  channel is no longer than the notes that were published, a code a request holds exists, the hash a call
  returns is one of its plan's, the unseen counts are bounded by what was written. `ReferralTypes`
  in `SmartRefProofs` showed that a reward of level 1 was begun even where the setting allows no level,
  where `disputeSmartref` returns early (`smart-ref/smart-ref.service.ts:298`); `Distribute` has had that
  guard since.
* **CompleteAreSwept** is what `TrackedIsSwept` comes to rest on. A complete row is at the path that a sweep
  derives from it, and whatever request is yet to save it, or tracker refers to it, has its user and
  network (`AddressSigned`). So a tracker that has caught up with a complete row is swept, through
  crashes and overlapping creations; what is left to liveness is that it catches up. **SharedOnlyByDigits**
  adds when two complete rows have one path: the components of the users' ids agree, and the ends of
  the rows do (`PathParts`, `AddressApart`), which is what section 4 says of ids that meet.
* **TransfersKeepPromise** looks one level below, at a single `Send`. Every plan broadcasts once; where
  the call is in it and how its last request ended determine what has been paid and what of that is
  unseen (`TransferInv`), and a URL that is tried again starts with nothing unseen.
  The step that returns a hash is then the promise's.
* **ScanStaysExact** is about loops: pages, chunks of logs, blocks from the head back, signatures. For
  each kind of source, `LookedAt` says which blocks or rows lie behind the place the loop has reached;
  `ScanInv` says that what is found is a *list* of the deposits among them: all, each once (`Lists`). It
  is kept since the next page, chunk or block has nothing in common with what was looked at
  (`MoreFound`), and since there is room for all of it, so that no list is cut (`RowsFit`; a page is not
  longer than the most that is kept, which `Parameters` says: 100 and 200 of 500). At the end of a
  source, all that is wanted lies behind it (`WantedNewest`, `FromBlockIs`). Two things were needed that
  the run does not show: the newest `n` rows have every deposit of the last `n` blocks, as a row is never
  older than its place (`RowsList`); and where the logs of the last blocks were read first, the sources
  after them, which look further back, are asked only because nothing was wanted (`NothingRecent`).
* **ReferrersStayInOrder** rests on `TreeInv`: a referrer is older than whom he refers, so his own
  referrer is settled, and the row that is written next is for the referrer of the latest one.
  **RewardsPaidOnce** rests on `RewardInv`: what a request in flight pays for is marked with its row and
  unpaid, and the undo frees that and nothing else.
* **SavedStays** is mutual exclusion with a lock that outlives its holder. `FilesInv`: a call past the
  lock holds it and keeps it fresh, and what it has merged has everything that was saved. It says
  nothing once a process has died between the two steps of writing (`torn`).
* **BadgeStaysRight**: at most one conversation is open, the only one whose messages change, and the
  badge is wrong only while a request is yet to tell (`ChatInv`). A sum over conversations changes
  with the one that is written to, seen or closed.
* **TabsHearOnce**: what a tab has heard is an *unbroken piece of the channel* (`Piece`), from where it
  connected to what its instance has read. Nothing is published twice, as a note that is saved and not
  yet published is not on the channel (`StreamInv`); so nothing is heard twice and nothing left out.
* **RateStaysKept** is a statement about *all* slots given, of which the code keeps a filtered list. The
  two agree on every age below a second (`LimiterInv`), so the length of the one bounds the
  other, whatever the limit does while the caller sleeps.
* **CodesStayKept**: a code is accepted in one step and used up in a later one. `UsedOnce` ties the two:
  a code that is still alive was accepted by the request that is about to use it up, or by calls that
  died, which are counted. `HoldsTrue` is what a request in flight knows of the code it holds, and
  `NewestOnly` says that of one kind only the newest code is valid, so that no other can be accepted.

**Sums.** `SumTheorems` has what the proofs of `ListingsBalance`, `LocksAreBacked`, `DepositTypes`,
`LedgerTypes`, `StaysSolvent`, `RefreshReconciles`, `MembersTypes`, `BuyingWithinLimit`, `BadgeStaysRight`,
`ServicesTypes` and `RateStaysKept` need of sums over rows: one term more, one or two terms changed, terms compared, added, or grouped by owner. The rule
of induction in the library takes a predicate as a parameter, which the provers cannot instantiate. The
module states the rule for a *set* of numbers instead, and derives it from the existence of a least
element, so that each lemma about sums is an induction over the set of lengths for which it holds. The
lemmas of `ChainProofs` about the rows of a list that are kept (`OnlyInOrder`) are proved likewise.

**Model-checked only.** Liveness (`EveryDealEnds`, `EveryDepositCredited`, `SweepCompletes`,
`EveryWithdrawalEnds`, `ApprovedIsVerified`, `TrackedIsSwept`, `HoldingsMatchLedger`), which rests on
fairness and is out of the prover's reach. `CompleteAreSwept` and `RefreshReconciles` are the safety
behind the last two. Every invariant and every action property of a passing run is a theorem.

## 6. What is not modelled

* The chat rooms of transactions, marking notifications as read, and the forum: rows that are
  appended and flagged, each by one statement.
* Statistics, summaries and histories for administrators and users: queries without state.
* The accounts and sessions of administrators, which mirror those of users (`Accounts`).
* Transfers an administrator starts besides the sweep: the gas subsidy between collecting wallets
  (`feeSubsidyToMain`), transfers by hand. On a chain they are calls of `ChainTransfer`.
* The free-withdrawal allowance (the fee is the constant 0) and the 60-second cache of settings
  outside `RpcLimiter`; `Escrow` reads the settings as they are, and fees change at any time.
* Currencies and their prices, e-mail, uploads, the connection to BullMQ, middleware, guards,
  filters, the modules of the framework, scripts: input and output, or without a protocol.

## 7. Plan

What is left, in this order.

1. `WalletLedger` with overlapping refreshes as its own serial and interleaved pair, and an abstract
   ledger it refines; the fee and the fund's sweep rows.
2. `feeSubsidyToMain` beside `DepositSync`'s sweep: they share the collecting wallets.
3. Releases of the unlock scheduler that throw: after a change of the fees they may fill the hundred
   lowest ids (`orderbook/p2p-coin-unlock.scheduler.ts:83`).
4. The cache of settings composed with `Escrow`, and chat rooms.
