# Verification of newapi

newapi is a Go gateway in front of many AI providers, with a TypeScript front
end. A user's request is authenticated, its price is estimated and
reserved, it is relayed to an upstream channel, and the quota it really used is
settled afterwards. Several gateway processes share one SQL database and one
Redis; the console runs in several tabs of a browser that share a cookie, and
follows work that goes on behind it. This directory holds TLA+ models of the
parts where several processes, failures and retries meet: on the same rows in
the server, on the same session, task or message list in the front end. TLC runs
check them on small instances, and TLAPS proofs cover the safety of each model
for every instance: the two server protocols, the settlement of tasks, the
browser sessions, the updates page and the playground chat.

Paths below are relative to `src/`.

## 1. Inventory

### 1.1 Request billing ledger

*Files*: `service/billing_session.go`, `service/funding_source.go`,
`service/billing.go`, `model/wallet_preconsume.go`,
`model/billing_adjustment.go`, `model/billing_adjustment_spool.go`.

*State*: `users.quota` (the wallet), `tokens.remain_quota` (the API token's
budget), one `wallet_pre_consume_records` row per request (reserved or trusted,
then settled or refunded, with a 120 s lease and a delivery mark), one
`billing_adjustments` row per request (pending, applied, rolled_back), spool
files on the node's disk and a map in its memory, and a `BillingSession` in the
handler's memory.

*Operations*: pre-consume, trust bypass, top-up (`Reserve`), delivery mark,
`Settle`, `AcceptDeliveredSettlement`, `Refund`, `Rollback`, lease refresh, and
three recovery passes (spool into pending rows, pending rows into applied rows,
expired reserves).

*Hard*: settle is several transactions (spool, insert, look up, drop the spool,
apply, and the retry path of the same); token and wallet are debited by
different transactions before the settle and by one transaction in it; expiry
recovery on another node may close the reserve at any point of it; a recovery
pass applies rows it read earlier; a process may die between any two steps.

*Correct when*: each request is charged at most once; wallet and token pay the
same bill; what has been taken is always what the rows say; a returned charge
stays returned; a delivered reserve is not given away by recovery; nothing
stays undecided once its process is gone.

### 1.2 Relay entry points and delivery marks

*Files*: `controller/relay.go`, `controller/relay_client_delivered.go`,
`relay/common/relay_info.go`, `middleware/recover.go`,
`middleware/request-id.go`. They decide when the ledger's operations are called:
refund on a relay error or a panic before the settle, settle after a success,
rollback when a task's consumption log fails, and the mark after a write.
Request ids are fresh per HTTP request (a WebSocket call gets its own suffix).

### 1.3 System task scheduler

*Files*: `model/system_task.go`, `service/system_task.go`. Rows of background
tasks (pending, running, succeeded, failed, cancelled) with a unique
`active_key` while they are active, one lock row per lock type with an owner and
a deadline, a runner per master node with heartbeats, a sweep of stale locks and
a recovery of running rows without a lock. *Hard*: a runner that lost its lease
while it works, a lock whose task has ended, two masters claiming, a claim whose
answer is lost, a heartbeat that outlives its handler. *Correct when*: one active
task per key; a task is executed by one runner, once; its outcome is final; a
runner that lost its task stops; nothing stays running without an executor.

### 1.4 Quota cache and reservation

*Files*: `model/quota_reserve.go`, `model/user_cache.go`,
`model/token_cache.go`. Redis copies of the balances, reserved by Lua scripts
and written back to the database, with hydration on a miss and compensation on a
failed write. *Hard*: cache and row change in two steps. *Correct when*: the
database never goes below zero through a reserve, and a lost compensation costs
at most a cache entry.

### 1.5 Async tasks and their settlement

*Files*: `controller/relay.go` (submission), `model/task.go`,
`model/task_settlement.go`, `service/task_polling.go`,
`service/task_billing.go`, `service/task_accounting_atomic.go`.

*State*: the `tasks` row (status, quota, and in its private data the settlement
status, the pending refund, the attempted quota and the flags of an unresolved
ledger row), one `task_settlement_records` row per accounting, the ledger row
and the wallet reserve of 1.1, and the copies of the task row that polling
passes hold.

*Operations*: insert, charge, consumption log and rollback of the submission;
polls that report an outcome by compare-and-set on the status; refund and
recalculation, through the ledger row while it is open and through the
settlement record afterwards; review and its retry; the recovery of refunds,
settlements and unresolved ledger rows.

*Hard*: passes overlap within and between nodes; a pass writes back only the
fields it changed since it loaded the row; the submission may die anywhere, with
its charge in a spool file; the ledger recovery acts on its own.

*Correct when*: in the end the wallet has paid what the task row says; no refund
is paid twice or forgotten; a finished task does not stay under review.

### 1.6 Subscriptions

*File*: `model/subscription.go`. Pre-consume records against a subscription that
is reset periodically, with leases like the wallet's. *Hard*: a reset between
the reserve and the settle.

### 1.7 Payments, redemption codes

*Files*: `model/topup.go`, `model/redemption.go`. Orders completed by webhooks
that arrive more than once. *Correct when*: an order credits once.

### 1.8 Browser login sessions

*Files*: `web/src/lib/auth-session.ts`, `auth-session-sync.ts`,
`http-client.ts`, `web/src/stores/auth-store.ts`, `web/src/routes/__root.tsx`,
`web/src/features/auth/`, `web/src/routes/oauth/$provider.tsx`, and on the server `service/auth_session.go`,
`model/user_session.go`, `controller/auth_session.go`.

*State*: the refresh cookie that all tabs share, the auth store, the epoch, the
refresh promise, the pending GETs and the query cache of each tab, a Web Lock, a
BroadcastChannel, and the session rows with their rotating secret and version.

*Operations*: bootstrap and route guards, refresh, login by the form or by an
OAuth callback, logout, security change, queries with their retry after a 401, broadcast events, reloads;
rotation with a grace period, reuse detection and revocation on the server.

*Hard*: tabs spend the same secret at once; the cookie changes while a request
is out; answers arrive after the session they belong to was left; answers and
events are lost.

*Correct when*: a page and its cache do not mix two sessions; no refresh puts an
older token back; the cookie stays a secret the server knows; every
refresh settles; a session that is over is left.

### 1.9 Upstream model updates page

*File*: `web/src/features/channels/hooks/use-channel-upstream-updates.ts` and
its dialogs; the server's handlers in `controller/channel_upstream_update.go`.

*State*: the refs and the state of the hook, the id of the followed task in
sessionStorage, the requests in flight, the preview dialog; on the server the
current task and the finished ones.

*Operations*: detect-all, apply-all, the discovery timer, the poll loop, cancel,
leaving and opening the page; open, detect, select and apply in the dialog.

*Hard*: each of them awaits requests while the others go on; answers are stale
when they are used; refs outlive the page that made them; the stored task may be
gone.

*Correct when*: one poll loop at a time; a running task is followed, a finished
one is let go; the page does not stay busy; what is applied is what was shown.

### 1.10 Playground chat

*Files*: `web/src/features/playground/hooks/` (`use-chat-handler.ts`,
`use-stream-request.ts`, `use-playground-state.ts`,
`use-playground-conversation.ts`), `web/src/features/playground/lib/`.

*State*: the generation of the request, the stream controller, the chunks that
wait for the flush, the message list with the updaters React has not run, the
copy in localStorage and its timer.

*Hard*: a stop, an edit or a new send supersedes a request whose answers and
queued updaters are still to come; a stream ends with chunks in the buffer; the
page is closed in the middle of an answer.

*Correct when*: no request writes into the answer of another; a stream that
reached its end shows all its text; an idle page shows no unfinished answer;
generating ends.

### 1.11 Everything else

Channel selection and affinity, rate limiting, the rest of authentication, relay
adaptors and the rest of the front end. They are request-local, or pure data
conversion, or one atomic script on the Redis server, or the rendering of server
data; PROJECT.json gives the reason per part.

### 1.12 Hazards

PROJECT.json lists the main ones at their lines, with the properties that would
catch them, and a note where a property excepts a case. Four more are known,
have no property and are not in the list: the token is debited before the wallet
reserve is written, so a crash in between leaves it debited
(`service/billing_session.go:823`); the lease refresher outlives a failed refund
(`service/funding_source.go:113`); a recovery pass imports at most 100 spool
files and files that can never be imported count towards the limit
(`model/billing_adjustment_spool.go:262`); the cached and the stored balance
diverge between reserve and write back (`model/quota_reserve.go:249`).

## 2. Plan

Done, in this order:

1. `BillingLedger` with `BillingContract`, its runs and its proofs: this is the
   money, and the part with most interleavings.
2. `SystemTasks` with `SystemTaskSlot`: leases, claims, heartbeats, takeover and
   the sweeps, their runs and their proofs.
3. `WebSession`: sessions of several tabs against the server's rotation, with
   the proofs of its invariants and action properties.
4. `UpstreamTasks` and `UpstreamPreview`: a page that follows server tasks, with
   the proofs of their invariants.
5. `PlaygroundChat`: streams, superseded requests and the saved conversation,
   with the proofs of its invariants.
6. `TaskSettlement`: the task row on top of the ledger, with the proof of
   `MoneyMatchesTask`.

Next:

7. `QuotaCache`: Redis copy against row, hydration, compensation; property:
   the row never goes negative through a reserve.
8. `SubscriptionLedger`: the subscription branch of the ledger and its reset.
9. `SpoolDirectory`: the batch limit of the recovery pass.
10. The fence of `LockSystemTaskForExecution` once a handler that uses it is
    modelled.

## 3. What is modelled

### 3.1 `BillingLedger`

One module for the session, the wallet row, the ledger row, the spool and the
recovery passes, because every interesting behaviour crosses them. A database
transaction is one step. Between two transactions of a handler anything else may
happen, and where the code handles an error of a transaction there is an action
for the failure.

| variable | code |
|---|---|
| `wallet`, `token` | `users.quota`, `tokens.remain_quota` |
| `rec[r]` | the `wallet_pre_consume_records` row; `amount`, `collected`, `delivered` are its columns; `lease` is `LeaseUntil` seen against the clock: "live", "expired", or "detached" once the ledger row owns the reserve |
| `row[r]` | the `billing_adjustments` row; `req` holds ChargeQuota, ReservationQuota and FundingDelta (TokenDelta is equal) |
| `disk[r]`, `memory[r]` | the spool file and the in-memory spool entry |
| `stale[r]` | a pending row a recovery pass has read and will apply |
| `pc[r]`, `sess[r]` | where the handler stands and its `BillingSession` |
| `walletNet[r]`, `tokenNet[r]` | history variables: what the request has taken, net. No guard reads them. |

| actions | code |
|---|---|
| `PreConsume*` | `BillingSession.preConsume`: token, then wallet, compensation; trust bypass; zero estimate |
| `Reserve*` | `BillingSession.Reserve`, `IncreaseWalletPreConsume` |
| `WriteResponse`, `MarkClientDelivered` | `clientDeliveredWriter` and the mark |
| `Settle`, `EnsurePending`, `Lookup`, `Apply*` | `settleIdempotentLocked`: spool, pending row, look-up, apply |
| `Persist*` | `persistRetryableBillingAdjustment` |
| `AcceptDelivered`, `Collect*` | `AcceptDeliveredSettlement`, `CollectDeliveredBillingCharge` |
| `RequestFails`, `Refund*`, `Rollback*`, `LedgerRefundFails` | `Refund`, `Rollback`, `RollbackBillingAdjustment`, `RefundBillingReservation` |
| `LeaseExpires`, `RefreshLease`, `RecoverExpired` | the lease and `RecoverExpiredWalletPreConsumes` |
| `RecoverUnpersisted`, `ReadPending`, `RecoverPending` | the two other recovery passes |
| `Crash` | the process dies: session, refresher and memory spool are gone |

Choices that a reader should know:

- *A failed statement may have committed.* `EnsurePending` may insert the row
  and still answer "error"; `Apply`'s retries and `Persist` then meet it.
- *`shouldTrust` reads balances loaded earlier*, so both answers are possible
  and the trust bypass is a nondeterministic alternative to the debit.
- *Compensations are best effort.* The code logs their error and goes on, so
  they may credit nothing.
- *Conflict and Closed answers* are kept although a single session never meets
  most of them: recovery passes do, through stale reads and leftover files.
- *Failed settle*: text handlers ignore the error of the settle, so a request
  whose `AcceptDeliveredSettlement` fails too ends "abandoned", with the
  refresher running; only a panic or the end of the process follows.

### 3.2 `BillingContract`

What a user is promised, without rows, leases or processes: a request is open
while an estimate is held, may lapse, and is decided by one step that makes both
purses pay the same bill, or by a return that gives everything back. A charge
can be taken back, a return is final. `LedgerImplementsContract` maps the rows
to a verdict and the history variables to the purses.

### 3.3 `MCBillingLedger`

The module the runs start from; the instances are in the `.cfg` files.

### 3.4 `SystemTasks`

One lock type: every statement of `model/system_task.go` is keyed by the lock
type, the task or the active key, so lock types do not meet.

| variable | code |
|---|---|
| `status[t]`, `owner[t]` | `system_tasks.status` and `locked_by`; "absent" before the insert, "gone" after the delete |
| `keyed` | the rows whose `active_key` is set |
| `lock` | the row of `system_task_locks`; `live` is `locked_until` seen against the clock |
| `up`, `claim[r]` | the runners that are alive, and the `ClaimSystemTask` call each is in |
| `exec[r][t]` | the `runWithLeaseHeartbeat` call: `pc` of the handler, `hb` of the heartbeat goroutine, and the two `sync.Once` flags |
| `late[t]` | history: batches deleted after the task stopped running, counted up to `LateCap` |

| actions | code |
|---|---|
| `CreateSystemTask` | `CreateSystemTaskWithActiveKey` under its three callers |
| `ClaimRead`, `Acquire*`, `ClaimCheck`, `ClaimWrite`, `ClaimUpdateFails`, `ReadBackFails`, `ClaimRelease`, `ClaimMark`, `Dispatch` | `ClaimSystemTask`, `acquireSystemTaskLock`, the claim pass |
| `StartHandler`, `StartFails`, `Unwind*`, `Heartbeat*` | `runWithLeaseHeartbeat` |
| `StateSaved`, `StateRefused`, `DeleteBatch`, `HandlerError`, `FinishSystemTask` | `runLogCleanupTask` with `UpdateSystemTaskState` and `FinishSystemTask` |
| `CancelSystemTask`, `ExpireStaleLock`, `RecoverOrphan`, `CleanupInactiveLock`, `DeleteHistory` | the operations of the same names |
| `LeaseExpires`, `Crash` | time, and the end of a process |

Choices that a reader should know:

- *No clock.* Whoever takes a lock over must find it expired. A statement of the
  lock's owner carries a timestamp read before it was sent, so it may still
  accept a lock that has expired meanwhile; the model always lets it, and always
  lets it be refused as well. This includes clocks that differ between nodes.
- *The claim's UPDATE is two steps.* Under PostgreSQL's READ COMMITTED the
  `EXISTS` on the lock table is evaluated on the statement's snapshot, and a
  wait for the task row that ends without a change of that row does not repeat
  it. So a runner may write the row although its lock was taken in between. The
  model keeps that behaviour for all databases: the row is then running, its
  first renewal fails, and the task is failed without being executed.
- *Races inside a transaction.* A takeover and the orphan recovery read the lock
  row without locking it; `AcquireOvertaken` and the second disjunct of
  `RecoverOrphan` are the renewals that can slip in before their commit.
- *Errors.* Every statement may fail, before or after it took effect, where the
  code goes on in a way that differs.
- *Cancellation of the handler's context* only makes its database calls fail;
  `HandlerError` is always possible.
- *Runner ids* are drawn at random by each process, so a restart is another
  runner of `Runners`.

`SystemTaskSlot` is the promise to whoever queues tasks: one active task per
key, given to one runner once, ended once, with an outcome that stays.

### 3.5 `WebSession`

A page is one record per tab. What JavaScript does between two awaits is one
step, and so is the chain of continuations that a settled refresh runs.

| variable | code |
|---|---|
| `srv[s]` | the `user_sessions` row: state, number of rotations, whether the previous secret is within its grace period, version, and whether the user's auth version is ahead of it |
| `cookie` | the refresh cookie: session and number of rotations, counted modulo `rot + 1` |
| `lock` | the holder of the Web Lock |
| `events[t]` | undelivered BroadcastChannel messages |
| `page[t]` | auth store, refresh in flight (`rf`, with `current` for "its epoch is still the page's"), the user's operation, pending GETs, and the owners of what the query cache holds |

| actions | code |
|---|---|
| `ResolveAuthentication`, `RunRefresh`, `RefreshServed`, `RefreshFails`, `RefreshContinues` | `auth-session.ts` and `RefreshLoginSession` |
| `Login`, `OAuthCallback`, `Logout`, `Rotate` | the sign-in form, the page an OAuth provider returns to, the sign-out dialog, a security change |
| `OperationServed`, `OperationFails` | the server's handlers of these, and their failures |
| `OperationContinues`: `LoginAnswered`, `OAuthAnswered`, `RotationAnswered`, `LogoutAnswered` | what the page does with the answer, and the cookie that comes with it |
| `Fetch`, `GetAnswered`, `GetFails` | `api.get` and the interceptors of `http-client.ts` |
| `Deliver`, `DropStaleEvent` | `subscribeAuthSessionEvents` and its listener in `__root.tsx` |
| `Reload`, `TokenExpires`, `SessionEnds`, `GraceEnds` | reload, time, revocation |

Choices:

- The Set-Cookie of an answer is stored and its continuation runs in one step;
  that cookies of two answers are stored in either order is kept, so a late
  refresh answer can overwrite the cookie of a newer login, as it can in a
  browser.
- The answer of a login form goes through `handleLoginSuccess`, which drops it
  when the form is no longer mounted (a choice in the model) or the page's
  session is not the one of its render. The OAuth callback page
  (`routes/oauth/$provider.tsx:224`) applies its answer as it is.
- An OAuth callback page comes out of a navigation, so it has run no query; it
  sends its login once the root's bootstrap is over, whether or not that found a
  session.
- `AUTH_REFRESH_RACE`, which the client retries, is never sent by this server.
- A security change is two transactions on the server (user, then session).

### 3.6 `UpstreamTasks`

| variable | code |
|---|---|
| `srv` | the server's current task and the finished or pruned ones (`SystemTasks` seen from outside) |
| `stored` | the id in sessionStorage |
| `mount`, `mounted` | the life of the page and `mountedRef` |
| `ui[m]` | per life: `detectAllRef`, `applyAllRef`, the controller ref, the current task |
| `calls[s]` | the asynchronous calls: detect-all, apply-all, recovery; `current` says whether the run's generation is still the newest, `aborted` its signal |
| `lookup`, `cancel[m]` | the discovery request and the cancel request |

| actions | code |
|---|---|
| `DetectAllUpdates`, `ApplyAllUpdates`, `CurrentContinues`, `StartContinues` | the two calls up to the hand-off to a run |
| `Resolved`, `ResolveFails`, `UnresolvedEnds`, `Poll*`, `AbortedReturns`, `ReportEnds` | `pollAndReportModelUpdateTask`, `waitForModelUpdateTask` |
| `LookupCurrentTask`, `LookupContinues`, `RecoveryCall` | the discovery timer and the resume effect |
| `CancelModelUpdateTask`, `CancelContinues`, `CancelEnds` | `cancelModelUpdateTask` |
| `Leave`, `Reopen` | unmount and mount |
| `Serve*`, `Started`, `Task*`, `*Fails` | the server's answers, its tasks, failed requests |

A request for the current task, a start and a cancel are answered in one step
and continued in a later one; a poll reports only a terminal status, which is
stable, so it is one step. Terminal answers to `/current` and start answers
without a type are not sent by this server. The restart of the effects when the
language changes is not modelled.

### 3.7 `UpstreamPreview`

`dlg` is the dialog, `detects` and `apply` the requests, `diff` and `rows` what
the server and the channel table have. `OpenModal`, `CloseModal`,
`DetectChannelUpdates`, `Select` and `ApplyUpdates` are the user's,
`DetectContinues` and `ApplyContinues` the continuations, the rest is the server
and the network. Additions and removals are one set of changes.

### 3.8 `PlaygroundChat`

| variable | code |
|---|---|
| `gen`, `reqs[g]` | `requestGenerationRef` and the request of each generation |
| `sgen`, `source` | the stream controller's generation and source |
| `buf`, `timer` | the text waiting for the flush and its timer |
| `list`, `queue` | the rendered messages and the updaters React has not run |
| `busy` | requesting and streaming, and what the render shows of them |
| `latest`, `saving`, `stored` | `latestMessagesRef`, the save timer, localStorage |
| `editing`, `life` | the open editor and the life of the page |

| actions | code |
|---|---|
| `Send`, `Regenerate`, `SubmitEdit`, `SaveEdit`, `Delete`, `Clear`, `StopGeneration`, `OpenEditor`, `CloseEditor` | the user |
| `HeadersReady`, `ChunkArrives`, `StreamDone`, `StreamFails`, `StreamCloses`, `HeadersFail`, `PlainAnswered` | the network, with the handlers that follow |
| `FlushTimer`, `Render`, `SaveTimer` | timers and React |
| `Leave`, `Crash` | the page is left (its unmount effect saves) or dies; it is loaded again and made stable |

A text is a sequence of numbered pieces. A delta is merged into the buffer by
`MergePendingStreamChunk` and into the message by `GetAppendableChunk`: text
that begins with what is there replaces it, respectively contributes only its
rest. What a stream sends is part of the setup: deltas of "new" text that
repeats nothing, deltas that each carry the "whole" text so far, which is what
the two merges are for, or "any" pieces, repeated ones included. Content and
reasoning are merged alike, and the model has one of them.

`setMessages(updater)` puts
an updater in `queue`; with an empty queue React may run it at once, so both
happen. An updater reads the refs when it runs: `ApplyAll` runs the queue in
order, against the generation of the render. Messages are compared by `Key`,
which stands for the nanoid of the code: role and request, of which a list holds
one each. Updates of a click are rendered before the next event. Two tabs that share
localStorage and the trimming of a full storage are not modelled.

### 3.9 `TaskSettlement`

One wallet-funded task that is not an image task and did not finish during its
submission. A transaction or a read is one step.

| variable | code |
|---|---|
| `task` | the `tasks` row |
| `record` | its `task_settlement_records` row |
| `row`, `spool`, `reserve` | ledger row, spool file and wallet reserve: `BillingLedger` reduced to its states and what they move, for a request charged at its reservation |
| `paid` | history: what the wallet has paid, net |
| `submit` | the submitting handler: where it stands, the row it holds, and the baseline its partial writes compare with |
| `job[w]` | what a polling pass does, with its loaded row and baseline |

| actions | code |
|---|---|
| `Insert`, `Submit*` | `executeTaskSubmissionWith` from the insert on |
| `ImportSpool`, `RecoverPending`, `ExpireReserve` | the passes of 3.1 |
| `Poll`, `CompareAndSet`, `RecoverRefund`, `RecoverSettlement`, `RetryReview` | what a pass takes up |
| `Sync*`, `Unflagged`, `FinalizeRecalculation`, `Delta`, `Begin`, `Apply`, `SettlePrepaid` | settlement of a finished task |
| `LoadAdjustment`, `Release*`, `RefundApplied`, `RefundBegin` | `RefundTaskQuota` |
| `RecordReview`, `Review`, `Reopen`, `Save` | reviews and the partial writes |
| `JobFails`, `JobCrash`, `SubmitCrash` | database errors and deaths |

The setup names what may go wrong in the submission after the insert: the charge
goes to a spool file ("spool") or can be stored nowhere ("unsaved"), its
application fails ("apply"), the write of the review fails ("review"), the
fallback write fails too and the task stays as it was inserted ("fail"), the
consumption log fails ("log"), the rollback fails ("rollback"), the process dies
("crash").

A task without flags whose ledger row is pending is read a second time
(`SyncRead`, `SyncAct`), and a row rolled back in between is persisted without
an error. An applied refund in the record must be one of the quota the task
shows (`RefundApplied`), else the task goes under review. `JobFails` has an
outcome for each place where the code handles a database error: the error of the
ledger part, which puts the task under review unless it is being retried, the
record's review, and the failed write of a settled task or of a refund.

`ExpireReserve` comes after the end of the submission: a running handler
refreshes its lease, and one that ended without a settle does so until its
process ends. Only image tasks write the record status APPLYING, so it is left out.

### 3.10 Setups

`WebSession`, `UpstreamTasks`, `PlaygroundChat` and `TaskSettlement` have a
variable `setup` that never changes. Its value is taken from the constant
`Setups`, which the MC module lists: each setup says who may act, what may fail
and how often. Everything at once is beyond TLC; a setup is one combination of
users and failures that meet, and one run checks all of them.

## 4. Runs

| run | bounds | shows |
|---|---|---|
| `billing_relay` | estimates 0, 2, 3; charges 0, 1, 4; wallet 3, token 4 | `TypeOK`, `LedgerInv`, `WalletMatchesLedger`, `TokenMatchesLedger`, `RolledBackIsFinal`, `RecoveryKeepsDelivered`, `LedgerImplementsContract` for a relay request; `SpooledChargeIsDecided` and `CrashedReserveCloses` under fair recovery |
| `billing_task` | the same | `LedgerImplementsContract` for an async submission: no trust bypass, no mark, `Rollback` after a finished settle, refund after a failed one |
| `billing_trusted_leak`, `billing_delivery_gap` | estimate 2 | violations, see 6 |
| `system_tasks_race` | 2 tasks, 2 runners, no crash, no deletion of rows; symmetric | `TypeOK`, `TaskInv`, `ExecutedByOneRunner`, `AtMostOneLateBatch`, `ExecutorKeepsLease`, `LeaseEndsWithTask`, `ImplementsSlot` |
| `system_tasks_liveness` | 1 task, 2 runners, one may crash | `AbandonedIsReaped`, `PendingIsClaimed` under fair sweeps and claims |
| `web_session` | 2 tabs, up to 2 sessions, 3 versions of a token, 9 setups, at most 1 fault | `CookieKnown`, `CacheIsolated`, `NoDirectSwitch`, `TokenNeverOlder`, `RefreshSettles`, `EndedSessionLeaves` |
| `upstream_tasks` | 2 calls in flight, up to 2 tasks and 2 lives of the page, 7 setups, at most 1 failed request | `OneLiveLoop`, `RunningTaskFollowed`, `BusyEnds`, `AnchorReleased` |
| `upstream_preview` | 2 channels, 2 changes, 2 detections in flight, 1 failure; symmetric | `ListOfChannel`, `LoadingBacked`, `ListPostedOnce`, `AppliedAsShown` |
| `playground` | 3 requests of 1 delta with edits, or with one reload; 2 requests of up to 3 deltas of new or whole text; 2 of up to 2 deltas of any wording; 5 setups | `NoForeignText`, `SettledMessages`, `AllTextShown`, `GenerationEnds` |
| `settlement` | reservation 2; prices 1, 3 or as reserved; up to 2 passes and 3 failures; 6 setups | `MoneyMatchesTask`, `PendingRefundPaid`, `SuccessSettles` |
| `settlement_expiry` | the submission dies, its reserve expires, nothing else fails | violation, see 6 |

Every property of a passing run has a mutant of the code in PROJECT.json that
breaks it. In the modules of 3.5 to 3.9 the type invariant is a conjunct of the
first invariant.

*Billing.* All billing runs use one request. Requests share only the two
balances, and a balance is read by one guard per debit (`want <= wallet`), so a
second request adds only failures of that guard, which `PreConsumeWalletFails`
and its siblings take unconditionally; the proofs cover any number of requests.
The estimates allow a zero estimate, a trusted one, a top-up from each of them
and a top-up the wallet cannot pay. The charges lie below and above the reserve
and at zero, so the settle delta is negative, positive, and the whole reserve;
with a charge of 4 the wallet goes below zero, which the settle permits. An
estimate collected by expiry (2 or 3) can exceed the charge, so the correction
is a credit. Deadlock checking is off: every request may end.

*System tasks.* Two tasks are needed for a takeover by a successor and for a
stale release, two runners for every race. `LateCap` is 2, one more than the
property allows. A runner that crashes is, for the others, one that takes no
more steps, so the race run leaves crashes out; the liveness run has them, and
the proofs have both.

*Web sessions.* Two tabs suffice for every conflict on the cookie, the lock and
the channel. Two sessions are needed to mix them up; three or more rotations to
fall two behind, and three versions for two security changes whose answers cross.
Queries in two sessions are checked without token expiry, which
is too large in combination, and so is the OAuth callback with a login beside
it; a second setup has the callback with expiring tokens and no login. Deadlock checking is off in this and the following
runs except `upstream_preview`: users may stop acting, and faults run out.

*Upstream tasks.* Two calls are a detect-all and the recovery or apply-all that
crosses it; two tasks are the one the page follows and its successor; two lives
are what it takes for a call to outlive its page. In `upstream_preview` two
detections of two channels are the late answer and the one it must not replace.

*Playground.* Three generations are a request, the one that supersedes it and
the stop or send after that. Three deltas are one flushed, one in the buffer and
one that arrives before the end; two are enough for one to repeat the other.
`AllTextShown` claims nothing of the setup with deltas of any wording, which is
there for the other properties.

*Settlement.* The prices lie below and above the reservation, or are not known
(0: billed as reserved). Two passes are the overlap. The first setup has them with three
failures and every failure of a submission that ends regularly; the next three
have submissions that die or give up, the fifth one pass that overtakes the
submission, the last a reserve that expires. `MoneyMatchesTask` names the cases
in which it is claimed: `Regular`, which is the first setup and the theorem of
5, and `DiesCharging`, `DiesRollingBack` and `OvertakenByOne`, which are the
setups two to five. In the other cases the code does not always keep it; 6 lists
what was found, and `settlement_expiry` looks at the reserve that expires. `PendingRefundPaid` and
`SuccessSettles` are claimed of the setups with one pass.

### Fairness

- `billing_relay`: weak fairness of the recovery passes and of the lease running
  out. `StartSystemTaskRunner` starts a ticker on every node, master or not,
  that runs all three passes for the life of the process; a process that died is
  assumed to be restarted on the same disk, since the spool is local to the
  node, and the database is assumed not to fail for ever. Nothing is assumed of
  handlers. The lease may be refreshed again and again while its refresher
  lives, so `CrashedReserveCloses` speaks about dead processes only.
- `system_tasks_liveness`: every runner sweeps and claims on a ticker
  (`StartSystemTaskRunner`), so the sweeps and the claim steps are weakly fair
  as long as a runner is up. A lease that nobody renews runs out; nothing is
  assumed of one that is renewed. The steps of a claim that can fail are
  strongly fair: the database does not fail, and the lease of several minutes
  does not run out, within every single claim. Nothing is assumed of handlers
  and heartbeats.
- `web_session`: answers and events arrive and continuations run (weak, per
  tab). Taking the Web Lock is strongly fair, because browsers grant it in the
  order of the requests. A mounted query is fetched again. Nothing is assumed of
  users. Faults are bounded by the setup, so at some point answers get through.
- `upstream_tasks`: answers, continuations and the discovery interval (weak).
  Nothing is assumed of the user, and a task may run for ever.
- `playground`: headers, the end of a stream and plain answers arrive unless the
  request fails or closes first, the timers fire and React renders (weak).
  Nothing is assumed of the user.
- `settlement`: a submission and a pass that run go on, and the nodes run the
  recovery loops and polling passes for ever (weak). Failures are bounded.

## 5. Theorems

`BillingLedgerProofs` proves `TypeCorrect`, `LedgerInvHolds`, `WalletCorrect`,
`TokenCorrect`, `RolledBackFinal` and `DeliveredKept`, and
`BillingLedgerRefinement` proves `LedgerRefinesContract`, for any set of requests
and any natural estimates, charges and opening balances.
The only assumption is `LedgerAssumption` in `BillingLedger`.

`WalletMatchesLedger` is not inductive: the settle adds `charge - pre` to what
was taken, and that is the charge only if the session's `pre` is what the wallet
row holds at that moment; `RecoverPending` adds the delta of a request that was
read earlier. `LedgerInv` closes the gap, request by request:

- `PhaseInv`: which places of the handler come before and after the first settle,
  and that a rolled-back row means the handler has ended;
- `CopiesInv`: while the row is undecided every copy of the settle request, in
  the row, on disk, in memory, in a recovery pass, is the session's own;
- `RecordInv`: until the row is decided the session's `pre` is what the wallet
  row holds, and a decided row has a closed wallet row;
- `TokenInv`: the token has paid `pre` when the settle begins.

The proof has three layers. `FrameHolds` and `FrameInv` show that a step of one
request leaves all others untouched, so the invariant is proved for one request
at a time. `ApplyMoneyEffect` and `CreditReservationEffect` say what the two
ledger transactions leave behind from any undecided state: exactly the charge,
exactly nothing; `DecidedInv` says that this re-establishes the invariant.
Then there is one lemma per group of actions. The two action properties
follow from the invariant with a case split on the actions.

The refinement needs three more facts about a step: an applied row is left alone
or rolled back (`DecidedStays`), a rolled-back one is final (`RolledBackFinal`),
and while the row is undecided a closed wallet row stays closed, keeps its amount
and was closed without moving the token (`UndecidedKeeps`). The amounts in the
contract's `Charge` and `Return` come from the invariant after the step.
`RequestContract` puts these together for one request, `ContractNext` lifts it to
all requests with the frame.

`SystemTasksProofs` proves, for any sets of tasks, runners and crashing runners,
`TasksTypeCorrect`, `TaskInvHolds`, `ExecutedOnce`, `LateBatchBounded`,
`LeaseKept`, `ExecutorHoldsLease` and `TasksRefineSlot`, from
`SystemTasksAssumption`. That a task is executed once does not rest on the lock
at all but on the row: `ClaimWrite` alone gives a row its owner, and only to a
pending one. `TaskInv` says so (`Unowned`, `ClaimBeforeExec`, `ExecByOwner`),
with `KeysMatch` for the unique key and `LateInv` for the fence: a handler about
to delete has no late batch yet, because it was the owner of a running row at
its last state update, and there is one handler. The proof first says what any
step may do to the rows (`RowShape`), to an execution (`ExecChange`) and to a
claim (`ClaimChange`), so that each part of the invariant needs a handful of
cases. `LeaseStep` goes through all actions once and carries both lease
theorems; the refinement follows from `RowShape` and `KeysMatch`.

`UpstreamPreviewProofs` proves `PreviewListOfChannel`, `PreviewLoadingBacked`,
`PreviewPostedOnce` and `PreviewAppliedAsShown` for any sets of channels and
changes and any number of detect requests in flight, from the
`ConstantsAssumption` of `UpstreamPreview`. That a list belongs to the dialog's
channel says nothing of the answers still to come; `Sound` adds that at most one
request is awaited, that it names the dialog's channel and that the dialog shows
it (`AwaitedShown`), and that a list once posted is either being applied or
carries the error or the result of its post, which is what the guards of
`applyUpdates` look at (`PostedMarked`). A detect answer can then replace a list
only while nothing is being applied.

`UpstreamTasksProofs` proves `TasksOneLiveLoop` for any number of calls, tasks,
lives of the page and failures, from the `ConstantsAssumption` of
`UpstreamTasks`. The count of live loops is not inductive by itself: a call that
begins a run aborts the holder of the controller ref, not every loop. `Tracked`
says that this is enough: a live loop and a run whose generation is current hold
the controller ref of their mount (`Holds`), and only runs that poll or report
are current. Two live loops of one mount would hold the same ref.

`WebSessionProofs` proves `SessionCookieKnown`, `SessionCacheIsolated`,
`SessionNoDirectSwitch` and `SessionTokenNeverOlder` for any number of tabs,
sessions, rotations, versions and events and for every user, from
`WebSessionAssumption`. The invariant `Sound` has these parts:

- `PageOk`, about one page: a current refresh was sent for the session the page
  shows, and its bundle is no older than the page's token (`RefreshOk`); a login
  form is shown to a page without a session, and the answer of a login carries a
  new session with its first secret (`OperationOk`); only queries of the page's
  own session feed its cache (`QueriesOk`);
- `Versions`: no token in the browser is ahead of its row;
- `LoginOnce`: whatever the browser holds of a session came out of the answer of
  its login, and that answer comes once;
- `Locked`, for browsers with Web Locks: who has a refresh at the server holds
  the lock; the cookie is the secret its session's row has or the one before; the
  cookie did not change under the refresh, and the answer brings the row's;
- `ForeignGone`, likewise: a GET that was retried with the token of another
  session is filed under a session that its page has left and to which nothing
  in the browser can bring it back;
- `CacheOk`, likewise: the property itself.

`SessionNoDirectSwitch` excepts one step, the answer of an OAuth callback
(`OAuthArrives`), which replaces whatever session its page has. `LoginOnce` is
why that cannot bring an old session back, and an OAuth page may by then hold
the answers of another session in its cache; `SetStore` drops them, so
`CacheOk` does not need the exception.

The action properties need no invariant of their own: `NextSound` proves of each
step that it preserves `Sound` and that every page `Moves` only as they allow.
The parts are operators of the rows, the cookie and the pages, so that the step
of a page (`PageStep`, `StepSound`) and the step of the server (`ServerStep`,
`ServerSound`) are each treated once; the lemma of an action then only has to
show that it is such a step. TLC checks `Sound` on the setups of `web_session`
(and `Sound` and `Tracked` of the other modules on theirs).

`PlaygroundChatProofs` proves `ChatNoForeignText`, `ChatSettledMessages` and
`ChatAllTextShown` for any number of requests, chunks, lives of the page and
updaters in the queue, from the `ConstantsAssumption` of `PlaygroundChat`. None
of the three is inductive: they look at the list, and what it will be is decided
by updaters that wait in the queue and compare `requestGenerationRef` only when
they run. The invariant `Sound` is therefore about `View(g)`, the list after a
run of the whole queue at generation `g`, for the generation of now and for the
next one, since a stop or a new send may come before the render:

- `Generations`: the page, the stream controller and the buffer agree on the
  generation, and later requests do not exist;
- `Generating`: the page is requesting exactly while its newest request is live,
  and text is buffered only then;
- `Lists`: every list, rendered, saved or to come, has only messages of requests
  made so far and none that another request wrote to (`Pure`); while a request is
  live, the rendered list and the one to come end in its unfinished answer, the
  only one it has (`Answering`), so a queued updater cannot hit another message;
- `Settling`, without edits: only the last message may be unfinished, and with no
  live request none is once the queue has run;
- `Whole`, when nothing may drop text: the answer to come and the buffer fit
  what was received (`Agree`). With deltas of new text they are its two parts;
  with deltas of the whole text the answer is its beginning, and the buffer is
  all of it or empty with nothing missing. `AgreeArrived` and `AgreeFlushed` say
  that the two merges keep this, from the number that every piece has.

That a queue of any length can be run, and that one more updater is one more
`Apply` (`RunExists`, `RunUnique`, `ApplyMore`), is an induction; `Induction`
states it for a set, which the provers can instantiate, and derives it from the
well-foundedness of the naturals. The removal of a message (`Without`) is
treated the same way. `ChatAllTextShown` says nothing of a stream one of whose
deltas begins with the text before it by chance; there the code loses text, see
6.

`TaskSettlementProofs` proves `SettlementTypeCorrect`, `SettlementSound` and
`SettlementMoneyMatches` for any reservation, any prices and any number of
passes and failures, from `SettlementAssumption`. `MoneyMatchesTask` looks only
at a task with nothing left to do. What gets it there are writes of row copies
that the submission and the passes loaded earlier, so the invariant `Accounts`
says for each phase of the task what decides the money and what every copy may
still write:

- `Submitting`: no pass has the task, and the wallet has paid the reservation
  unless the ledger row is rolled back (`Charged`);
- `Waiting`: the row shows the reservation, under review exactly when the
  submission left its charge to the ledger's recovery (`Deferred`); a pass that
  holds the task has yet to report (`Reporting`);
- `Succeeded`: the settlement record decides (`Price`). The row says the same
  (`CostOk`), and every copy has the reservation or the price, and differs from
  its baseline only towards the price (`Settles`). A pass after a deferred charge
  loaded the row under review and before it had a price, so its partial write
  cannot bring an old quota or the review back (`SettlesDeferred`). A pass after
  an applied charge writes no quota of its own (`SettlesCharged`);
- `Failed`: the ledger row decides again. A pass that refunds goes through the
  ledger (`Owned`, `RefundingJob`), and the row's quota is cleared only once the
  ledger row is rolled back.

There is one lemma per action and phase; the transactions of the ledger and of
the record are treated once, and the lemmas about `Overlay` and the partial
writes say which fields a stale copy can change. TLC checks `Sound` with two
passes, prices 0 to 3, three failures and every failure of a regular submission.

The theorem is about setups that are `Regular`: the submission ends with its
last write, whatever failed before it ("crash" and "fail" are not in the setup),
no pass takes the task up before that and no reserve expires. Without it the
property is false as soon as there are enough passes, failures and prices; 6
lists the cases. In a regular setup the refund through the record (`RefundBegin`) is not
reached, so the theorem says nothing about it.

Two properties changed or were limited by the proof:

- `TokenNeverOlder` used to say that no step at all gives a page an older token.
  With two versions TLC found nothing; the proof failed at the answer of a
  security change, which `applyAuthRotation`
  (`web/src/lib/auth-session.ts:170`) applies to whatever token the session has.
  The property now excepts that step (`RotationArrives`), and the run has three
  versions.
- `SessionCacheIsolated` assumes Web Locks. Without them the code falls back to
  unlocked refreshes; a search with three tabs then finds a violation of 37
  steps, in which a late refresh answer brings the cookie of an old session back
  and a GET retried meanwhile is joined by the page that returned to it. The run
  has a setup without Web Locks, but two tabs do not reach this.

The lemmas about sets the proofs use come from `FiniteSetTheorems`.

*Only model-checked*: the liveness properties, which need fairness and
`ENABLED`; `MoneyMatchesTask` for submissions that die, give up or are
overtaken, in the cases `DiesCharging`, `DiesRollingBack` and `OvertakenByOne`,
with the refund through the record.

## 6. Findings

- **Trusted reserve left open** (`service/billing_session.go:761`). `Reserve`
  clears the trusted flag before its top-up has succeeded. If the top-up fails,
  `Refund` sees no reservation and no flag and returns, although the comment at
  line 742 says the obligation must be closed on failure. The trusted row stays
  open and its refresher keeps it alive until the process ends. No money is
  lost: nothing was debited.
- **Delivery gap** (`controller/relay_client_delivered.go:19`). The body is
  written first and the mark follows in a transaction of its own whose error is
  swallowed (`relay/common/relay_info.go:1055`). A crash in between lets expiry
  recovery refund a reserve whose response the client has, which the comment at
  line 11 rules out.
- **Second refund of a task whose submission died** (`model/wallet_preconsume.go:480`).
  A submission that dies after it inserted its task as prepaid
  (`controller/relay.go:1072`) and before it wrote a ledger row leaves a reserve
  that expiry recovery returns, without writing a ledger row. When the task then
  fails, `RefundTaskQuota` finds no ledger row and credits the task's quota as
  well, the case its comment (`service/task_billing.go:1515`) sets out to
  exclude. `settlement_expiry` shows the wallet credited with more than it paid.

### What the code does that the properties except

These were met while modelling. No comment or test of the repository says
otherwise clearly enough for a run of its own, or they need a combination that is
excepted in the property or not in any setup.

*Ledger*
- `AcceptDeliveredSettlement` charges a rolled-back row again when a delivered
  request is settled a second time under the same id
  (`service/billing_session.go:241`, `model/billing_adjustment_test.go:1455`).
  No handler settles after it rolled back, so `RolledBackIsFinal` holds of the
  handlers; the second call is not an action.

*Sessions*
- The page of an OAuth callback applies the login it asked for
  (`web/src/routes/oauth/$provider.tsx:226`) without the check of
  `handleLoginSuccess`. When the root's bootstrap or a later refresh has
  established a session there, the page passes from that one to the new one
  directly. `NoDirectSwitch` excepts the step.
- A security change commits the user's auth version and the session's version in
  two transactions (`service/auth_session.go:279`); a refresh of another tab in
  between ends the session, although the comment at line 186 says the change
  preserves the current one.
- A `signed_out` event that reaches a tab which is still starting is ignored;
  the tab finds out with its next query (`EndedSessionLeaves`).
- Without Web Locks two tabs may spend the same secret, and one of them may then
  be a replay; `CookieKnown` is about browsers that have them. With three tabs
  the query cache can then mix two sessions as well, see 5.
- Two security changes in one session, of two tabs, whose answers cross leave a
  tab with the older token (`web/src/lib/auth-session.ts:170`): a tab that
  already has the newer one from a refresh takes its own late answer. The next
  request is refused and refreshed. `TokenNeverOlder` excepts the step.

*Upstream updates*
- Detect-all hands its ref over to the run it found. When the stored task cannot
  be resolved (its row was removed, or the request for its type fails), no run
  begins and nobody clears `detectAllRef`
  (`use-channel-upstream-updates.ts:1232`, 1003-1017); the retry promised in the
  comment at 1091 waits for that ref, and the page stays busy until it is left.
  `Resolvable` in `UpstreamTasks` excepts this from the liveness properties.
- A stale discovery answer can make the page report a finished task twice.
- The finally of an apply-all clears its ref even after a cancel and a second
  apply-all (line 841).

*Playground*
- A stream that closes with status 200 and without `[DONE]` raises no error and
  has no timeout: the page generates until Stop is pressed. `GenerationEnds`
  excepts it.
- A delta that begins with all the buffered text replaces it
  (`use-chat-handler.ts:56`), and one that begins with all the text of the
  message loses that beginning (`message-streaming-utils.ts:73`). This is meant
  for streams that repeat the text so far; with deltas of new text, "ha" after
  "ha" is shown as one "ha". `AllTextShown` excepts streams in which that
  happens.
- Stop discards what is in the 50 ms buffer.
- An edit saved while an update is queued replaces the list by one computed
  before the update (`use-playground-conversation.ts:89`), so a completed answer
  can look unfinished again. `SettledMessages` is checked without edits.

*Settlement*
- A pass that dies between the write of FAILURE and the refund
  (`service/task_polling.go:3839`) leaves a failed task whose refund nobody
  takes up: the mark that recovery looks for is not part of that write.
  `PendingRefundPaid` is about marked refunds; `MoneyMatchesTask` about tasks
  with nothing left to do.
- A task billed as reserved is settled without a look at the ledger
  (`service/task_polling.go:4041`), and a task under review is not compared with
  it (`service/task_billing.go:1329`). After a submission that died, or whose
  last write failed, after its rollback, the row then says more than the wallet
  paid: with one pass and a price of 0 or a database error, or with two passes.
- The baseline of a partial write is not refreshed by the write itself
  (`model/task.go:3457`): a field changed and set back is not written back. With
  such a submission and two overlapping passes the quota ends at 0 although the
  price was charged.
- A submission dies after it spooled its charge, one of two passes finds no
  ledger row and refunds through the record, the spool is imported meanwhile and
  the other pass rolls the imported row back. With two passes, a death of the
  submission and a database error there is a similar one without the spool.
- A pass that finishes a task before its submission is over meets the
  submission's late failure write (`model/task.go:3561`). With one pass this
  takes a submission that spools its charge or whose apply, log, or store and
  review fail; with two passes nothing else has to go wrong, and both a refund
  through the record and one through the ledger can go through.
- `MoneyMatchesTask` claims none of these four; its three named cases are the
  deaths and overtakings without them.
- A charge that could be stored neither in the ledger nor in a spool file leaves
  the task flagged as unresolved with no ledger row to resolve it
  (`service/billing_session.go:347`): it stays under review. `SuccessSettles`
  excepts it (`ChargeLost`).
- Two passes can send each other's application of a record into review for ever
  (`model/task_settlement.go:460`). The liveness properties are about one pass.

## 7. Not modelled

In the ledger: subscription funding; the path of a request without an id;
the playground, which leaves the token out; a token deleted meanwhile; the Redis
copies of the balances; `ReleaseWalletPreConsume` and `rollbackFundingReserve`,
which nothing calls; a second settle of a request that was rolled back; the
release of a prepaid task by the poller, which is in `TaskSettlement`; the limit of 100 per recovery pass. Integers are unbounded:
balances are 64-bit columns and a request's quota is a Go `int`, both far from
their limits here.

In the system tasks: the handlers other than the log cleanup, among them the
model update, whose writes `LockSystemTaskForExecution` ties to the task row in
one transaction; the due dates of the scheduler; rows of older versions whose
active key is their type; `MarkSystemTaskFailed` and `MarkSystemTaskLeaseExpired`,
which nothing calls; payload, state and result texts.

In the sessions: the second step of a two-factor login, the session cookie of
older versions, the Redis copy of a session, the card that lists sessions.

In the upstream page: the restart of effects on a change of language; the
contents of a report; which channels a task covers.

In the playground: two tabs that share localStorage, the trimming of a full
storage, reasoning as a text of its own, attachments, model and parameter
settings.

In the settlement: image tasks and results that are there at submission;
subscription funding; token, usage counters and settlement logs; the interplay
of the token with the task, which follows the wallet; the review that a failed
finalizing write of a recalculation may leave, which is treated as a plain error.

Elsewhere: sections 1.4, 1.6 and 1.7 have no module yet (1.4 and 1.6 are in the
plan), 1.11 is out of scope. Most of the repository's lines are user interface:
forms, tables, charts and translations that render server data and keep only
local state, and relay adaptors that convert one vendor's format into another's.
There is no protocol in them to check, so the models cover a small share of the
lines and aim at the code where steps of several actors meet.
