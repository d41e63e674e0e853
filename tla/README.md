# MosaicVPN: a TLA+ development

MosaicVPN is a VPN client and the service behind it. A Go daemon (`mosaicd`)
owns the tunnel on the user's machine and drives a `sing-box` child process; a
Python service (`bot/`) sells subscriptions over Telegram and HTTP, keeps
balances, links devices to accounts and maintains the pool of routes; a Flutter
app, a desktop shell and a CLI are clients of the daemon. This directory holds
TLA+ models of the parts whose correctness depends on the order of events,
TLC instances that check them, and proofs that TLAPS checks.

## 1. Inventory

| Part | State it keeps | Operations | Interacts with |
|---|---|---|---|
| Connection manager (`internal/state/state.go`, `verify.go`, `route_memory.go`) | visible status, cancel function of the current attempt, one watcher goroutine per established attempt, route ledger | ConnectWithFallbacks, Connect, Disconnect, HotReload, watchRuntime, Subscribe, SetTunnelPrefs | called by every HTTP and MCP handler without a lock; calls the backend and the store |
| sing-box backend (`internal/state/singbox_backend.go`) | child process, its cancel function and done channel, proxy and control addresses | Start, Stop, HotReload, RuntimeHealth, Stats | manager; operating system; child process |
| Resolver (`internal/state/resolve.go`) | none (pure) | pick a server and fallbacks from groups, pool and emergency list | store, pool |
| Network memory (`internal/netmemory`) | verdict history per network and route | Record, Reorder, Prune | manager, store |
| Store (`internal/store`) | servers, groups, rules, prefs, last server; one JSON file | mutate-and-save, Snapshot | everything in the daemon |
| Pool client (`internal/pool`, `internal/subs`) | fetched manifests, measured nodes | refresh, probe, select | store, HTTP |
| Single instance (`internal/single`) | lock file or mutex | Acquire, Release | `cmd/mosaicd` |
| Kill switch (`internal/killswitch`) | firewall rules | Enable, Disable | operating system |
| Daemon API (`internal/api`, `internal/mcp`, `cmd/mosaicd`) | sessions, tokens | HTTP handlers | manager, store |
| Invoices, invites, administrative credits (`bot/bot.py`, `bot/sponsored_invites.py`) | invoices, invites, credit orders | poll, webhook, claim, redeem, extend | payment providers, VPN panel, SQLite |
| Browser login (`bot/onboarding_auth.py`) | login challenges | create, approve, poll, consume, prune | SQLite, Telegram, website |
| Accounts (`bot/bot.py`) | users, credentials, sessions, four kinds of codes, chat bindings | register, log in, reset, issue, redeem, bind, /start, /profile, rotate a link | SQLite, Telegram, VPN panel |
| Notifications (`bot/bot.py`) | `notification_history`, block flags, broadcasts | one pass a minute, send, broadcast | Telegram, VPN panel, SQLite |
| Billing (`bot/mosaic_billing.py`) | accounts, wallets, ledger, payments, trials | credit, debit_one_day, refund_debit, run_daily_debits, complete_payment, freeze, unfreeze, bulk grant | PostgreSQL, VPN panel |
| Pool collector (`bot/mosaic_pool_collector.py`, `mosaic_pool_scheduler.py`) | scheduler file, node rows, groups, alert file | fetch, schedule, probe, update, upsert, alert | feeds, PostgreSQL, files |
| Pool configuration (`bot/mosaic_pool_health.py`, `rebuild_pool_config.py`) | sing-box configuration, state file, lock file, service | health check, rollback, rebuild | files, systemd |
| Clients (`flutter/`, `ui/`, `native/`, `cmd/mosaic`) | screens and caches | user interface | daemon API |

What is hard in it:

* **Concurrency.** The manager's mutex covers single critical sections; Start,
  Stop, the truth-check and the disk writes run outside of it, so requests, the
  watcher, the goroutine that reaps the child and the child itself interleave.
* **Failure.** The child can die at any moment, a Stop may give up after five
  seconds, a save may fail. In the bot a crash may fall between a committed row
  and the call to the VPN panel that it stands for.
* **Ordering.** A late `Disconnect`, a late watcher tick, a late answer of the
  panel, a second webhook: each meets a state other than the one it read.
* **Timeouts.** Waiting for the listener, probing, stopping; panel calls that
  time out after they have taken effect.
* **Two memories.** The scheduler's file and the database, the configuration and
  the health state, `notification_history` and what Telegram delivered: each
  pair is written in two steps, and a process may die between them.

## 2. Plan

In order of importance; steps 1 to 14 are done.

| Step | Modules | What it is for |
|---|---|---|
| 1 | `SingBoxBackend`, `ConnManager` (which extends it) | the daemon's core: who may start, stop and report on the tunnel |
| 2 | `ConnManagerProofs` | types, owned phases and current handles for any number of requests |
| 3 | `Remnawave`, `Accrual` (which extends it) | every way of giving a subscriber days |
| 4 | `AccrualProofs` | at-most-once crediting for any number of threads, orders and crashes |
| 5 | `OneTimeGrant` | what a login challenge, a pairing code and a browser code promise |
| 6 | `BrowserLogin`, which implements it | login challenges with SQLite's transaction boundaries |
| 7 | `Accounts`, which implements it too | credentials, sessions, codes, bindings and what a chat's commands save |
| 8 | `Billing` | wallet, ledger, daily debits and refunds |
| 9 | `PoolHealth`, `PoolCollector` | the pool's configuration and the evidence behind it |
| 10 | `Funnel` | what subscribers are told, and how often |
| 11 | the serial part of `ConnManagerProofs`, the invites of `AccrualProofs` | what one caller may rely on, and what an invite's status says |
| 12 | `BrowserLoginProofs`, `AccountsProofs` | both refinements of `OneTimeGrant`, and the safety of sessions and bindings |
| 13 | `BillingProofs`, `PoolHealthProofs`, `PoolCollectorProofs` | debits, failure counts and evidence for any number of runs, checks and nodes |
| 14 | `FunnelProofs` | nobody is told twice, and every term's end is announced |
| 15 | the sums of `BillingProofs` and `AccrualProofs`, the batches of `PoolCollectorProofs` | the invariants about sums and cardinalities: every wallet is the sum of its ledger, no day is lost but in a race, every batch is fair |
| 16 | open | liveness, which stays with TLC (see section 10) |

## 3. The daemon's connection core

`SingBoxBackend` is `internal/state/singbox_backend.go`, `ConnManager` is
`state.go`, `verify.go` and the recording half of `route_memory.go`.

*Grain.* A Go critical section (`mu.Lock` ... `mu.Unlock`) is one action, and so
is every step between two of them that others can observe: the kill, the wait,
the dial, a probe, the ledger entry. Each API request is a thread `t`; `mpc[t]`
is its place in the manager's method and `bpc[t]` its place in the backend's
method it is calling. A method called from another one (`Disconnect` from
`Connect`, `Stop` from `Start`, `Connect` from `HotReload`) runs its own actions
and returns to the caller's control point.

*State.* `cmd`, `handle` and `socks` are the fields of the backend; an attempt's
number stands for its context, its cancel function and its child, since an
attempt starts at most one child. `proc` is the operating system's view:
unborn, running, killed (it may take its time), exited, reaped by the goroutine
behind `cmd.Wait`. `state`, `server` and `mcancel` are the manager's status and
cancel function, `watcher[a]` is the `watchRuntime` goroutine of attempt `a`,
`ledger` the last verdict per route. `owner`, `probed` and `moved` are history
variables; the last is the attempts whose session HotReload has ever shown on
another server.

| Code | Actions |
|---|---|
| `ConnectWithFallbacks`, `walkCandidates` | ConnectRequest, NextCandidate, WalkEnds |
| `Connect` | ConnectRefused, ConnectReplaces, ConnectBegin, StartFailed, EnterVerifying, RejectRoute, VerifyFailed, RememberVerified, Announce, Persist |
| `verifyActiveTunnel`, `verifyTunnel` | ReadProxies, TrustNoProxy, ProbeCancelled, ProbeAnswered, ProbeFails |
| `watchRuntime` | WatchTick, WatchFire, WatchStop |
| `Disconnect` | DisconnectRequest, DisconnectNothing, DisconnectEnter, DisconnectEnd |
| `HotReload` | ReloadRequest, ReloadSkip, ReloadEnter, ReloadBackend, ReloadApply, ReloadEnd |
| `SingBoxBackend.Start`, `waitForListen` | StartRefused, StartSpawn, WaitForListen, Dial |
| `SingBoxBackend.Stop` | StopTake, StopKill, StopWait, StopClear |
| child process, `cmd.Wait` goroutine | ProcExit, Reap |

*Abstractions.* The resolver's answer is any list of distinct servers; the
generated sing-box configuration is the server it is for; ports are the
preferred one or one of the child's own; a probe is answered or not. The
reasons for which Start refuses are one action without a condition, because the
environment decides them.

## 4. Crediting of subscriptions

`Remnawave` is the panel and the bot's client for it, `Accrual` the four callers
in `bot/bot.py` and `bot/sponsored_invites.py`. All four follow one pattern:
claim a row of the SQLite database in a guarded update, call the panel, record
the outcome. A thread is an HTTP request (`Workers`) or
`polling_invoices_thread` (`Poller`). A database transaction is one action, a
request to the panel is one action, and everything between two of them may
interleave.

| Code | Actions |
|---|---|
| `save_invoice`, `save_lava_invoice`, `SponsoredInviteStore.create` | SaveInvoice, InviteCreate |
| `polling_invoices_thread` | StartRound, CheckSaysNothing, CheckSaysPaid, CheckSaysExpired, BuyerDone, ReferrerDone, RoundFails |
| `_handle_lava_webhook`, `process_lava_paid_invoice` | LavaWebhook, LavaDone |
| `_handle_invites_redeem`, `SponsoredInviteStore.claim`, `finish`, `revoke` | InviteClaim, InviteSave, InviteSucceeds, InviteFails, InviteRevoke, InviteExpire |
| `_handle_admin_balance_credit` | AdminClaim, AdminDone |
| `api_get_user`, `api_extend_user`, `api_create_user` | CallLookup, CallRead, CallWrite |
| the process itself | Crash (threads are lost, database and panel stay; `Restart=always`) |

*What is assumed of the panel.* An object that the client returns implies the
effect. A timeout or a connection error, which it raises, leaves the effect
open, and so does None: `api_extend_user` and `api_create_user` return it for
every other failure, among them a gateway's 502 or 504 after the write and a
body that breaks off after a 200. A request that is carried out at all is
carried out before the caller goes on. User names are unique. The clock stands still: the modelled steps take seconds
and dates count days.

*Abstractions.* A subscriber has one name in the panel (the bot's `tg_<id>` and
the name it stored are not told apart); an invoice that the provider cancels
counts as expired; messages to the subscriber are left out. A claim that comes
too late changes nothing and is therefore no step.

## 5. One-time grants: browser login and accounts

`OneTimeGrant` is the abstract specification: a grant names an account, is taken
at most once, for the account it names at that moment, and names no other one
afterwards. It may be withdrawn or replaced. `BrowserLogin` and `Accounts` are
shown to implement it, with `holder` mapped to the account in the row and
`taker` to a history variable that records for whom the call answered.

`BrowserLogin` is `BrowserLoginStore`. Every call runs on a SQLite connection of
its own; `poll` and `approve` read first and write later, so each is two
actions, and `consume`, which runs under `BEGIN IMMEDIATE`, is one. `row` is the
table, `live` the expiry, `th` what a thread has read and not yet written back.

| Code | Actions |
|---|---|
| `create`, `prune_expired` | Create, PruneExpired |
| `poll` with the right secret | PollRead, PollWrite |
| `poll` with a wrong secret (`_verify_secret_and_get_row`) | PollWrongRead, PollWrongWrite |
| `approve` | ApproveRead, ApproveWrite |
| `consume` | Consume, ConsumeWrong |

`Accounts` is the part of `bot.py` that decides who may act for an account:
website credentials, web sessions, pairing codes for an application, codes from
the browser to the application, codes that bind a chat to an account, reset
tokens, and the chat's commands that save a profile. `req[p]` is what thread `p` has read; `era` is the
password version behind a credential, `ex` marks one that is known to survive a
reset, or a save that is known to go to a bound chat. Codes and session tokens
are drawn from sets of unused values, e-mail delivery and rate limits are left
out, and a refused request is no step.

| Code | Actions |
|---|---|
| registration, login, attaching a password | CreateWebsiteAccount, AuthenticateWebsiteAccount, AttachWebsiteCredentials, CreateWebSession |
| password recovery | IssuePasswordReset, ResetWebsitePassword |
| pairing codes | IssueLinkCode, LinkCommand, ChatIssuesLinkCode, RedeemLinkCode, BurnLinkCode |
| browser codes | IssueAppAuthCode, RedeemAppAuthCode |
| binding a chat | IssueTelegramLinkCode, ClaimTelegramLinkCode, UnlinkTelegramAccount |
| `/start` of a chat without a profile | SendWelcome, WelcomeSaves |
| the repair of a profile without its link: `/start`, `show_profile`, `get_user_sub_url` | ShowProfile, GetUserSubUrl, HealSaves |
| the button for a new link | RotateConfirm, ChatResolves, HealSaves |
| `polling_invoices_thread`, `process_lava_paid_invoice` | InvoicePaid |

A chat's request reads the profile with `get_user`, which resolves the binding,
and resolves it once more where the code does (`ChatResolves`); then it saves
under the id it has in hand. `/start` and `/profile` use the id of the chat,
`get_user_sub_url` and the rotation that of the account. A paid invoice is saved
under the chat's id, and so is what a session of the chat's own id saves (an
invite, `bot.py:6040`, or a rotation, `bot.py:6172`): with CryptoPay the profile names the provider's user of the
chat, `tg_<id>`, whatever the chat is bound to (`bot.py:2538`), with Lava that of
the account. `crossed` is the set of chats for which one of these saves happened
while they were bound, and only of those that `BoundChatHasNoProfile` names.

## 6. Billing

`Billing` is `mosaic_billing.py`. A function is one PostgreSQL transaction at
READ COMMITTED: what it reads before it holds a row lock is an action of its
own, the rest up to the commit is another. `ledger[k]` is the amount booked
under idempotency key `k`; a row of `daily_debits` is inserted together with its
ledger row, so the ledger stands for both. `run[w]` is a call of
`run_daily_debits`, which reads its list once and then charges, extends,
refunds or disables one account after the other (RunList, DebitRead, DebitWrite,
Extend, RefundDebit, Disable, Advance). A callback to the panel may fail before
or after it took effect. Amounts are units of the smallest price.

## 7. The pool

`PoolHealth`: one configuration file, one state file, one lock, one service.
Health checks (`hc`) load, probe, replace the configuration, restart the
service, roll back when that fails, and save the counts (HcLoad, HcProbe,
HcValidate, HcReplace, HcRestart, HcRollback, HcRestartAgain, HcSave). They
exclude each other; the rebuild (`rb`: RbBuild, RbCompare, RbRename, RbMove,
RbRestart) takes no lock, and between its two renames there is no configuration.
Both may die between any two steps. The outcome of a probe follows the stages of
`probe_outbound` and `probe_candidate_http`, down to alive, dead or no verdict.
`ev` counts the dead verdicts that were really given.

`PoolCollector`: a cycle fetches the feeds, picks candidates, probes them,
updates the scheduler's file, writes the rows and groups in one transaction and
alerts the operator (Collect or CollectUnscheduled, SaveState, UpsertNodes,
SendGroupStarvationAlert; Die at any point, Tick between cycles).
`ScheduleCandidates` is the set of batches the scheduler may return: refreshes
up to their share, then countries that lack nodes, then sources in turn from the
cursor. What depends on measured numbers (weights, tiers of the refresh age,
scores) is left open, so the properties hold for every value. `proof` and `ev`
record what the probes really answered.

## 8. Notifications

`Funnel`: `run_notifications_check` visits the users one by one; `Due` is the
if-elif chain and the independent reminders after it, with the hours of the
code. A send is recorded, delivered without being recorded, refused, or
impossible because the user blocked the bot. The rating branch reads `db_user`,
which only another branch assigns: `Raises` is that case. Broadcasts run in
threads of their own (QueueBroadcast, StartBroadcast, SendBroadcast,
EndBroadcast) and are not resumed after a crash. The clock moves through a few
chosen hours; the subscriber connects, gets invoices and pays in between. The
history variable `warned` records the reminders delivered on the last day of a
term, `lapsed` the deliveries of which the bot was told nothing, `clean` the users
whom a pass visited in this hour without a failure, and who neither paid nor
resumed a frozen account since: for those the next visit counts. `frozen` is the
panel's DISABLED: while the term runs, such an account gets neither the reminder
nor the offers (`Paid`). That the panel calls an account EXPIRED exactly when its
term is over, and ACTIVE again when it is extended, is assumed of the panel;
LIMITED does not occur, since the bot creates accounts without a traffic limit.
A reminder's key carries the date of the term's end (`ends_soon_YYYYMMDD`), the
model uses the hour of that end: a payment adds whole days to the end of the term
or to a later moment, so two terms of one subscriber never end on the same date.
Nothing clears `users.blocked`: `clear_blocked_flag` (`bot.py:7576`) has no
caller.

## 9. The runs

Passing:

| Run | Instance | Properties |
|---|---|---|
| `conn_serial` | one request at a time, 2 servers, 2 attempts, fallback lists of up to 2, 2 probes, a store that swaps one server for the other and back, any number of reloads (0.5 million states) | `NoStrayCore`, `CoreIsReachable`, `ConnectedIsCurrent`, `UnprobedOnlyAfterDeath`, `OnlyOwnSessionFails`, `DeadTunnelNoticed`, `RequestsReturn` |
| `conn_concurrent` | 2 concurrent requests, 1 server, 2 attempts, lists of 1 (1.5 million) | `TypeOK`, `NoOrphanedPhase`, `HandlesAreCurrent` |
| `conn_live` | 2 concurrent requests, 1 attempt, 2 probes, any server list | `RequestsReturn` |
| `accrual` | polling thread, 2 HTTP threads, an order of each kind, 2 claimants, 1 crash (3.4 million) | `TypeOK`, `CreditedAtMostOnce`, `InviteTellsTruth`, `DaysLostOnlyInRaces`, `InvitesStayBound` |
| `accrual_poll` | polling thread, 2 invoices of one buyer with a referrer, 1 crash | `PaidInvoiceIsClaimed` |
| `login` | 1 challenge, 2 accounts, 3 threads, 2 attempts allowed, 4 wrong secrets (0.1 million) | `LoginTypeOK`, `OneApproverUnlessStale`, `LoginIsOneTimeGrant` |
| `accounts` | 1 website account, 2 chats, 2 pairing codes, 1 code of each other kind, at most 2 codes issued, 1 session, 2 threads (1.2 million) | `AccountsTypeOK`, `ResetRevokes`, `BoundChatHasNoProfile`, `CodesAreOneTimeGrants` |
| `billing` | 1 account, 2 runs, 2 credit calls, 2 prices, 2 days, runs that may die at any step (1.1 million) | `BillingTypeOK`, `WalletMatchesLedger`, `DebitIsSettled`, `PaidDayNotDisabled`, `RevokedStaysRevoked` |
| `pool_health` | 2 outbounds, one of them UDP, 1 group, 2 checkers, threshold and cap 1, 2 faults (0.8 million) | `PoolTypeOK`, `CandidatesRemembered`, `FailuresAreConsecutive`, `QuietMeansInSync` |
| `pool_collect` | 2 feeds, 3 nodes, 2 groups, batches of 2, 3 cycles, 1 fault (0.4 million) | `CollectorTypeOK`, `ServedIsProven`, `EvidenceAgrees`, `StarvedIsAlerted`, `SelectionIsFair` |
| `funnel` | 1 subscriber, 1 broadcast, 4 instants over 10 days, one-day terms, 2 invoices, 1 fault (7.4 million) | `MessagedOnce`, `WarnedUnlessSilenced` |

What they show of the daemon: when clients send one request at a time, the
tunnel is sound. Whatever the child does and however long it takes to die,
"disconnected" and "error" mean that no core is running, a running core can be
stopped, and only the session shown can end itself. Two exceptions are part of
the properties: a session may be shown as connected without a probe if its core
died between "verifying" and the truth-check (`UnprobedOnlyAfterDeath`), and the
death of a core may go unnoticed if HotReload has ever moved the session to
another server (`DeadTunnelNoticed`): the watcher knows its session by the
server shown, and a watcher that met another server has ended, so a second
reload back to the first one does not bring it back. With concurrent requests, which nothing in the
API layer prevents, phases and handles stay consistent and nothing blocks, but
the guarantees above are not made.

Of the crediting: no delivery, retry, race or restart gives an order's days
twice; the status of an invite can be trusted, except that `failed` is also
written when the panel carried out the write and answered with an error, which
the handler takes for a refusal (`bot.py:6030-6033`; the history variable
`denied`); days that were written get lost
only when two threads extend the same user at the same time, because the panel
has no "add days" and `api_extend_user` reads and writes in two requests.

Of the service's other parts. The properties name the exceptions the code
really has, so that each holds and says exactly how far:

* A challenge or a code is taken once and for the account it names. Two accounts
  are told that they approved one challenge, and more wrong secrets than allowed
  are answered, only after a poll with a wrong secret wrote back a row that had
  changed meanwhile.
* Sessions that outlive a password reset come from a request that had read its
  evidence before the reset or from a pairing code issued before it. A bound
  chat's `/start` finds the account's profile and makes none of its own, unless
  the binding overtook it or the account has no profile. Without any race a bound
  chat gets a profile of its own when `/start` or `/profile` repair the account's
  missing link, when its invoice is paid, or when a session from before the
  binding redeems an invite or rotates a link.
* The balance is the sum of the ledger. A debited day is extended or refunded,
  never both, unless its run died or the panel's answer was lost; nobody is
  switched off on a paid day unless two runs looked for the debit at once. A
  revoked account that a run had listed is still charged and stays revoked; it
  becomes active with a new top-up or grant or a trial, and also when the panel
  fails and the run gives the day's money back (`refund_debit` is a `credit`,
  which sets any state but frozen to active, `mosaic_billing.py:110`).
* The running service has the configuration on disk once nobody is at work,
  except after a failed restart, a crash, or a rollback that met a rebuild in
  its window. An outbound taken out of a group is remembered, and a failure
  count is at most the number of failures in a row.
* What clients are served answered a probe within the health TTL of the last
  commit, even when the file and the database have drifted apart; every batch
  keeps a place for discovery and one for refreshing.
* No message is repeated unless its delivery was not acknowledged or not
  recorded, the weekly promotion aside, which is meant to be repeated; the last
  day of every term of an active account is announced, a one-day term's too,
  unless the rating branch raises, which then costs that user every message of
  the pass. The owner of a frozen account is not told.

Violation of a sentence in the repository:

| Run | Sentence | What the code does |
|---|---|---|
| `accrual_restart` | `bot.py:2527-2530`, not pending means extended | a crash or a failed call after the claim leaves the invoice paid and never extended |

*Bounds.* `MaxAttempts` bounds the connection attempts of a behaviour, counting
those that its reloads make; a reload that makes none is free, so reloads are
not bounded. Two attempts are needed and enough for an old attempt (its child,
its watcher, its cancel function) to meet a new one. `MaxCands` = 2 makes a fallback
happen, `VerifyAttempts` = 2 a second probe; the code's own values are larger
and only repeat the same steps. Two threads make every pair of requests race;
`login` has three, because a stale write has to meet two approvals. In
`accrual` there is one order per kind, because orders meet only in the panel's
date of a user and all kinds credit the same buyer; `accrual_poll` has two
invoices, because one may hold up another in a round. One crash (`MaxCrashes`,
`MaxFaults`) can fall on any step; `pool_health` has two faults, because a
rollback and a death may meet, and the deaths of billing runs are not bounded.
`MaxCodes` = 2 lets any two of the five
codes be in use in one behaviour; two chats let an account's binding move, and
one be bound to the other's account. Challenges, wallets and subscribers do not interact, so one of
each is enough; two days in `billing` let a run cross midnight. Thresholds and
caps (`Threshold`, `FailCap`, `GroupCap`, `HealthTTL`, `MaxCool`) are 1 or 2, so
that each is reached and met; the theorems of section 10 are about all other
values. `Limit` = 2 is the smallest batch in which
the refresh share is cut; `Countries` has one member, so the order among
countries that lack nodes is not exercised. The hours of `funnel` are the ones
at which different branches of the chain come due; a term of one day begins
within its last day when it follows an expired one, and can be renewed on it. Symmetry is over threads, checkers, outbounds, codes,
requests and servers, and only in runs without liveness properties. `ConnManager`
always accepts a Disconnect request and is checked for deadlock; the other
modules may stop when every order is settled or a bound is reached.

*Fairness.* `ConnManager`: goroutines are scheduled, every wait in them has a
deadline (five seconds in Stop, the probe's timeout, the listener's deadline),
the operating system carries out a kill, and a dead child is waited for. A
watcher's ticker fires again and again. Nothing makes a healthy child die, a
request arrive or the store change. `Accrual`: threads are scheduled and every
HTTP request has a timeout of 15 seconds, hence weak fairness of a thread's
steps; the polling thread asks about each pending invoice in every round, and an
invoice that is asked about for ever gets an answer some time, hence strong
fairness of the answer. Nothing makes a subscriber pay or a webhook arrive.
The other modules state safety only.

## 10. The proofs

TLAPS checks the eight proof modules completely. The constants are arbitrary
within the named assumptions of the modules (`BackendAssumption`,
`ManagerAssumption`, `AccrualAssumption`, `LoginAssumption`,
`AccountsAssumption`, `BillingAssumption`, `PoolAssumption`,
`CollectorAssumption`, `FunnelAssumption`, and for sums and batches
`OrdersAssumption` and `FeedAssumption`). These state types, that different
kinds of identifiers differ, that the sets whose cardinality is taken are finite
(threads of a login, outbounds, feeds and their entries, orders, which are rows of
a database), that the thresholds are positive and not above the caps, and that a
paid term is longer than a day. Each proof has the
same shape: an invariant that is stronger than the properties, one lemma per
action or group of actions that this action keeps it, and theorems that read the
properties off it.

`ConnManagerProofs`, for any number of concurrent requests, servers, candidates,
probes and attempts:

* `TypeCorrect`: `TypeOK`. It is not inductive alone: that `tries` stays in its
  range needs `ProbesLeft` (a thread in the probe loop has a probe left), and
  that `probed` holds attempts only needs `AttemptNamed` (a thread between
  ConnectBegin and its watcher carries a real attempt).
* `PhasesAreOwned`: `NoOrphanedPhase`, by itself inductive relative to the types:
  the only actions that leave the control points of a phase also write the
  state, and a newer phase has a newer owner.
* `HandlesCorrect`: `HandlesAreCurrent`, with `CancelledAreOld` (a cancelled
  context is that of an attempt already made), which keeps a new attempt's
  cancel function uncalled.

For a daemon whose requests come one at a time (`Threads = {c}`, an assumption
of each of these theorems; with two callers the properties are false), and any
servers, lists, probes and attempts:

* `NoCoreStrays`, `CoresReachable`, `SessionsCurrent`, `UnprobedDied` and
  `OwnSessionFails`: the four invariants and the action property of
  `conn_serial`. The invariant is `SerialInv(c)`: where the caller is in the
  manager decides where it may be in the backend (`CallOK`) and what the status
  says (`StatusOK`); the attempt it works on is the newest one (`AttemptOK`); the
  backend's three fields belong to one child, and only a Stop about to kill it
  has taken a running child from them (`HandleOK`); a watcher whose context was
  not cancelled watches the current attempt, and a death it has seen is final
  (`WatchOK`); and a session that no probe confirmed has lost its child
  (`ProbeOK`). `OwnSessionFails` follows step by step: only the caller inside its
  own attempt, or the watcher that `WatchOK` ties to it, writes "error".

`AccrualProofs`, for any number of threads, users, orders and crashes:

* `AccrualTyped`: `TypeOK`.
* `NeverCreditedTwice`: `CreditedAtMostOnce`. The counters alone are not
  inductive, since nothing in them forbids a second write. `CreditInv` adds
  `AtWork` (a thread that is not idle has an order and a user name),
  `ClaimHeld` (a held order is in its claimed status and no two threads hold the
  same one), `Unclaimed` (an order that can still be claimed has been written by
  nobody) and `NotYetWritten` (a thread before its write has not written, in
  either leg). A claim takes the order out of the claimable statuses in the same
  transaction that lets the thread start, so a second thread, a second delivery
  or a restarted process never gets as far as a write.
* `DaysAddUp`: `DaysLostOnlyInRaces`. A subscription's days are compared with a
  sum over all orders. `DatesInv` says that the date of every user nobody raced
  for is his first date moved by that sum (`DatesRight`), that what a thread has
  read and will write on is still what the panel has, and that two threads about
  to write for one user make him a raced one (`ReadsRight`), that days were only
  written for users the panel knows (`UnknownEmpty`), and that a thread works
  for the beneficiary of its order or for his referrer (`RightUser`). A write
  then moves the date and one term of the sum by the same days.
* `InvitesTellTruth`: `InviteTellsTruth`, and `InvitesBound`: the action property
  `InvitesStayBound`. `InviteInv` adds that an invite has a claimant from the
  claim on (`ClaimantOK`), and that the thread which redeems it works for that
  claimant and knows what the panel did unless the write's answer was lost or
  denied it (`RedeemOK`); `finish` writes a status from exactly that knowledge.

`BrowserLoginProofs`, for any number of threads, accounts and challenges:

* `LoginTypes`, `OneApprover`: what a stale poll has read is weaker than the
  type of a row, so `LoginInv` keeps what a row was when it was read
  (`ReadRowsOK`), that an approved row names an account which was told so
  (`RowsOK`), and, as long as no stale row was written back, that a row never
  becomes pending again (`BoundOnce`) and that every wrong secret is counted in
  the row or by a thread about to write (`GuessesCounted`, the cardinality of
  the set of such threads).
* `LoginRefinesGrant`: `LoginIsOneTimeGrant`. Each action maps to a step of
  `OneTimeGrant` or to a stutter. Polls, the stale ones too, leave the account in
  the row alone; an approval binds the grant, which `RowsOK` shows was not taken
  before, and `consume` takes it.

`AccountsProofs`, for any number of accounts, codes of each kind and requests:

* `AccountsTypes`, `ResetLeavesNoOther`, `BoundChats`: evidence for an account
  is a session, a code or a request under way, and `EvidenceOK` says of all
  three what `ResetRevokes` says of sessions alone: evidence is as new as the
  password, or marked as one that survives a reset. `SavesOK` says of a `/start`
  or a repair under way for a bound chat that it is known to be one of those the
  property names. That a code about to be
  burned still names the account it was read for is in `RequestsOK`.
* `AccountsRefineGrant`: `CodesAreOneTimeGrants`, for every pairing and browser
  code.

`BillingProofs`, for any number of accounts, overlapping runs and days:

* `BillingTypes`, `DebitsSettle`, `PaidDays`: `WorkOK` says where a run between
  debit and settlement stands (booked, not refunded, not extended unless the
  panel's answer was lost) and that no two runs hold the same debit, which the
  primary key of `daily_debits` gives; `OverlapOK` says that a run which has seen
  no debit looked before it was booked. Together they make each debit settled
  once.
* `RevokedStays`: the action property `RevokedStaysRevoked`. That a credit which
  brings an account back is booked by that very step, and not a repeat of one
  already in the ledger, is `BookIsFirst`.
* `WalletsBalance`: `WalletMatchesLedger`. An account has finitely many keys
  however many accounts there are (`KeysOfFinite`), no key is two accounts'
  (`KeysAreOwn`), and every step leaves both an account's balance and its lines
  alone or moves one line and the balance by the same amount (`StepsAreLines`).
  A line is written only where there was none: `credit`, `refund_debit` and the
  bulk grant look for it, a debit has the primary key of its day, and a payment
  needs `PaymentsOK`, that an invoice which is not yet paid has no line.

A sum is a fold over a set, and an induction over the set is out of the provers'
reach in the form the library states it. Both modules go another way, with the
same lemmas in a section of their own: a finite set has a function that gives
every subset's sum, by the least size for which there is none (`SumsExist`); and
that changing one summand changes the sum by as much is shown by the smallest
subset of which it is false (`NoSmallest`, `TotalOfChange`).

`PoolHealthProofs`, for any number of checks, outbounds, groups and any
threshold and cap:

* `PoolTypes`, `FailureCounts`, `QuietInSync`, `Candidates`. `PoolInv` adds that
  a check at work holds the lock (`LockOK`), that whoever left service and file
  apart is about to restart the service or is known (`SyncOK`), and that the
  state file, or the check that is about to write it, covers every usable
  outbound of every configuration a rollback may bring back (`CandidatesOK`):
  the rebuild takes no lock, so this has to hold of the copy that a check has in
  hand as well as of the file.

`PoolCollectorProofs`, for any feeds, nodes, groups, limits and thresholds:

* `CollectorTypes`, `ServedProven`, `EvidenceShared`, `StarvedKnown`.
  `CollectorInv` says that a row never claims a later answer than the node has
  given and that what the running cycle has seen is known to everyone it told
  (`ProofOK`), that the feed was fresh at the last commit (`FeedOK`), and, stage
  by stage of a cycle, how far the file and the rows are behind the verdicts
  (`SameEvidence`). The lemmas on `ScheduleCandidates` show that a batch only
  holds nodes of the feeds.
* `SelectionFair`: `SelectionIsFair`, of whatever a file of the right types
  offers. `PlanHasParts` takes a batch apart into what was refreshed, what served
  a country, what was explored and what was refreshed after all; `PartsFill`
  counts these parts against the three shares of the limit (`Shares`).
  `AllSourcesExplored` is a pigeonhole argument: the first turn of a source left
  out would have come before the second turn of any other, so the batch holds one
  node of each source it took, fewer than there are sources. That there is a
  batch at all (`PlansExist`) is shown part by part: the oldest k of a finite set
  (`OldestExist`), a largest choice within the deficits (`DeficitPicksExist`), and
  node after node whose turn it is (`NextTurn`, `ExplorePicksExist`), which needs
  that turns of different sources never fall together and those of one source
  follow each other (`Turns`).

`FunnelProofs`, for any subscribers, broadcasts, clocks, invoices and faults:

* `NobodyToldTwice`: `MessagedOnce`, and `TermEndAnnounced`:
  `WarnedUnlessSilenced`. `FunnelInv` says of the list a visit has in hand that
  no message is in it twice or has its row already (`TodoOK`), of what was
  delivered that it has a row or was not acknowledged (`HistoryOK`), of a
  broadcast that it has not reached those who are left for it (`CastsOK`), of a
  reminder's row that its term was renewed since or the reminder came on the
  last day (`RemindedOK`), and of the visit under way that it has warned the
  subscriber or still will (`VisitOK`). A payment moves the end of a term forward,
  so old rows never stand for the new term, which the next visit looks at. `TakenBranch` shows that
  the branch taken of the if-elif chain has no row yet, `DueList` that the list of
  a visit has no duplicates although its five parts are looked up separately.

Only model-checked: the liveness properties (`RequestsReturn`,
`DeadTunnelNoticed`, `PaidInvoiceIsClaimed`), which the prover does not treat.
Every invariant, every action property and both refinements that the passing
runs check are theorems.

## 11. Not modelled

The user interfaces, the MCP server, routing and encoding in the HTTP handlers,
the kill switch's firewall rules, GeoIP, telemetry, elevation, the lock of the
single instance and the wording of messages are input and output without a
protocol of their own. The status feed, the resolver, the network memory, the
store, the rules and the daemon's pool and payment clients are either pure
functions of measured data or copies of state that a module above already has;
where the manager uses them, the model lets them answer anything. In the bot:
web sessions and announcements of `mosaic_billing.py`, the rotation of
subscription links, the `/broadcast` command, uptime alerts, statistics and
menus; in the pool, running averages and scores, the eviction at
`max_candidates` and `--skip-upsert`. The scripts for backups and search-engine
reports are maintenance tools. `PROJECT.json` lists every part with its status.
