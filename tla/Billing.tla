------------------------------- MODULE Billing -------------------------------
(***************************************************************************)
(* The prepaid wallets (src/bot/mosaic_billing.py): accounts, payments,    *)
(* credits, the daily debit and its refund, freezing, trials and the       *)
(* administrative bulk grant.  Each function is one PostgreSQL transaction *)
(* at READ COMMITTED.  What a transaction reads before it holds a row lock *)
(* is a step of its own; from its first lock to its commit it is one step. *)
(* A daily_debits row is inserted together with the ledger row of its key, *)
(* so the ledger stands for both.  Amounts are in units of the smallest    *)
(* price.  The callbacks that reach the panel may fail before or after     *)
(* they took effect, and a process may die between any two steps.          *)
(***************************************************************************)
EXTENDS Integers, FiniteSets, FiniteSetsExt

CONSTANTS
    Accounts, Runners, Creditors,
    Prices,        \* prices an operator may set
    TopUp,         \* the amount of a payment and of a credit
    MaxDay,        \* bound: days
    MaxRuns        \* bound: calls of run_daily_debits, and so of their deaths

ASSUME BillingAssumption ==
    /\ Prices \subseteq Nat \ {0} /\ Prices # {}
    /\ TopUp \in Nat \ {0}
    /\ MaxDay \in Nat \ {0} /\ MaxRuns \in Nat

Days == 1..MaxDay
\* Idempotency keys: 'daily-debit:a:d', 'daily-debit-refund:a:d', the key of a
\* credit call, 'cryptopay:invoice', 'admin-grant:op:a'.
Keys == ({"debit", "refund"} \X Accounts \X Days)
        \cup ({"topup", "pay", "grant"} \X Accounts \X {0})
DebitKey(a, d) == <<"debit", a, d>>
RefundKey(a, d) == <<"refund", a, d>>
TopUpKey(a) == <<"topup", a, 0>>
PaymentKey(a) == <<"pay", a, 0>>
GrantKey(a) == <<"grant", a, 0>>
Status == {"none", "active", "frozen", "insufficient_funds", "revoked"}

VARIABLES
    day,       \* the date in Moscow
    price,     \* mosaic_service_settings.daily_price_kopecks
    bal,       \* mosaic_wallets.balance_kopecks
    ledger,    \* ledger[k]: the amount booked under key k, 0 if there is no row
    acc,       \* mosaic_accounts.status
    trial,     \* accounts whose trial_ends_at lies in the future
    linked,    \* accounts whose subscription has a Remnawave user name
    pay,       \* mosaic_payments.status of the account's invoice
    run,       \* run[w]: progress of a call of run_daily_debits
    cr,        \* cr[t]: key a call of credit has looked up, or NoKey
    bulk,      \* accounts a bulk grant has read and its amount, or NoBulk
    ext,       \* ext[a][d]: days the panel added for day d
    open,      \* debits whose run died before it settled them, or whose
               \* extension raised after it took effect
    overlap,   \* debits that two runs were about to make at the same time
    runs

bvars == <<day, price, bal, ledger, acc, trial, linked, pay, run, cr, bulk,
           ext, open, overlap, runs>>
wallet == <<bal, ledger, acc>>
faults == <<open, overlap, runs>>
admin  == <<day, price, trial, linked, pay>>

NoKey == <<>>
NoBulk == [amt |-> 0, known |-> {}, poor |-> {}]
Resting == [pc |-> "idle", day |-> 0, todo |-> {}, named |-> {}, amt |-> 0]
Pcs == {"idle", "loop", "write", "disable", "extend", "refund"}

BillingInit ==
    /\ day = 1 /\ price \in Prices
    /\ bal = [a \in Accounts |-> 0] /\ ledger = [k \in Keys |-> 0]
    /\ acc = [a \in Accounts |-> "none"] /\ trial = {}
    /\ linked = {} /\ pay = [a \in Accounts |-> "none"]
    /\ run = [w \in Runners |-> Resting] /\ cr = [t \in Creditors |-> NoKey]
    /\ bulk = NoBulk
    /\ ext = [a \in Accounts |-> [d \in Days |-> 0]]
    /\ open = {} /\ overlap = {} /\ runs = 0
-----------------------------------------------------------------------------
\* Accounts, settings, time.

\* The column default of a Telegram account's status is not in the code.
EnsureTelegramAccount(a, s) ==
    /\ acc[a] = "none" /\ s \in {"active", "insufficient_funds"}
    /\ acc' = [acc EXCEPT ![a] = s]
    /\ UNCHANGED <<bal, ledger, admin, run, cr, bulk, ext, faults>>

CreateEmailAccount(a) ==
    /\ acc[a] = "none"
    /\ acc' = [acc EXCEPT ![a] = "insufficient_funds"]
    /\ UNCHANGED <<bal, ledger, admin, run, cr, bulk, ext, faults>>

\* record_subscription_link_rotation and sync_subscription_link_state
BindSubscription(a) ==
    /\ acc[a] # "none" /\ a \notin linked
    /\ linked' = linked \cup {a}
    /\ UNCHANGED <<day, price, trial, pay, wallet, run, cr, bulk, ext, faults>>

UpdateServiceSettings(p) ==
    /\ p \in Prices \ {price}
    /\ price' = p
    /\ UNCHANGED <<day, trial, linked, pay, wallet, run, cr, bulk, ext, faults>>

NextDay ==
    /\ day < MaxDay
    /\ day' = day + 1
    /\ trial' \in SUBSET trial
    /\ UNCHANGED <<price, linked, pay, wallet, run, cr, bulk, ext, faults>>

Freeze(a) ==
    /\ acc[a] \notin {"none", "revoked"}
    /\ acc' = [acc EXCEPT ![a] = "frozen"]
    /\ UNCHANGED <<bal, ledger, admin, run, cr, bulk, ext, faults>>

Unfreeze(a) ==
    /\ acc[a] = "frozen"
    /\ acc' = [acc EXCEPT ![a] = IF bal[a] > 0 \/ a \in trial THEN "active"
                                 ELSE "insufficient_funds"]
    /\ UNCHANGED <<bal, ledger, admin, run, cr, bulk, ext, faults>>

\* No function of the module revokes an account; freeze and debit respect it.
Revoke(a) ==
    /\ acc[a] \notin {"none", "revoked"}
    /\ acc' = [acc EXCEPT ![a] = "revoked"]
    /\ UNCHANGED <<bal, ledger, admin, run, cr, bulk, ext, faults>>

ClaimTelegramTrial(a) ==
    /\ acc[a] # "none" /\ a \notin trial
    /\ acc' = [acc EXCEPT ![a] = "active"]
    /\ trial' = trial \cup {a}
    /\ UNCHANGED <<day, price, linked, pay, bal, ledger, run, cr, bulk, ext, faults>>
-----------------------------------------------------------------------------
\* Money in.

CreatePayment(a) ==
    /\ acc[a] # "none" /\ pay[a] = "none"
    /\ pay' = [pay EXCEPT ![a] = "pending"]
    /\ UNCHANGED <<day, price, trial, linked, wallet, run, cr, bulk, ext, faults>>

\* The payment row is locked FOR UPDATE, so a second delivery finds it paid.
CompletePayment(a) ==
    /\ pay[a] = "pending"
    /\ pay' = [pay EXCEPT ![a] = "paid"]
    /\ bal' = [bal EXCEPT ![a] = @ + TopUp]
    /\ ledger' = [ledger EXCEPT ![PaymentKey(a)] = TopUp]
    /\ acc' = [acc EXCEPT ![a] = IF @ = "insufficient_funds" THEN "active" ELSE @]
    /\ UNCHANGED <<day, price, trial, linked, run, cr, bulk, ext, faults>>

\* What credit writes once it has found no row under key k.  The unique index
\* on the key rolls all of it back when another call was faster.
BookTwice(k, amt) ==
    LET a == k[2]
    IN /\ bal' = [bal EXCEPT ![a] = @ + amt]
       /\ ledger' = [ledger EXCEPT ![k] = amt]
       /\ acc' = [acc EXCEPT ![a] = IF @ \in {"insufficient_funds", "frozen"} THEN @ ELSE "active"]
Book(k, amt) == IF ledger[k] = 0 THEN BookTwice(k, amt) ELSE UNCHANGED wallet

CreditRead(t, a) ==
    /\ cr[t] = NoKey /\ acc[a] # "none"
    /\ ledger[TopUpKey(a)] = 0
    /\ cr' = [cr EXCEPT ![t] = TopUpKey(a)]
    /\ UNCHANGED <<admin, wallet, run, bulk, ext, faults>>

CreditWrite(t) ==
    /\ cr[t] # NoKey
    /\ Book(cr[t], TopUp)
    /\ cr' = [cr EXCEPT ![t] = NoKey]
    /\ UNCHANGED <<admin, run, bulk, ext, faults>>

\* bulk_grant_days reads price and all statuses first and decides on them.
BulkRead ==
    /\ bulk = NoBulk
    /\ \E a \in Accounts : acc[a] # "none" /\ ledger[GrantKey(a)] = 0
    /\ bulk' = [amt |-> price, known |-> {a \in Accounts : acc[a] # "none"},
                poor |-> {a \in Accounts : acc[a] = "insufficient_funds"}]
    /\ UNCHANGED <<admin, wallet, run, cr, ext, faults>>

BulkWrite ==
    /\ bulk # NoBulk
    /\ LET G == {a \in bulk.known : ledger[GrantKey(a)] = 0}
       IN /\ bal' = [a \in Accounts |-> IF a \in G THEN bal[a] + bulk.amt ELSE bal[a]]
          /\ ledger' = [k \in Keys |-> IF k \in {GrantKey(a) : a \in G} THEN bulk.amt ELSE ledger[k]]
          /\ acc' = [a \in Accounts |-> IF a \in G \cap bulk.poor THEN "active" ELSE acc[a]]
    /\ bulk' = NoBulk
    /\ UNCHANGED <<admin, run, cr, ext, faults>>
-----------------------------------------------------------------------------
\* run_daily_debits

ActiveAccountsForDebit == {a \in Accounts : acc[a] = "active" /\ a \notin trial}

RunList(w) ==
    /\ run[w].pc = "idle" /\ ActiveAccountsForDebit # {}
    /\ runs < MaxRuns /\ runs' = runs + 1
    /\ run' = [run EXCEPT ![w] = [pc |-> "loop", day |-> day, todo |-> ActiveAccountsForDebit,
                                  named |-> linked, amt |-> 0]]
    /\ UNCHANGED <<admin, wallet, cr, bulk, ext, open, overlap>>

\* The run of w as it goes on: what it listed, and the day, stay.
Going(w, next, todo, amt) ==
    [pc |-> next, day |-> run[w].day, todo |-> todo, named |-> run[w].named, amt |-> amt]
Stay(w, next, amt) == run' = [run EXCEPT ![w] = Going(w, next, run[w].todo, amt)]
\* On to the next account of the list; cur is the first one still to do.
First(s) == CHOOSE a \in s : TRUE
Cur(w) == First(run[w].todo)
Advance(w) ==
    run' = [run EXCEPT ![w] = IF run[w].todo = {Cur(w)} THEN Resting
                              ELSE Going(w, "loop", run[w].todo \ {Cur(w)}, 0)]
\* An exception that run_daily_debits does not catch.
Abort(w) == run' = [run EXCEPT ![w] = Resting]

Paid(a, d) == ledger[DebitKey(a, d)] # 0

\* debit_one_day up to its unlocked look at mosaic_daily_debits
DebitReadAgain(w) ==
    /\ run[w].pc = "loop"
    /\ Stay(w, "write", price)
    /\ UNCHANGED <<admin, wallet, cr, bulk, ext, faults>>
DebitRead(w) ==
    LET a == Cur(w)
        d == run[w].day
        rivals == {v \in Runners \ {w} :
                     run[v].pc \in {"write", "disable"} /\ Cur(v) = a /\ run[v].day = d}
    IN /\ run[w].pc = "loop"
       /\ IF Paid(a, d) THEN Advance(w) ELSE Stay(w, "write", price)
       /\ overlap' = IF rivals # {} /\ ~Paid(a, d) THEN overlap \cup {<<a, d>>} ELSE overlap
       /\ UNCHANGED <<admin, wallet, cr, bulk, ext, open, runs>>

CoversLoosely(balance, amt) == balance >= amt - 1
Covers(balance, amt) == balance >= amt

\* debit_one_day from SELECT ... FOR UPDATE to its commit
DebitWriteReviving(w) ==
    LET a == Cur(w)
        k == DebitKey(a, run[w].day)
        amt == run[w].amt
    IN /\ run[w].pc = "write"
       /\ Covers(bal[a], amt) /\ ledger[k] = 0
       /\ bal' = [bal EXCEPT ![a] = @ - amt]
       /\ ledger' = [ledger EXCEPT ![k] = -amt]
       /\ acc' = [acc EXCEPT ![a] = "active"]
       /\ Stay(w, "extend", amt)
       /\ UNCHANGED <<admin, cr, bulk, ext, faults>>
DebitWrite(w) ==
    LET a == Cur(w)
        k == DebitKey(a, run[w].day)
        amt == run[w].amt
        Unless(s) == [acc EXCEPT ![a] = IF @ = "revoked" THEN @ ELSE s]
    IN /\ run[w].pc = "write"
       /\ \/ /\ ~Covers(bal[a], amt)
             /\ acc' = Unless("insufficient_funds")
             /\ IF a \in run[w].named THEN Stay(w, "disable", 0) ELSE Advance(w)
             /\ UNCHANGED <<bal, ledger>>
          \/ /\ Covers(bal[a], amt) /\ ledger[k] = 0
             /\ bal' = [bal EXCEPT ![a] = @ - amt]
             /\ ledger' = [ledger EXCEPT ![k] = -amt]
             /\ acc' = Unless("active")
             /\ Stay(w, "extend", amt)
          \/ /\ Covers(bal[a], amt) /\ ledger[k] # 0     \* the unique index
             /\ Abort(w)
             /\ UNCHANGED wallet
       /\ UNCHANGED <<admin, cr, bulk, ext, faults>>

\* disable_user(username) returns, or raises and ends the run.
Disable(w) ==
    /\ run[w].pc = "disable"
    /\ Advance(w) \/ Abort(w)
    /\ UNCHANGED <<admin, wallet, cr, bulk, ext, faults>>

\* extend_user(username, 1): done; refused, or nothing to extend; or raised
\* although the panel carried it out.
Added(w) == ext' = [ext EXCEPT ![Cur(w)][run[w].day] = @ + 1]
ExtendTrusting(w) ==
    /\ run[w].pc = "extend"
    /\ \/ Added(w)
       \/ UNCHANGED ext
    /\ Advance(w)
    /\ UNCHANGED <<admin, wallet, cr, bulk, faults>>
Extend(w) ==
    /\ run[w].pc = "extend"
    /\ \/ /\ Cur(w) \in run[w].named
          /\ Added(w) /\ Advance(w)
          /\ UNCHANGED open
       \/ /\ Stay(w, "refund", run[w].amt)
          /\ UNCHANGED <<ext, open>>
       \/ /\ Cur(w) \in run[w].named
          /\ Added(w) /\ Stay(w, "refund", run[w].amt)
          /\ open' = open \cup {<<Cur(w), run[w].day>>}
    /\ UNCHANGED <<admin, wallet, cr, bulk, overlap, runs>>

\* refund_debit: the amount of the daily_debits row, through credit.
RefundDebit(w) ==
    /\ run[w].pc = "refund"
    /\ Book(RefundKey(Cur(w), run[w].day), -ledger[DebitKey(Cur(w), run[w].day)])
    /\ Advance(w)
    /\ UNCHANGED <<admin, cr, bulk, ext, faults>>

\* The process of a run dies; transactions that did not commit are gone.
RunDies(w) ==
    /\ run[w].pc # "idle"
    /\ open' = IF run[w].pc \in {"extend", "refund"} THEN open \cup {<<Cur(w), run[w].day>>} ELSE open
    /\ Abort(w)
    /\ UNCHANGED <<admin, wallet, cr, bulk, ext, overlap, runs>>

BillingNext ==
    \/ \E a \in Accounts :
          \/ \E s \in Status : EnsureTelegramAccount(a, s)
          \/ CreateEmailAccount(a) \/ BindSubscription(a) \/ Freeze(a) \/ Unfreeze(a)
          \/ Revoke(a) \/ ClaimTelegramTrial(a) \/ CreatePayment(a) \/ CompletePayment(a)
    \/ \E p \in Prices : UpdateServiceSettings(p)
    \/ NextDay
    \/ \E t \in Creditors : CreditWrite(t) \/ \E a \in Accounts : CreditRead(t, a)
    \/ BulkRead \/ BulkWrite
    \/ \E w \in Runners : \/ RunList(w) \/ DebitRead(w) \/ DebitWrite(w) \/ Disable(w)
                          \/ Extend(w) \/ RefundDebit(w) \/ RunDies(w)

BillingSpec == BillingInit /\ [][BillingNext]_bvars
-----------------------------------------------------------------------------
\* The variables have their types; no balance is negative (debit_one_day).
BillingTypeOK ==
    /\ day \in Days /\ price \in Prices
    /\ bal \in [Accounts -> Nat] /\ ledger \in [Keys -> Int]
    /\ acc \in [Accounts -> Status] /\ trial \subseteq Accounts
    /\ linked \subseteq Accounts /\ pay \in [Accounts -> {"none", "pending", "paid"}]
    /\ run \in [Runners -> [pc : Pcs, day : 0..MaxDay, todo : SUBSET Accounts,
                            named : SUBSET Accounts, amt : Prices \cup {0}]]
    /\ cr \in [Creditors -> Keys \cup {NoKey}]
    /\ bulk \in [amt : Prices \cup {0}, known : SUBSET Accounts, poor : SUBSET Accounts]
    /\ ext \in [Accounts -> [Days -> Nat]]
    /\ open \subseteq Accounts \X Days /\ overlap \subseteq Accounts \X Days
    /\ runs \in 0..MaxRuns

\* The wallet is the sum of its ledger, whatever credits, payments, grants,
\* debits and refunds ran side by side or were repeated.
WalletMatchesLedger ==
    \A a \in Accounts : bal[a] = MapThenSumSet(LAMBDA k : ledger[k], {k \in Keys : k[2] = a})

Working(a, d) == \E w \in Runners : /\ run[w].pc \in {"extend", "refund"}
                                    /\ Cur(w) = a /\ run[w].day = d

\* The panel adds a day at most once and only against a debit, a refund is
\* exactly what was taken even when the price has changed since, and a debit
\* that no run is working on was either extended or refunded, unless its run
\* died or the panel's answer was lost.
DebitIsSettled ==
    \A a \in Accounts, d \in Days :
        LET back == ledger[RefundKey(a, d)]
        IN /\ ext[a][d] <= (IF Paid(a, d) THEN 1 ELSE 0)
           /\ back # 0 => back = -ledger[DebitKey(a, d)]
           /\ Paid(a, d) => \/ Working(a, d) \/ <<a, d>> \in open
                            \/ (ext[a][d] = 1) # (back # 0)

\* A run that is about to disable a user has not charged that user for the
\* same day, unless two runs looked for the debit at the same time.
PaidDayNotDisabled ==
    \A w \in Runners :
        run[w].pc = "disable" /\ Paid(Cur(w), run[w].day) => <<Cur(w), run[w].day>> \in overlap

\* A row is booked under key k that was not there.
FirstBooked(k) == ledger[k] = 0 /\ ledger'[k] > 0

\* The account gets back what the debit of day d took: the panel added no day
\* for it, or its answer was lost.
GivenBack(a, d) ==
    /\ FirstBooked(RefundKey(a, d)) /\ ledger'[RefundKey(a, d)] = -ledger[DebitKey(a, d)]
    /\ ext[a][d] = 0 \/ <<a, d>> \in open

\* A revoked account comes back only with a top-up or a grant that was not yet
\* booked, with a trial, or with the refund of a debit that bought it no day.
\* The debit of a run that listed the account before it was revoked does not
\* bring it back, nor do a freeze, an unfreezing, a completed payment or a
\* credit that repeats a key.  The refund does, with no money but the
\* account's own: refund_debit goes through credit, which knows no revocation.
RevokedStaysRevoked ==
    [][\A a \in Accounts : acc[a] = "revoked" /\ acc'[a] # "revoked"
          => \/ FirstBooked(TopUpKey(a)) \/ FirstBooked(GrantKey(a))
             \/ a \in trial' \ trial
             \/ \E d \in Days : GivenBack(a, d)]_bvars
=============================================================================
