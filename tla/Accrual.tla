------------------------------- MODULE Accrual -------------------------------
(***************************************************************************)
(* Every way in which the bot gives a subscriber days: CryptoPay invoices  *)
(* (the polling thread), Lava invoices (a webhook), sponsored gift invites *)
(* and administrative credits (HTTP handlers, one thread per request).     *)
(*                                                                         *)
(* All four follow one pattern: claim a row of the SQLite database in a    *)
(* guarded update, call the panel, record the outcome.  The database and   *)
(* the panel survive a crash of the bot, its threads do not; systemd       *)
(* restarts it (Restart=always).                                           *)
(*                                                                         *)
(* An order is an invoice, an invite or an admin request.  applied, bonus, *)
(* denied and raced are history variables: how often an order's days were  *)
(* written to the panel for the one it is for and for the one who referred *)
(* him, the invites whose days the panel wrote and answered with an error, *)
(* and whose expiry date two threads were changing at the same time.       *)
(***************************************************************************)
EXTENDS Remnawave, FiniteSets, FiniteSetsExt

CONSTANTS Workers,          \* HTTP threads
          Poller,           \* polling_invoices_thread
          CryptoInvoices, LavaInvoices, Gifts, AdminCredits,
          Owner,            \* invoices, admin requests: whom they are for
          Days,             \* days an order is worth
          Referrer,         \* users.referrer_id
          NoOrder,
          Start,            \* expireAt of the users at the beginning
          FirstKnown,       \* users the panel knows at the beginning
          MaxCrashes        \* bound: crashes of the bot

Invoices == CryptoInvoices \cup LavaInvoices
Orders   == Invoices \cup Gifts \cup AdminCredits

ASSUME AccrualAssumption ==
    /\ Threads = Workers \cup {Poller}
    /\ Poller \notin Workers
    /\ \A o \in Orders : Days[o] \in Nat \ {0}
    /\ \A o \in Invoices \cup AdminCredits : Owner[o] \in Users
    /\ \A u \in Users : Referrer[u] \in Users \cup {NoUser}
    /\ NoUser \notin Users
    /\ NoOrder \notin Orders
    /\ CryptoInvoices \cap (LavaInvoices \cup Gifts \cup AdminCredits) = {}
    /\ LavaInvoices \cap (Gifts \cup AdminCredits) = {}
    /\ Gifts \cap AdminCredits = {}
    /\ Start \in [Users -> Int]
    /\ FirstKnown \subseteq Users
    /\ \A u \in Users \ FirstKnown : Start[u] = 0
    /\ MaxCrashes \in Nat

\* An order is a row of the database.
ASSUME OrdersAssumption == IsFiniteSet(Orders)

VARIABLES
    status,     \* the status column of an order; "none" before its row exists
    claimant,   \* invites: claimant_account_id
    live,       \* invites: expires_at lies in the future
    provider,   \* invoices: what the payment provider says of them
    job,        \* the order a thread is crediting
    leg,        \* whether its calls are for the order itself or for the referral bonus
    round,      \* invoices left in the list that the polling thread has read
    saved,      \* users whose row save_user has written
    refpaid,    \* referral_stats of a user
    applied,    \* history: writes of an order's days to the panel
    bonus,      \* history: writes of its referral bonus
    denied,     \* history: invites whose days were written and answered with None
    raced,      \* history: users whose date two threads had read and not yet written
    crashes

orderVars  == <<status, claimant, live, provider>>
threadVars == <<job, leg, round>>
bookVars   == <<saved, refpaid>>
histVars   == <<applied, bonus, denied, raced, crashes>>
avars == <<orderVars, threadVars, bookVars, histVars>>
vars  == <<rvars, avars>>

Statuses == {"none", "pending", "paid", "expired", "processing",
             "succeeded", "failed", "uncertain", "revoked"}

TypeOK ==
    /\ PanelTypeOK
    /\ status \in [Orders -> Statuses]
    /\ claimant \in [Gifts -> Users \cup {NoUser}]
    /\ live \in [Gifts -> BOOLEAN]
    /\ provider \in [Invoices -> {"active", "paid", "expired"}]
    /\ job \in [Threads -> Orders \cup {NoOrder}]
    /\ leg \in [Threads -> {"own", "bonus"}]
    /\ round \subseteq CryptoInvoices
    /\ saved \subseteq Users
    /\ refpaid \in [Users -> Nat]
    /\ applied \in [Orders -> Nat]
    /\ bonus \in [CryptoInvoices -> Nat]
    /\ denied \subseteq Gifts
    /\ raced \subseteq Users
    /\ crashes \in 0..MaxCrashes

Init ==
    /\ known = FirstKnown
    /\ expiry = Start
    /\ step = [t \in Threads |-> "idle"]
    /\ user = [t \in Threads |-> NoUser]
    /\ seen = [t \in Threads |-> 0]
    /\ answer = [t \in Threads |-> "none"]
    /\ status = [o \in Orders |-> "none"]
    /\ claimant = [o \in Gifts |-> NoUser]
    /\ live = [o \in Gifts |-> TRUE]
    /\ provider = [o \in Invoices |-> "active"]
    /\ job = [t \in Threads |-> NoOrder]
    /\ leg = [t \in Threads |-> "own"]
    /\ round = {}
    /\ saved = {}
    /\ refpaid = [u \in Users |-> 0]
    /\ applied = [o \in Orders |-> 0]
    /\ bonus = [o \in CryptoInvoices |-> 0]
    /\ denied = {}
    /\ raced = {}
    /\ crashes = 0

-----------------------------------------------------------------------------
SetStatus(o, s) == status' = [status EXCEPT ![o] = s]

\* Bug: the user name is taken from a row that does not exist.
StartCreditForNobody(t, o, u) ==
    /\ job' = [job EXCEPT ![t] = o]
    /\ leg' = [leg EXCEPT ![t] = "own"]
    /\ BeginCalls(t, NoUser)

\* Thread t, which has claimed order o, starts to credit user u.
StartCredit(t, o, u) ==
    /\ job' = [job EXCEPT ![t] = o]
    /\ leg' = [leg EXCEPT ![t] = "own"]
    /\ BeginCalls(t, u)

\* Thread t is back in its loop, or its request is answered.
Release(t) ==
    /\ job' = [job EXCEPT ![t] = NoOrder]
    /\ leg' = [leg EXCEPT ![t] = "own"]
    /\ EndCalls(t)

-----------------------------------------------------------------------------
(* Orders come into being                                                  *)

\* save_invoice and save_lava_invoice.
SaveInvoice(o) ==
    /\ status[o] = "none"
    /\ SetStatus(o, "pending")
    /\ UNCHANGED <<rvars, claimant, live, provider, threadVars, bookVars, histVars>>

\* The subscriber pays, or lets the invoice lapse.
ProviderSettles(o, s) ==
    /\ status[o] # "none"
    /\ provider[o] = "active"
    /\ provider' = [provider EXCEPT ![o] = s]
    /\ UNCHANGED <<rvars, status, claimant, live, threadVars, bookVars, histVars>>

\* SponsoredInviteStore.create: a second request with the same id finds the row.
InviteCreate(o) ==
    /\ status[o] = "none"
    /\ SetStatus(o, "pending")
    /\ UNCHANGED <<rvars, claimant, live, provider, threadVars, bookVars, histVars>>

InviteExpire(o) ==
    /\ status[o] # "none"
    /\ live[o]
    /\ live' = [live EXCEPT ![o] = FALSE]
    /\ UNCHANGED <<rvars, status, claimant, provider, threadVars, bookVars, histVars>>

\* SponsoredInviteStore.revoke.
InviteRevoke(o) ==
    /\ status[o] = "pending"
    /\ live[o]
    /\ SetStatus(o, "revoked")
    /\ UNCHANGED <<rvars, claimant, live, provider, threadVars, bookVars, histVars>>

-----------------------------------------------------------------------------
(* Claims.  A claim that comes too late changes nothing.                   *)

\* Bug: the update does not look at the old status.
UpdateInvoiceStatusAlways(o, s) == SetStatus(o, s)

\* UPDATE invoices SET status = s WHERE invoice_id = o AND status = 'pending'.
UpdateInvoiceStatus(o, s) ==
    /\ status[o] = "pending"
    /\ SetStatus(o, s)

\* get_pending_invoices, at the beginning of a polling round.
StartRound ==
    /\ step[Poller] = "idle"
    /\ round = {}
    /\ round' = {o \in CryptoInvoices : status[o] = "pending"}
    /\ round' # {}
    /\ UNCHANGED <<rvars, orderVars, job, leg, bookVars, histVars>>

\* check_cryptopay_invoice says that o is not settled, or says nothing.
CheckSaysNothing(o) ==
    /\ step[Poller] = "idle"
    /\ o \in round
    /\ round' = round \ {o}
    /\ UNCHANGED <<rvars, orderVars, job, leg, bookVars, histVars>>

CheckSaysPaid(o) ==
    /\ step[Poller] = "idle"
    /\ o \in round
    /\ provider[o] = "paid"
    /\ round' = round \ {o}
    /\ UpdateInvoiceStatus(o, "paid")
    /\ StartCredit(Poller, o, Owner[o])
    /\ UNCHANGED <<claimant, live, provider, bookVars, histVars>>

CheckSaysExpired(o) ==
    /\ step[Poller] = "idle"
    /\ o \in round
    /\ provider[o] = "expired"
    /\ round' = round \ {o}
    /\ UpdateInvoiceStatus(o, "expired")
    /\ UNCHANGED <<rvars, claimant, live, provider, job, leg, bookVars, histVars>>

\* _handle_lava_webhook.  The provider may deliver it any number of times.
LavaWebhook(w, o) ==
    /\ step[w] = "idle"
    /\ provider[o] = "paid"
    /\ UpdateInvoiceStatus(o, "paid")
    /\ StartCredit(w, o, Owner[o])
    /\ UNCHANGED <<claimant, live, provider, round, bookVars, histVars>>

\* Bug: an invite whose redemption is under way can be claimed again.
InviteClaimableAgain(o) == live[o] /\ status[o] \in {"pending", "processing"}

\* SponsoredInviteStore.claim: the first account that asks in time gets it.
InviteClaimable(o) ==
    /\ live[o]
    /\ status[o] = "pending"
    /\ claimant[o] = NoUser

InviteClaim(w, o, u) ==
    /\ step[w] = "idle"
    /\ InviteClaimable(o)
    /\ SetStatus(o, "processing")
    /\ claimant' = [claimant EXCEPT ![o] = u]
    /\ StartCredit(w, o, u)
    /\ UNCHANGED <<live, provider, round, bookVars, histVars>>

\* claim_admin_balance_credit: the row is inserted in state processing, and a
\* request whose id has a row gets that row back.
AdminClaim(w, o) ==
    /\ step[w] = "idle"
    /\ status[o] = "none"
    /\ SetStatus(o, "processing")
    /\ StartCredit(w, o, Owner[o])
    /\ UNCHANGED <<claimant, live, provider, round, bookVars, histVars>>

-----------------------------------------------------------------------------
(* The calls to the panel                                                  *)

\* The two callers that give up when the panel does not know the user.
CreatesUser(t) == leg[t] = "own" /\ job[t] \notin AdminCredits

CallLookup(t) ==
    /\ job[t] # NoOrder
    /\ Lookup(t, CreatesUser(t))
    /\ UNCHANGED avars

CallRead(t) ==
    /\ job[t] # NoOrder
    /\ ExtendRead(t)
    /\ raced' = IF step'[t] = "patch" /\ \E r \in Threads \ {t} : step[r] = "patch" /\ user[r] = user[t]
                THEN raced \cup {user[t]}
                ELSE raced
    /\ UNCHANGED <<orderVars, threadVars, bookVars, applied, bonus, denied, crashes>>

\* The panel has carried out a write for t's order.
Wrote(t, effect) ==
    /\ applied' = IF effect /\ leg[t] = "own" THEN [applied EXCEPT ![job[t]] = @ + 1] ELSE applied
    /\ bonus' = IF effect /\ leg[t] = "bonus" THEN [bonus EXCEPT ![job[t]] = @ + 1] ELSE bonus

\* ... and the client returned None for it.
Denied(t, outcome) ==
    denied' = denied \cup {o \in Gifts : o = job[t] /\ outcome.effect /\ outcome.reply = "none"}

CallWrite(t) ==
    /\ job[t] # NoOrder
    /\ \E outcome \in WriteOutcomes :
          /\ \/ ExtendPatch(t, Days[job[t]], outcome)
             \/ CreateUser(t, Days[job[t]], outcome)
          /\ Wrote(t, outcome.effect)
          /\ Denied(t, outcome)
    /\ UNCHANGED <<orderVars, threadVars, bookVars, raced, crashes>>

-----------------------------------------------------------------------------
(* What the callers do with the answer                                     *)

SaveUser(u) == saved' = saved \cup {u}

\* Bug: the exception ends the polling thread.
RoundFailsForGood(t) ==
    /\ t = Poller
    /\ step[t] = "answered"
    /\ answer[t] = "raise"
    /\ step' = [step EXCEPT ![t] = "saved"]
    /\ UNCHANGED <<user, seen, answer, panelVars, avars>>

\* An exception leaves the loop over the list; the next round reads it again.
RoundFails(t) ==
    /\ t = Poller
    /\ step[t] = "answered"
    /\ answer[t] = "raise"
    /\ round' = {}
    /\ Release(t)
    /\ UNCHANGED <<orderVars, bookVars, histVars>>

\* The buyer has his days, or the panel did not say so; the referrer comes next.
BuyerDone(t) ==
    /\ t = Poller
    /\ leg[t] = "own"
    /\ step[t] = "answered"
    /\ answer[t] # "raise"
    /\ IF answer[t] = "ok" THEN SaveUser(user[t]) ELSE UNCHANGED saved
    /\ LET ref == Referrer[Owner[job[t]]]
       IN  IF ref = NoUser
           THEN Release(t)
           ELSE /\ leg' = [leg EXCEPT ![t] = "bonus"]
                /\ BeginCalls(t, ref)
                /\ UNCHANGED job
    /\ UNCHANGED <<orderVars, round, refpaid, histVars>>

ReferrerDone(t) ==
    /\ t = Poller
    /\ leg[t] = "bonus"
    /\ step[t] = "answered"
    /\ answer[t] # "raise"
    /\ refpaid' = IF answer[t] = "ok" THEN [refpaid EXCEPT ![user[t]] = @ + 1] ELSE refpaid
    /\ Release(t)
    /\ UNCHANGED <<orderVars, round, saved, histVars>>

\* process_lava_paid_invoice after its calls: a failure is only logged.
LavaDone(t) ==
    /\ job[t] \in LavaInvoices
    /\ step[t] = "answered"
    /\ IF answer[t] = "ok" THEN SaveUser(user[t]) ELSE UNCHANGED saved
    /\ Release(t)
    /\ UNCHANGED <<orderVars, round, refpaid, histVars>>

\* SponsoredInviteStore.finish and finish_admin_balance_credit:
\* ... WHERE status = 'processing'.
FinishOrder(o, s) ==
    status' = IF status[o] = "processing" THEN [status EXCEPT ![o] = s] ELSE status

\* _handle_invites_redeem writes the user's row before it closes the invite.
InviteSave(t) ==
    /\ job[t] \in Gifts
    /\ step[t] = "answered"
    /\ answer[t] = "ok"
    /\ SaveUser(user[t])
    /\ step' = [step EXCEPT ![t] = "saved"]
    /\ UNCHANGED <<user, seen, answer, panelVars, orderVars, threadVars, refpaid, histVars>>

InviteSucceeds(t) ==
    /\ job[t] \in Gifts
    /\ step[t] = "saved"
    /\ FinishOrder(job[t], "succeeded")
    /\ Release(t)
    /\ UNCHANGED <<claimant, live, provider, round, bookVars, histVars>>

\* Bug: a timeout counts as a refusal, too.
InviteFailsOutright(t) ==
    /\ job[t] \in Gifts
    /\ step[t] = "answered"
    /\ answer[t] # "ok"
    /\ FinishOrder(job[t], "failed")
    /\ Release(t)
    /\ UNCHANGED <<claimant, live, provider, round, bookVars, histVars>>

\* A timeout or a lost connection leaves the outcome open; every other failure
\* is taken for a refusal, which it need not be.
InviteFails(t) ==
    /\ job[t] \in Gifts
    /\ step[t] = "answered"
    /\ answer[t] # "ok"
    /\ FinishOrder(job[t], IF answer[t] = "raise" THEN "uncertain" ELSE "failed")
    /\ Release(t)
    /\ UNCHANGED <<claimant, live, provider, round, bookVars, histVars>>

\* _handle_admin_balance_credit: everything but an answer is a failure.
AdminDone(t) ==
    /\ job[t] \in AdminCredits
    /\ step[t] = "answered"
    /\ FinishOrder(job[t], IF answer[t] = "ok" THEN "succeeded" ELSE "failed")
    /\ Release(t)
    /\ UNCHANGED <<claimant, live, provider, round, bookVars, histVars>>

\* The bot dies and is started again.
Crash ==
    /\ crashes < MaxCrashes
    /\ crashes' = crashes + 1
    /\ round # {} \/ \E t \in Threads : step[t] # "idle"
    /\ DropCalls
    /\ job' = [t \in Threads |-> NoOrder]
    /\ leg' = [t \in Threads |-> "own"]
    /\ round' = {}
    /\ UNCHANGED <<orderVars, bookVars, applied, bonus, denied, raced>>

-----------------------------------------------------------------------------
OrderStep ==
    \/ \E o \in Invoices : \/ SaveInvoice(o)
                           \/ \E s \in {"paid", "expired"} : ProviderSettles(o, s)
    \/ \E o \in Gifts : InviteCreate(o) \/ InviteExpire(o) \/ InviteRevoke(o)

\* One step of the crediting of an order, by whichever thread has claimed it.
CreditStep(t) ==
    \/ CallLookup(t) \/ CallRead(t) \/ CallWrite(t)
    \/ RoundFails(t) \/ BuyerDone(t) \/ ReferrerDone(t)
    \/ LavaDone(t)
    \/ InviteSave(t) \/ InviteSucceeds(t) \/ InviteFails(t)
    \/ AdminDone(t)

PollerStep ==
    \/ StartRound
    \/ \E o \in CryptoInvoices : CheckSaysNothing(o) \/ CheckSaysPaid(o) \/ CheckSaysExpired(o)

WorkerClaims(w) ==
    \/ \E o \in LavaInvoices : LavaWebhook(w, o)
    \/ \E o \in Gifts, u \in Users : InviteClaim(w, o, u)
    \/ \E o \in AdminCredits : AdminClaim(w, o)

Next ==
    \/ OrderStep
    \/ PollerStep
    \/ \E w \in Workers : WorkerClaims(w)
    \/ \E t \in Threads : CreditStep(t)
    \/ Crash

Spec == Init /\ [][Next]_vars

\* Threads are scheduled and every request has a timeout.  The polling thread
\* asks about an invoice in every round, and some answer gets through.  Nothing
\* makes a subscriber pay or a webhook arrive.
Fairness ==
    /\ \A t \in Threads : WF_vars(CreditStep(t))
    /\ WF_vars(PollerStep)
    /\ \A o \in CryptoInvoices : SF_vars(CheckSaysPaid(o)) /\ SF_vars(CheckSaysExpired(o))

FairSpec == Spec /\ Fairness

-----------------------------------------------------------------------------
(* Properties                                                              *)

\* update_invoice_status, SponsoredInviteStore.claim and
\* claim_admin_balance_credit: whatever is delivered twice, retried after a
\* timeout or interrupted by a restart, the days of an order reach the panel at
\* most once, and so does its referral bonus.
CreditedAtMostOnce ==
    /\ \A o \in Orders : applied[o] <= 1
    /\ \A o \in CryptoInvoices : bonus[o] <= 1

\* _handle_invites_redeem: what the status of an invite says of the panel.  Days
\* were written if it is succeeded, and none if it is revoked or pending;
\* processing and uncertain leave it open.  Failed means that none were written,
\* or that the panel wrote them and answered with an error that the bot took for
\* a refusal: a lost answer alone, or a crash, never makes an invite failed.
InviteTellsTruth ==
    \A o \in Gifts :
        /\ status[o] = "succeeded" => applied[o] = 1 /\ claimant[o] \in saved
        /\ status[o] \in {"none", "pending", "revoked"} => applied[o] = 0
        /\ status[o] = "failed" /\ applied[o] > 0 => o \in denied

\* SponsoredInviteStore.claim: an invite that was ever claimed stays with its
\* claimant, and only his subscription is credited for it.
InviteStaysBound ==
    /\ \A o \in Gifts : claimant[o] # NoUser => claimant'[o] = claimant[o]
    /\ \A t \in Threads : job[t] \in Gifts => user[t] = claimant[job[t]]
InvitesStayBound == [][InviteStaysBound]_vars

\* The account that an order is for: a gift is for whoever claimed it.
Beneficiary(o) == IF o \in Gifts THEN claimant[o] ELSE Owner[o]

\* The days written to the panel for user u, by order: those of an order that
\* is for u, and those of the bonus for an invoice of someone u referred.
DaysFrom(u) ==
    [o \in Orders |->
        (IF Beneficiary(o) = u THEN applied[o] * Days[o] ELSE 0)
        + (IF o \in CryptoInvoices /\ Referrer[Owner[o]] = u THEN bonus[o] * Days[o] ELSE 0)]
DaysWritten(u) == MapThenSumSet(LAMBDA o : DaysFrom(u)[o], Orders)

\* api_extend_user: a subscription runs for all the days that were written for
\* it, unless two threads were extending it at the same time.  Timeouts,
\* crashes, expired dates and new users lose nothing.
FromStart(u) == IF Start[u] < 0 THEN 0 ELSE Start[u]
DaysLostOnlyInRaces ==
    \A u \in Users \ raced : DaysWritten(u) > 0 => expiry[u] = FromStart(u) + DaysWritten(u)

\* polling_invoices_thread: an invoice that the provider reports as paid is
\* claimed in the end, whatever happens to the invoices before it in the list.
PaidInvoiceIsClaimed ==
    \A o \in CryptoInvoices : provider[o] = "paid" ~> status[o] = "paid"

\* Nobody is working on order o.
AtRest(o) == \A t \in Threads : job[t] # o

\* polling_invoices_thread: an invoice that was moved out of pending has been
\* extended.
ClaimedMeansExtended ==
    \A o \in CryptoInvoices : status[o] = "paid" /\ AtRest(o) => applied[o] = 1
=============================================================================
