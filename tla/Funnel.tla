------------------------------- MODULE Funnel -------------------------------
(***************************************************************************)
(* The notification funnel and the administrative broadcasts of the bot    *)
(* (src/bot/bot.py).  One thread walks over all users once a minute and    *)
(* sends what is due; notification_history is all it remembers of what was *)
(* sent.  Broadcasts run in threads of their own.  Hours are counted from  *)
(* the users' registration; a key is a notification_type with the end of   *)
(* the term or the invoice that the code appends to it.                    *)
(***************************************************************************)
EXTENDS Integers, Sequences

CONSTANTS
    Users,      \* the telegram ids that the model follows
    Requests,   \* request ids of broadcasts
    Instants,   \* the hours at which the model looks at the clock
    Trial,      \* hours of the free period
    Terms,      \* hours a payment adds: whole days
    MaxBills,   \* bound: invoices in one behaviour
    MaxFaults   \* bound: failed calls and crashes in one behaviour

\* The notification types of the funnel, the reminders and the offers.
MessageNames ==
    {"traffic_6h", "pre_expire_3d_renew", "rating_request", "traffic_12h_dis",
     "traffic_12h_dis_end", "trial_expire_tomorrow", "trial_expired",
     "no_traffic_1h", "no_traffic_24h", "no_traffic_48h", "no_traffic_expired",
     "no_traffic_7d", "ends_soon", "family_upsell", "annual_upsell", "sub_expired_imm",
     "sub_expired_24h", "sub_expired_7d", "weekly_ref_promo",
     "abandoned_pay_30m", "abandoned_pay_3h"}

ASSUME FunnelAssumption ==
    /\ Requests \cap MessageNames = {}
    /\ Instants \subseteq Nat /\ 0 \in Instants
    /\ Trial \in Nat /\ MaxBills \in Nat /\ MaxFaults \in Nat
    /\ Terms \subseteq Nat /\ \A t \in Terms : t >= 24

None == -1

VARIABLES
    now,        \* the hour; a pass reads it once, at its start
    since,      \* since[u]: firstConnectedAt, or None
    expire,     \* expire[u]: expireAt on the panel
    frozen,     \* accounts that the panel has DISABLED, whatever their term
    bill,       \* bill[u]: when u's pending invoice was saved, or None
    reachable,  \* users who have not blocked the bot
    blocked,    \* users.blocked = 1
    hist,       \* notification_history as <<user, key>>
    promo,      \* promo[u]: sent_at of the last weekly promotion, or None
    pc,         \* the notification thread: rest, next, sub or bills
    queue,      \* db_users that are still to be visited
    cur,        \* the user being visited
    todo,       \* the messages the visit still has to send
    held,       \* db_user is bound in this call of run_notifications_check
    bstat,      \* admin_broadcasts.status
    bleft,      \* bleft[r]: who is left for the thread of broadcast r
    lost,       \* broadcasts whose thread died with the process
    told,       \* <<user, key>> that Telegram delivered
    twice,      \* ... delivered more than once
    lapsed,     \* ... delivered although the send reported an error
    warned,     \* <<user, expiry>> of the reminders delivered on the last day
    clean,      \* users visited in this hour without a failure, and neither paid nor
                \* unfrozen since
    well,       \* no failure in the present visit, and no payment either
    passed,     \* a pass has ended in this hour
    bills,      \* invoices so far
    faults      \* failures so far

world  == <<now, since, expire, frozen, bill, bills, reachable>>
db     == <<blocked, hist, promo>>
pass   == <<pc, queue, cur, todo, held, clean, well, passed>>
casts  == <<bstat, bleft, lost>>
ghosts == <<told, twice, lapsed, warned>>
fvars  == <<world, db, pass, casts, ghosts, faults>>

FunnelInit ==
    /\ now = 0 /\ reachable = Users /\ frozen = {}
    /\ since = [u \in Users |-> None]
    /\ expire = [u \in Users |-> Trial]
    /\ bill = [u \in Users |-> None]
    /\ blocked = {} /\ hist = {} /\ promo = [u \in Users |-> None]
    /\ pc = "rest" /\ queue = {} /\ cur = None /\ todo = <<>> /\ held = FALSE
    /\ clean = {} /\ well = TRUE /\ passed = FALSE /\ bills = 0
    /\ bstat = [r \in Requests |-> "none"] /\ bleft = [r \in Requests |-> {}]
    /\ lost = {} /\ told = {} /\ twice = {} /\ lapsed = {} /\ warned = {}
    /\ faults = 0

Fault == faults < MaxFaults /\ faults' = faults + 1

-----------------------------------------------------------------------------
(* What is due.  The funnel proper is an if-elif chain: its first branch   *)
(* that applies is taken, whether or not that branch then sends.           *)

Sent(u, name) == <<u, <<name, 0>>>> \in hist
Branch(name, on, sends) == [key |-> <<name, 0>>, on |-> on, sends |-> sends]
Plain(u, name, on) == Branch(name, on /\ ~Sent(u, name), TRUE)

DisEndAgain(u, used) ==
    Branch("traffic_12h_dis_end", used >= 24 /\ Sent(u, "traffic_12h_dis"), TRUE)
DisEnd(u, used) ==
    Plain(u, "traffic_12h_dis_end", used >= 24 /\ Sent(u, "traffic_12h_dis"))

TrafficChain(u) ==
    LET used == now - since[u]
        left == expire[u] - now
        unrated == used >= 72 /\ ~Sent(u, "rating_request")
    IN << Plain(u, "traffic_6h", used >= 6),
          Branch("pre_expire_3d_renew",
                 unrated /\ ~Sent(u, "pre_expire_3d_renew"), left \div 24 \in 2..4),
          Branch("rating_request", unrated /\ Sent(u, "pre_expire_3d_renew"), TRUE),
          Plain(u, "traffic_12h_dis", used >= 12),
          DisEnd(u, used),
          Plain(u, "trial_expire_tomorrow", now >= 48),
          Branch("trial_expired", now >= 72 /\ ~Sent(u, "trial_expired"), left < 0) >>

NoTrafficChain(u) ==
    << Plain(u, "no_traffic_1h", now >= 1),
       Plain(u, "no_traffic_24h", now >= 24),
       Plain(u, "no_traffic_48h", now >= 48),
       Plain(u, "no_traffic_expired", now >= 72),
       Plain(u, "no_traffic_7d", now >= 240) >>

Chain(u) == IF since[u] # None THEN TrafficChain(u) ELSE NoTrafficChain(u)

Taken(chain) ==
    LET on == {i \in DOMAIN chain : chain[i].on}
    IN IF on = {} THEN Branch("nothing", TRUE, FALSE)
       ELSE chain[CHOOSE i \in on : \A j \in on : i <= j]

EndsSoonUndated(u) == <<"ends_soon", 0>>
EndsSoon(u) == <<"ends_soon", expire[u]>>

LastDay(u) == 0 < expire[u] - now /\ expire[u] - now <= 24 /\ <<u, EndsSoon(u)>> \notin hist

\* Reminders and offers after the trial; these are looked at one by one.  For a
\* frozen account whose term still runs, none of them is due.
Paid(u) ==
    LET left == expire[u] - now
        ago  == now - expire[u]
    IN IF u \notin frozen /\ left >= 0
       THEN << [key |-> EndsSoon(u), on |-> LastDay(u), sends |-> TRUE],
               Plain(u, "family_upsell", now >= 720),
               Plain(u, "annual_upsell", now >= 1440) >>
       ELSE << Plain(u, "sub_expired_imm", ago >= 0 /\ ago < 24),
               Plain(u, "sub_expired_24h", ago >= 24 /\ ago < 168),
               Plain(u, "sub_expired_7d", ago >= 168) >>

Weekly(u) ==
    Branch("weekly_ref_promo", promo[u] = None \/ now - promo[u] >= 168, TRUE)

\* What a visit sends, in this order.
Add(keys, b) == IF b.on /\ b.sends THEN Append(keys, b.key) ELSE keys

Due(u) ==
    LET first == Add(<<>>, Taken(Chain(u)))
        paid  == Paid(u)
    IN IF now <= 72 THEN first
       ELSE Add(Add(Add(Add(first, paid[1]), paid[2]), paid[3]), Weekly(u))

\* The half-hour and the three-hour reminder of a pending invoice.
Abandoned(u) ==
    LET age == now - bill[u]
        key == <<IF age < 3 THEN "abandoned_pay_30m" ELSE "abandoned_pay_3h", bill[u]>>
    IN IF bill[u] # None /\ age > 0 /\ age < 24 /\ <<u, key>> \notin hist
       THEN <<key>> ELSE <<>>

-----------------------------------------------------------------------------
(* run_notifications_check.                                                *)

StartPass ==
    /\ pc = "rest"
    /\ pc' = "next" /\ queue' = Users \ blocked /\ held' = FALSE
    /\ UNCHANGED <<world, db, cur, todo, clean, well, passed, casts, ghosts, faults>>

\* The rating branch reads db_user, which only the branch before it assigns;
\* unbound, the exception ends the visit before anything is sent.  Bound, it holds
\* a record of get_user, which has no rating_given: the request is always sent.
Raises(u) == Taken(Chain(u)).key[1] = "rating_request" /\ ~held

Visit(u) ==
    /\ pc = "next" /\ u \in queue
    /\ queue' = queue \ {u}
    /\ IF Raises(u)
       THEN /\ clean' = clean \cup {u}
            /\ UNCHANGED <<pc, cur, todo, held>>
       ELSE /\ pc' = "sub" /\ cur' = u /\ todo' = Due(u)
            /\ held' = (held \/ Taken(Chain(u)).key[1] = "pre_expire_3d_renew")
            /\ clean' = clean \ {u}
    /\ well' = TRUE
    /\ UNCHANGED <<world, db, passed, casts, ghosts, faults>>

\* A subscriber outside Users, earlier in the list, takes the branch that binds
\* db_user; the rating branch of a later visit then reads that subscriber's record.
VisitOther ==
    /\ pc = "next" /\ \E u \in queue : Raises(u)
    /\ held' = TRUE
    /\ UNCHANGED <<world, db, pc, queue, cur, todo, clean, well, passed, casts, ghosts, faults>>

\* api_get_user answers nothing: the user is passed over.
VisitFails(u) ==
    /\ pc = "next" /\ u \in queue /\ Fault
    /\ queue' = queue \ {u}
    /\ UNCHANGED <<world, db, pc, cur, todo, held, clean, well, passed, casts, ghosts>>

Deliver(u, key) ==
    /\ told' = told \cup {<<u, key>>}
    /\ twice' = IF <<u, key>> \in told /\ key[1] # "weekly_ref_promo"
                THEN twice \cup {<<u, key>>} ELSE twice
    /\ warned' = IF key[1] = "ends_soon" /\ expire[u] - now <= 24
                 THEN warned \cup {<<u, expire[u]>>} ELSE warned

Sending == pc \in {"sub", "bills"} /\ todo # <<>> /\ todo' = Tail(todo)

\* send_funnel_notification: the message goes out and the row is written ...
SendRecorded ==
    /\ Sending /\ cur \in reachable
    /\ LET key == Head(todo)
       IN /\ Deliver(cur, key)
          /\ hist' = hist \cup {<<cur, key>>}
          /\ promo' = IF key[1] = "weekly_ref_promo" THEN [promo EXCEPT ![cur] = now]
                                                     ELSE promo
    /\ UNCHANGED <<world, blocked, pc, queue, cur, held, clean, well, passed, casts, lapsed, faults>>

\* ... or it goes out and the answer or the row is lost ...
SendUnrecorded ==
    /\ Sending /\ cur \in reachable /\ Fault
    /\ Deliver(cur, Head(todo))
    /\ lapsed' = lapsed \cup {<<cur, Head(todo)>>}
    /\ well' = FALSE
    /\ UNCHANGED <<world, db, pc, queue, cur, held, clean, passed, casts>>

\* ... or Telegram refuses it for now ...
SendRefused ==
    /\ Sending /\ Fault
    /\ well' = FALSE
    /\ UNCHANGED <<world, db, pc, queue, cur, held, clean, passed, casts, ghosts>>

\* ... or for good, and later passes leave the user out.
SendUnreachable ==
    /\ Sending /\ cur \notin reachable
    /\ blocked' = blocked \cup {cur}
    /\ well' = FALSE
    /\ UNCHANGED <<world, hist, promo, pc, queue, cur, held, clean, passed, casts, ghosts, faults>>

ReadInvoices ==
    /\ pc = "sub" /\ todo = <<>>
    /\ pc' = "bills" /\ todo' = Abandoned(cur)
    /\ UNCHANGED <<world, db, queue, cur, held, clean, well, passed, casts, ghosts, faults>>

LeaveUser ==
    /\ pc = "bills" /\ todo = <<>>
    /\ pc' = "next" /\ cur' = None
    /\ clean' = IF well THEN clean \cup {cur} ELSE clean
    /\ UNCHANGED <<world, db, queue, todo, held, well, passed, casts, ghosts, faults>>

EndPass ==
    /\ pc = "next" /\ queue = {}
    /\ pc' = "rest" /\ held' = FALSE /\ passed' = TRUE
    /\ UNCHANGED <<world, db, queue, cur, todo, clean, well, casts, ghosts, faults>>

-----------------------------------------------------------------------------
(* Broadcasts.  A request id is accepted once; its thread is not resumed.  *)

QueueBroadcast(r) ==
    /\ bstat[r] = "none"
    /\ bstat' = [bstat EXCEPT ![r] = "queued"]
    /\ UNCHANGED <<world, db, pass, bleft, lost, ghosts, faults>>

StartBroadcast(r) ==
    /\ bstat[r] = "queued" /\ r \notin lost
    /\ bstat' = [bstat EXCEPT ![r] = "processing"]
    /\ bleft' = [bleft EXCEPT ![r] = Users]
    /\ UNCHANGED <<world, db, pass, lost, ghosts, faults>>

\* Every user is written to, the blocked ones too; an error is only counted.
SendBroadcast(r, u) ==
    /\ u \in bleft[r]
    /\ bleft' = [bleft EXCEPT ![r] = @ \ {u}]
    /\ IF u \in reachable THEN Deliver(u, <<r, 0>>) ELSE UNCHANGED <<told, twice, warned>>
    /\ UNCHANGED <<world, db, pass, bstat, lost, lapsed, faults>>

EndBroadcast(r) ==
    /\ bstat[r] = "processing" /\ bleft[r] = {} /\ r \notin lost
    /\ bstat' = [bstat EXCEPT ![r] = "completed"]
    /\ UNCHANGED <<world, db, pass, bleft, lost, ghosts, faults>>

-----------------------------------------------------------------------------
(* The world around the bot.                                               *)

\* The process dies and is started again: both kinds of threads are gone.
Crash ==
    /\ Fault
    /\ pc' = "rest" /\ queue' = {} /\ cur' = None /\ todo' = <<>> /\ held' = FALSE
    /\ bleft' = [r \in Requests |-> {}]
    /\ lost' = lost \cup {r \in Requests : bstat[r] \in {"queued", "processing"}}
    /\ UNCHANGED <<world, db, clean, well, passed, bstat, ghosts>>

Tick ==
    /\ pc = "rest" /\ passed
    /\ \E t \in Instants :
          /\ t > now /\ \A s \in Instants : s > now => s >= t
          /\ now' = t
    /\ clean' = {} /\ passed' = FALSE
    /\ UNCHANGED <<since, expire, frozen, bill, bills, reachable, db, pc, queue, cur, todo, held, well,
                   casts, ghosts, faults>>

\* A visit reads the panel once, so the moments between passes are enough.
Connect(u) ==
    /\ pc = "rest" /\ since[u] = None
    /\ since' = [since EXCEPT ![u] = now]
    /\ UNCHANGED <<now, expire, frozen, bill, bills, reachable, db, pass, casts, ghosts, faults>>

\* No message is due for an invoice just saved, so here too.
SaveInvoice(u) ==
    /\ pc = "rest" /\ bill[u] = None /\ bills < MaxBills
    /\ bill' = [bill EXCEPT ![u] = now]
    /\ bills' = bills + 1
    /\ UNCHANGED <<now, since, expire, frozen, reachable, db, pass, casts, ghosts, faults>>

Pay(u, term) ==
    /\ bill[u] # None
    /\ bill' = [bill EXCEPT ![u] = None]
    /\ expire' = [expire EXCEPT ![u] = (IF @ > now THEN @ ELSE now) + term]
    /\ clean' = clean \ {u}
    /\ well' = (well /\ cur # u)
    /\ UNCHANGED <<now, since, frozen, bills, reachable, db, pc, queue, cur, todo, held, passed,
                   casts, ghosts, faults>>

\* The owner pauses the account or resumes it; a visit reads the status with the term.
AccountFreeze(u) ==
    /\ pc = "rest" /\ u \notin frozen
    /\ frozen' = frozen \cup {u}
    /\ UNCHANGED <<now, since, expire, bill, bills, reachable, db, pass, casts, ghosts, faults>>

AccountUnfreeze(u) ==
    /\ pc = "rest" /\ u \in frozen
    /\ frozen' = frozen \ {u}
    /\ clean' = clean \ {u}
    /\ UNCHANGED <<now, since, expire, bill, bills, reachable, db, pc, queue, cur, todo, held, well,
                   passed, casts, ghosts, faults>>

\* A user blocks the bot, or unblocks it; nothing clears users.blocked.
Toggle(u) ==
    /\ Fault
    /\ reachable' = IF u \in reachable THEN reachable \ {u} ELSE reachable \cup {u}
    /\ UNCHANGED <<now, since, expire, frozen, bill, bills, db, pass, casts, ghosts>>

FunnelNext ==
    \/ StartPass \/ VisitOther \/ ReadInvoices \/ LeaveUser \/ EndPass
    \/ SendRecorded \/ SendUnrecorded \/ SendRefused \/ SendUnreachable
    \/ Crash \/ Tick
    \/ \E u \in Users : \/ Visit(u) \/ VisitFails(u)
                        \/ Connect(u) \/ SaveInvoice(u) \/ Toggle(u)
                        \/ AccountFreeze(u) \/ AccountUnfreeze(u)
                        \/ \E term \in Terms : Pay(u, term)
    \/ \E r \in Requests : \/ QueueBroadcast(r) \/ StartBroadcast(r) \/ EndBroadcast(r)
                           \/ \E u \in Users : SendBroadcast(r, u)

FunnelSpec == FunnelInit /\ [][FunnelNext]_fvars

-----------------------------------------------------------------------------
\* No subscriber gets the same message twice, whatever the passes, crashes and
\* renewals in between, unless Telegram delivered it and the bot was told that it
\* had not (send_funnel_notification); a broadcast is never repeated at all.  The
\* weekly promotion, which is meant to be repeated, is not looked at.
MessagedOnce == twice \subseteq lapsed

\* The visit of such a user ends in an exception (run_notifications_check).
Silenced(u) ==
    /\ since[u] # None /\ now - since[u] >= 72
    /\ Sent(u, "pre_expire_3d_renew") /\ ~Sent(u, "rating_request")

\* On the last day of every term of an active account, one-day and renewed terms
\* too, a pass that met no failure has told the subscriber that the term ends;
\* those whom the unbound db_user cuts off from all messages and those who have
\* frozen the account are not told (run_notifications_check).
WarnedUnlessSilenced ==
    \A u \in clean \ frozen :
        now > 72 /\ expire[u] - now \in 1..24
            => <<u, expire[u]>> \in warned \/ Silenced(u)
=============================================================================
