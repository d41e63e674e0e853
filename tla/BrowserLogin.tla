---------------------------- MODULE BrowserLogin ----------------------------
(***************************************************************************)
(* The store behind "sign in with Telegram" on the website                 *)
(* (src/bot/onboarding_auth.py, BrowserLoginStore).  A browser creates a   *)
(* challenge and polls it, a Telegram chat approves it for its account, and*)
(* the browser consumes it for a session.  Every call runs in a thread of  *)
(* its own on its own SQLite connection.  poll and approve read the row    *)
(* outside a transaction and write it later; consume does both inside      *)
(* BEGIN IMMEDIATE and is one step.  Calls that only answer (a malformed   *)
(* argument, an unknown, locked, used or expired challenge) change nothing *)
(* and are stuttering steps.  An expiry time is the flag live.             *)
(***************************************************************************)
EXTENDS Naturals, FiniteSets

CONSTANTS
    Requests,      \* request ids create() may draw
    Accounts,      \* Telegram accounts
    Nobody,        \* a NULL telegram_id
    Threads,       \* server threads inside poll or approve
    MaxAttempts,   \* max_attempts
    MaxGuesses     \* bound: wrong secrets presented per challenge

ASSUME LoginAssumption == /\ Nobody \notin Accounts
                          /\ MaxAttempts \in Nat \ {0}
                          /\ MaxGuesses \in Nat
                          /\ IsFiniteSet(Threads)

VARIABLES
    row,       \* row[r]: the row of browser_login_challenges
    live,      \* live[r]: expires_at is in the future
    th,        \* th[t]: what thread t read and has not written back
    told,      \* told[r]: accounts whose approve() answered success
    taken,     \* taken[r]: the account consume() answered for, or Nobody
    guesses,   \* guesses[r]: wrong secrets that were told they are wrong
    stale      \* requests whose row a thread overwrote with what it read earlier

lvars == <<row, live, th, told, taken, guesses, stale>>

Statuses == {"none", "pending", "approved", "used", "expired", "locked", "pruned"}
Rows == [status : Statuses, acct : Accounts \cup {Nobody}, used : BOOLEAN,
         attempts : 0..MaxAttempts]
NoRow(s) == [status |-> s, acct |-> Nobody, used |-> FALSE, attempts |-> 0]
Idle == [op |-> "idle"]
Calls == {Idle}
         \cup [op : {"guess", "poll"}, r : Requests, row : Rows]
         \cup [op : {"approve"}, r : Requests, a : Accounts]

Exists(r) == row[r].status \notin {"none", "pruned"}
LockedOutLate(r) == row[r].attempts > MaxAttempts
LockedOut(r) == row[r].status = "locked" \/ row[r].attempts >= MaxAttempts

LoginInit ==
    /\ row = [r \in Requests |-> NoRow("none")]
    /\ live = [r \in Requests |-> FALSE]
    /\ th = [t \in Threads |-> Idle]
    /\ told = [r \in Requests |-> {}]
    /\ taken = [r \in Requests |-> Nobody]
    /\ guesses = [r \in Requests |-> 0]
    /\ stale = {}

Create(r) ==
    /\ row[r].status = "none"
    /\ row' = [row EXCEPT ![r] = NoRow("pending")]
    /\ live' = [live EXCEPT ![r] = TRUE]
    /\ UNCHANGED <<th, told, taken, guesses, stale>>

Expire(r) ==
    /\ live[r]
    /\ live' = [live EXCEPT ![r] = FALSE]
    /\ UNCHANGED <<row, th, told, taken, guesses, stale>>

\* prune_expired: the row is deleted a day after it expired.
PruneExpired(r) ==
    /\ Exists(r) /\ ~live[r]
    /\ row' = [row EXCEPT ![r] = NoRow("pruned")]
    /\ UNCHANGED <<live, th, told, taken, guesses, stale>>

Guess(r) == /\ Exists(r) /\ ~LockedOut(r)
            /\ guesses[r] < MaxGuesses
            /\ guesses' = [guesses EXCEPT ![r] = @ + 1]

\* The attempts and status a wrong secret writes, from the row that was read.
Penalty(old) == LET n == old.attempts + 1
                IN  [attempts |-> n, status |-> IF n >= MaxAttempts THEN "locked" ELSE old.status]

\* poll with a wrong secret: the SELECT of _verify_secret_and_get_row ...
PollWrongRead(t, r) ==
    /\ th[t] = Idle
    /\ Guess(r)
    /\ th' = [th EXCEPT ![t] = [op |-> "guess", r |-> r, row |-> row[r]]]
    /\ UNCHANGED <<row, live, told, taken, stale>>

\* ... and its UPDATE, which writes back the status that was read.
PollWrongWrite(t) ==
    /\ th[t].op = "guess"
    /\ LET r == th[t].r
           p == Penalty(th[t].row)
       IN /\ row' = IF Exists(r)
                    THEN [row EXCEPT ![r].attempts = p.attempts, ![r].status = p.status]
                    ELSE row
          /\ stale' = IF row[r] # th[t].row THEN stale \cup {r} ELSE stale
    /\ th' = [th EXCEPT ![t] = Idle]
    /\ UNCHANGED <<live, told, taken, guesses>>

\* poll with the right secret writes only if the row it read was pending and
\* the challenge has expired by the time the clock is read.
PollRead(t, r) ==
    /\ th[t] = Idle
    /\ row[r].status = "pending" /\ ~LockedOut(r)
    /\ th' = [th EXCEPT ![t] = [op |-> "poll", r |-> r, row |-> row[r]]]
    /\ UNCHANGED <<row, live, told, taken, guesses, stale>>

PollWrite(t) ==
    /\ th[t].op = "poll"
    /\ LET r == th[t].r
       IN row' = IF ~live[r] /\ Exists(r) THEN [row EXCEPT ![r].status = "expired"] ELSE row
    /\ th' = [th EXCEPT ![t] = Idle]
    /\ UNCHANGED <<live, told, taken, guesses, stale>>

\* approve reads the clock, then the row, and refuses what is not an unbound
\* live challenge ...
ApproveRead(t, r, a) ==
    /\ th[t] = Idle
    /\ Exists(r) /\ live[r] /\ ~row[r].used
    /\ row[r].status \notin {"used", "locked", "approved"}
    /\ row[r].acct = Nobody
    /\ th' = [th EXCEPT ![t] = [op |-> "approve", r |-> r, a |-> a]]
    /\ UNCHANGED <<row, live, told, taken, guesses, stale>>

ApproveWriteIf(t, ok) ==
    /\ th[t].op = "approve"
    /\ LET r == th[t].r
       IN /\ row' = IF ok THEN [row EXCEPT ![r].status = "approved", ![r].acct = th[t].a] ELSE row
          /\ told' = IF ok THEN [told EXCEPT ![r] = @ \cup {th[t].a}] ELSE told
    /\ th' = [th EXCEPT ![t] = Idle]
    /\ UNCHANGED <<live, taken, guesses, stale>>
ApproveWriteUsed(t) == ApproveWriteIf(t, row[th[t].r].status = "pending")
ApproveWriteBound(t) == ApproveWriteIf(t, Exists(th[t].r) /\ ~row[th[t].r].used)

\* ... and its UPDATE is conditional on status and used_at; expires_at is
\* compared with the clock read before, so it cannot fail here.
ApproveWrite(t) ==
    ApproveWriteIf(t, row[th[t].r].status = "pending" /\ ~row[th[t].r].used)

\* consume with a wrong secret, and with the right one when the exchange
\* callback succeeds (when it raises, the transaction is rolled back).
ConsumeWrong(r) ==
    /\ Guess(r)
    /\ row' = [row EXCEPT ![r].attempts = Penalty(row[r]).attempts, ![r].status = Penalty(row[r]).status]
    /\ UNCHANGED <<live, th, told, taken, stale>>

Consume(r) ==
    /\ Exists(r) /\ ~LockedOut(r) /\ live[r]
    /\ row[r].status = "approved" /\ ~row[r].used
    /\ row' = [row EXCEPT ![r].status = "used", ![r].used = TRUE]
    /\ taken' = [taken EXCEPT ![r] = row[r].acct]
    /\ UNCHANGED <<live, th, told, guesses, stale>>

LoginNext ==
    \/ \E r \in Requests : Create(r) \/ Expire(r) \/ PruneExpired(r) \/ ConsumeWrong(r) \/ Consume(r)
    \/ \E t \in Threads, r \in Requests : PollWrongRead(t, r) \/ PollRead(t, r)
    \/ \E t \in Threads, r \in Requests, a \in Accounts : ApproveRead(t, r, a)
    \/ \E t \in Threads : PollWrongWrite(t) \/ PollWrite(t) \/ ApproveWrite(t)

LoginSpec == LoginInit /\ [][LoginNext]_lvars
-----------------------------------------------------------------------------
\* The variables have their types; a row never counts more than max_attempts
\* wrong secrets (_verify_secret_and_get_row).
LoginTypeOK ==
    /\ row \in [Requests -> Rows]
    /\ live \in [Requests -> BOOLEAN]
    /\ th \in [Threads -> Calls]
    /\ told \in [Requests -> SUBSET Accounts]
    /\ taken \in [Requests -> Accounts \cup {Nobody}]
    /\ guesses \in [Requests -> 0..MaxGuesses]
    /\ stale \subseteq Requests

\* The account a challenge stands for is the telegram_id of its row.
Grant == INSTANCE OneTimeGrant WITH
            Grants <- Requests, Holders <- Accounts,
            holder <- [r \in Requests |-> row[r].acct], taker <- taken

\* However poll, approve and consume interleave, a challenge is a one-time
\* grant: consume() answers once, for the account bound at that moment, and
\* after that no late approve() rebinds the row.
LoginIsOneTimeGrant == Grant!GrantSpec

Guessing(r) == {t \in Threads : th[t].op = "guess" /\ th[t].r = r}

\* Who gets the session was told "success" by approve(), and the challenge
\* was bound once and allowed max_attempts wrong secrets besides the ones in
\* flight, unless a poll with a wrong secret wrote back a row that had
\* changed since it read it.
OneApproverUnlessStale ==
    \A r \in Requests :
        /\ taken[r] # Nobody => taken[r] \in told[r]
        /\ r \notin stale => /\ Cardinality(told[r]) <= 1
                             /\ guesses[r] <= MaxAttempts + Cardinality(Guessing(r))
=============================================================================
