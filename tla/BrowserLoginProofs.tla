------------------------- MODULE BrowserLoginProofs -------------------------
(***************************************************************************)
(* Proofs about BrowserLogin, for any number of challenges, accounts and   *)
(* threads: its types, who gets the session, and that a challenge is a     *)
(* one-time grant.                                                         *)
(***************************************************************************)
EXTENDS BrowserLogin, FiniteSetTheorems, TLAPS

\* What a poll with a wrong secret has read: a row that existed, below the
\* limit, and whose account, if it was approved, is still there.
ReadRowsOK ==
    \A t \in Threads : th[t].op = "guess" =>
        /\ th[t].row.attempts < MaxAttempts
        /\ th[t].row.status \notin {"none", "pruned"}
        /\ row[th[t].r].status # "none"
        /\ th[t].row.status = "approved" =>
              row[th[t].r].acct # Nobody \/ row[th[t].r].status = "pruned"

\* An approved row names an account, that account was told so, and a challenge
\* that was consumed says so until it is deleted.
RowsOK ==
    \A r \in Requests :
        /\ row[r].status = "approved" => row[r].acct # Nobody
        /\ row[r].status \in {"none", "pruned"} =>
              row[r].acct = Nobody /\ ~row[r].used /\ row[r].attempts = 0
        /\ row[r].acct # Nobody => row[r].acct \in told[r]
        /\ taken[r] # Nobody => row[r].used \/ row[r].status = "pruned"
        /\ taken[r] # Nobody => taken[r] \in told[r]

\* Without a stale write, only one approve() is told "success", because the row
\* never becomes pending again ...
BoundOnce ==
    \A r \in Requests \ stale :
        /\ \E a \in Accounts \cup {Nobody} : told[r] \subseteq {a}
        /\ told[r] # {} => row[r].status \notin {"none", "pending"}

\* ... and every wrong secret is counted in the row or about to be.
GuessesCounted ==
    \A r \in Requests \ stale :
        LET flying == Cardinality(Guessing(r))
        IN /\ guesses[r] <= MaxAttempts + flying
           /\ row[r].status # "pruned" => guesses[r] <= row[r].attempts + flying

LoginInv == LoginTypeOK /\ ReadRowsOK /\ RowsOK /\ BoundOnce /\ GuessesCounted


-----------------------------------------------------------------------------
(* The invariant is inductive                                              *)

\* No challenge exists at the beginning.
LEMMA LoginInitInv == LoginInit => LoginInv
<1> SUFFICES ASSUME LoginInit PROVE LoginInv
  OBVIOUS
<1>1. LoginTypeOK
  BY LoginAssumption DEF LoginInit, LoginTypeOK, Rows, NoRow, Statuses, Calls
<1>2. ReadRowsOK /\ RowsOK /\ BoundOnce
  BY LoginAssumption DEF LoginInit, ReadRowsOK, RowsOK, BoundOnce, NoRow, Idle
<1>3. GuessesCounted
  <2> SUFFICES ASSUME NEW r \in Requests
               PROVE  /\ guesses[r] = 0
                      /\ row[r].attempts = 0
                      /\ Cardinality(Guessing(r)) = 0
    BY LoginAssumption DEF GuessesCounted
  <2>1. Guessing(r) = {}
    BY DEF LoginInit, Guessing, Idle
  <2> QED BY <2>1, FS_EmptySet DEF LoginInit, NoRow
<1> QED BY <1>1, <1>2, <1>3 DEF LoginInv

\* What a wrong secret writes, from a row below the limit (_verify_secret_and_get_row).
LEMMA PenaltyWrites ==
    ASSUME NEW old \in Rows, old.attempts < MaxAttempts
    PROVE  /\ Penalty(old).attempts = old.attempts + 1
           /\ Penalty(old).attempts \in 0..MaxAttempts
           /\ Penalty(old).status \in {old.status, "locked"}
           /\ Penalty(old).status \in Statuses
BY LoginAssumption DEF Penalty, Rows, Statuses


\* Every step keeps the types.
LEMMA LoginTypesStep ==
    ASSUME LoginInv, [LoginNext]_lvars PROVE LoginTypeOK'
<1> USE LoginAssumption DEF LoginInv
<1>1. ASSUME NEW r \in Requests, Create(r) PROVE LoginTypeOK'
  BY <1>1 DEF Create, NoRow, LoginTypeOK, ReadRowsOK, Rows, Statuses, Calls, Idle
<1>2. ASSUME NEW r \in Requests, Expire(r) PROVE LoginTypeOK'
  BY <1>2 DEF Expire, LoginTypeOK, ReadRowsOK, Rows, Statuses, Calls, Idle
<1>3. ASSUME NEW r \in Requests, PruneExpired(r) PROVE LoginTypeOK'
  BY <1>3 DEF PruneExpired, NoRow, Exists, LoginTypeOK, ReadRowsOK, Rows, Statuses,
              Calls, Idle
<1>4. ASSUME NEW r \in Requests, ConsumeWrong(r) PROVE LoginTypeOK'
  <2>1. row[r] \in Rows /\ row[r].attempts < MaxAttempts
    BY <1>4 DEF LoginTypeOK, ConsumeWrong, Guess, LockedOut, Rows
  <2>2. row' \in [Requests -> Rows]
    BY <1>4, <2>1, PenaltyWrites DEF LoginTypeOK, ConsumeWrong, Rows
  <2> QED BY <1>4, <2>2 DEF LoginTypeOK, ConsumeWrong, Guess
<1>5. ASSUME NEW r \in Requests, Consume(r) PROVE LoginTypeOK'
  BY <1>5 DEF Consume, Exists, LockedOut, LoginTypeOK, ReadRowsOK, Rows, Statuses,
              Calls, Idle
<1>6. ASSUME NEW t \in Threads, NEW r \in Requests, PollWrongRead(t, r) PROVE LoginTypeOK'
  BY <1>6 DEF PollWrongRead, Guess, Exists, LockedOut, LoginTypeOK, ReadRowsOK,
              Rows, Statuses, Calls, Idle
<1>7. ASSUME NEW t \in Threads, NEW r \in Requests, PollRead(t, r) PROVE LoginTypeOK'
  BY <1>7 DEF PollRead, LockedOut, LoginTypeOK, ReadRowsOK, Rows, Statuses, Calls,
              Idle
<1>8. ASSUME NEW t \in Threads, NEW r \in Requests, NEW a \in Accounts, ApproveRead(t, r, a) PROVE LoginTypeOK'
  BY <1>8 DEF ApproveRead, Exists, LoginTypeOK, ReadRowsOK, Rows, Statuses, Calls,
              Idle
<1>9. ASSUME NEW t \in Threads, PollWrongWrite(t) PROVE LoginTypeOK'
  BY <1>9, PenaltyWrites DEF PollWrongWrite, Exists, LoginTypeOK, ReadRowsOK, Rows,
                             Statuses, Calls, Idle
<1>10. ASSUME NEW t \in Threads, PollWrite(t) PROVE LoginTypeOK'
  BY <1>10 DEF PollWrite, Exists, LoginTypeOK, ReadRowsOK, Rows, Statuses, Calls,
               Idle
<1>11. ASSUME NEW t \in Threads, ApproveWrite(t) PROVE LoginTypeOK'
  <2>1. th[t].r \in Requests /\ th[t].a \in Accounts
    BY <1>11 DEF ApproveWrite, ApproveWriteIf, LoginTypeOK, Calls, Idle
  <2>2. told' \in [Requests -> SUBSET Accounts]
    BY <1>11, <2>1 DEF ApproveWrite, ApproveWriteIf, LoginTypeOK
  <2>3. row' \in [Requests -> Rows]
    BY <1>11, <2>1 DEF ApproveWrite, ApproveWriteIf, LoginTypeOK, Rows, Statuses
  <2> QED BY <1>11, <2>2, <2>3 DEF ApproveWrite, ApproveWriteIf, LoginTypeOK, Calls
<1>12. CASE UNCHANGED lvars
  BY <1>12 DEF lvars, LoginTypeOK
<1> QED
  BY <1>1, <1>2, <1>3, <1>4, <1>5, <1>6, <1>7, <1>8, <1>9, <1>10, <1>11, <1>12 DEF LoginNext


\* Every step keeps what rows and pending writes say about each other.
LEMMA LoginRowsStep ==
    ASSUME LoginInv, [LoginNext]_lvars PROVE ReadRowsOK' /\ RowsOK'
<1> USE LoginAssumption DEF LoginInv
<1>1. ASSUME NEW r \in Requests, Create(r) PROVE ReadRowsOK' /\ RowsOK'
  <2>1. ReadRowsOK'
    BY <1>1 DEF Create, NoRow, LoginTypeOK, ReadRowsOK, RowsOK, Rows, Calls, Idle
  <2>2. RowsOK'
    BY <1>1 DEF Create, NoRow, LoginTypeOK, ReadRowsOK, RowsOK, Rows, Calls, Idle
  <2> QED BY <2>1, <2>2
<1>2. ASSUME NEW r \in Requests, Expire(r) PROVE ReadRowsOK' /\ RowsOK'
  <2>1. ReadRowsOK'
    BY <1>2 DEF Expire, LoginTypeOK, ReadRowsOK, RowsOK, NoRow, Rows, Calls, Idle
  <2>2. RowsOK'
    BY <1>2 DEF Expire, LoginTypeOK, ReadRowsOK, RowsOK, NoRow, Rows, Calls, Idle
  <2> QED BY <2>1, <2>2
<1>3. ASSUME NEW r \in Requests, PruneExpired(r) PROVE ReadRowsOK' /\ RowsOK'
  <2>1. ReadRowsOK'
    BY <1>3 DEF PruneExpired, NoRow, Exists, LoginTypeOK, ReadRowsOK, RowsOK, Rows,
                Calls, Idle
  <2>2. RowsOK'
    BY <1>3 DEF PruneExpired, NoRow, Exists, LoginTypeOK, ReadRowsOK, RowsOK, Rows,
                Calls, Idle
  <2> QED BY <2>1, <2>2
<1>4. ASSUME NEW r \in Requests, ConsumeWrong(r) PROVE ReadRowsOK' /\ RowsOK'
  <2>1. ReadRowsOK'
    BY <1>4, PenaltyWrites DEF ConsumeWrong, Guess, Exists, LockedOut, LoginTypeOK,
                               ReadRowsOK, RowsOK, NoRow, Rows, Calls, Idle
  <2>2. RowsOK'
    BY <1>4, PenaltyWrites DEF ConsumeWrong, Guess, Exists, LockedOut, LoginTypeOK,
                               ReadRowsOK, RowsOK, NoRow, Rows, Calls, Idle
  <2> QED BY <2>1, <2>2
<1>5. ASSUME NEW r \in Requests, Consume(r) PROVE ReadRowsOK' /\ RowsOK'
  <2>1. ReadRowsOK'
    BY <1>5 DEF Consume, Exists, LockedOut, LoginTypeOK, ReadRowsOK, RowsOK, NoRow,
                Rows, Calls, Idle
  <2>2. RowsOK'
    BY <1>5 DEF Consume, Exists, LockedOut, LoginTypeOK, ReadRowsOK, RowsOK, NoRow,
                Rows, Calls, Idle
  <2> QED BY <2>1, <2>2
<1>6. ASSUME NEW t \in Threads, NEW r \in Requests, PollWrongRead(t, r) PROVE ReadRowsOK' /\ RowsOK'
  <2>1. ReadRowsOK'
    BY <1>6 DEF PollWrongRead, Guess, Exists, LockedOut, LoginTypeOK, ReadRowsOK,
                RowsOK, NoRow, Rows, Calls, Idle
  <2>2. RowsOK'
    BY <1>6 DEF PollWrongRead, Guess, Exists, LockedOut, LoginTypeOK, ReadRowsOK,
                RowsOK, NoRow, Rows, Calls, Idle
  <2> QED BY <2>1, <2>2
<1>7. ASSUME NEW t \in Threads, NEW r \in Requests, PollRead(t, r) PROVE ReadRowsOK' /\ RowsOK'
  <2>1. ReadRowsOK'
    BY <1>7 DEF PollRead, LockedOut, LoginTypeOK, ReadRowsOK, RowsOK, NoRow, Rows,
                Calls, Idle
  <2>2. RowsOK'
    BY <1>7 DEF PollRead, LockedOut, LoginTypeOK, ReadRowsOK, RowsOK, NoRow, Rows,
                Calls, Idle
  <2> QED BY <2>1, <2>2
<1>8. ASSUME NEW t \in Threads, NEW r \in Requests, NEW a \in Accounts, ApproveRead(t, r, a)
      PROVE  ReadRowsOK' /\ RowsOK'
  <2>1. ReadRowsOK'
    BY <1>8 DEF ApproveRead, Exists, LoginTypeOK, ReadRowsOK, RowsOK, NoRow, Rows,
                Calls, Idle
  <2>2. RowsOK'
    BY <1>8 DEF ApproveRead, Exists, LoginTypeOK, ReadRowsOK, RowsOK, NoRow, Rows,
                Calls, Idle
  <2> QED BY <2>1, <2>2
<1>9. ASSUME NEW t \in Threads, PollWrongWrite(t) PROVE ReadRowsOK' /\ RowsOK'
  <2> DEFINE r == th[t].r
             p == Penalty(th[t].row)
  <2>1. r \in Requests /\ th[t].row \in Rows /\ th[t].op = "guess"
    BY <1>9 DEF PollWrongWrite, LoginTypeOK, Calls, Idle
  <2>2. /\ th[t].row.attempts < MaxAttempts
        /\ p.status \in {th[t].row.status, "locked"}
    BY <2>1, PenaltyWrites DEF ReadRowsOK
  <2>3. \A q \in Requests :
           /\ row'[q].used = row[q].used /\ row'[q].acct = row[q].acct
           /\ \/ row'[q].status = row[q].status /\ row'[q].attempts = row[q].attempts
              \/ q = r /\ Exists(q) /\ row'[q].status = p.status
    BY <1>9, <2>1 DEF PollWrongWrite, LoginTypeOK, Rows
  <2>4. /\ \A u \in Threads : th'[u].op = "guess" => th'[u] = th[u] /\ th[u].r \in Requests
        /\ told' = told /\ taken' = taken
    BY <1>9 DEF PollWrongWrite, LoginTypeOK, Calls, Idle
  <2>5. /\ p.status \notin {"none", "pruned"}
        /\ p.status = "approved" => row[r].acct # Nobody \/ row[r].status = "pruned"
    BY <2>1, <2>2 DEF ReadRowsOK
  <2>6. ReadRowsOK'
    BY <2>3, <2>4, <2>5 DEF ReadRowsOK, Exists
  <2>7. RowsOK'
    BY <2>3, <2>4, <2>5 DEF RowsOK, Exists
  <2> QED BY <2>6, <2>7
<1>10. ASSUME NEW t \in Threads, PollWrite(t) PROVE ReadRowsOK' /\ RowsOK'
  <2>1. ReadRowsOK'
    BY <1>10 DEF PollWrite, Exists, LoginTypeOK, ReadRowsOK, RowsOK, NoRow, Rows,
                 Calls, Idle
  <2>2. RowsOK'
    BY <1>10 DEF PollWrite, Exists, LoginTypeOK, ReadRowsOK, RowsOK, NoRow, Rows,
                 Calls, Idle
  <2> QED BY <2>1, <2>2
<1>11. ASSUME NEW t \in Threads, ApproveWrite(t) PROVE ReadRowsOK' /\ RowsOK'
  <2> DEFINE r == th[t].r
             a == th[t].a
             ok == row[r].status = "pending" /\ ~row[r].used
  <2>1. r \in Requests /\ a \in Accounts
    BY <1>11 DEF ApproveWrite, ApproveWriteIf, LoginTypeOK, Calls, Idle
  <2>2. /\ ok => /\ row' = [row EXCEPT ![r].status = "approved", ![r].acct = a]
                 /\ told' = [told EXCEPT ![r] = @ \cup {a}]
        /\ ~ok => row' = row /\ told' = told
        /\ taken' = taken
    BY <1>11 DEF ApproveWrite, ApproveWriteIf
  <2>3. \A u \in Threads : th'[u].op = "guess" => th'[u] = th[u] /\ th[u].r \in Requests
    BY <1>11 DEF ApproveWrite, ApproveWriteIf, LoginTypeOK, Calls, Idle
  <2>4. \A q \in Requests :
           /\ row'[q].used = row[q].used /\ row'[q].attempts = row[q].attempts
           /\ \/ row'[q].status = row[q].status /\ row'[q].acct = row[q].acct
              \/ /\ q = r /\ row[q].status = "pending" /\ row'[q].status = "approved"
                 /\ row'[q].acct = a /\ a \in told'[q]
           /\ told[q] \subseteq told'[q]
    BY <2>1, <2>2 DEF LoginTypeOK, Rows
  <2>5. ReadRowsOK'
    BY <2>1, <2>3, <2>4, LoginAssumption DEF ReadRowsOK
  <2>6. RowsOK'
    BY <2>1, <2>2, <2>4, LoginAssumption DEF RowsOK
  <2> QED BY <2>5, <2>6
<1>12. CASE UNCHANGED lvars
  BY <1>12 DEF lvars, ReadRowsOK, RowsOK
<1> QED
  BY <1>1, <1>2, <1>3, <1>4, <1>5, <1>6, <1>7, <1>8, <1>9, <1>10, <1>11, <1>12 DEF LoginNext


\* Every step that overwrites no later change leaves a bound challenge bound.
LEMMA LoginBoundStep ==
    ASSUME LoginInv, [LoginNext]_lvars PROVE BoundOnce'
<1> USE LoginAssumption DEF LoginInv
<1>1. ASSUME NEW r \in Requests, Create(r) PROVE BoundOnce'
  BY <1>1 DEF Create, NoRow, LoginTypeOK, ReadRowsOK, BoundOnce, Rows, Calls, Idle
<1>2. ASSUME NEW r \in Requests, Expire(r) PROVE BoundOnce'
  BY <1>2 DEF Expire, LoginTypeOK, ReadRowsOK, BoundOnce, Rows, Calls, Idle
<1>3. ASSUME NEW r \in Requests, PruneExpired(r) PROVE BoundOnce'
  BY <1>3 DEF PruneExpired, NoRow, Exists, LoginTypeOK, ReadRowsOK, BoundOnce, Rows,
              Calls, Idle
<1>4. ASSUME NEW r \in Requests, ConsumeWrong(r) PROVE BoundOnce'
  BY <1>4, PenaltyWrites DEF ConsumeWrong, Guess, Exists, LockedOut, LoginTypeOK,
                             ReadRowsOK, BoundOnce, Rows, Calls, Idle
<1>5. ASSUME NEW r \in Requests, Consume(r) PROVE BoundOnce'
  BY <1>5 DEF Consume, Exists, LockedOut, LoginTypeOK, ReadRowsOK, BoundOnce, Rows,
              Calls, Idle
<1>6. ASSUME NEW t \in Threads, NEW r \in Requests, PollWrongRead(t, r) PROVE BoundOnce'
  BY <1>6 DEF PollWrongRead, Guess, Exists, LockedOut, LoginTypeOK, ReadRowsOK,
              BoundOnce, Rows, Calls, Idle
<1>7. ASSUME NEW t \in Threads, NEW r \in Requests, PollRead(t, r) PROVE BoundOnce'
  BY <1>7 DEF PollRead, LockedOut, LoginTypeOK, ReadRowsOK, BoundOnce, Rows, Calls,
              Idle
<1>8. ASSUME NEW t \in Threads, NEW r \in Requests, NEW a \in Accounts, ApproveRead(t, r, a) PROVE BoundOnce'
  BY <1>8 DEF ApproveRead, Exists, LoginTypeOK, ReadRowsOK, BoundOnce, Rows, Calls,
              Idle
<1>9. ASSUME NEW t \in Threads, PollWrongWrite(t) PROVE BoundOnce'
  BY <1>9, PenaltyWrites DEF PollWrongWrite, Exists, LoginTypeOK, ReadRowsOK,
                             BoundOnce, Rows, Calls, Idle
<1>10. ASSUME NEW t \in Threads, PollWrite(t) PROVE BoundOnce'
  BY <1>10 DEF PollWrite, Exists, LoginTypeOK, ReadRowsOK, BoundOnce, Rows, Calls,
               Idle
<1>11. ASSUME NEW t \in Threads, ApproveWrite(t) PROVE BoundOnce'
  BY <1>11 DEF ApproveWrite, ApproveWriteIf, LoginTypeOK, ReadRowsOK, BoundOnce,
               Rows, Calls, Idle
<1>12. CASE UNCHANGED lvars
  BY <1>12 DEF lvars, BoundOnce
<1> QED
  BY <1>1, <1>2, <1>3, <1>4, <1>5, <1>6, <1>7, <1>8, <1>9, <1>10, <1>11, <1>12 DEF LoginNext

\* The wrong secrets in flight for a challenge are finitely many ...
LEMMA FlyingFinite ==
    \A r \in Requests : IsFiniteSet(Guessing(r)) /\ Cardinality(Guessing(r)) \in Nat
<1> TAKE r \in Requests
<1>1. Guessing(r) \in SUBSET Threads
  BY DEF Guessing
<1> QED BY <1>1, LoginAssumption, FS_Subset, FS_CardinalityType

\* ... one more when poll has read a row for a wrong secret ...
LEMMA OneMoreFlying ==
    ASSUME LoginTypeOK, NEW t \in Threads, NEW r \in Requests, PollWrongRead(t, r)
    PROVE  /\ Cardinality(Guessing(r))' = Cardinality(Guessing(r)) + 1
           /\ \A q \in Requests \ {r} : Guessing(q)' = Guessing(q)
<1>1. Guessing(r)' = Guessing(r) \cup {t}
  BY DEF LoginTypeOK, PollWrongRead, Guessing, Calls, Idle
<1>2. t \notin Guessing(r)
  BY DEF PollWrongRead, Guessing, Idle
<1>3. \A q \in Requests \ {r} : Guessing(q)' = Guessing(q)
  BY DEF LoginTypeOK, PollWrongRead, Guessing, Calls, Idle
<1> QED BY <1>1, <1>2, <1>3, FlyingFinite, FS_AddElement

\* ... and one less when it has written.
LEMMA OneLessFlying ==
    ASSUME LoginTypeOK, NEW t \in Threads, NEW r \in Requests, th[t].r = r, PollWrongWrite(t)
    PROVE  /\ Cardinality(Guessing(r))' = Cardinality(Guessing(r)) - 1
           /\ \A q \in Requests \ {r} : Guessing(q)' = Guessing(q)
<1>1. Guessing(r)' = Guessing(r) \ {t}
  BY DEF LoginTypeOK, PollWrongWrite, Guessing, Calls, Idle
<1>2. t \in Guessing(r)
  BY DEF PollWrongWrite, Guessing
<1>3. \A q \in Requests \ {r} : Guessing(q)' = Guessing(q)
  BY DEF LoginTypeOK, PollWrongWrite, Guessing, Calls, Idle
<1> QED BY ZenonT(60), <1>1, <1>2, <1>3, FlyingFinite, FS_RemoveElement

\* Every step counts the wrong secrets it answers, or is a stale write.
LEMMA LoginGuessesStep ==
    ASSUME LoginInv, [LoginNext]_lvars PROVE GuessesCounted'
<1> USE LoginAssumption, FlyingFinite DEF LoginInv
<1>1. ASSUME NEW r \in Requests, Create(r) PROVE GuessesCounted'
  <2>1. \A q \in Requests : Guessing(q)' = Guessing(q)
    BY <1>1 DEF Create, Guessing
  <2> QED BY <1>1, <2>1 DEF GuessesCounted, Create, NoRow, LoginTypeOK, Rows, RowsOK
<1>2. ASSUME NEW r \in Requests, Expire(r) PROVE GuessesCounted'
  BY <1>2 DEF GuessesCounted, Expire, Guessing
<1>3. ASSUME NEW r \in Requests, PruneExpired(r) PROVE GuessesCounted'
  <2>1. \A q \in Requests : Guessing(q)' = Guessing(q)
    BY <1>3 DEF PruneExpired, Guessing
  <2> QED BY <1>3, <2>1 DEF GuessesCounted, PruneExpired, NoRow, LoginTypeOK, Rows
<1>4. ASSUME NEW r \in Requests, ConsumeWrong(r) PROVE GuessesCounted'
  <2>1. \A q \in Requests : Guessing(q)' = Guessing(q)
    BY <1>4 DEF ConsumeWrong, Guessing
  <2>2. row[r] \in Rows /\ row[r].attempts < MaxAttempts /\ row[r].status # "pruned"
    BY <1>4 DEF LoginTypeOK, ConsumeWrong, Guess, Exists, LockedOut, Rows
  <2> QED BY <1>4, <2>1, <2>2, PenaltyWrites
          DEF GuessesCounted, ConsumeWrong, Guess, LoginTypeOK, Rows
<1>5. ASSUME NEW r \in Requests, Consume(r) PROVE GuessesCounted'
  <2>1. \A q \in Requests : Guessing(q)' = Guessing(q)
    BY <1>5 DEF Consume, Guessing
  <2> QED BY <1>5, <2>1 DEF GuessesCounted, Consume, LoginTypeOK, Rows
<1>6. ASSUME NEW t \in Threads, NEW r \in Requests, PollWrongRead(t, r) PROVE GuessesCounted'
  <2>1. /\ Cardinality(Guessing(r))' = Cardinality(Guessing(r)) + 1
        /\ \A q \in Requests \ {r} : Guessing(q)' = Guessing(q)
    BY <1>6, OneMoreFlying
  <2>2. row[r].attempts \in Nat /\ guesses[r] \in Nat
    BY DEF LoginTypeOK, Rows
  <2>3. row' = row /\ stale' = stale /\ guesses' = [guesses EXCEPT ![r] = @ + 1]
    BY <1>6 DEF PollWrongRead, Guess
  <2> SUFFICES ASSUME NEW q \in Requests \ stale
               PROVE  /\ guesses'[q] <= MaxAttempts + Cardinality(Guessing(q))'
                      /\ row[q].status # "pruned" =>
                            guesses'[q] <= row[q].attempts + Cardinality(Guessing(q))'
    BY <2>3 DEF GuessesCounted
  <2>4. CASE q = r
    BY <2>1, <2>2, <2>3, <2>4 DEF GuessesCounted, LoginTypeOK
  <2>5. CASE q # r
    BY <2>1, <2>3, <2>5 DEF GuessesCounted, LoginTypeOK
  <2> QED BY <2>4, <2>5
<1>7. ASSUME NEW t \in Threads, NEW r \in Requests, PollRead(t, r) PROVE GuessesCounted'
  <2>1. \A q \in Requests : Guessing(q)' = Guessing(q)
    BY <1>7 DEF PollRead, Guessing, LoginTypeOK, Calls, Idle
  <2> QED BY <1>7, <2>1 DEF GuessesCounted, PollRead
<1>8. ASSUME NEW t \in Threads, NEW r \in Requests, NEW a \in Accounts, ApproveRead(t, r, a)
      PROVE  GuessesCounted'
  <2>1. \A q \in Requests : Guessing(q)' = Guessing(q)
    BY <1>8 DEF ApproveRead, Guessing, LoginTypeOK, Calls, Idle
  <2> QED BY <1>8, <2>1 DEF GuessesCounted, ApproveRead
<1>9. ASSUME NEW t \in Threads, PollWrongWrite(t) PROVE GuessesCounted'
  <2>1. PICK r \in Requests : r = th[t].r
    BY <1>9 DEF PollWrongWrite, LoginTypeOK, Calls, Idle
  <2>2. th[t].row \in Rows /\ th[t].row.attempts < MaxAttempts
        /\ th[t].row.status \notin {"none", "pruned"}
    BY <1>9 DEF PollWrongWrite, LoginTypeOK, ReadRowsOK, Calls, Idle
  <2>3. \A q \in Requests \ {r} : Guessing(q)' = Guessing(q) /\ row'[q] = row[q]
    BY <1>9, <2>1, OneLessFlying DEF PollWrongWrite, LoginTypeOK
  <2>4. CASE row[r] # th[t].row
    BY <1>9, <2>1, <2>3, <2>4 DEF GuessesCounted, PollWrongWrite
  <2>5. CASE row[r] = th[t].row
    <3>1. row'[r].attempts = row[r].attempts + 1 /\ row'[r].attempts \in 0..MaxAttempts
      BY <1>9, <2>1, <2>2, <2>5, PenaltyWrites DEF PollWrongWrite, Exists, LoginTypeOK, Rows
    <3>2. Cardinality(Guessing(r))' = Cardinality(Guessing(r)) - 1
      BY <1>9, <2>1, OneLessFlying
    <3>3. row[r].status # "pruned" /\ row[r].attempts \in Nat /\ guesses[r] \in Nat
      BY <2>2, <2>5 DEF LoginTypeOK, Rows
    <3>4. guesses' = guesses /\ stale' = stale
      BY <1>9, <2>1, <2>5 DEF PollWrongWrite
    <3> SUFFICES ASSUME NEW q \in Requests \ stale
                 PROVE  /\ guesses[q] <= MaxAttempts + Cardinality(Guessing(q))'
                        /\ row'[q].status # "pruned" =>
                              guesses[q] <= row'[q].attempts + Cardinality(Guessing(q))'
      BY <3>4 DEF GuessesCounted
    <3>5. CASE q = r
      BY <3>1, <3>2, <3>3, <3>5 DEF GuessesCounted
    <3>6. CASE q # r
      BY <2>3, <3>6 DEF GuessesCounted
    <3> QED BY <3>5, <3>6
  <2> QED BY <2>4, <2>5
<1>10. ASSUME NEW t \in Threads, PollWrite(t) PROVE GuessesCounted'
  <2>1. \A q \in Requests : Guessing(q)' = Guessing(q)
    BY <1>10 DEF PollWrite, Guessing, LoginTypeOK, Calls, Idle
  <2>2. \A q \in Requests : /\ row'[q].attempts = row[q].attempts
                              /\ (row'[q].status = "pruned" <=> row[q].status = "pruned")
    BY <1>10 DEF PollWrite, LoginTypeOK, Rows, Calls, Idle, Exists
  <2> QED BY <1>10, <2>1, <2>2 DEF GuessesCounted, PollWrite
<1>11. ASSUME NEW t \in Threads, ApproveWrite(t) PROVE GuessesCounted'
  <2>1. \A q \in Requests : Guessing(q)' = Guessing(q)
    BY <1>11 DEF ApproveWrite, ApproveWriteIf, Guessing, LoginTypeOK, Calls, Idle
  <2>2. \A q \in Requests : /\ row'[q].attempts = row[q].attempts
                            /\ row'[q].status = "pruned" <=> row[q].status = "pruned"
    BY <1>11 DEF ApproveWrite, ApproveWriteIf, LoginTypeOK, Rows, Calls, Idle
  <2> QED BY <1>11, <2>1, <2>2 DEF GuessesCounted, ApproveWrite, ApproveWriteIf
<1>12. CASE UNCHANGED lvars
  BY <1>12 DEF lvars, GuessesCounted, Guessing
<1> QED
  BY <1>1, <1>2, <1>3, <1>4, <1>5, <1>6, <1>7, <1>8, <1>9, <1>10, <1>11, <1>12 DEF LoginNext

-----------------------------------------------------------------------------
(* The theorems                                                            *)

\* The rows, the reads and the counts stay in step however poll, approve and
\* consume interleave.
THEOREM LoginInvariant == LoginSpec => []LoginInv
<1>1. LoginInit => LoginInv
  BY LoginInitInv
<1>2. LoginInv /\ [LoginNext]_lvars => LoginInv'
  BY LoginTypesStep, LoginRowsStep, LoginBoundStep, LoginGuessesStep DEF LoginInv
<1> QED BY <1>1, <1>2, PTL DEF LoginSpec

\* The store keeps its types, and no row counts more than max_attempts wrong
\* secrets although poll writes back a count it read earlier.
THEOREM LoginTypes == LoginSpec => []LoginTypeOK
<1>1. LoginInv => LoginTypeOK
  BY DEF LoginInv
<1> QED BY LoginInvariant, <1>1, PTL

\* Who gets the session was told "success" by approve(); and unless a poll with a
\* wrong secret wrote back a row that had changed, nobody else was, and only
\* max_attempts wrong secrets were answered besides the ones in flight.
THEOREM OneApprover == LoginSpec => []OneApproverUnlessStale
<1>1. LoginInv => OneApproverUnlessStale
  <2> SUFFICES ASSUME LoginInv, NEW r \in Requests
               PROVE  /\ taken[r] # Nobody => taken[r] \in told[r]
                      /\ r \notin stale => /\ Cardinality(told[r]) <= 1
                                           /\ guesses[r] <= MaxAttempts + Cardinality(Guessing(r))
    BY DEF OneApproverUnlessStale
  <2>1. taken[r] # Nobody => taken[r] \in told[r]
    BY DEF LoginInv, RowsOK
  <2>2. ASSUME r \notin stale PROVE Cardinality(told[r]) <= 1
    <3>1. PICK a \in Accounts \cup {Nobody} : told[r] \in SUBSET {a}
      BY <2>2 DEF LoginInv, BoundOnce
    <3>2. IsFiniteSet({a}) /\ Cardinality({a}) = 1
      BY FS_Singleton
    <3>3. Cardinality(told[r]) <= Cardinality({a})
      BY <3>1, <3>2, FS_Subset
    <3> QED BY <3>2, <3>3
  <2>3. r \notin stale => guesses[r] <= MaxAttempts + Cardinality(Guessing(r))
    BY DEF LoginInv, GuessesCounted
  <2> QED BY <2>1, <2>2, <2>3
<1> QED BY LoginInvariant, <1>1, PTL

\* A challenge is a one-time grant: binding, expiring, deleting and consuming a
\* row are the steps of OneTimeGrant.
THEOREM LoginRefinesGrant == LoginSpec => LoginIsOneTimeGrant
<1> DEFINE holder == [r \in Requests |-> row[r].acct]
<1>1. LoginInit => Grant!GrantInit
  BY DEF LoginInit, Grant!GrantInit, NoRow
<1>2. LoginInv /\ LoginInv' /\ [LoginNext]_lvars => [Grant!GrantNext]_(Grant!gvars)
  <2> SUFFICES ASSUME LoginInv, LoginInv', [LoginNext]_lvars PROVE [Grant!GrantNext]_(Grant!gvars)
    OBVIOUS
  <2>0. holder' \in [Requests -> Accounts \cup {Nobody}]
    BY DEF LoginInv, LoginTypeOK, Rows
  <2>1. ASSUME taken' = taken, \A r \in Requests : row'[r].acct \in {row[r].acct, Nobody}
        PROVE  Grant!Withdraw
    BY <2>0, <2>1 DEF Grant!Withdraw, Grant!Void
  <2>2. ASSUME NEW t \in Threads, ApproveWrite(t) PROVE Grant!GrantNext
    <3>1. PICK r \in Requests, a \in Accounts : th[t].r = r /\ th[t].a = a
      BY <2>2 DEF ApproveWrite, ApproveWriteIf, LoginInv, LoginTypeOK, Calls, Idle
    <3>2. CASE row[r].status = "pending" /\ ~row[r].used
      <4>1. taken[r] = Nobody /\ taken' = taken
        BY <2>2, <3>2 DEF LoginInv, RowsOK, ApproveWrite, ApproveWriteIf
      <4>2. row'[r].acct = a /\ \A q \in Requests \ {r} : row'[q] = row[q]
        BY <2>2, <3>1, <3>2 DEF LoginInv, LoginTypeOK, Rows, ApproveWrite, ApproveWriteIf
      <4>3. Grant!Bind(r, a)
        BY <2>0, <4>1, <4>2 DEF Grant!Bind, Grant!Void
      <4> QED BY <4>3 DEF Grant!GrantNext
    <3>3. CASE ~(row[r].status = "pending" /\ ~row[r].used)
      BY <2>1, <2>2, <3>1, <3>3 DEF ApproveWrite, ApproveWriteIf, Grant!GrantNext
    <3> QED BY <3>2, <3>3
  <2>3. ASSUME NEW r \in Requests, Consume(r) PROVE Grant!GrantNext
    <3>1. taken[r] = Nobody /\ row[r].acct # Nobody
      BY <2>3 DEF Consume, LoginInv, RowsOK
    <3>2. holder' = holder /\ taken' = [taken EXCEPT ![r] = holder[r]]
      BY <2>3 DEF Consume, LoginInv, LoginTypeOK, Rows
    <3>3. Grant!Take(r)
      BY <3>1, <3>2 DEF Grant!Take
    <3> QED BY <3>3 DEF Grant!GrantNext
  <2>4. ASSUME \E r \in Requests : Create(r) \/ Expire(r) \/ PruneExpired(r) PROVE Grant!GrantNext
    BY <2>1, <2>4 DEF Grant!GrantNext, LoginInv, LoginTypeOK, Rows, NoRow, Create, Expire, PruneExpired
  <2>5. ASSUME NEW r \in Requests, ConsumeWrong(r) PROVE Grant!GrantNext
    <3>1. taken' = taken /\ \A q \in Requests : row'[q].acct = row[q].acct
      BY <2>5 DEF LoginInv, LoginTypeOK, Rows, ConsumeWrong
    <3> QED BY <2>1, <3>1 DEF Grant!GrantNext
  <2>6. ASSUME NEW t \in Threads, PollWrongWrite(t) \/ PollWrite(t) PROVE Grant!GrantNext
    <3>1. taken' = taken /\ \A q \in Requests : row'[q].acct = row[q].acct
      BY <2>6 DEF LoginInv, LoginTypeOK, Rows, PollWrongWrite, PollWrite
    <3> QED BY <2>1, <3>1 DEF Grant!GrantNext
  <2>7. ASSUME row' = row, taken' = taken PROVE Grant!GrantNext
    BY <2>1, <2>7 DEF Grant!GrantNext
  <2> QED BY <2>2, <2>3, <2>4, <2>5, <2>6, <2>7
          DEF LoginNext, PollWrongRead, PollRead, ApproveRead, lvars
<1> QED BY LoginInvariant, <1>1, <1>2, PTL DEF LoginSpec, LoginIsOneTimeGrant, Grant!GrantSpec
=============================================================================
