--------------------------- MODULE BillingProofs ----------------------------
(***************************************************************************)
(* Proofs about Billing, for any number of accounts, runs of the daily     *)
(* debit, prices and days: balances, what becomes of a debit, when a run   *)
(* disables a user who paid, what brings a revoked account back, and that  *)
(* every wallet is the sum of its lines.                                   *)
(***************************************************************************)
EXTENDS Billing, FiniteSetTheorems, NaturalsInduction, WellFoundedInduction, TLAPS

\* A run that is under way has an account to work on; it charges a price.
RunnersOK ==
    \A w \in Runners :
        /\ run[w].pc # "idle" => run[w].todo # {} /\ run[w].day \in Days
        /\ run[w].pc = "write" => run[w].amt \in Prices

\* What credit is about to book, and what a bulk grant is about to grant.
CreditsOK ==
    /\ \A t \in Creditors : cr[t] # NoKey => \E a \in Accounts : cr[t] = TopUpKey(a)
    /\ bulk # NoBulk => bulk.amt \in Prices

\* A debit takes money.
DebitsOK == \A a \in Accounts, d \in Days : ledger[DebitKey(a, d)] <= 0

\* A run between its debit and the end of it: the debit is booked, not refunded,
\* and not extended unless the panel's answer was lost.  No two runs are there
\* with the same debit.
WorkOK ==
    /\ \A w \in Runners : run[w].pc \in {"extend", "refund"} =>
          /\ Paid(Cur(w), run[w].day)
          /\ ledger[RefundKey(Cur(w), run[w].day)] = 0
          /\ \/ ext[Cur(w)][run[w].day] = 0
             \/ run[w].pc = "refund" /\ <<Cur(w), run[w].day>> \in open
    /\ \A v, w \in Runners :
          /\ v # w /\ run[v].pc \in {"extend", "refund"} /\ run[w].pc \in {"extend", "refund"}
          => Cur(v) # Cur(w) \/ run[v].day # run[w].day

\* Before its charge a run has seen no debit of the day; when there is one, or a
\* second run is as far, the two looked at the same time.
OverlapOK ==
    /\ \A w \in Runners :
          run[w].pc \in {"write", "disable"} /\ Paid(Cur(w), run[w].day)
             => <<Cur(w), run[w].day>> \in overlap
    /\ \A v, w \in Runners :
          /\ v # w /\ run[v].pc \in {"write", "disable"} /\ run[w].pc \in {"write", "disable"}
          /\ Cur(v) = Cur(w) /\ run[v].day = run[w].day
          => <<Cur(w), run[w].day>> \in overlap

BillingInv ==
    BillingTypeOK /\ RunnersOK /\ CreditsOK /\ DebitsOK /\ WorkOK /\ DebitIsSettled /\ OverlapOK

-----------------------------------------------------------------------------
(* Keys, accounts and runners                                              *)

RunRows == [pc : Pcs, day : 0..MaxDay, todo : SUBSET Accounts,
            named : SUBSET Accounts, amt : Prices \cup {0}]
\* Every run but w is where it was.
Others(w) == \A v \in Runners \ {w} : run'[v] = run[v]

\* The next account of a run is one of those that are left.
LEMMA FirstIsIn == ASSUME NEW s, s # {} PROVE First(s) \in s
BY DEF First

\* The keys under which an account has lines in the ledger.
LEMMA KeysOfAccount ==
    ASSUME NEW a \in Accounts
    PROVE  /\ PaymentKey(a) \in Keys /\ TopUpKey(a) \in Keys /\ GrantKey(a) \in Keys
           /\ TopUpKey(a)[2] = a
           /\ \A d \in Days : /\ DebitKey(a, d) \in Keys /\ RefundKey(a, d) \in Keys
                              /\ RefundKey(a, d)[2] = a
BY DEF Keys, PaymentKey, TopUpKey, GrantKey, DebitKey, RefundKey

\* Keys of different kinds, accounts or days are different.
LEMMA KeysDiffer ==
    /\ \A a, d, b : /\ DebitKey(a, d) # PaymentKey(b) /\ RefundKey(a, d) # PaymentKey(b)
                    /\ DebitKey(a, d) # TopUpKey(b) /\ RefundKey(a, d) # TopUpKey(b)
                    /\ DebitKey(a, d) # GrantKey(b) /\ RefundKey(a, d) # GrantKey(b)
    /\ \A a, d, b, e : /\ DebitKey(a, d) # RefundKey(b, e)
                       /\ DebitKey(a, d) = DebitKey(b, e) <=> a = b /\ d = e
                       /\ RefundKey(a, d) = RefundKey(b, e) <=> a = b /\ d = e
BY DEF PaymentKey, TopUpKey, GrantKey, DebitKey, RefundKey

\* Every key belongs to an account.
LEMMA KeyHasAccount == ASSUME NEW k \in Keys PROVE k[2] \in Accounts
BY DEF Keys

\* Prices are numbers.
LEMMA AmountsAreNat == \A p \in Prices \cup {0} : p \in Nat
BY BillingAssumption

\* The account and the day of a run under way.
LEMMA CurTyped ==
    ASSUME BillingTypeOK, RunnersOK, NEW w \in Runners, run[w].pc # "idle"
    PROVE  Cur(w) \in Accounts /\ Cur(w) \in run[w].todo /\ run[w].day \in Days
BY FirstIsIn DEF BillingTypeOK, RunnersOK, Cur

\* A run that is over has the type of a run.
LEMMA RestingIsRow == Resting \in RunRows
BY BillingAssumption DEF Resting, RunRows, Pcs

\* A run that stays with its account changes where it stands and the amount.
LEMMA StayWrites ==
    ASSUME run \in [Runners -> RunRows], NEW w \in Runners, NEW next \in Pcs,
           NEW amt \in Prices \cup {0}, Stay(w, next, amt)
    PROVE  /\ run' \in [Runners -> RunRows] /\ Others(w)
           /\ run'[w].pc = next /\ run'[w].amt = amt
           /\ run'[w].todo = run[w].todo /\ run'[w].day = run[w].day
<1>1. run' = [run EXCEPT ![w] = [pc |-> next, day |-> run[w].day, todo |-> run[w].todo,
                                 named |-> run[w].named, amt |-> amt]]
  BY DEF Stay, Going
<1>2. [pc |-> next, day |-> run[w].day, todo |-> run[w].todo, named |-> run[w].named, amt |-> amt] \in RunRows
  BY DEF RunRows
<1> QED BY <1>1, <1>2 DEF Others

\* A run that is done with an account has others left, or is over.
LEMMA MovesOn ==
    ASSUME run \in [Runners -> RunRows], NEW w \in Runners, run[w].day \in Days,
           run[w].todo # {}, Advance(w) \/ Abort(w)
    PROVE  /\ run' \in [Runners -> RunRows] /\ Others(w)
           /\ run'[w].pc \in {"idle", "loop"}
           /\ run'[w].pc = "loop" => run'[w].todo # {} /\ run'[w].day \in Days
<1>1. CASE run' = [run EXCEPT ![w] = Resting]
  BY <1>1, RestingIsRow DEF Others, Resting
<1>2. CASE run[w].todo # {Cur(w)} /\ Advance(w)
  <2>1. Cur(w) \in run[w].todo
    BY FirstIsIn DEF Cur
  <2>2. PICK rest : rest = run[w].todo \ {Cur(w)}
    OBVIOUS
  <2>3. rest # {} /\ rest \subseteq Accounts
    BY <1>2, <2>1, <2>2 DEF RunRows
  <2>4. run' = [run EXCEPT ![w] = [pc |-> "loop", day |-> run[w].day, todo |-> rest,
                                   named |-> run[w].named, amt |-> 0]]
    BY <1>2, <2>2 DEF Advance, Going
  <2>5. [pc |-> "loop", day |-> run[w].day, todo |-> rest, named |-> run[w].named, amt |-> 0] \in RunRows
    BY <2>3 DEF RunRows, Pcs
  <2> QED BY <2>3, <2>4, <2>5 DEF Others
<1> QED BY <1>1, <1>2 DEF Advance, Abort

\* DebitIsSettled for one debit, in the connectives the provers know best.
Settled(a, d) ==
    /\ ext[a][d] <= (IF Paid(a, d) THEN 1 ELSE 0)
    /\ ledger[RefundKey(a, d)] # 0 => ledger[RefundKey(a, d)] = -ledger[DebitKey(a, d)]
    /\ Paid(a, d) => \/ Working(a, d) \/ <<a, d>> \in open
                     \/ ext[a][d] = 1 /\ ledger[RefundKey(a, d)] = 0
                     \/ ext[a][d] # 1 /\ ledger[RefundKey(a, d)] # 0

\* DebitIsSettled, one account and day at a time.
LEMMA SettledEach ==
    /\ DebitIsSettled <=> \A a \in Accounts, d \in Days : Settled(a, d)
    /\ DebitIsSettled' <=> \A a \in Accounts, d \in Days : Settled(a, d)'
BY DEF DebitIsSettled, Settled

-----------------------------------------------------------------------------
(* What the parts of the invariant depend on                               *)

\* Steps of the money side leave the debits, their refunds and the runs alone.
LEMMA DebitsUntouched ==
    ASSUME BillingInv, UNCHANGED <<run, ext, open, overlap>>,
           \A a \in Accounts, d \in Days :
               /\ ledger'[DebitKey(a, d)] = ledger[DebitKey(a, d)]
               /\ ledger'[RefundKey(a, d)] = ledger[RefundKey(a, d)]
    PROVE  RunnersOK' /\ DebitsOK' /\ WorkOK' /\ DebitIsSettled' /\ OverlapOK'
<1> USE DEF BillingInv
<1>1. RunnersOK' /\ DebitsOK'
  BY DEF RunnersOK, DebitsOK
<1>2. \A w \in Runners : Cur(w)' = Cur(w)
  BY DEF Cur
<1>3. \A w \in Runners : run[w].pc # "idle" => Cur(w) \in Accounts /\ run[w].day \in Days
  BY CurTyped
<1>4. \A a \in Accounts, d \in Days : Paid(a, d)' <=> Paid(a, d)
  BY DEF Paid
<1>5. WorkOK'
  <2>1. ASSUME NEW w \in Runners, run[w].pc \in {"extend", "refund"}
        PROVE  /\ Paid(Cur(w), run[w].day)'
               /\ ledger'[RefundKey(Cur(w), run[w].day)] = 0
               /\ \/ ext[Cur(w)][run[w].day] = 0
                  \/ run[w].pc = "refund" /\ <<Cur(w), run[w].day>> \in open
    <3>1. PICK a \in Accounts, d \in Days : a = Cur(w) /\ a = Cur(w)' /\ d = run[w].day /\ d = run'[w].day
      BY <1>2, <1>3, <2>1
    <3> QED BY ZenonT(60), <1>4, <2>1, <3>1 DEF WorkOK
  <2> QED BY <1>2, <2>1 DEF WorkOK
<1>6. OverlapOK'
  BY <1>2, <1>3, <1>4 DEF OverlapOK
<1>7. DebitIsSettled'
  <2>1. \A a \in Accounts, d \in Days : Working(a, d)' <=> Working(a, d)
    BY <1>2 DEF Working
  <2>2. \A a \in Accounts, d \in Days : Settled(a, d)
    BY SettledEach
  <2>3. \A a \in Accounts, d \in Days : Settled(a, d)'
    BY ZenonT(60), <1>4, <2>1, <2>2 DEF Settled
  <2> QED BY <2>3, SettledEach
<1> QED BY <1>1, <1>5, <1>6, <1>7

\* A run that neither is nor comes between its debit and the end of it.
LEMMA NoWork ==
    ASSUME BillingInv, NEW w \in Runners, Others(w), UNCHANGED <<ledger, ext, open>>,
           run[w].pc \notin {"extend", "refund"}, run'[w].pc \notin {"extend", "refund"}
    PROVE  WorkOK' /\ DebitIsSettled'
<1> USE DEF BillingInv
<1>1. \A v \in Runners : v # w => run'[v] = run[v] /\ Cur(v)' = Cur(v)
  BY DEF Others, Cur
<1>2. \A a, d : Paid(a, d)' <=> Paid(a, d)
  BY DEF Paid
<1>3. WorkOK'
  BY <1>1, <1>2 DEF WorkOK
<1>4. DebitIsSettled'
  <2>1. \A a \in Accounts, d \in Days : Working(a, d) => Working(a, d)'
    BY <1>1 DEF Working
  <2>2. \A a \in Accounts, d \in Days : Settled(a, d)
    BY SettledEach
  <2>3. \A a \in Accounts, d \in Days : Settled(a, d)'
    BY <1>2, <2>1, <2>2 DEF Settled
  <2> QED BY <2>3, SettledEach
<1> QED BY <1>3, <1>4

\* A run that is not, or no longer, about to charge.
LEMMA NoCharge ==
    ASSUME BillingInv, NEW w \in Runners, Others(w), ledger' = ledger, overlap \subseteq overlap',
           run'[w].pc \notin {"write", "disable"}
    PROVE  OverlapOK'
<1> USE DEF BillingInv
<1>1. \A v \in Runners : v # w => run'[v] = run[v] /\ Cur(v)' = Cur(v)
  BY DEF Others, Cur
<1>2. \A a, d : Paid(a, d)' <=> Paid(a, d)
  BY DEF Paid
<1> QED BY <1>1, <1>2 DEF OverlapOK

\* The list of a run that goes on is not empty.
LEMMA RunnersStep ==
    ASSUME BillingInv, NEW w \in Runners, Others(w),
           run'[w].pc # "idle" => run'[w].todo # {} /\ run'[w].day \in Days,
           run'[w].pc = "write" => run'[w].amt \in Prices
    PROVE  RunnersOK'
BY DEF BillingInv, RunnersOK, Others

-----------------------------------------------------------------------------
(* The invariant is inductive                                              *)

\* Nothing is booked at the beginning.
LEMMA BillingInitInv == BillingInit => BillingInv
<1> SUFFICES ASSUME BillingInit PROVE BillingInv
  OBVIOUS
<1>1. BillingTypeOK
  BY BillingAssumption, RestingIsRow
     DEF BillingInit, BillingTypeOK, RunRows, Days, Status, NoKey, NoBulk
<1>2. \A w \in Runners : run[w].pc = "idle"
  BY DEF BillingInit, Resting
<1>3. RunnersOK /\ WorkOK /\ OverlapOK
  BY <1>2 DEF RunnersOK, WorkOK, OverlapOK
<1>4. CreditsOK
  BY DEF BillingInit, CreditsOK
<1>5. \A a \in Accounts, d \in Days : /\ ledger[DebitKey(a, d)] = 0 /\ ledger[RefundKey(a, d)] = 0
                                      /\ ext[a][d] = 0
  BY KeysOfAccount DEF BillingInit
<1>6. DebitsOK
  BY <1>5 DEF DebitsOK
<1>7. DebitIsSettled
  <2>1. \A a \in Accounts, d \in Days : Settled(a, d)
    BY <1>5 DEF Settled, Paid
  <2> QED BY <2>1, SettledEach
<1> QED BY <1>1, <1>3, <1>4, <1>6, <1>7 DEF BillingInv

\* Accounts, settings, time, and what only reads: money and runs stay.
LEMMA AdminKeeps ==
    ASSUME BillingInv,
           \/ \E a \in Accounts :
                 \/ \E s \in Status : EnsureTelegramAccount(a, s)
                 \/ CreateEmailAccount(a) \/ BindSubscription(a) \/ Freeze(a) \/ Unfreeze(a)
                 \/ Revoke(a) \/ ClaimTelegramTrial(a) \/ CreatePayment(a)
           \/ \E p \in Prices : UpdateServiceSettings(p)
           \/ NextDay
    PROVE  BillingInv'
<1> USE DEF BillingInv
<1>1. UNCHANGED <<bal, ledger, run, cr, bulk, ext, open, overlap, runs>>
  BY DEF EnsureTelegramAccount, CreateEmailAccount, BindSubscription, Freeze, Unfreeze, Revoke,
         ClaimTelegramTrial, CreatePayment, UpdateServiceSettings, NextDay, wallet, admin, faults
<1>2. /\ day' \in Days /\ price' \in Prices /\ trial' \subseteq Accounts
      /\ linked' \subseteq Accounts /\ pay' \in [Accounts -> {"none", "pending", "paid"}]
  <2>1. CASE NextDay
    BY <2>1, BillingAssumption DEF BillingTypeOK, NextDay, Days
  <2>2. CASE \E p \in Prices : UpdateServiceSettings(p)
    BY <2>2 DEF BillingTypeOK, UpdateServiceSettings
  <2>3. ASSUME NEW a \in Accounts, CreatePayment(a) \/ BindSubscription(a) \/ ClaimTelegramTrial(a)
        PROVE  /\ day' = day /\ price' = price /\ trial' \subseteq Accounts
               /\ linked' \subseteq Accounts /\ pay' \in [Accounts -> {"none", "pending", "paid"}]
    BY <2>3 DEF BillingTypeOK, CreatePayment, BindSubscription, ClaimTelegramTrial
  <2>4. CASE UNCHANGED admin
    BY <2>4 DEF BillingTypeOK, admin
  <2> QED BY <2>1, <2>2, <2>3, <2>4
          DEF BillingTypeOK, EnsureTelegramAccount, CreateEmailAccount, Freeze, Unfreeze, Revoke
<1>3. acc' \in [Accounts -> Status]
  BY ZenonT(60) DEF BillingTypeOK, EnsureTelegramAccount, CreateEmailAccount, BindSubscription, Freeze, Unfreeze,
         Revoke, ClaimTelegramTrial, CreatePayment, UpdateServiceSettings, NextDay, wallet, Status
<1>4. BillingTypeOK'
  BY <1>1, <1>2, <1>3 DEF BillingTypeOK
<1>5. CreditsOK'
  BY <1>1 DEF CreditsOK
<1> QED BY <1>1, <1>4, <1>5, DebitsUntouched

\* A payment adds a line that no debit depends on.
LEMMA CompletePaymentKeeps ==
    ASSUME BillingInv, NEW a \in Accounts, CompletePayment(a) PROVE BillingInv'
<1> USE DEF BillingInv
<1>1. BillingTypeOK'
  <2>1. bal' \in [Accounts -> Nat] /\ ledger' \in [Keys -> Int]
    <3>1. TopUp \in Nat
      BY BillingAssumption
    <3>2. bal' = [bal EXCEPT ![a] = @ + TopUp] /\ ledger' = [ledger EXCEPT ![PaymentKey(a)] = TopUp]
      BY DEF CompletePayment
    <3>3. bal \in [Accounts -> Nat] /\ ledger \in [Keys -> Int]
      BY DEF BillingTypeOK
    <3>4. bal' \in [Accounts -> Nat]
      BY <3>1, <3>2, <3>3
    <3>5. ledger' \in [Keys -> Int]
      <4>1. PICK k \in Keys : k = PaymentKey(a)
        BY KeysOfAccount
      <4>2. ledger' = [ledger EXCEPT ![k] = TopUp] /\ TopUp \in Int
        BY <3>1, <3>2, <4>1
      <4> QED BY <3>3, <4>2
    <3> QED BY <3>4, <3>5
  <2>2. acc' \in [Accounts -> Status] /\ pay' \in [Accounts -> {"none", "pending", "paid"}]
    BY DEF CompletePayment, BillingTypeOK, Status
  <2> QED BY <2>1, <2>2 DEF CompletePayment, BillingTypeOK, faults
<1>2. CreditsOK'
  BY DEF CompletePayment, CreditsOK
<1>3. \A b \in Accounts, d \in Days :
         /\ ledger'[DebitKey(b, d)] = ledger[DebitKey(b, d)]
         /\ ledger'[RefundKey(b, d)] = ledger[RefundKey(b, d)]
  BY KeysOfAccount, KeysDiffer DEF CompletePayment, BillingTypeOK
<1> QED BY <1>1, <1>2, <1>3, DebitsUntouched DEF CompletePayment, faults

\* What Book does to the wallet, for an amount that is not negative.
LEMMA BookWrites ==
    ASSUME BillingTypeOK, NEW k \in Keys, NEW amt \in Nat, Book(k, amt)
    PROVE  /\ bal' \in [Accounts -> Nat] /\ ledger' \in [Keys -> Int] /\ acc' \in [Accounts -> Status]
           /\ \A j \in Keys : j # k => ledger'[j] = ledger[j]
           /\ ledger'[k] = IF ledger[k] = 0 THEN amt ELSE ledger[k]
<1>1. PICK a \in Accounts : a = k[2]
  BY KeyHasAccount
<1>2. CASE ledger[k] # 0
  BY <1>2 DEF Book, wallet, BillingTypeOK
<1>3. CASE ledger[k] = 0
  <2>1. /\ bal' = [bal EXCEPT ![a] = @ + amt]
        /\ ledger' = [ledger EXCEPT ![k] = amt]
        /\ acc' = [acc EXCEPT ![a] = IF @ \in {"insufficient_funds", "frozen"} THEN @ ELSE "active"]
    BY <1>1, <1>3 DEF Book, BookTwice
  <2> QED BY <1>3, <2>1 DEF BillingTypeOK, Status
<1> QED BY <1>2, <1>3

\* A credit adds a line that no debit depends on, between its read and its
\* write too.
LEMMA CreditKeeps ==
    ASSUME BillingInv, NEW t \in Creditors, CreditWrite(t) \/ \E a \in Accounts : CreditRead(t, a)
    PROVE  BillingInv'
<1> USE DEF BillingInv
<1>1. ASSUME NEW a \in Accounts, CreditRead(t, a) PROVE BillingInv'
  <2>1. UNCHANGED <<admin, wallet, run, bulk, ext, faults>> /\ cr' = [cr EXCEPT ![t] = TopUpKey(a)]
    BY <1>1 DEF CreditRead
  <2>2. BillingTypeOK'
    BY <2>1, KeysOfAccount DEF BillingTypeOK, admin, wallet, faults
  <2>3. CreditsOK'
    BY <2>1 DEF BillingTypeOK, CreditsOK
  <2> QED BY <2>1, <2>2, <2>3, DebitsUntouched DEF wallet, faults
<1>2. CASE CreditWrite(t)
  <2>1. PICK a \in Accounts : cr[t] = TopUpKey(a)
    BY <1>2 DEF CreditWrite, CreditsOK
  <2>2. PICK k \in Keys : k = TopUpKey(a)
    BY KeysOfAccount
  <2>3. Book(k, TopUp) /\ UNCHANGED <<admin, run, bulk, ext, faults>> /\ cr' = [cr EXCEPT ![t] = NoKey]
    BY <1>2, <2>1, <2>2 DEF CreditWrite
  <2>4. TopUp \in Nat
    BY BillingAssumption
  <2>5. /\ bal' \in [Accounts -> Nat] /\ ledger' \in [Keys -> Int] /\ acc' \in [Accounts -> Status]
        /\ \A j \in Keys : j # k => ledger'[j] = ledger[j]
    BY <2>3, <2>4, BookWrites
  <2>6. BillingTypeOK'
    BY <2>3, <2>5 DEF BillingTypeOK, admin, faults
  <2>7. CreditsOK'
    BY <2>3 DEF BillingTypeOK, CreditsOK
  <2>8. \A b \in Accounts, d \in Days :
           /\ ledger'[DebitKey(b, d)] = ledger[DebitKey(b, d)]
           /\ ledger'[RefundKey(b, d)] = ledger[RefundKey(b, d)]
    BY <2>2, <2>5, KeysOfAccount, KeysDiffer
  <2> QED BY <2>3, <2>6, <2>7, <2>8, DebitsUntouched DEF faults
<1> QED BY <1>1, <1>2

\* The change of the price leaves the ledger alone.
LEMMA BulkKeeps ==
    ASSUME BillingInv, BulkRead \/ BulkWrite PROVE BillingInv'
<1> USE DEF BillingInv
<1>1. CASE BulkRead
  <2>1. /\ UNCHANGED <<admin, wallet, run, cr, ext, faults>>
        /\ bulk' = [amt |-> price, known |-> {a \in Accounts : acc[a] # "none"},
                    poor |-> {a \in Accounts : acc[a] = "insufficient_funds"}]
    BY <1>1 DEF BulkRead
  <2>2. BillingTypeOK'
    BY <2>1 DEF BillingTypeOK, admin, wallet, faults
  <2>3. CreditsOK'
    BY <2>1 DEF BillingTypeOK, CreditsOK, admin
  <2> QED BY <2>1, <2>2, <2>3, DebitsUntouched DEF wallet, faults
<1>2. CASE BulkWrite
  <2>1. PICK G : /\ G = {a \in bulk.known : ledger[GrantKey(a)] = 0}
                 /\ bal' = [a \in Accounts |-> IF a \in G THEN bal[a] + bulk.amt ELSE bal[a]]
                 /\ ledger' = [k \in Keys |-> IF k \in {GrantKey(a) : a \in G} THEN bulk.amt ELSE ledger[k]]
                 /\ acc' = [a \in Accounts |-> IF a \in G \cap bulk.poor THEN "active" ELSE acc[a]]
                 /\ bulk' = NoBulk /\ UNCHANGED <<admin, run, cr, ext, faults>>
    BY <1>2 DEF BulkWrite
  <2>2. bulk.amt \in Nat
    <3>1. bulk.amt \in Prices \cup {0}
      BY DEF BillingTypeOK
    <3> QED BY <3>1, AmountsAreNat
  <2>3. bal' \in [Accounts -> Nat] /\ ledger' \in [Keys -> Int] /\ acc' \in [Accounts -> Status]
    BY <2>1, <2>2 DEF BillingTypeOK, Status
  <2>4. BillingTypeOK'
    BY <2>1, <2>3 DEF BillingTypeOK, admin, faults, NoBulk
  <2>5. CreditsOK'
    BY <2>1 DEF CreditsOK
  <2>6. ASSUME NEW b \in Accounts, NEW d \in Days
        PROVE  /\ ledger'[DebitKey(b, d)] = ledger[DebitKey(b, d)]
               /\ ledger'[RefundKey(b, d)] = ledger[RefundKey(b, d)]
    <3>1. DebitKey(b, d) \in Keys /\ RefundKey(b, d) \in Keys
      BY KeysOfAccount
    <3>2. \A a \in G : DebitKey(b, d) # GrantKey(a) /\ RefundKey(b, d) # GrantKey(a)
      BY KeysDiffer
    <3> QED BY <2>1, <3>1, <3>2
  <2> QED BY <2>1, <2>4, <2>5, <2>6, DebitsUntouched DEF faults
<1> QED BY <1>1, <1>2

\* A run begins with the accounts there are to charge.
LEMMA RunListKeeps ==
    ASSUME BillingInv, NEW w \in Runners, RunList(w) PROVE BillingInv'
<1> USE DEF BillingInv
<1>1. PICK new : /\ new = [pc |-> "loop", day |-> day, todo |-> ActiveAccountsForDebit,
                           named |-> linked, amt |-> 0]
                 /\ run' = [run EXCEPT ![w] = new]
  BY DEF RunList
<1>2. /\ run[w].pc = "idle" /\ ActiveAccountsForDebit # {} /\ ActiveAccountsForDebit \subseteq Accounts
      /\ runs' \in 0..MaxRuns
      /\ UNCHANGED <<day, price, trial, linked, pay, bal, ledger, acc, cr, bulk, ext, open, overlap>>
  <2>1. runs < MaxRuns /\ runs' = runs + 1 /\ runs \in 0..MaxRuns
    BY DEF RunList, BillingTypeOK
  <2>2. runs' \in 0..MaxRuns
    BY <2>1, BillingAssumption
  <2>3. ActiveAccountsForDebit \subseteq Accounts
    BY DEF ActiveAccountsForDebit
  <2> QED BY <2>2, <2>3 DEF RunList, admin, wallet
<1>3. new \in RunRows
  BY <1>1, <1>2, BillingAssumption DEF RunRows, Pcs, BillingTypeOK, Days
<1>4. /\ run' \in [Runners -> RunRows] /\ Others(w) /\ run'[w] = new
      /\ new.pc = "loop" /\ new.todo # {} /\ new.day \in Days
  BY <1>1, <1>2, <1>3 DEF BillingTypeOK, RunRows, Others
<1>5. BillingTypeOK'
  BY <1>2, <1>4 DEF BillingTypeOK, RunRows
<1>6. RunnersOK'
  BY <1>4, RunnersStep
<1>7. CreditsOK' /\ DebitsOK'
  BY <1>2 DEF CreditsOK, DebitsOK
<1>8. WorkOK' /\ DebitIsSettled'
  BY <1>2, <1>4, NoWork
<1>9. OverlapOK'
  BY <1>2, <1>4, NoCharge
<1> QED BY <1>5, <1>6, <1>7, <1>8, <1>9

\* A run leaves an account without having charged it: nothing else changes.
LEMMA LeavesAccount ==
    ASSUME BillingInv, NEW w \in Runners, run[w].pc \notin {"idle", "extend", "refund"},
           Advance(w) \/ Abort(w),
           UNCHANGED <<day, price, trial, linked, pay, bal, ledger, cr, bulk, ext, open, overlap, runs>>,
           acc' \in [Accounts -> Status]
    PROVE  BillingInv'
<1> USE DEF BillingInv
<1>1. run[w].todo # {} /\ run[w].day \in Days /\ run \in [Runners -> RunRows]
  BY DEF RunnersOK, BillingTypeOK, RunRows
<1>2. /\ run' \in [Runners -> RunRows] /\ Others(w)
      /\ run'[w].pc \in {"idle", "loop"}
      /\ run'[w].pc = "loop" => run'[w].todo # {} /\ run'[w].day \in Days
  BY <1>1, MovesOn
<1>3. BillingTypeOK'
  BY <1>2 DEF BillingTypeOK, RunRows
<1>4. RunnersOK'
  BY <1>2, RunnersStep
<1>5. CreditsOK' /\ DebitsOK'
  BY DEF CreditsOK, DebitsOK
<1>6. WorkOK' /\ DebitIsSettled'
  BY <1>2, NoWork
<1>7. OverlapOK'
  BY <1>2, NoCharge
<1> QED BY <1>3, <1>4, <1>5, <1>6, <1>7

\* A day that is paid already is left alone; otherwise the run goes on with the price it read.
LEMMA DebitReadKeeps ==
    ASSUME BillingInv, NEW w \in Runners, DebitRead(w) PROVE BillingInv'
<1> USE DEF BillingInv
<1>0. run[w].pc = "loop" /\ Cur(w) \in Accounts /\ run[w].day \in Days /\ run[w].todo # {}
  BY CurTyped DEF DebitRead, RunnersOK
<1>1. CASE Paid(Cur(w), run[w].day)
  <2>1. Advance(w) /\ UNCHANGED <<admin, wallet, cr, bulk, ext, faults>>
    BY <1>1 DEF DebitRead, faults
  <2> QED BY <1>0, <2>1, LeavesAccount DEF admin, wallet, faults, BillingTypeOK
<1>2. CASE ~Paid(Cur(w), run[w].day)
  <2>1. /\ Stay(w, "write", price)
        /\ UNCHANGED <<day, price, trial, linked, pay, bal, ledger, acc, cr, bulk, ext, open, runs>>
    BY <1>2 DEF DebitRead, admin, wallet
  <2>2. run \in [Runners -> RunRows] /\ "write" \in Pcs /\ price \in Prices
    BY DEF BillingTypeOK, RunRows, Pcs
  <2>3. /\ run' \in [Runners -> RunRows] /\ Others(w)
        /\ run'[w].pc = "write" /\ run'[w].amt = price
        /\ run'[w].todo = run[w].todo /\ run'[w].day = run[w].day
    BY <2>1, <2>2, StayWrites
  <2>4. overlap \subseteq overlap' /\ overlap' \subseteq Accounts \X Days
    BY <1>0, <1>2 DEF DebitRead, BillingTypeOK
  <2>5. ASSUME NEW v \in Runners, v # w, run[v].pc \in {"write", "disable"},
               Cur(v) = Cur(w), run[v].day = run[w].day
        PROVE  <<Cur(w), run[w].day>> \in overlap'
    BY <1>2, <2>5 DEF DebitRead
  <2>6. BillingTypeOK'
    BY <2>1, <2>3, <2>4 DEF BillingTypeOK, RunRows
  <2>7. RunnersOK'
    BY <1>0, <2>2, <2>3, RunnersStep
  <2>8. CreditsOK' /\ DebitsOK'
    BY <2>1 DEF CreditsOK, DebitsOK
  <2>9. WorkOK' /\ DebitIsSettled'
    BY <1>0, <2>1, <2>3, NoWork
  <2>10. OverlapOK'
    <3>1. \A v \in Runners : Cur(v)' = Cur(v) /\ run'[v].day = run[v].day /\ (v # w => run'[v] = run[v])
      BY <2>3 DEF Others, Cur
    <3>2. \A a, d : Paid(a, d)' <=> Paid(a, d)
      BY <2>1 DEF Paid
    <3>3. ASSUME NEW v \in Runners, run'[v].pc \in {"write", "disable"}, Paid(Cur(v), run[v].day)
          PROVE  <<Cur(v), run[v].day>> \in overlap'
      <4>1. v # w
        BY <1>2, <3>3
      <4> QED BY <2>4, <3>1, <3>3, <4>1 DEF OverlapOK
    <3>4. ASSUME NEW u \in Runners, NEW v \in Runners, u # v, run'[u].pc \in {"write", "disable"},
                 run'[v].pc \in {"write", "disable"}, Cur(u) = Cur(v), run[u].day = run[v].day
          PROVE  <<Cur(v), run[v].day>> \in overlap'
      <4>1. CASE u = w
        BY <2>5, <3>1, <3>4, <4>1
      <4>2. CASE v = w
        BY <2>5, <3>1, <3>4, <4>2
      <4>3. CASE u # w /\ v # w
        BY <2>4, <3>1, <3>4, <4>3 DEF OverlapOK
      <4> QED BY <4>1, <4>2, <4>3
    <3> QED BY <3>1, <3>2, <3>3, <3>4 DEF OverlapOK
  <2> QED BY <2>6, <2>7, <2>8, <2>9, <2>10
<1> QED BY <1>1, <1>2

\* A run goes on from looking for the debit to the charge, or to disabling the user.
LEMMA DebitWriteKeeps ==
    ASSUME BillingInv, NEW w \in Runners, DebitWrite(w) PROVE BillingInv'
<1> USE DEF BillingInv
<1>0. /\ run[w].pc = "write" /\ run[w].amt \in Prices /\ run[w].amt \in Nat \ {0}
      /\ Cur(w) \in Accounts /\ run[w].day \in Days /\ run[w].todo # {}
      /\ run \in [Runners -> RunRows]
      /\ UNCHANGED <<day, price, trial, linked, pay, cr, bulk, ext, open, overlap, runs>>
  BY CurTyped, BillingAssumption DEF DebitWrite, RunnersOK, BillingTypeOK, RunRows, admin, faults
<1>1. PICK a \in Accounts, d \in Days, amt \in Prices : a = Cur(w) /\ d = run[w].day /\ amt = run[w].amt
  BY <1>0
<1>2. \A s \in Status : [acc EXCEPT ![a] = IF @ = "revoked" THEN @ ELSE s] \in [Accounts -> Status]
  BY DEF BillingTypeOK
<1>3. CASE /\ ~Covers(bal[a], amt)
           /\ acc' = [acc EXCEPT ![a] = IF @ = "revoked" THEN @ ELSE "insufficient_funds"]
           /\ IF a \in run[w].named THEN Stay(w, "disable", 0) ELSE Advance(w)
           /\ UNCHANGED <<bal, ledger>>
  <2>1. acc' \in [Accounts -> Status]
    BY <1>2, <1>3 DEF Status
  <2>2. CASE Advance(w)
    BY <1>0, <1>3, <2>1, <2>2, LeavesAccount
  <2>3. CASE Stay(w, "disable", 0)
    <3>1. /\ run' \in [Runners -> RunRows] /\ Others(w)
          /\ run'[w].pc = "disable" /\ run'[w].amt = 0
          /\ run'[w].todo = run[w].todo /\ run'[w].day = run[w].day
      BY <1>0, <2>3, StayWrites DEF Pcs
    <3>2. BillingTypeOK'
      BY <1>0, <1>3, <2>1, <3>1 DEF BillingTypeOK, RunRows
    <3>3. RunnersOK'
      BY <1>0, <3>1, RunnersStep
    <3>4. CreditsOK' /\ DebitsOK'
      BY <1>0, <1>3 DEF CreditsOK, DebitsOK
    <3>5. WorkOK' /\ DebitIsSettled'
      BY <1>0, <1>3, <3>1, NoWork
    <3>6. OverlapOK'
      <4>1. \A v \in Runners : /\ Cur(v)' = Cur(v) /\ run'[v].day = run[v].day
                               /\ run'[v].pc \in {"write", "disable"} <=> run[v].pc \in {"write", "disable"}
        BY <1>0, <3>1 DEF Others, Cur
      <4>2. \A b, e : Paid(b, e)' <=> Paid(b, e)
        BY <1>3 DEF Paid
      <4> QED BY <1>0, <4>1, <4>2 DEF OverlapOK
    <3> QED BY <3>2, <3>3, <3>4, <3>5, <3>6
  <2> QED BY <1>3, <2>2, <2>3
<1>4. CASE Abort(w) /\ UNCHANGED wallet
  BY <1>0, <1>4, LeavesAccount DEF wallet, BillingTypeOK
<1>5. CASE /\ Covers(bal[a], amt) /\ ledger[DebitKey(a, d)] = 0
           /\ bal' = [bal EXCEPT ![a] = @ - amt]
           /\ ledger' = [ledger EXCEPT ![DebitKey(a, d)] = -amt]
           /\ acc' = [acc EXCEPT ![a] = IF @ = "revoked" THEN @ ELSE "active"]
           /\ Stay(w, "extend", amt)
  <2>1. amt \in Nat \ {0} /\ -amt \in Int /\ -amt <= 0 /\ -amt # 0
    BY <1>0, <1>1
  <2>2. acc' \in [Accounts -> Status]
    BY <1>2, <1>5 DEF Status
  <2>3. bal' \in [Accounts -> Nat]
    BY <1>5, <2>1 DEF Covers, BillingTypeOK
  <2>4. /\ ledger' \in [Keys -> Int] /\ ledger'[DebitKey(a, d)] = -amt
        /\ \A j \in Keys : j # DebitKey(a, d) => ledger'[j] = ledger[j]
    <3>1. PICK k \in Keys : k = DebitKey(a, d)
      BY KeysOfAccount
    <3>2. ledger' = [ledger EXCEPT ![k] = -amt] /\ ledger \in [Keys -> Int]
      BY <1>5, <3>1 DEF BillingTypeOK
    <3> QED BY <2>1, <3>1, <3>2
  <2>5. /\ run' \in [Runners -> RunRows] /\ Others(w)
        /\ run'[w].pc = "extend"
        /\ run'[w].todo = run[w].todo /\ run'[w].day = run[w].day
    BY <1>0, <1>1, <1>5, StayWrites DEF Pcs
  <2>6. /\ \A b \in Accounts, e \in Days :
              /\ ledger'[RefundKey(b, e)] = ledger[RefundKey(b, e)]
              /\ b # a \/ e # d => ledger'[DebitKey(b, e)] = ledger[DebitKey(b, e)]
              /\ b # a \/ e # d => (Paid(b, e)' <=> Paid(b, e))
        /\ Paid(a, d)' /\ ~Paid(a, d)
    BY <1>5, <2>1, <2>4, KeysOfAccount, KeysDiffer DEF Paid
  <2>7. \A v \in Runners : /\ Cur(v)' = Cur(v) /\ run'[v].day = run[v].day
                           /\ v # w => run'[v] = run[v]
    BY <1>0, <2>5 DEF Others, Cur
  <2>8. Settled(a, d)
    BY SettledEach
  <2>9. ext[a][d] = 0 /\ ledger[RefundKey(a, d)] = 0
    <3>1. ext[a][d] \in Nat /\ ext[a][d] <= 0
      BY <2>6, <2>8 DEF Settled, BillingTypeOK
    <3>2. ledger[RefundKey(a, d)] = 0
      BY <1>5, <2>8 DEF Settled
    <3> QED BY <3>1, <3>2
  <2>10. BillingTypeOK'
    BY <1>0, <2>2, <2>3, <2>4, <2>5 DEF BillingTypeOK, RunRows
  <2>11. RunnersOK'
    BY <1>0, <2>5, RunnersStep
  <2>12. CreditsOK'
    BY <1>0 DEF CreditsOK
  <2>13. DebitsOK'
    BY <2>1, <2>4, <2>6 DEF DebitsOK
  <2>14. \A v \in Runners : run[v].pc \in {"extend", "refund"} =>
            /\ v # w /\ Cur(v) \in Accounts /\ run[v].day \in Days
            /\ Paid(Cur(v), run[v].day) /\ (Cur(v) # a \/ run[v].day # d)
    <3> SUFFICES ASSUME NEW v \in Runners, run[v].pc \in {"extend", "refund"}
                 PROVE  /\ v # w /\ Cur(v) \in Accounts /\ run[v].day \in Days
                        /\ Paid(Cur(v), run[v].day) /\ (Cur(v) # a \/ run[v].day # d)
      OBVIOUS
    <3>1. Cur(v) \in Accounts /\ run[v].day \in Days
      BY CurTyped
    <3>2. Paid(Cur(v), run[v].day)
      BY DEF WorkOK
    <3> QED BY <1>0, <2>6, <3>1, <3>2
  <2>15. WorkOK'
    <3>1. ASSUME NEW v \in Runners, run'[v].pc \in {"extend", "refund"}
          PROVE  /\ Paid(Cur(v), run[v].day)'
                 /\ ledger'[RefundKey(Cur(v), run[v].day)] = 0
                 /\ \/ ext[Cur(v)][run[v].day] = 0
                    \/ run'[v].pc = "refund" /\ <<Cur(v), run[v].day>> \in open
      <4>1. CASE v = w
        BY <1>1, <2>6, <2>7, <2>9, <4>1
      <4>2. CASE v # w
        <5>1. run[v].pc \in {"extend", "refund"} /\ run'[v].pc = run[v].pc
          BY <2>7, <3>1, <4>2
        <5>2. PICK b \in Accounts, e \in Days : b = Cur(v) /\ e = run[v].day
          BY <2>14, <5>1
        <5> QED BY <2>6, <2>7, <2>14, <5>1, <5>2 DEF WorkOK
      <4> QED BY <4>1, <4>2
    <3>2. ASSUME NEW u \in Runners, NEW v \in Runners, u # v, run'[u].pc \in {"extend", "refund"},
                 run'[v].pc \in {"extend", "refund"}
          PROVE  Cur(u) # Cur(v) \/ run[u].day # run[v].day
      <4>1. CASE u # w /\ v # w
        BY <2>7, <3>2, <4>1 DEF WorkOK
      <4>2. CASE u = w
        BY <1>1, <2>7, <2>14, <3>2, <4>2
      <4>3. CASE v = w
        BY <1>1, <2>7, <2>14, <3>2, <4>3
      <4> QED BY <4>1, <4>2, <4>3
    <3> QED BY <1>0, <2>7, <3>1, <3>2 DEF WorkOK
  <2>16. DebitIsSettled'
    <3>1. ASSUME NEW b \in Accounts, NEW e \in Days PROVE Settled(b, e)'
      <4>1. CASE b = a /\ e = d
        <5>1. Working(b, e)'
          BY <1>1, <2>5, <2>7, <4>1 DEF Working
        <5> QED BY <1>0, <2>6, <2>9, <4>1, <5>1 DEF Settled
      <4>2. CASE b # a \/ e # d
        <5>1. Working(b, e) => Working(b, e)'
          BY <1>0, <2>7 DEF Working
        <5>2. Settled(b, e)
          BY SettledEach
        <5> QED BY <1>0, <2>6, <4>2, <5>1, <5>2 DEF Settled
      <4> QED BY <4>1, <4>2
    <3> QED BY <3>1, SettledEach
  <2>17. OverlapOK'
    <3>1. ASSUME NEW v \in Runners, run'[v].pc \in {"write", "disable"}, Paid(Cur(v), run[v].day)'
          PROVE  <<Cur(v), run[v].day>> \in overlap
      <4>1. v # w /\ run[v].pc \in {"write", "disable"}
        BY <2>5, <2>7, <3>1
      <4>2. PICK b \in Accounts, e \in Days : b = Cur(v) /\ e = run[v].day
        BY <4>1, CurTyped
      <4>3. CASE b = a /\ e = d
        BY <1>0, <1>1, <4>1, <4>2, <4>3 DEF OverlapOK
      <4>4. CASE b # a \/ e # d
        BY <2>6, <2>7, <3>1, <4>1, <4>2, <4>4 DEF OverlapOK
      <4> QED BY <4>3, <4>4
    <3>2. ASSUME NEW u \in Runners, NEW v \in Runners, u # v, run'[u].pc \in {"write", "disable"},
                 run'[v].pc \in {"write", "disable"}, Cur(u) = Cur(v), run[u].day = run[v].day
          PROVE  <<Cur(v), run[v].day>> \in overlap
      <4>1. u # w /\ v # w
        BY <2>5, <3>2
      <4> QED BY <2>7, <3>2, <4>1 DEF OverlapOK
    <3> QED BY <1>0, <2>7, <3>1, <3>2 DEF OverlapOK
  <2> QED BY <2>10, <2>11, <2>12, <2>13, <2>15, <2>16, <2>17
<1> QED BY <1>1, <1>3, <1>4, <1>5 DEF DebitWrite

\* Disabling a profile touches no line of the ledger, and the run goes on.
LEMMA DisableKeeps ==
    ASSUME BillingInv, NEW w \in Runners, Disable(w) PROVE BillingInv'
BY LeavesAccount DEF Disable, BillingInv, admin, wallet, faults, BillingTypeOK

\* A run that works on the debit of a for day d touches that debit's days and
\* refund only; the debits stay.
LEMMA OwnDebitOnly ==
    ASSUME BillingInv, NEW w \in Runners, Others(w), run[w].pc \in {"extend", "refund"},
           NEW a \in Accounts, NEW d \in Days, a = Cur(w), d = run[w].day,
           \A b \in Accounts, e \in Days :
               /\ ledger'[DebitKey(b, e)] = ledger[DebitKey(b, e)]
               /\ b # a \/ e # d => /\ ledger'[RefundKey(b, e)] = ledger[RefundKey(b, e)]
                                    /\ ext'[b][e] = ext[b][e],
           open \subseteq open', overlap' = overlap, UNCHANGED <<cr, bulk>>,
           run'[w].pc \notin {"write", "disable"},
           run'[w].pc # "idle" => run'[w].todo # {} /\ run'[w].day \in Days,
           run'[w].pc \in {"extend", "refund"} =>
               /\ run'[w].todo = run[w].todo /\ run'[w].day = run[w].day
               /\ ledger'[RefundKey(a, d)] = 0
               /\ ext'[a][d] = 0 \/ (run'[w].pc = "refund" /\ <<a, d>> \in open'),
           Settled(a, d)'
    PROVE  RunnersOK' /\ CreditsOK' /\ DebitsOK' /\ WorkOK' /\ DebitIsSettled' /\ OverlapOK'
<1> USE DEF BillingInv
<1>1. RunnersOK'
  BY RunnersStep
<1>2. CreditsOK' /\ DebitsOK'
  BY DEF CreditsOK, DebitsOK
<1>3. \A v \in Runners : v # w => run'[v] = run[v] /\ Cur(v)' = Cur(v)
  BY DEF Others, Cur
<1>4. \A b \in Accounts, e \in Days : Paid(b, e)' <=> Paid(b, e)
  BY DEF Paid
<1>5. run'[w].pc \in {"extend", "refund"} => Cur(w)' = a /\ run'[w].day = d
  BY DEF Cur
<1>6. \A v \in Runners : v # w /\ run[v].pc \in {"extend", "refund"} =>
         Cur(v) \in Accounts /\ run[v].day \in Days /\ (Cur(v) # a \/ run[v].day # d)
  BY CurTyped DEF WorkOK
<1>7. WorkOK'
  <2>1. ASSUME NEW v \in Runners, run'[v].pc \in {"extend", "refund"}
        PROVE  /\ Paid(Cur(v), run[v].day)'
               /\ ledger'[RefundKey(Cur(v)', run'[v].day)] = 0
               /\ \/ ext'[Cur(v)'][run'[v].day] = 0
                  \/ run'[v].pc = "refund" /\ <<Cur(v)', run'[v].day>> \in open'
    <3>1. CASE v = w
      <4>1. Paid(a, d)
        BY DEF WorkOK
      <4> QED BY <1>4, <1>5, <2>1, <3>1, <4>1 DEF Paid
    <3>2. CASE v # w
      <4>1. run'[v] = run[v] /\ Cur(v)' = Cur(v) /\ run[v].pc \in {"extend", "refund"}
        BY <1>3, <2>1, <3>2
      <4>2. PICK b \in Accounts, e \in Days : b = Cur(v) /\ e = run[v].day /\ (b # a \/ e # d)
        BY <1>6, <3>2, <4>1
      <4>3. /\ Paid(b, e) /\ ledger[RefundKey(b, e)] = 0
            /\ ext[b][e] = 0 \/ (run[v].pc = "refund" /\ <<b, e>> \in open)
        BY <4>1, <4>2 DEF WorkOK
      <4>4. /\ Paid(b, e)' /\ ledger'[RefundKey(b, e)] = 0
            /\ ext'[b][e] = 0 \/ (run[v].pc = "refund" /\ <<b, e>> \in open')
        BY <1>4, <4>2, <4>3
      <4> QED BY <4>1, <4>2, <4>4 DEF Paid
    <3> QED BY <3>1, <3>2
  <2>2. ASSUME NEW u \in Runners, NEW v \in Runners, u # v, run'[u].pc \in {"extend", "refund"},
               run'[v].pc \in {"extend", "refund"}
        PROVE  Cur(u)' # Cur(v)' \/ run'[u].day # run'[v].day
    <3>1. CASE u # w /\ v # w
      BY <1>3, <2>2, <3>1 DEF WorkOK
    <3>2. CASE u = w
      BY <1>3, <1>5, <1>6, <2>2, <3>2
    <3>3. CASE v = w
      BY <1>3, <1>5, <1>6, <2>2, <3>3
    <3> QED BY <3>1, <3>2, <3>3
  <2> QED BY <2>1, <2>2 DEF WorkOK
<1>8. DebitIsSettled'
  <2>1. ASSUME NEW b \in Accounts, NEW e \in Days, b # a \/ e # d PROVE Settled(b, e)'
    <3>1. Working(b, e) => Working(b, e)'
      BY <1>3, <2>1 DEF Working
    <3>2. Settled(b, e)
      BY SettledEach
    <3> QED BY <1>4, <2>1, <3>1, <3>2 DEF Settled
  <2> QED BY <2>1, SettledEach
<1>9. OverlapOK'
  <2>1. ASSUME NEW v \in Runners, run'[v].pc \in {"write", "disable"}
        PROVE  /\ v # w /\ run'[v] = run[v] /\ Cur(v)' = Cur(v)
               /\ Paid(Cur(v), run[v].day)' <=> Paid(Cur(v), run[v].day)
    <3>1. v # w /\ run'[v] = run[v] /\ Cur(v)' = Cur(v)
      BY <1>3, <2>1
    <3>2. PICK b \in Accounts, e \in Days : b = Cur(v) /\ e = run[v].day
      BY <2>1, <3>1, CurTyped
    <3> QED BY <1>4, <3>1, <3>2
  <2> QED BY <2>1 DEF OverlapOK
<1> QED BY <1>1, <1>2, <1>7, <1>8, <1>9

\* The answer of the panel decides between the next account and a refund.
LEMMA ExtendKeeps ==
    ASSUME BillingInv, NEW w \in Runners, Extend(w) PROVE BillingInv'
<1> USE DEF BillingInv
<1>0. /\ run[w].pc = "extend" /\ Cur(w) \in Accounts /\ run[w].day \in Days /\ run[w].todo # {}
      /\ run \in [Runners -> RunRows] /\ run[w].amt \in Prices \cup {0}
      /\ UNCHANGED <<day, price, trial, linked, pay, bal, ledger, acc, cr, bulk, overlap, runs>>
  BY CurTyped DEF Extend, RunnersOK, BillingTypeOK, RunRows, admin, wallet
<1>1. PICK a \in Accounts, d \in Days : a = Cur(w) /\ d = run[w].day
  BY <1>0
<1>2. Paid(a, d) /\ ledger[RefundKey(a, d)] = 0 /\ ext[a][d] = 0
  BY <1>0, <1>1 DEF WorkOK
<1>3. Added(w) => /\ ext' \in [Accounts -> [Days -> Nat]] /\ ext'[a][d] = 1
                  /\ \A b \in Accounts, e \in Days : b # a \/ e # d => ext'[b][e] = ext[b][e]
  BY <1>1, <1>2 DEF Added, BillingTypeOK
<1>4. \A b \in Accounts, e \in Days : b # a \/ e # d => ext'[b][e] = ext[b][e]
  BY <1>3 DEF Extend
<1>5. ext' \in [Accounts -> [Days -> Nat]]
  BY <1>3 DEF Extend, BillingTypeOK
<1>6. open \subseteq open' /\ open' \subseteq Accounts \X Days
  BY <1>0 DEF Extend, BillingTypeOK
<1>7. Stay(w, "refund", run[w].amt) \/ (Advance(w) /\ ext'[a][d] = 1)
  BY <1>3 DEF Extend
<1>9. Paid(a, d)' /\ ledger'[RefundKey(a, d)] = 0 /\ ext'[a][d] \in {0, 1}
  BY <1>0, <1>2, <1>3 DEF Paid, Extend
<1>10. ASSUME run' \in [Runners -> RunRows] PROVE BillingTypeOK'
  BY <1>0, <1>5, <1>6, <1>10 DEF BillingTypeOK, RunRows
<1>11. CASE Advance(w) /\ ext'[a][d] = 1
  <2>1. /\ run' \in [Runners -> RunRows] /\ Others(w)
        /\ run'[w].pc \in {"idle", "loop"}
        /\ run'[w].pc = "loop" => run'[w].todo # {} /\ run'[w].day \in Days
    BY <1>0, <1>11, MovesOn
  <2>2. Settled(a, d)'
    BY <1>9, <1>11 DEF Settled
  <2>3. /\ run'[w].pc \notin {"write", "disable", "extend", "refund"}
        /\ run'[w].pc # "idle" => run'[w].todo # {} /\ run'[w].day \in Days
    BY <2>1
  <2>4. \A b \in Accounts, e \in Days :
           /\ ledger'[DebitKey(b, e)] = ledger[DebitKey(b, e)]
           /\ b # a \/ e # d => /\ ledger'[RefundKey(b, e)] = ledger[RefundKey(b, e)]
                                /\ ext'[b][e] = ext[b][e]
    BY <1>0, <1>4
  <2>5. /\ run[w].pc \in {"extend", "refund"} /\ Others(w) /\ open \subseteq open'
        /\ overlap' = overlap /\ UNCHANGED <<cr, bulk>>
    BY <1>0, <1>6, <2>1
  <2>6. RunnersOK' /\ CreditsOK' /\ DebitsOK' /\ WorkOK' /\ DebitIsSettled' /\ OverlapOK'
    BY ZenonT(60), <1>1, <2>2, <2>3, <2>4, <2>5, OwnDebitOnly
  <2> QED BY <1>10, <2>1, <2>6
<1>12. CASE Stay(w, "refund", run[w].amt) /\ ~(Advance(w) /\ ext'[a][d] = 1)
  <2>1. /\ run' \in [Runners -> RunRows] /\ Others(w) /\ run'[w].pc = "refund"
        /\ run'[w].todo = run[w].todo /\ run'[w].day = run[w].day
    BY <1>0, <1>12, StayWrites DEF Pcs
  <2>2. ext'[a][d] = 0 \/ <<a, d>> \in open'
    BY <1>1, <1>2, <1>3, <1>12 DEF Extend
  <2>3. Working(a, d)'
    BY <1>1, <2>1 DEF Working, Cur
  <2>4. Settled(a, d)'
    BY <1>9, <2>3 DEF Settled
  <2>5. RunnersOK' /\ CreditsOK' /\ DebitsOK' /\ WorkOK' /\ DebitIsSettled' /\ OverlapOK'
    BY <1>0, <1>1, <1>4, <1>6, <1>9, <2>1, <2>2, <2>4, OwnDebitOnly
  <2> QED BY <1>10, <2>1, <2>5
<1> QED BY <1>7, <1>11, <1>12

\* A refund adds the line that settles its debit.
LEMMA RefundKeeps ==
    ASSUME BillingInv, NEW w \in Runners, RefundDebit(w) PROVE BillingInv'
<1> USE DEF BillingInv
<1>0. /\ run[w].pc = "refund" /\ Cur(w) \in Accounts /\ run[w].day \in Days /\ run[w].todo # {}
      /\ run \in [Runners -> RunRows]
      /\ UNCHANGED <<day, price, trial, linked, pay, cr, bulk, ext, open, overlap, runs>>
  BY CurTyped DEF RefundDebit, RunnersOK, BillingTypeOK, RunRows, admin, faults
<1>1. PICK a \in Accounts, d \in Days : a = Cur(w) /\ d = run[w].day
  BY <1>0
<1>2. /\ Paid(a, d) /\ ledger[RefundKey(a, d)] = 0
      /\ ext[a][d] = 0 \/ <<a, d>> \in open
  BY <1>0, <1>1 DEF WorkOK
<1>3. PICK k \in Keys : k = RefundKey(a, d)
  BY KeysOfAccount
<1>4. PICK amt \in Nat : amt = -ledger[DebitKey(a, d)] /\ amt # 0
  <2>1. ledger[DebitKey(a, d)] \in Int /\ ledger[DebitKey(a, d)] <= 0 /\ ledger[DebitKey(a, d)] # 0
    BY <1>2, KeysOfAccount DEF BillingTypeOK, DebitsOK, Paid
  <2> QED BY <2>1
<1>5. Book(k, amt)
  BY <1>1, <1>3, <1>4 DEF RefundDebit
<1>6. /\ bal' \in [Accounts -> Nat] /\ ledger' \in [Keys -> Int] /\ acc' \in [Accounts -> Status]
      /\ \A j \in Keys : j # k => ledger'[j] = ledger[j]
      /\ ledger'[k] = amt
  BY <1>2, <1>3, <1>5, BookWrites
<1>7. /\ run' \in [Runners -> RunRows] /\ Others(w)
      /\ run'[w].pc \in {"idle", "loop"}
      /\ run'[w].pc = "loop" => run'[w].todo # {} /\ run'[w].day \in Days
  BY <1>0, MovesOn DEF RefundDebit
<1>8. \A b \in Accounts, e \in Days :
         /\ ledger'[DebitKey(b, e)] = ledger[DebitKey(b, e)]
         /\ b # a \/ e # d => ledger'[RefundKey(b, e)] = ledger[RefundKey(b, e)]
  BY <1>3, <1>6, KeysOfAccount, KeysDiffer
<1>9. BillingTypeOK'
  BY <1>0, <1>6, <1>7 DEF BillingTypeOK, RunRows
<1>10. Settled(a, d)'
  <2>1. ledger'[RefundKey(a, d)] = amt /\ amt = -ledger'[DebitKey(a, d)] /\ Paid(a, d)'
    BY <1>2, <1>3, <1>4, <1>6, <1>8 DEF Paid
  <2>2. Settled(a, d)
    BY SettledEach
  <2>3. ext'[a][d] <= 1
    BY <1>0, <1>2, <2>2 DEF Settled
  <2> QED BY <1>0, <1>2, <1>4, <2>1, <2>3 DEF Settled
<1>11. RunnersOK' /\ CreditsOK' /\ DebitsOK' /\ WorkOK' /\ DebitIsSettled' /\ OverlapOK'
  BY ZenonT(60), <1>0, <1>1, <1>7, <1>8, <1>10, OwnDebitOnly
<1> QED BY <1>9, <1>11

\* A run that dies leaves its debit for the next one.
LEMMA RunDiesKeeps ==
    ASSUME BillingInv, NEW w \in Runners, RunDies(w) PROVE BillingInv'
<1> USE DEF BillingInv
<1>0. /\ run[w].pc # "idle" /\ Cur(w) \in Accounts /\ run[w].day \in Days /\ run[w].todo # {}
      /\ run \in [Runners -> RunRows] /\ Abort(w)
      /\ UNCHANGED <<day, price, trial, linked, pay, bal, ledger, acc, cr, bulk, ext, overlap, runs>>
  BY CurTyped DEF RunDies, RunnersOK, BillingTypeOK, RunRows, admin, wallet
<1>1. CASE run[w].pc \notin {"extend", "refund"}
  <2>1. open' = open
    BY <1>1 DEF RunDies
  <2> QED BY <1>0, <1>1, <2>1, LeavesAccount DEF BillingTypeOK
<1>2. CASE run[w].pc \in {"extend", "refund"}
  <2>1. PICK a \in Accounts, d \in Days : a = Cur(w) /\ d = run[w].day
    BY <1>0
  <2>2. open' = open \cup {<<a, d>>}
    BY <1>2, <2>1 DEF RunDies
  <2>3. /\ run' \in [Runners -> RunRows] /\ Others(w)
        /\ run'[w].pc \in {"idle", "loop"}
        /\ run'[w].pc = "loop" => run'[w].todo # {} /\ run'[w].day \in Days
    BY <1>0, MovesOn
  <2>4. BillingTypeOK'
    BY <1>0, <2>2, <2>3 DEF BillingTypeOK, RunRows
  <2>5. Settled(a, d)
    BY SettledEach
  <2>6. Settled(a, d)'
    BY <1>0, <2>2, <2>5 DEF Settled, Paid
  <2>7. RunnersOK' /\ CreditsOK' /\ DebitsOK' /\ WorkOK' /\ DebitIsSettled' /\ OverlapOK'
    BY <1>0, <1>2, <2>1, <2>2, <2>3, <2>6, OwnDebitOnly
  <2> QED BY <2>4, <2>7
<1> QED BY <1>1, <1>2

\* Every behaviour of the wallets keeps the inductive invariant.
THEOREM BillingInvariant == BillingSpec => []BillingInv
<1>1. BillingInv /\ [BillingNext]_bvars => BillingInv'
  <2> SUFFICES ASSUME BillingInv, [BillingNext]_bvars PROVE BillingInv'
    OBVIOUS
  <2>1. CASE UNCHANGED bvars
    <3>1. BillingTypeOK' /\ CreditsOK'
      BY <2>1 DEF bvars, BillingInv, BillingTypeOK, CreditsOK
    <3> QED BY <2>1, <3>1, DebitsUntouched DEF bvars, BillingInv
  <2>2. CASE BillingNext
    BY <2>2, AdminKeeps, CompletePaymentKeeps, CreditKeeps, BulkKeeps, RunListKeeps, DebitReadKeeps,
       DebitWriteKeeps, DisableKeeps, ExtendKeeps, RefundKeeps, RunDiesKeeps DEF BillingNext
  <2> QED BY <2>1, <2>2
<1> QED BY BillingInitInv, <1>1, PTL DEF BillingSpec

\* The types, and with them: debit_one_day never makes a balance negative.
THEOREM BillingTypes == BillingSpec => []BillingTypeOK
BY BillingInvariant, PTL DEF BillingInv

\* A debit is extended at most once, refunded by exactly its amount, and left
\* open only by a run that died or an answer that was lost.
THEOREM DebitsSettle == BillingSpec => []DebitIsSettled
BY BillingInvariant, PTL DEF BillingInv

\* A user who paid for the day is disabled only when two runs looked for the
\* debit at the same time.
THEOREM PaidDays == BillingSpec => []PaidDayNotDisabled
<1>1. BillingInv => PaidDayNotDisabled
  BY DEF BillingInv, OverlapOK, PaidDayNotDisabled
<1> QED BY BillingInvariant, <1>1, PTL

-----------------------------------------------------------------------------
(* What brings a revoked account back                                      *)

\* A booking that changes the state of an account is new and its own.
LEMMA BookIsFirst ==
    ASSUME BillingTypeOK, NEW k \in Keys, NEW amt \in Nat \ {0}, Book(k, amt), NEW a \in Accounts,
           acc'[a] # acc[a]
    PROVE  k[2] = a /\ FirstBooked(k) /\ ledger'[k] = amt
<1>1. PICK b \in Accounts : b = k[2]
  BY KeyHasAccount
<1>2. ledger[k] = 0
  BY DEF Book, wallet
<1>3. /\ ledger' = [ledger EXCEPT ![k] = amt]
      /\ acc' = [acc EXCEPT ![b] = IF @ \in {"insufficient_funds", "frozen"} THEN @ ELSE "active"]
  BY <1>1, <1>2 DEF Book, BookTwice
<1>4. a = b
  BY <1>3 DEF BillingTypeOK
<1> QED BY <1>1, <1>2, <1>3, <1>4 DEF BillingTypeOK, FirstBooked

\* What the property allows to bring an account back.
ComesBack(a) ==
    \/ FirstBooked(TopUpKey(a)) \/ FirstBooked(GrantKey(a))
    \/ a \in trial' \ trial
    \/ \E d \in Days : GivenBack(a, d)

\* Only a new top-up or grant, a trial or the refund of a debit that bought no
\* day reactivates a revoked account: no debit does, and neither freezing and
\* unfreezing, nor a payment, nor a repeated credit.
THEOREM RevokedStays == BillingSpec => RevokedStaysRevoked
<1>1. ASSUME BillingInv, BillingNext, NEW a \in Accounts, acc[a] = "revoked", acc'[a] # "revoked"
      PROVE  ComesBack(a)
  <2> USE DEF BillingInv
  <2>1. CASE \E b \in Accounts :
                \/ \E s \in Status : EnsureTelegramAccount(b, s)
                \/ CreateEmailAccount(b) \/ BindSubscription(b) \/ Freeze(b) \/ Unfreeze(b)
                \/ Revoke(b) \/ ClaimTelegramTrial(b) \/ CreatePayment(b) \/ CompletePayment(b)
    <3>1. PICK b \in Accounts :
                \/ \E s \in Status : EnsureTelegramAccount(b, s)
                \/ CreateEmailAccount(b) \/ BindSubscription(b) \/ Freeze(b) \/ Unfreeze(b)
                \/ Revoke(b) \/ ClaimTelegramTrial(b) \/ CreatePayment(b) \/ CompletePayment(b)
      BY <2>1
    <3>2. a \in trial' \ trial
      BY <1>1, <3>1
         DEF BillingTypeOK, EnsureTelegramAccount, CreateEmailAccount, BindSubscription, Freeze,
             Unfreeze, Revoke, ClaimTelegramTrial, CreatePayment, CompletePayment, wallet
    <3> QED BY <3>2 DEF ComesBack
  <2>2. CASE \E t \in Creditors : CreditWrite(t)
    <3>1. PICK t \in Creditors : CreditWrite(t)
      BY <2>2
    <3>2. PICK b \in Accounts : cr[t] = TopUpKey(b)
      BY <1>1, <3>1 DEF CreditWrite, CreditsOK
    <3>3. PICK k \in Keys : k = TopUpKey(b)
      BY KeysOfAccount
    <3>4. Book(k, TopUp) /\ TopUp \in Nat \ {0}
      BY <3>1, <3>2, <3>3, BillingAssumption DEF CreditWrite
    <3>5. k[2] = a /\ FirstBooked(k)
      BY <1>1, <3>4, BookIsFirst
    <3>6. b = a
      BY <3>3, <3>5 DEF TopUpKey
    <3> QED BY <3>3, <3>5, <3>6 DEF ComesBack
  <2>3. CASE BulkWrite
    <3>1. bulk.amt \in Prices
      BY <1>1, <2>3 DEF BulkWrite, CreditsOK
    <3>2. PICK p \in Nat \ {0} : p = bulk.amt
      BY <3>1, BillingAssumption
    <3>3. PICK G : /\ G = {b \in bulk.known : ledger[GrantKey(b)] = 0}
                   /\ ledger' = [k \in Keys |-> IF k \in {GrantKey(b) : b \in G} THEN bulk.amt ELSE ledger[k]]
                   /\ acc' = [b \in Accounts |-> IF b \in G \cap bulk.poor THEN "active" ELSE acc[b]]
      BY <2>3 DEF BulkWrite
    <3>4. a \in G
      BY <1>1, <3>3 DEF BillingTypeOK
    <3>5. ledger[GrantKey(a)] = 0 /\ ledger'[GrantKey(a)] = p
      BY <3>2, <3>3, <3>4, KeysOfAccount
    <3>6. FirstBooked(GrantKey(a))
      BY <3>5 DEF FirstBooked
    <3> QED BY <3>6 DEF ComesBack
  <2>4. CASE \E w \in Runners : DebitWrite(w)
    <3>1. PICK w \in Runners : DebitWrite(w)
      BY <2>4
    <3> QED BY <1>1, <3>1 DEF DebitWrite, wallet, BillingTypeOK
  <2>5. CASE \E w \in Runners : RefundDebit(w)
    <3>1. PICK w \in Runners : RefundDebit(w)
      BY <2>5
    <3>2. PICK b \in Accounts, d \in Days : b = Cur(w) /\ d = run[w].day /\ Paid(b, d)
      BY <1>1, <3>1, CurTyped DEF RefundDebit, WorkOK
    <3>3. PICK k \in Keys : k = RefundKey(b, d)
      BY KeysOfAccount
    <3>4. PICK amt \in Nat \ {0} : amt = -ledger[DebitKey(b, d)]
      <4>1. ledger[DebitKey(b, d)] \in Int /\ ledger[DebitKey(b, d)] <= 0 /\ ledger[DebitKey(b, d)] # 0
        BY <1>1, <3>2, KeysOfAccount DEF BillingTypeOK, DebitsOK, Paid
      <4> QED BY <4>1
    <3>5. Book(k, amt)
      BY <3>1, <3>2, <3>3, <3>4 DEF RefundDebit
    <3>6. k[2] = a /\ FirstBooked(k) /\ ledger'[k] = amt
      BY <1>1, <3>5, BookIsFirst
    <3>7. b = a
      BY <3>3, <3>6 DEF RefundKey
    <3>8. ext[a][d] = 0 \/ <<a, d>> \in open
      BY <1>1, <3>1, <3>2, <3>7 DEF RefundDebit, WorkOK
    <3>9. GivenBack(a, d)
      BY <3>3, <3>4, <3>6, <3>7, <3>8 DEF GivenBack
    <3> QED BY <3>9 DEF ComesBack
  <2>6. CASE acc' = acc
    BY <1>1, <2>6
  <2> QED BY <1>1, <2>1, <2>2, <2>3, <2>4, <2>5, <2>6
          DEF BillingNext, UpdateServiceSettings, NextDay, CreditRead, BulkRead, RunList, DebitRead,
              Disable, Extend, RunDies, wallet
<1>2. ASSUME BillingInv, [BillingNext]_bvars
      PROVE  [\A a \in Accounts : acc[a] = "revoked" /\ acc'[a] # "revoked" => ComesBack(a)]_bvars
  BY <1>1, <1>2
<1>3. BillingInv /\ [BillingNext]_bvars
      => [\A a \in Accounts : acc[a] = "revoked" /\ acc'[a] # "revoked"
             => \/ FirstBooked(TopUpKey(a)) \/ FirstBooked(GrantKey(a))
                \/ a \in trial' \ trial
                \/ \E d \in Days : GivenBack(a, d)]_bvars
  BY <1>2 DEF ComesBack
<1> QED BY BillingInvariant, <1>3, PTL DEF BillingSpec, RevokedStaysRevoked

-----------------------------------------------------------------------------
(* Sums over finite sets                                                   *)

\* The sum of f over S.
Total(f, S) == MapThenSumSet(LAMBDA k : f[k], S)

\* The element the sum takes first.
Pick(s) == CHOOSE x \in s : TRUE

\* What the sum of a set is made of: one element and the sum of the others.
PartOf(f, g, s) == IF s = {} THEN 0 ELSE f[Pick(s)] + g[s \ {Pick(s)}]

\* The sums of f over all the subsets of S.
SumsOver(f, S, g) == g = [s \in SUBSET S |-> PartOf(f, g, s)]

\* A set of natural numbers that is not empty has a least element.
LEMMA LeastNumber ==
    ASSUME NEW M, M \subseteq Nat, M # {}
    PROVE  \E m \in M : \A n \in M : n >= m
<1>1. \E m \in M : \A n \in M : ~ (<<n, m>> \in OpToRel(<, Nat))
  BY NatLessThanWellFounded, WFMin
<1>2. PICK m \in M : \A n \in M : ~ (<<n, m>> \in OpToRel(<, Nat))
  BY <1>1
<1>3. \A n \in M : ~ (n < m)
  BY <1>2 DEF OpToRel
<1> QED BY <1>3

\* The subsets of a finite set, and what is left of them.
LEMMA SubsetsShrink ==
    ASSUME NEW S, IsFiniteSet(S), NEW s \in SUBSET S
    PROVE  /\ Cardinality(s) \in Nat
           /\ s # {} => /\ Pick(s) \in s /\ s \ {Pick(s)} \in SUBSET S
                        /\ Cardinality(s \ {Pick(s)}) = Cardinality(s) - 1
<1>1. IsFiniteSet(s) /\ Cardinality(s) \in Nat
  BY FS_Subset, FS_CardinalityType
<1>2. s # {} => Pick(s) \in s
  BY DEF Pick
<1>3. ASSUME s # {} PROVE Cardinality(s \ {Pick(s)}) = Cardinality(s) - 1
  BY <1>1, <1>2, <1>3, FS_RemoveElement
<1> QED BY <1>1, <1>2, <1>3

\* The sum is the value of such a function.
LEMMA TotalUnfolds ==
    ASSUME NEW f, NEW S PROVE Total(f, S) = (CHOOSE g : SumsOver(f, S, g))[S]
<1>1. Total(f, S) = (CHOOSE g : g = [s \in SUBSET S |->
          IF s = {} THEN 0 ELSE f[CHOOSE x \in s : TRUE] + g[s \ {CHOOSE x \in s : TRUE}]])[S]
  BY Zenon DEF Total, MapThenSumSet, MapThenFoldSet
<1> QED BY Zenon, <1>1 DEF SumsOver, PartOf, Pick

\* The sums of the subsets up to a size.
UpTo(f, S, n) ==
    \E g : \A s \in SUBSET S : Cardinality(s) <= n => g[s] = PartOf(f, g, s)

\* A finite set has the sums of all its subsets.
LEMMA SumsExist == ASSUME NEW f, NEW S, IsFiniteSet(S) PROVE \E g : SumsOver(f, S, g)
<1>1. UpTo(f, S, 0)
  <2>1. PICK g : g = [s \in SUBSET S |-> 0]
    OBVIOUS
  <2>2. \A s \in SUBSET S : Cardinality(s) <= 0 => s = {}
    <3>1. ASSUME NEW s \in SUBSET S, Cardinality(s) <= 0 PROVE s = {}
      <4> SUFFICES ASSUME s # {} PROVE FALSE
        OBVIOUS
      <4>1. PICK r \in SUBSET S : Cardinality(r) = Cardinality(s) - 1
        BY SubsetsShrink
      <4>2. Cardinality(r) \in Nat /\ Cardinality(s) \in Nat
        BY SubsetsShrink
      <4> QED BY <3>1, <4>1, <4>2
    <3> QED BY <3>1
  <2> QED BY <2>1, <2>2 DEF UpTo, PartOf
<1>2. ASSUME NEW n \in Nat, UpTo(f, S, n) PROVE UpTo(f, S, n + 1)
  <2>1. PICK g : \A s \in SUBSET S : Cardinality(s) <= n => g[s] = PartOf(f, g, s)
    BY <1>2 DEF UpTo
  <2>2. PICK h : h = [s \in SUBSET S |-> IF Cardinality(s) = n + 1 THEN PartOf(f, g, s) ELSE g[s]]
    OBVIOUS
  <2>3. ASSUME NEW s \in SUBSET S, Cardinality(s) <= n + 1 PROVE h[s] = PartOf(f, h, s)
    <3>1. h[s] = PartOf(f, g, s)
      <4>1. Cardinality(s) \in Nat
        BY SubsetsShrink
      <4> QED BY <2>1, <2>2, <2>3, <4>1
    <3>2. ASSUME s # {} PROVE h[s \ {Pick(s)}] = g[s \ {Pick(s)}]
      <4>1. /\ s \ {Pick(s)} \in SUBSET S /\ Cardinality(s) \in Nat
            /\ Cardinality(s \ {Pick(s)}) = Cardinality(s) - 1
        BY <3>2, SubsetsShrink
      <4> QED BY <2>2, <2>3, <4>1
    <3> QED BY <3>1, <3>2 DEF PartOf
  <2> QED BY <2>3 DEF UpTo
<1>3. \A n \in Nat : UpTo(f, S, n)
  <2> DEFINE M == {n \in Nat : ~UpTo(f, S, n)}
  <2> SUFFICES ASSUME M # {} PROVE FALSE
    OBVIOUS
  <2>1. PICK m \in M : \A n \in M : n >= m
    <3>1. M \subseteq Nat
      OBVIOUS
    <3> HIDE DEF M
    <3> QED BY <3>1, LeastNumber
  <2>2. m # 0
    BY <1>1
  <2>3. m - 1 \in Nat /\ m - 1 \notin M
    BY <2>1, <2>2
  <2>4. UpTo(f, S, m - 1)
    BY <2>3
  <2>5. UpTo(f, S, (m - 1) + 1)
    BY <1>2, <2>3, <2>4
  <2>6. (m - 1) + 1 = m
    OBVIOUS
  <2> QED BY <2>5, <2>6
<1>4. PICK g : \A s \in SUBSET S : Cardinality(s) <= Cardinality(S) => g[s] = PartOf(f, g, s)
  BY <1>3, FS_CardinalityType DEF UpTo
<1>5. \A s \in SUBSET S : Cardinality(s) <= Cardinality(S)
  BY FS_Subset
<1>6. PICK h : h = [s \in SUBSET S |-> g[s]]
  OBVIOUS
<1>7. ASSUME NEW s \in SUBSET S PROVE h[s] = PartOf(f, h, s)
  <2>1. h[s] = PartOf(f, g, s)
    BY <1>4, <1>5, <1>6
  <2>2. s # {} => h[s \ {Pick(s)}] = g[s \ {Pick(s)}]
    BY <1>6
  <2> QED BY <2>1, <2>2 DEF PartOf
<1>8. h = [s \in SUBSET S |-> PartOf(f, h, s)]
  BY <1>6, <1>7
<1> QED BY <1>8 DEF SumsOver

\* The sum of f is made from the sums of the smaller sets.
IsSummed(f, S) ==
    \E g : Total(f, S) = g[S] /\ \A s \in SUBSET S : g[s] = PartOf(f, g, s)

\* Every sum over a finite set is.
LEMMA SumsOf == ASSUME NEW f, NEW S, IsFiniteSet(S) PROVE IsSummed(f, S)
<1>1. PICK g : g = CHOOSE h : SumsOver(f, S, h)
  OBVIOUS
<1>2. SumsOver(f, S, g)
  BY <1>1, SumsExist
<1>3. \A s \in SUBSET S : g[s] = PartOf(f, g, s)
  BY <1>2 DEF SumsOver
<1>4. Total(f, S) = g[S]
  BY <1>1, TotalUnfolds
<1> QED BY <1>3, <1>4 DEF IsSummed

\* Induction over a finite set: when a subset on which a claim fails always
\* leaves one on which it fails too, and it holds on the empty set, no subset
\* is bad.
LEMMA NoSmallest ==
    ASSUME NEW S, IsFiniteSet(S), NEW bad, bad \subseteq SUBSET S, {} \notin bad,
           \A s \in bad : s # {} => s \ {Pick(s)} \in bad
    PROVE  bad = {}
<1> SUFFICES ASSUME bad # {} PROVE FALSE
  OBVIOUS
<1>1. PICK M : M = {Cardinality(s) : s \in bad}
  OBVIOUS
<1>2. M \subseteq Nat /\ M # {}
  <2>1. \A s \in bad : Cardinality(s) \in Nat
    BY SubsetsShrink
  <2> QED BY <1>1, <2>1
<1>3. PICK m \in M : \A n \in M : n >= m
  BY <1>2, LeastNumber
<1>4. PICK s \in bad : m = Cardinality(s)
  BY <1>1, <1>3
<1>5. s \ {Pick(s)} \in bad /\ Cardinality(s \ {Pick(s)}) = Cardinality(s) - 1 /\ Cardinality(s) \in Nat
  BY SubsetsShrink
<1>6. Cardinality(s) - 1 \in M
  BY <1>1, <1>5
<1>7. Cardinality(s) - 1 >= Cardinality(s)
  BY <1>3, <1>4, <1>6
<1> QED BY <1>5, <1>7

\* A sum of zeros is zero.
LEMMA TotalOfZeros ==
    ASSUME NEW f, NEW S, IsFiniteSet(S), \A k \in S : f[k] = 0 PROVE Total(f, S) = 0
<1>0. IsSummed(f, S)
  BY SumsOf
<1>1. PICK g : Total(f, S) = g[S] /\ \A s \in SUBSET S : g[s] = PartOf(f, g, s)
  BY <1>0 DEF IsSummed
<1>2. PICK bad : bad = {s \in SUBSET S : g[s] # 0}
  OBVIOUS
<1>3. {} \notin bad
  BY <1>1, <1>2 DEF PartOf
<1>4. ASSUME NEW s \in bad, s # {} PROVE s \ {Pick(s)} \in bad
  <2>1. Pick(s) \in S /\ s \ {Pick(s)} \in SUBSET S
    BY <1>2, <1>4, SubsetsShrink
  <2>2. g[s] = f[Pick(s)] + g[s \ {Pick(s)}] /\ f[Pick(s)] = 0
    BY <1>1, <1>2, <1>4, <2>1 DEF PartOf
  <2>3. g[s] # 0
    BY <1>2
  <2>4. g[s \ {Pick(s)}] # 0
    BY <2>2, <2>3
  <2> QED BY <1>2, <2>1, <2>4
<1>5. bad = {}
  BY <1>2, <1>3, <1>4, NoSmallest
<1> QED BY <1>1, <1>2, <1>5

\* When a function changes at one point at most, so does its sum by as much.
LEMMA TotalOfChange ==
    ASSUME NEW f, NEW h, NEW S, IsFiniteSet(S), NEW k \in S, \A j \in S : f[j] \in Int /\ h[j] \in Int,
           \A j \in S : j # k => h[j] = f[j]
    PROVE  Total(f, S) \in Int /\ Total(h, S) = Total(f, S) + (h[k] - f[k])
<1>0. IsSummed(f, S) /\ IsSummed(h, S)
  BY SumsOf
<1>1. PICK g : Total(f, S) = g[S] /\ \A s \in SUBSET S : g[s] = PartOf(f, g, s)
  BY <1>0 DEF IsSummed
<1>2. PICK i : Total(h, S) = i[S] /\ \A s \in SUBSET S : i[s] = PartOf(h, i, s)
  BY <1>0 DEF IsSummed
<1> DEFINE Right(s) == g[s] \in Int /\ i[s] = g[s] + (IF k \in s THEN h[k] - f[k] ELSE 0)
<1>3. PICK bad : bad = {s \in SUBSET S : ~Right(s)}
  OBVIOUS
<1>4. {} \notin bad
  <2>1. g[{}] = 0 /\ i[{}] = 0
    BY <1>1, <1>2 DEF PartOf
  <2> QED BY <1>3, <2>1
<1>5. ASSUME NEW s \in bad, s # {}, s \ {Pick(s)} \notin bad PROVE FALSE
  <2>1. Pick(s) \in s /\ s \in SUBSET S /\ s \ {Pick(s)} \in SUBSET S
    BY <1>3, <1>5, SubsetsShrink
  <2>2. PICK x \in S, r \in SUBSET S : x = Pick(s) /\ r = s \ {x}
    BY <2>1
  <2>3. Right(r) /\ ~Right(s)
    BY <1>3, <1>5, <2>2
  <2>4. g[s] = f[x] + g[r] /\ i[s] = h[x] + i[r]
    BY <1>1, <1>2, <1>5, <2>1, <2>2 DEF PartOf
  <2>5. x \in s /\ (k \in s <=> k = x \/ k \in r) /\ x \notin r
    BY <2>1, <2>2
  <2>6. /\ f[x] \in Int /\ h[x] \in Int /\ f[k] \in Int /\ h[k] \in Int /\ x # k => h[x] = f[x]
    OBVIOUS
  <2>7. g[r] \in Int /\ i[r] = g[r] + (IF k \in r THEN h[k] - f[k] ELSE 0)
    BY <2>3
  <2>8. CASE x = k
    <3>1. i[s] = g[s] + (h[k] - f[k]) /\ g[s] \in Int /\ k \in s
      BY <2>4, <2>5, <2>6, <2>7, <2>8
    <3> QED BY <2>3, <3>1
  <2>9. CASE x # k
    <3>1. h[x] = f[x] /\ (k \in s <=> k \in r) /\ g[s] \in Int
      BY <2>4, <2>5, <2>6, <2>7, <2>9
    <3>2. i[s] = g[s] + (IF k \in s THEN h[k] - f[k] ELSE 0)
      BY <2>4, <2>6, <2>7, <3>1
    <3> QED BY <2>3, <3>1, <3>2
  <2> QED BY <2>8, <2>9
<1>6. bad = {}
  <2>1. bad \subseteq SUBSET S /\ \A s \in bad : s # {} => s \ {Pick(s)} \in bad
    BY <1>3, <1>5
  <2> HIDE DEF Right
  <2> QED BY <1>4, <2>1, NoSmallest
<1>7. Right(S)
  BY <1>3, <1>6
<1> QED BY <1>1, <1>2, <1>7

-----------------------------------------------------------------------------
(* A wallet is the sum of its lines                                        *)

\* The lines of an account, and what its balance should be.
KeysOf(a) == {k \in Keys : k[2] = a}
Balanced(a) == bal[a] = Total(ledger, KeysOf(a))

\* The balance of an account moves with one of its lines, and no other moves.
OneLine(a) ==
    \E k \in KeysOf(a) : /\ bal'[a] = bal[a] + (ledger'[k] - ledger[k])
                         /\ \A j \in KeysOf(a) : j # k => ledger'[j] = ledger[j]

\* complete_payment books an invoice once: before it is paid it has no line.
PaymentsOK == \A a \in Accounts : pay[a] # "paid" => ledger[PaymentKey(a)] = 0

\* WalletMatchesLedger, one account at a time.
LEMMA BalancedEach ==
    /\ WalletMatchesLedger <=> \A a \in Accounts : Balanced(a)
    /\ WalletMatchesLedger' <=> \A a \in Accounts : Balanced(a)'
BY DEF WalletMatchesLedger, Balanced, Total, KeysOf

\* An account has finitely many lines, however many accounts there are.
LEMMA KeysOfFinite == ASSUME NEW a \in Accounts PROVE IsFiniteSet(KeysOf(a))
<1>1. PICK kinds : kinds = {"debit", "refund", "topup", "pay", "grant"}
  OBVIOUS
<1>2. IsFiniteSet(kinds)
  <2>1. IsFiniteSet({}) /\ \A S : IsFiniteSet(S) => \A x : IsFiniteSet(S \cup {x})
    BY FS_EmptySet, FS_AddElement
  <2>2. kinds = (((({} \cup {"debit"}) \cup {"refund"}) \cup {"topup"}) \cup {"pay"}) \cup {"grant"}
    BY <1>1
  <2> QED BY <2>1, <2>2
<1>3. IsFiniteSet(0..MaxDay)
  BY BillingAssumption, FS_Interval
<1>4. PICK P : P = kinds \X (0..MaxDay)
  OBVIOUS
<1>5. IsFiniteSet(P)
  BY <1>2, <1>3, <1>4, FS_Product
<1>6. PICK T : T = {<<p[1], a, p[2]>> : p \in P}
  OBVIOUS
<1>7. PICK f : f = [p \in P |-> <<p[1], a, p[2]>>]
  OBVIOUS
<1>8. f \in Surjection(P, T)
  BY <1>6, <1>7 DEF Surjection
<1>9. IsFiniteSet(T)
  BY <1>5, <1>8, FS_Surjection
<1>10. KeysOf(a) \subseteq T
  <2>1. ASSUME NEW k \in Keys, k[2] = a PROVE k \in T
    <3>1. PICK m \in kinds, d \in 0..MaxDay : k = <<m, a, d>>
      BY <1>1, <2>1, BillingAssumption DEF Keys, Days
    <3>2. PICK p \in P : p = <<m, d>>
      BY <1>4
    <3>3. k = <<p[1], a, p[2]>>
      BY <3>1, <3>2
    <3> QED BY <1>6, <3>3
  <2> QED BY <2>1 DEF KeysOf
<1> QED BY <1>9, <1>10, FS_Subset

\* The keys of an account are its own.
LEMMA KeysAreOwn ==
    ASSUME NEW a \in Accounts
    PROVE  /\ PaymentKey(a) \in KeysOf(a) /\ TopUpKey(a) \in KeysOf(a) /\ GrantKey(a) \in KeysOf(a)
           /\ \A d \in Days : DebitKey(a, d) \in KeysOf(a) /\ RefundKey(a, d) \in KeysOf(a)
           /\ \A b : GrantKey(b) \in KeysOf(a) => a = b
BY KeysOfAccount DEF KeysOf, PaymentKey, TopUpKey, GrantKey, DebitKey, RefundKey

\* A balance that moves with one line stays the sum of the lines.
LEMMA OneLineBalances ==
    ASSUME BillingTypeOK, BillingTypeOK', NEW a \in Accounts, Balanced(a), OneLine(a)
    PROVE  Balanced(a)'
<1>1. PICK k \in KeysOf(a) : /\ bal'[a] = bal[a] + (ledger'[k] - ledger[k])
                             /\ \A j \in KeysOf(a) : j # k => ledger'[j] = ledger[j]
  BY DEF OneLine
<1>2. \A j \in KeysOf(a) : ledger[j] \in Int /\ ledger'[j] \in Int
  BY DEF BillingTypeOK, KeysOf
<1>3. IsFiniteSet(KeysOf(a))
  BY KeysOfFinite
<1>4. Total(ledger', KeysOf(a)) = Total(ledger, KeysOf(a)) + (ledger'[k] - ledger[k])
  BY <1>1, <1>2, <1>3, TotalOfChange
<1>5. bal'[a] = Total(ledger', KeysOf(a))
  BY <1>1, <1>4 DEF Balanced
<1> QED BY <1>5 DEF Balanced, KeysOf

\* Where neither the balance nor the lines move, all is well.
LEMMA NoLine ==
    ASSUME BillingTypeOK, NEW a \in Accounts, bal'[a] = bal[a],
           \A j \in KeysOf(a) : ledger'[j] = ledger[j]
    PROVE  OneLine(a)
<1>1. TopUpKey(a) \in KeysOf(a) /\ TopUpKey(a) \in Keys
  BY KeysAreOwn, KeysOfAccount
<1>2. ledger[TopUpKey(a)] \in Int /\ bal[a] \in Int
  BY <1>1 DEF BillingTypeOK
<1>3. bal'[a] = bal[a] + (ledger'[TopUpKey(a)] - ledger[TopUpKey(a)])
  BY <1>1, <1>2
<1> QED BY <1>1, <1>3 DEF OneLine

\* A new line of one account moves its balance and no other.
LEMMA NewLine ==
    ASSUME BillingTypeOK, NEW b \in Accounts, NEW k \in KeysOf(b), NEW x \in Int, ledger[k] = 0,
           bal' = [bal EXCEPT ![b] = @ + x], ledger' = [ledger EXCEPT ![k] = x]
    PROVE  \A a \in Accounts : OneLine(a)
<1>1. k \in Keys /\ k[2] = b
  BY DEF KeysOf
<1>2. OneLine(b)
  <2>1. bal'[b] = bal[b] + x /\ ledger'[k] = x /\ \A j \in KeysOf(b) : j # k => ledger'[j] = ledger[j]
    BY <1>1 DEF BillingTypeOK, KeysOf
  <2>2. bal'[b] = bal[b] + (ledger'[k] - ledger[k])
    BY <2>1
  <2> QED BY <2>1, <2>2 DEF OneLine
<1>3. ASSUME NEW a \in Accounts, a # b PROVE OneLine(a)
  <2>1. bal'[a] = bal[a]
    BY <1>3 DEF BillingTypeOK
  <2>2. \A j \in KeysOf(a) : ledger'[j] = ledger[j]
    BY <1>1, <1>3 DEF BillingTypeOK, KeysOf
  <2> QED BY <2>1, <2>2, NoLine
<1> QED BY <1>2, <1>3

\* A credit that is booked is one line; a credit that comes too late is none.
LEMMA BookedLine ==
    ASSUME BillingTypeOK, NEW b \in Accounts, NEW k \in KeysOf(b), NEW amt \in Nat, Book(k, amt)
    PROVE  \A a \in Accounts : OneLine(a)
<1>1. k[2] = b
  BY DEF KeysOf
<1>2. CASE ledger[k] # 0
  <2>1. bal' = bal /\ ledger' = ledger
    BY <1>2 DEF Book, wallet
  <2> QED BY <2>1, NoLine
<1>3. CASE ledger[k] = 0
  <2>1. bal' = [bal EXCEPT ![b] = @ + amt] /\ ledger' = [ledger EXCEPT ![k] = amt] /\ amt \in Int
    BY <1>1, <1>3 DEF Book, BookTwice
  <2> QED BY <1>3, <2>1, NewLine
<1> QED BY <1>2, <1>3

\* Every step moves each balance with one line at most.
LEMMA StepsAreLines ==
    ASSUME BillingInv, PaymentsOK, BillingNext
    PROVE  \A a \in Accounts : OneLine(a)
<1> USE DEF BillingInv
<1>1. CASE bal' = bal /\ ledger' = ledger
  BY <1>1, NoLine
<1>2. CASE \E b \in Accounts : CompletePayment(b)
  <2>1. PICK b \in Accounts : CompletePayment(b)
    BY <1>2
  <2>2. /\ bal' = [bal EXCEPT ![b] = @ + TopUp] /\ ledger' = [ledger EXCEPT ![PaymentKey(b)] = TopUp]
        /\ pay[b] = "pending"
    BY <2>1 DEF CompletePayment
  <2>3. PICK k \in KeysOf(b) : k = PaymentKey(b)
    BY KeysAreOwn
  <2>4. ledger[k] = 0 /\ TopUp \in Int /\ ledger' = [ledger EXCEPT ![k] = TopUp]
    BY <2>2, <2>3, BillingAssumption DEF PaymentsOK
  <2> QED BY <2>2, <2>4, NewLine
<1>3. CASE \E t \in Creditors : CreditWrite(t)
  <2>1. PICK t \in Creditors : CreditWrite(t)
    BY <1>3
  <2>2. PICK b \in Accounts : cr[t] = TopUpKey(b)
    BY <2>1 DEF CreditWrite, CreditsOK
  <2>3. PICK k \in KeysOf(b) : k = cr[t]
    BY <2>2, KeysAreOwn
  <2>4. Book(k, TopUp) /\ TopUp \in Nat
    BY <2>1, <2>3, BillingAssumption DEF CreditWrite
  <2> QED BY <2>4, BookedLine
<1>4. CASE BulkWrite
  <2>1. PICK G : /\ G = {a \in bulk.known : ledger[GrantKey(a)] = 0}
                 /\ bal' = [a \in Accounts |-> IF a \in G THEN bal[a] + bulk.amt ELSE bal[a]]
                 /\ ledger' = [k \in Keys |-> IF k \in {GrantKey(a) : a \in G} THEN bulk.amt ELSE ledger[k]]
    BY <1>4 DEF BulkWrite
  <2>2. PICK amt \in Nat : amt = bulk.amt
    <3>1. bulk.amt \in Prices \cup {0}
      BY DEF BillingTypeOK
    <3> QED BY <3>1, AmountsAreNat
  <2>3. ASSUME NEW a \in Accounts PROVE OneLine(a)
    <3>1. \A j \in KeysOf(a) : j # GrantKey(a) => ledger'[j] = ledger[j]
      <4>1. ASSUME NEW j \in KeysOf(a), j # GrantKey(a) PROVE j \in Keys /\ j \notin {GrantKey(c) : c \in G}
        BY <4>1, KeysAreOwn DEF KeysOf
      <4> QED BY <2>1, <4>1
    <3>2. PICK k \in KeysOf(a) : k = GrantKey(a) /\ k \in Keys
      BY KeysAreOwn, KeysOfAccount
    <3>3. CASE a \in G
      <4>1. bal'[a] = bal[a] + amt /\ ledger'[k] = amt /\ ledger[k] = 0
        BY <2>1, <2>2, <3>2, <3>3
      <4>2. bal'[a] = bal[a] + (ledger'[k] - ledger[k])
        BY <4>1
      <4> QED BY <3>1, <3>2, <4>2 DEF OneLine
    <3>4. CASE a \notin G
      <4>1. bal'[a] = bal[a]
        BY <2>1, <3>4
      <4>2. k \notin {GrantKey(c) : c \in G}
        BY <3>2, <3>4, KeysAreOwn
      <4>3. ledger'[k] = ledger[k]
        BY <2>1, <3>2, <4>2
      <4> QED BY <3>1, <3>2, <4>1, <4>3, NoLine
    <3> QED BY <3>3, <3>4
  <2> QED BY <2>3
<1>5. CASE \E w \in Runners : DebitWrite(w)
  <2>1. PICK w \in Runners : DebitWrite(w)
    BY <1>5
  <2>2. /\ Cur(w) \in Accounts /\ run[w].day \in Days /\ run[w].amt \in Prices
    BY <2>1, CurTyped DEF DebitWrite, RunnersOK
  <2>3. PICK a \in Accounts, d \in Days, x \in Int : a = Cur(w) /\ d = run[w].day /\ x = -run[w].amt
    BY <2>2, AmountsAreNat
  <2>4. PICK k \in KeysOf(a) : k = DebitKey(a, d)
    BY KeysAreOwn
  <2>5. \/ bal' = bal /\ ledger' = ledger
        \/ /\ ledger[k] = 0 /\ bal' = [bal EXCEPT ![a] = @ - run[w].amt]
           /\ ledger' = [ledger EXCEPT ![k] = -run[w].amt]
    BY <2>1, <2>3, <2>4 DEF DebitWrite, wallet
  <2>6. CASE /\ ledger[k] = 0 /\ bal' = [bal EXCEPT ![a] = @ - run[w].amt]
             /\ ledger' = [ledger EXCEPT ![k] = -run[w].amt]
    <3>1. bal[a] - run[w].amt = bal[a] + x
      <4>1. run[w].amt \in Nat /\ bal[a] \in Nat
        BY <2>2, AmountsAreNat DEF BillingTypeOK
      <4> QED BY <2>3, <4>1
    <3>2. bal' = [bal EXCEPT ![a] = @ + x] /\ ledger' = [ledger EXCEPT ![k] = x]
      BY <2>3, <2>6, <3>1
    <3> QED BY <2>6, <3>2, NewLine
  <2> QED BY <1>1, <2>5, <2>6
<1>6. CASE \E w \in Runners : RefundDebit(w)
  <2>1. PICK w \in Runners : RefundDebit(w)
    BY <1>6
  <2>2. PICK b \in Accounts, d \in Days : b = Cur(w) /\ d = run[w].day
    BY <2>1, CurTyped DEF RefundDebit
  <2>3. PICK k \in KeysOf(b) : k = RefundKey(b, d)
    BY KeysAreOwn
  <2>4. PICK amt \in Nat : amt = -ledger[DebitKey(b, d)]
    <3>1. ledger[DebitKey(b, d)] \in Int /\ ledger[DebitKey(b, d)] <= 0
      BY KeysOfAccount DEF BillingTypeOK, DebitsOK
    <3> QED BY <3>1
  <2>5. Book(k, amt)
    BY <2>1, <2>2, <2>3, <2>4 DEF RefundDebit
  <2> QED BY <2>5, BookedLine
<1> QED BY <1>1, <1>2, <1>3, <1>4, <1>5, <1>6
        DEF BillingNext, EnsureTelegramAccount, CreateEmailAccount, BindSubscription, Freeze, Unfreeze,
            Revoke, ClaimTelegramTrial, CreatePayment, UpdateServiceSettings, NextDay, CreditRead,
            BulkRead, RunList, DebitRead, Disable, Extend, RunDies, wallet

\* Only complete_payment writes the line of an invoice.
LEMMA PaymentsKept ==
    ASSUME BillingInv, PaymentsOK, BillingNext PROVE PaymentsOK'
<1> USE DEF BillingInv
<1> SUFFICES ASSUME NEW a \in Accounts, pay'[a] # "paid" PROVE ledger'[PaymentKey(a)] = 0
  BY DEF PaymentsOK
<1>1. PICK k \in Keys : k = PaymentKey(a)
  BY KeysOfAccount
<1>2. pay[a] # "paid"
  BY DEF BillingNext, BillingTypeOK, EnsureTelegramAccount, CreateEmailAccount, BindSubscription, Freeze,
         Unfreeze, Revoke, ClaimTelegramTrial, CreatePayment, CompletePayment, UpdateServiceSettings,
         NextDay, CreditRead, CreditWrite, BulkRead, BulkWrite, RunList, DebitRead, DebitWrite, Disable,
         Extend, RefundDebit, RunDies, admin
<1>3. ledger[k] = 0
  BY <1>1, <1>2 DEF PaymentsOK
<1>4. ledger'[k] = ledger[k]
  <2>1. ASSUME NEW b \in Accounts, CompletePayment(b) PROVE ledger'[k] = ledger[k]
    <3>1. a # b
      BY <2>1 DEF CompletePayment, BillingTypeOK
    <3>2. PICK j \in Keys : j = PaymentKey(b)
      BY KeysOfAccount
    <3>3. j # k
      BY <1>1, <3>1, <3>2 DEF PaymentKey
    <3>4. ledger' = [ledger EXCEPT ![j] = TopUp]
      BY <2>1, <3>2 DEF CompletePayment
    <3> QED BY <3>3, <3>4 DEF BillingTypeOK
  <2>2. ASSUME NEW t \in Creditors, CreditWrite(t) PROVE ledger'[k] = ledger[k]
    <3>1. PICK b \in Accounts : cr[t] = TopUpKey(b)
      BY <2>2 DEF CreditWrite, CreditsOK
    <3>2. PICK j \in Keys : j = TopUpKey(b)
      BY KeysOfAccount
    <3>3. j # k
      BY <1>1, <3>2 DEF PaymentKey, TopUpKey
    <3>4. Book(j, TopUp) /\ TopUp \in Nat
      BY <2>2, <3>1, <3>2, BillingAssumption DEF CreditWrite
    <3> QED BY <3>3, <3>4, BookWrites
  <2>3. ASSUME BulkWrite PROVE ledger'[k] = ledger[k]
    <3>1. PICK G : ledger' = [l \in Keys |-> IF l \in {GrantKey(b) : b \in G} THEN bulk.amt ELSE ledger[l]]
      BY <2>3 DEF BulkWrite
    <3>2. \A b \in G : k # GrantKey(b)
      BY <1>1 DEF PaymentKey, GrantKey
    <3> QED BY <3>1, <3>2
  <2>4. ASSUME NEW w \in Runners, DebitWrite(w) PROVE ledger'[k] = ledger[k]
    <3>1. PICK b \in Accounts, d \in Days : b = Cur(w) /\ d = run[w].day
      BY <2>4, CurTyped DEF DebitWrite
    <3>2. PICK j \in Keys : j = DebitKey(b, d)
      BY KeysOfAccount
    <3>3. j # k
      BY <1>1, <3>2, KeysDiffer
    <3>4. ledger' = ledger \/ ledger' = [ledger EXCEPT ![j] = -run[w].amt]
      BY <2>4, <3>1, <3>2 DEF DebitWrite, wallet
    <3> QED BY <3>3, <3>4 DEF BillingTypeOK
  <2>5. ASSUME NEW w \in Runners, RefundDebit(w) PROVE ledger'[k] = ledger[k]
    <3>1. PICK b \in Accounts, d \in Days : b = Cur(w) /\ d = run[w].day
      BY <2>5, CurTyped DEF RefundDebit
    <3>2. PICK j \in Keys : j = RefundKey(b, d)
      BY KeysOfAccount
    <3>3. j # k
      BY <1>1, <3>2, KeysDiffer
    <3>4. PICK amt \in Nat : amt = -ledger[DebitKey(b, d)]
      <4>1. ledger[DebitKey(b, d)] \in Int /\ ledger[DebitKey(b, d)] <= 0
        BY KeysOfAccount DEF BillingTypeOK, DebitsOK
      <4> QED BY <4>1
    <3>5. Book(j, amt)
      BY <2>5, <3>1, <3>2, <3>4 DEF RefundDebit
    <3> QED BY <3>3, <3>5, BookWrites
  <2> QED BY <2>1, <2>2, <2>3, <2>4, <2>5
          DEF BillingNext, EnsureTelegramAccount, CreateEmailAccount, BindSubscription, Freeze, Unfreeze,
              Revoke, ClaimTelegramTrial, CreatePayment, UpdateServiceSettings, NextDay, CreditRead,
              BulkRead, RunList, DebitRead, Disable, Extend, RunDies, wallet
<1> QED BY <1>1, <1>3, <1>4

\* Whatever credits, payments, grants, debits and refunds ran side by side, a
\* wallet holds the sum of the lines booked for it.
THEOREM WalletsBalance == BillingSpec => []WalletMatchesLedger
<1>1. BillingInit => WalletMatchesLedger /\ PaymentsOK
  <2> SUFFICES ASSUME BillingInit PROVE WalletMatchesLedger /\ PaymentsOK
    OBVIOUS
  <2>1. ASSUME NEW a \in Accounts PROVE Balanced(a)
    <3>1. \A k \in KeysOf(a) : ledger[k] = 0
      BY DEF BillingInit, KeysOf
    <3>2. Total(ledger, KeysOf(a)) = 0
      BY <3>1, KeysOfFinite, TotalOfZeros
    <3> QED BY <3>2 DEF BillingInit, Balanced
  <2>2. PaymentsOK
    BY KeysOfAccount DEF BillingInit, PaymentsOK
  <2> QED BY <2>1, <2>2, BalancedEach
<1>2. BillingInv /\ BillingInv' /\ WalletMatchesLedger /\ PaymentsOK /\ [BillingNext]_bvars
         => (WalletMatchesLedger /\ PaymentsOK)'
  <2> SUFFICES ASSUME BillingInv, BillingInv', WalletMatchesLedger, PaymentsOK, [BillingNext]_bvars
               PROVE  WalletMatchesLedger' /\ PaymentsOK'
    OBVIOUS
  <2>1. CASE BillingNext
    <3>1. ASSUME NEW a \in Accounts PROVE Balanced(a)'
      <4>1. Balanced(a) /\ OneLine(a)
        BY <2>1, BalancedEach, StepsAreLines
      <4> QED BY <4>1, OneLineBalances DEF BillingInv
    <3> QED BY <2>1, <3>1, BalancedEach, PaymentsKept
  <2>2. CASE UNCHANGED bvars
    BY <2>2, BalancedEach DEF bvars, Balanced, KeysOf, PaymentsOK
  <2> QED BY <2>1, <2>2
<1> QED BY BillingInvariant, <1>1, <1>2, PTL DEF BillingSpec
=============================================================================
