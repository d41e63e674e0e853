---------------------------- MODULE AccrualProofs ----------------------------
(***************************************************************************)
(* Proofs about Accrual for every number of threads, users and orders of   *)
(* every kind, and any number of crashes: no order is credited twice, an   *)
(* invite tells the truth, and no day that was written is lost but in a    *)
(* race of two threads.                                                    *)
(***************************************************************************)
EXTENDS Accrual, FiniteSetTheorems, NaturalsInduction, WellFoundedInduction, TLAPS

-----------------------------------------------------------------------------
(* Sums over finite sets                                                   *)

\* The sum of f over S.
Total(f, S) == MapThenSumSet(LAMBDA k : f[k], S)

\* The element the sum takes first.
Pick(s) == CHOOSE x \in s : TRUE

\* What the sum of a set is made of: one element and the sum of the others.
PartOf(f, g, s) == IF s = {} THEN 0 ELSE f[Pick(s)] + g[s \ {Pick(s)}]

\* The sums of f over all the subsets of S.
SumsOver(f, S, g) == g = [s \in SUBSET S |-> PartOf(f, g, s)]

\* A set of natural numbers that is not empty has a least element.
LEMMA LeastNumber ==
    ASSUME NEW M, M \subseteq Nat, M # {}
    PROVE  \E m \in M : \A n \in M : n >= m
<1>1. \E m \in M : \A n \in M : ~ (<<n, m>> \in OpToRel(<, Nat))
  BY NatLessThanWellFounded, WFMin
<1>2. PICK m \in M : \A n \in M : ~ (<<n, m>> \in OpToRel(<, Nat))
  BY <1>1
<1>3. \A n \in M : ~ (n < m)
  BY <1>2 DEF OpToRel
<1> QED BY <1>3

\* The subsets of a finite set, and what is left of them.
LEMMA SubsetsShrink ==
    ASSUME NEW S, IsFiniteSet(S), NEW s \in SUBSET S
    PROVE  /\ Cardinality(s) \in Nat
           /\ s # {} => /\ Pick(s) \in s /\ s \ {Pick(s)} \in SUBSET S
                        /\ Cardinality(s \ {Pick(s)}) = Cardinality(s) - 1
<1>1. IsFiniteSet(s) /\ Cardinality(s) \in Nat
  BY FS_Subset, FS_CardinalityType
<1>2. s # {} => Pick(s) \in s
  BY DEF Pick
<1>3. ASSUME s # {} PROVE Cardinality(s \ {Pick(s)}) = Cardinality(s) - 1
  BY <1>1, <1>2, <1>3, FS_RemoveElement
<1> QED BY <1>1, <1>2, <1>3

\* The sum is the value of such a function.
LEMMA TotalUnfolds ==
    ASSUME NEW f, NEW S PROVE Total(f, S) = (CHOOSE g : SumsOver(f, S, g))[S]
<1>1. Total(f, S) = (CHOOSE g : g = [s \in SUBSET S |->
          IF s = {} THEN 0 ELSE f[CHOOSE x \in s : TRUE] + g[s \ {CHOOSE x \in s : TRUE}]])[S]
  BY Zenon DEF Total, MapThenSumSet, MapThenFoldSet
<1> QED BY Zenon, <1>1 DEF SumsOver, PartOf, Pick

\* The sums of the subsets up to a size.
UpTo(f, S, n) ==
    \E g : \A s \in SUBSET S : Cardinality(s) <= n => g[s] = PartOf(f, g, s)

\* A finite set has the sums of all its subsets.
LEMMA SumsExist == ASSUME NEW f, NEW S, IsFiniteSet(S) PROVE \E g : SumsOver(f, S, g)
<1>1. UpTo(f, S, 0)
  <2>1. PICK g : g = [s \in SUBSET S |-> 0]
    OBVIOUS
  <2>2. \A s \in SUBSET S : Cardinality(s) <= 0 => s = {}
    <3>1. ASSUME NEW s \in SUBSET S, Cardinality(s) <= 0 PROVE s = {}
      <4> SUFFICES ASSUME s # {} PROVE FALSE
        OBVIOUS
      <4>1. PICK r \in SUBSET S : Cardinality(r) = Cardinality(s) - 1
        BY SubsetsShrink
      <4>2. Cardinality(r) \in Nat /\ Cardinality(s) \in Nat
        BY SubsetsShrink
      <4> QED BY <3>1, <4>1, <4>2
    <3> QED BY <3>1
  <2> QED BY <2>1, <2>2 DEF UpTo, PartOf
<1>2. ASSUME NEW n \in Nat, UpTo(f, S, n) PROVE UpTo(f, S, n + 1)
  <2>1. PICK g : \A s \in SUBSET S : Cardinality(s) <= n => g[s] = PartOf(f, g, s)
    BY <1>2 DEF UpTo
  <2>2. PICK h : h = [s \in SUBSET S |-> IF Cardinality(s) = n + 1 THEN PartOf(f, g, s) ELSE g[s]]
    OBVIOUS
  <2>3. ASSUME NEW s \in SUBSET S, Cardinality(s) <= n + 1 PROVE h[s] = PartOf(f, h, s)
    <3>1. h[s] = PartOf(f, g, s)
      <4>1. Cardinality(s) \in Nat
        BY SubsetsShrink
      <4> QED BY <2>1, <2>2, <2>3, <4>1
    <3>2. ASSUME s # {} PROVE h[s \ {Pick(s)}] = g[s \ {Pick(s)}]
      <4>1. /\ s \ {Pick(s)} \in SUBSET S /\ Cardinality(s) \in Nat
            /\ Cardinality(s \ {Pick(s)}) = Cardinality(s) - 1
        BY <3>2, SubsetsShrink
      <4> QED BY <2>2, <2>3, <4>1
    <3> QED BY <3>1, <3>2 DEF PartOf
  <2> QED BY <2>3 DEF UpTo
<1>3. \A n \in Nat : UpTo(f, S, n)
  <2> DEFINE M == {n \in Nat : ~UpTo(f, S, n)}
  <2> SUFFICES ASSUME M # {} PROVE FALSE
    OBVIOUS
  <2>1. PICK m \in M : \A n \in M : n >= m
    <3>1. M \subseteq Nat
      OBVIOUS
    <3> HIDE DEF M
    <3> QED BY <3>1, LeastNumber
  <2>2. m # 0
    BY <1>1
  <2>3. m - 1 \in Nat /\ m - 1 \notin M
    BY <2>1, <2>2
  <2>4. UpTo(f, S, m - 1)
    BY <2>3
  <2>5. UpTo(f, S, (m - 1) + 1)
    BY <1>2, <2>3, <2>4
  <2>6. (m - 1) + 1 = m
    OBVIOUS
  <2> QED BY <2>5, <2>6
<1>4. PICK g : \A s \in SUBSET S : Cardinality(s) <= Cardinality(S) => g[s] = PartOf(f, g, s)
  BY <1>3, FS_CardinalityType DEF UpTo
<1>5. \A s \in SUBSET S : Cardinality(s) <= Cardinality(S)
  BY FS_Subset
<1>6. PICK h : h = [s \in SUBSET S |-> g[s]]
  OBVIOUS
<1>7. ASSUME NEW s \in SUBSET S PROVE h[s] = PartOf(f, h, s)
  <2>1. h[s] = PartOf(f, g, s)
    BY <1>4, <1>5, <1>6
  <2>2. s # {} => h[s \ {Pick(s)}] = g[s \ {Pick(s)}]
    BY <1>6
  <2> QED BY <2>1, <2>2 DEF PartOf
<1>8. h = [s \in SUBSET S |-> PartOf(f, h, s)]
  BY <1>6, <1>7
<1> QED BY <1>8 DEF SumsOver

\* The sum of f is made from the sums of the smaller sets.
IsSummed(f, S) ==
    \E g : Total(f, S) = g[S] /\ \A s \in SUBSET S : g[s] = PartOf(f, g, s)

\* Every sum over a finite set is.
LEMMA SumsOf == ASSUME NEW f, NEW S, IsFiniteSet(S) PROVE IsSummed(f, S)
<1>1. PICK g : g = CHOOSE h : SumsOver(f, S, h)
  OBVIOUS
<1>2. SumsOver(f, S, g)
  BY <1>1, SumsExist
<1>3. \A s \in SUBSET S : g[s] = PartOf(f, g, s)
  BY <1>2 DEF SumsOver
<1>4. Total(f, S) = g[S]
  BY <1>1, TotalUnfolds
<1> QED BY <1>3, <1>4 DEF IsSummed

\* Induction over a finite set: when a subset on which a claim fails always
\* leaves one on which it fails too, and it holds on the empty set, no subset
\* is bad.
LEMMA NoSmallest ==
    ASSUME NEW S, IsFiniteSet(S), NEW bad, bad \subseteq SUBSET S, {} \notin bad,
           \A s \in bad : s # {} => s \ {Pick(s)} \in bad
    PROVE  bad = {}
<1> SUFFICES ASSUME bad # {} PROVE FALSE
  OBVIOUS
<1>1. PICK M : M = {Cardinality(s) : s \in bad}
  OBVIOUS
<1>2. M \subseteq Nat /\ M # {}
  <2>1. \A s \in bad : Cardinality(s) \in Nat
    BY SubsetsShrink
  <2> QED BY <1>1, <2>1
<1>3. PICK m \in M : \A n \in M : n >= m
  BY <1>2, LeastNumber
<1>4. PICK s \in bad : m = Cardinality(s)
  BY <1>1, <1>3
<1>5. s \ {Pick(s)} \in bad /\ Cardinality(s \ {Pick(s)}) = Cardinality(s) - 1 /\ Cardinality(s) \in Nat
  BY SubsetsShrink
<1>6. Cardinality(s) - 1 \in M
  BY <1>1, <1>5
<1>7. Cardinality(s) - 1 >= Cardinality(s)
  BY <1>3, <1>4, <1>6
<1> QED BY <1>5, <1>7

\* A sum of zeros is zero.
LEMMA TotalOfZeros ==
    ASSUME NEW f, NEW S, IsFiniteSet(S), \A k \in S : f[k] = 0 PROVE Total(f, S) = 0
<1>0. IsSummed(f, S)
  BY SumsOf
<1>1. PICK g : Total(f, S) = g[S] /\ \A s \in SUBSET S : g[s] = PartOf(f, g, s)
  BY <1>0 DEF IsSummed
<1>2. PICK bad : bad = {s \in SUBSET S : g[s] # 0}
  OBVIOUS
<1>3. {} \notin bad
  BY <1>1, <1>2 DEF PartOf
<1>4. ASSUME NEW s \in bad, s # {} PROVE s \ {Pick(s)} \in bad
  <2>1. Pick(s) \in S /\ s \ {Pick(s)} \in SUBSET S
    BY <1>2, <1>4, SubsetsShrink
  <2>2. g[s] = f[Pick(s)] + g[s \ {Pick(s)}] /\ f[Pick(s)] = 0
    BY <1>1, <1>2, <1>4, <2>1 DEF PartOf
  <2>3. g[s] # 0
    BY <1>2
  <2>4. g[s \ {Pick(s)}] # 0
    BY <2>2, <2>3
  <2> QED BY <1>2, <2>1, <2>4
<1>5. bad = {}
  BY <1>2, <1>3, <1>4, NoSmallest
<1> QED BY <1>1, <1>2, <1>5

\* When a function changes at one point at most, so does its sum by as much.
LEMMA TotalOfChange ==
    ASSUME NEW f, NEW h, NEW S, IsFiniteSet(S), NEW k \in S, \A j \in S : f[j] \in Int /\ h[j] \in Int,
           \A j \in S : j # k => h[j] = f[j]
    PROVE  Total(f, S) \in Int /\ Total(h, S) = Total(f, S) + (h[k] - f[k])
<1>0. IsSummed(f, S) /\ IsSummed(h, S)
  BY SumsOf
<1>1. PICK g : Total(f, S) = g[S] /\ \A s \in SUBSET S : g[s] = PartOf(f, g, s)
  BY <1>0 DEF IsSummed
<1>2. PICK i : Total(h, S) = i[S] /\ \A s \in SUBSET S : i[s] = PartOf(h, i, s)
  BY <1>0 DEF IsSummed
<1> DEFINE Right(s) == g[s] \in Int /\ i[s] = g[s] + (IF k \in s THEN h[k] - f[k] ELSE 0)
<1>3. PICK bad : bad = {s \in SUBSET S : ~Right(s)}
  OBVIOUS
<1>4. {} \notin bad
  <2>1. g[{}] = 0 /\ i[{}] = 0
    BY <1>1, <1>2 DEF PartOf
  <2> QED BY <1>3, <2>1
<1>5. ASSUME NEW s \in bad, s # {}, s \ {Pick(s)} \notin bad PROVE FALSE
  <2>1. Pick(s) \in s /\ s \in SUBSET S /\ s \ {Pick(s)} \in SUBSET S
    BY <1>3, <1>5, SubsetsShrink
  <2>2. PICK x \in S, r \in SUBSET S : x = Pick(s) /\ r = s \ {x}
    BY <2>1
  <2>3. Right(r) /\ ~Right(s)
    BY <1>3, <1>5, <2>2
  <2>4. g[s] = f[x] + g[r] /\ i[s] = h[x] + i[r]
    BY <1>1, <1>2, <1>5, <2>1, <2>2 DEF PartOf
  <2>5. x \in s /\ (k \in s <=> k = x \/ k \in r) /\ x \notin r
    BY <2>1, <2>2
  <2>6. /\ f[x] \in Int /\ h[x] \in Int /\ f[k] \in Int /\ h[k] \in Int /\ x # k => h[x] = f[x]
    OBVIOUS
  <2>7. g[r] \in Int /\ i[r] = g[r] + (IF k \in r THEN h[k] - f[k] ELSE 0)
    BY <2>3
  <2>8. CASE x = k
    <3>1. i[s] = g[s] + (h[k] - f[k]) /\ g[s] \in Int /\ k \in s
      BY <2>4, <2>5, <2>6, <2>7, <2>8
    <3> QED BY <2>3, <3>1
  <2>9. CASE x # k
    <3>1. h[x] = f[x] /\ (k \in s <=> k \in r) /\ g[s] \in Int
      BY <2>4, <2>5, <2>6, <2>7, <2>9
    <3>2. i[s] = g[s] + (IF k \in s THEN h[k] - f[k] ELSE 0)
      BY <2>4, <2>6, <2>7, <3>1
    <3> QED BY <2>3, <3>1, <3>2
  <2> QED BY <2>8, <2>9
<1>6. bad = {}
  <2>1. bad \subseteq SUBSET S /\ \A s \in bad : s # {} => s \ {Pick(s)} \in bad
    BY <1>3, <1>5
  <2> HIDE DEF Right
  <2> QED BY <1>4, <2>1, NoSmallest
<1>7. Right(S)
  BY <1>3, <1>6
<1> QED BY <1>1, <1>2, <1>7


USE AccrualAssumption
USE DEF panelVars, clientVars, rvars, orderVars, threadVars, bookVars, histVars, avars,
        Invoices, Orders

-----------------------------------------------------------------------------
(* The inductive invariant                                                 *)

\* A thread has an order exactly while it is at work, and the polling thread
\* has CryptoPay invoices only.
AtWork ==
    \A t \in Threads : /\ step[t] = "idle" <=> job[t] = NoOrder
                       /\ step[t] # "idle" => user[t] \in Users
                       /\ leg[t] = "bonus" => job[t] \in CryptoInvoices
                       /\ t = Poller => job[t] \in CryptoInvoices \cup {NoOrder}

\* The order of a thread is claimed, and no other thread has it.
ClaimHeld ==
    /\ \A t \in Threads : job[t] # NoOrder => status[job[t]] \in {"paid", "processing"}
    /\ \A t1, t2 \in Threads : job[t1] = job[t2] /\ job[t1] # NoOrder => t1 = t2

\* Nothing was written for an order that can still be claimed.
Unclaimed ==
    \A o \in Orders : status[o] \in {"none", "pending"} =>
        applied[o] = 0 /\ (o \in CryptoInvoices => bonus[o] = 0)

Writing == {"lookup", "read", "patch", "create"}

\* Nothing was written for the leg that a thread is about to write.
NotYetWritten ==
    \A t \in Threads : job[t] # NoOrder =>
        /\ leg[t] = "own" /\ step[t] \in Writing => applied[job[t]] = 0
        /\ leg[t] = "own" /\ job[t] \in CryptoInvoices => bonus[job[t]] = 0
        /\ leg[t] = "bonus" /\ step[t] \in Writing => bonus[job[t]] = 0

\* CreditedAtMostOnce says nothing of who may still write; this does.
CreditInv ==
    TypeOK /\ AtWork /\ ClaimHeld /\ Unclaimed /\ NotYetWritten /\ CreditedAtMostOnce

\* Nothing is under way and nothing is written at the beginning.
LEMMA CreditInit == Init => CreditInv
BY DEF Init, CreditInv, TypeOK, PanelTypeOK, Statuses, Steps, Answers, AtWork, ClaimHeld,
       Unclaimed, NotYetWritten, CreditedAtMostOnce

\* New orders, payments and revocations touch no claimed order.
LEMMA OrderStepsCredit == ASSUME CreditInv, OrderStep PROVE CreditInv'
<1>1. ASSUME NEW o \in Invoices, SaveInvoice(o) PROVE CreditInv'
  <2>1. TypeOK'
    BY <1>1 DEF CreditInv, TypeOK, PanelTypeOK, AtWork, Statuses, Steps, Answers, SaveInvoice,
                SetStatus
  <2>2. AtWork'
    BY <1>1 DEF CreditInv, AtWork, TypeOK, PanelTypeOK, SaveInvoice, SetStatus
  <2>3. ClaimHeld'
    BY <1>1 DEF CreditInv, ClaimHeld, AtWork, TypeOK, PanelTypeOK, SaveInvoice, SetStatus
  <2>4. Unclaimed'
    BY <1>1 DEF CreditInv, Unclaimed, ClaimHeld, TypeOK, SaveInvoice, SetStatus
  <2>5. NotYetWritten'
    BY <1>1 DEF CreditInv, NotYetWritten, Unclaimed, ClaimHeld, AtWork, Writing, TypeOK,
                PanelTypeOK, SaveInvoice, SetStatus
  <2>6. CreditedAtMostOnce'
    BY <1>1 DEF CreditInv, CreditedAtMostOnce, TypeOK, SaveInvoice, SetStatus
  <2> QED BY <2>1, <2>2, <2>3, <2>4, <2>5, <2>6 DEF CreditInv
<1>2. ASSUME NEW o \in Invoices, NEW s \in {"paid", "expired"}, ProviderSettles(o, s) PROVE CreditInv'
  <2>1. TypeOK'
    BY <1>2 DEF CreditInv, TypeOK, PanelTypeOK, AtWork, Statuses, Steps, Answers,
                ProviderSettles
  <2>2. AtWork'
    BY <1>2 DEF CreditInv, AtWork, TypeOK, PanelTypeOK, ProviderSettles
  <2>3. ClaimHeld'
    BY <1>2 DEF CreditInv, ClaimHeld, AtWork, TypeOK, PanelTypeOK, ProviderSettles
  <2>4. Unclaimed'
    BY <1>2 DEF CreditInv, Unclaimed, ClaimHeld, TypeOK, ProviderSettles
  <2>5. NotYetWritten'
    BY <1>2 DEF CreditInv, NotYetWritten, Unclaimed, ClaimHeld, AtWork, Writing, TypeOK,
                PanelTypeOK, ProviderSettles
  <2>6. CreditedAtMostOnce'
    BY <1>2 DEF CreditInv, CreditedAtMostOnce, TypeOK, ProviderSettles
  <2> QED BY <2>1, <2>2, <2>3, <2>4, <2>5, <2>6 DEF CreditInv
<1>3. ASSUME NEW o \in Gifts, InviteCreate(o) PROVE CreditInv'
  <2>1. TypeOK'
    BY <1>3 DEF CreditInv, TypeOK, PanelTypeOK, AtWork, Statuses, Steps, Answers, InviteCreate,
                SetStatus
  <2>2. AtWork'
    BY <1>3 DEF CreditInv, AtWork, TypeOK, PanelTypeOK, InviteCreate, SetStatus
  <2>3. ClaimHeld'
    BY <1>3 DEF CreditInv, ClaimHeld, AtWork, TypeOK, PanelTypeOK, InviteCreate, SetStatus
  <2>4. Unclaimed'
    BY <1>3 DEF CreditInv, Unclaimed, ClaimHeld, TypeOK, InviteCreate, SetStatus
  <2>5. NotYetWritten'
    BY <1>3 DEF CreditInv, NotYetWritten, Unclaimed, ClaimHeld, AtWork, Writing, TypeOK,
                PanelTypeOK, InviteCreate, SetStatus
  <2>6. CreditedAtMostOnce'
    BY <1>3 DEF CreditInv, CreditedAtMostOnce, TypeOK, InviteCreate, SetStatus
  <2> QED BY <2>1, <2>2, <2>3, <2>4, <2>5, <2>6 DEF CreditInv
<1>4. ASSUME NEW o \in Gifts, InviteExpire(o) PROVE CreditInv'
  <2>1. TypeOK'
    BY <1>4 DEF CreditInv, TypeOK, PanelTypeOK, AtWork, Statuses, Steps, Answers, InviteExpire
  <2>2. AtWork'
    BY <1>4 DEF CreditInv, AtWork, TypeOK, PanelTypeOK, InviteExpire
  <2>3. ClaimHeld'
    BY <1>4 DEF CreditInv, ClaimHeld, AtWork, TypeOK, PanelTypeOK, InviteExpire
  <2>4. Unclaimed'
    BY <1>4 DEF CreditInv, Unclaimed, ClaimHeld, TypeOK, InviteExpire
  <2>5. NotYetWritten'
    BY <1>4 DEF CreditInv, NotYetWritten, Unclaimed, ClaimHeld, AtWork, Writing, TypeOK,
                PanelTypeOK, InviteExpire
  <2>6. CreditedAtMostOnce'
    BY <1>4 DEF CreditInv, CreditedAtMostOnce, TypeOK, InviteExpire
  <2> QED BY <2>1, <2>2, <2>3, <2>4, <2>5, <2>6 DEF CreditInv
<1>5. ASSUME NEW o \in Gifts, InviteRevoke(o) PROVE CreditInv'
  <2>1. TypeOK'
    BY <1>5 DEF CreditInv, TypeOK, PanelTypeOK, AtWork, Statuses, Steps, Answers, InviteRevoke,
                SetStatus
  <2>2. AtWork'
    BY <1>5 DEF CreditInv, AtWork, TypeOK, PanelTypeOK, InviteRevoke, SetStatus
  <2>3. ClaimHeld'
    BY <1>5 DEF CreditInv, ClaimHeld, AtWork, TypeOK, PanelTypeOK, InviteRevoke, SetStatus
  <2>4. Unclaimed'
    BY <1>5 DEF CreditInv, Unclaimed, ClaimHeld, TypeOK, InviteRevoke, SetStatus
  <2>5. NotYetWritten'
    BY <1>5 DEF CreditInv, NotYetWritten, Unclaimed, ClaimHeld, AtWork, Writing, TypeOK,
                PanelTypeOK, InviteRevoke, SetStatus
  <2>6. CreditedAtMostOnce'
    BY <1>5 DEF CreditInv, CreditedAtMostOnce, TypeOK, InviteRevoke, SetStatus
  <2> QED BY <2>1, <2>2, <2>3, <2>4, <2>5, <2>6 DEF CreditInv
<1> QED BY <1>1, <1>2, <1>3, <1>4, <1>5 DEF OrderStep

\* The polling thread claims only what nobody has claimed.
LEMMA PollerCredit == ASSUME CreditInv, PollerStep PROVE CreditInv'
<1>1. ASSUME StartRound PROVE CreditInv'
  <2>1. TypeOK'
    BY <1>1 DEF CreditInv, TypeOK, PanelTypeOK, AtWork, Statuses, Steps, Answers, StartRound
  <2>2. AtWork'
    BY <1>1 DEF CreditInv, AtWork, TypeOK, PanelTypeOK, StartRound
  <2>3. ClaimHeld'
    BY <1>1 DEF CreditInv, ClaimHeld, AtWork, TypeOK, PanelTypeOK, StartRound
  <2>4. Unclaimed'
    BY <1>1 DEF CreditInv, Unclaimed, ClaimHeld, TypeOK, StartRound
  <2>5. NotYetWritten'
    BY <1>1 DEF CreditInv, NotYetWritten, Unclaimed, ClaimHeld, AtWork, Writing, TypeOK,
                PanelTypeOK, StartRound
  <2>6. CreditedAtMostOnce'
    BY <1>1 DEF CreditInv, CreditedAtMostOnce, TypeOK, StartRound
  <2> QED BY <2>1, <2>2, <2>3, <2>4, <2>5, <2>6 DEF CreditInv
<1>2. ASSUME NEW o \in CryptoInvoices, CheckSaysNothing(o) PROVE CreditInv'
  <2>1. TypeOK'
    BY <1>2 DEF CreditInv, TypeOK, PanelTypeOK, AtWork, Statuses, Steps, Answers,
                CheckSaysNothing
  <2>2. AtWork'
    BY <1>2 DEF CreditInv, AtWork, TypeOK, PanelTypeOK, CheckSaysNothing
  <2>3. ClaimHeld'
    BY <1>2 DEF CreditInv, ClaimHeld, AtWork, TypeOK, PanelTypeOK, CheckSaysNothing
  <2>4. Unclaimed'
    BY <1>2 DEF CreditInv, Unclaimed, ClaimHeld, TypeOK, CheckSaysNothing
  <2>5. NotYetWritten'
    BY <1>2 DEF CreditInv, NotYetWritten, Unclaimed, ClaimHeld, AtWork, Writing, TypeOK,
                PanelTypeOK, CheckSaysNothing
  <2>6. CreditedAtMostOnce'
    BY <1>2 DEF CreditInv, CreditedAtMostOnce, TypeOK, CheckSaysNothing
  <2> QED BY <2>1, <2>2, <2>3, <2>4, <2>5, <2>6 DEF CreditInv
<1>3. ASSUME NEW o \in CryptoInvoices, CheckSaysPaid(o) PROVE CreditInv'
  <2>1. TypeOK'
    BY <1>3 DEF CreditInv, TypeOK, PanelTypeOK, AtWork, Statuses, Steps, Answers,
                CheckSaysPaid, UpdateInvoiceStatus, SetStatus, StartCredit, BeginCalls
  <2>2. AtWork'
    BY <1>3 DEF CreditInv, AtWork, TypeOK, PanelTypeOK, CheckSaysPaid, UpdateInvoiceStatus,
                SetStatus, StartCredit, BeginCalls
  <2>3. ClaimHeld'
    BY <1>3 DEF CreditInv, ClaimHeld, AtWork, TypeOK, PanelTypeOK, CheckSaysPaid,
                UpdateInvoiceStatus, SetStatus, StartCredit, BeginCalls
  <2>4. Unclaimed'
    BY <1>3 DEF CreditInv, Unclaimed, ClaimHeld, TypeOK, CheckSaysPaid, UpdateInvoiceStatus,
                SetStatus, StartCredit, BeginCalls
  <2>5. NotYetWritten'
    BY <1>3 DEF CreditInv, NotYetWritten, Unclaimed, ClaimHeld, AtWork, Writing, TypeOK,
                PanelTypeOK, CheckSaysPaid, UpdateInvoiceStatus, SetStatus, StartCredit,
                BeginCalls
  <2>6. CreditedAtMostOnce'
    BY <1>3 DEF CreditInv, CreditedAtMostOnce, TypeOK, CheckSaysPaid, UpdateInvoiceStatus,
                SetStatus, StartCredit, BeginCalls
  <2> QED BY <2>1, <2>2, <2>3, <2>4, <2>5, <2>6 DEF CreditInv
<1>4. ASSUME NEW o \in CryptoInvoices, CheckSaysExpired(o) PROVE CreditInv'
  <2>1. TypeOK'
    BY <1>4 DEF CreditInv, TypeOK, PanelTypeOK, AtWork, Statuses, Steps, Answers,
                CheckSaysExpired, UpdateInvoiceStatus, SetStatus
  <2>2. AtWork'
    BY <1>4 DEF CreditInv, AtWork, TypeOK, PanelTypeOK, CheckSaysExpired, UpdateInvoiceStatus,
                SetStatus
  <2>3. ClaimHeld'
    BY <1>4 DEF CreditInv, ClaimHeld, AtWork, TypeOK, PanelTypeOK, CheckSaysExpired,
                UpdateInvoiceStatus, SetStatus
  <2>4. Unclaimed'
    BY <1>4 DEF CreditInv, Unclaimed, ClaimHeld, TypeOK, CheckSaysExpired, UpdateInvoiceStatus,
                SetStatus
  <2>5. NotYetWritten'
    BY <1>4 DEF CreditInv, NotYetWritten, Unclaimed, ClaimHeld, AtWork, Writing, TypeOK,
                PanelTypeOK, CheckSaysExpired, UpdateInvoiceStatus, SetStatus
  <2>6. CreditedAtMostOnce'
    BY <1>4 DEF CreditInv, CreditedAtMostOnce, TypeOK, CheckSaysExpired, UpdateInvoiceStatus,
                SetStatus
  <2> QED BY <2>1, <2>2, <2>3, <2>4, <2>5, <2>6 DEF CreditInv
<1> QED BY <1>1, <1>2, <1>3, <1>4 DEF PollerStep

\* So do the handlers.
LEMMA ClaimsCredit == ASSUME CreditInv, NEW w \in Workers, WorkerClaims(w) PROVE CreditInv'
<1>1. ASSUME NEW o \in LavaInvoices, LavaWebhook(w, o) PROVE CreditInv'
  <2>1. TypeOK'
    BY <1>1 DEF CreditInv, TypeOK, PanelTypeOK, AtWork, Statuses, Steps, Answers, LavaWebhook,
                UpdateInvoiceStatus, SetStatus, StartCredit, BeginCalls
  <2>2. AtWork'
    BY <1>1 DEF CreditInv, AtWork, TypeOK, PanelTypeOK, LavaWebhook, UpdateInvoiceStatus,
                SetStatus, StartCredit, BeginCalls
  <2>3. ClaimHeld'
    BY <1>1 DEF CreditInv, ClaimHeld, AtWork, TypeOK, PanelTypeOK, LavaWebhook,
                UpdateInvoiceStatus, SetStatus, StartCredit, BeginCalls
  <2>4. Unclaimed'
    BY <1>1 DEF CreditInv, Unclaimed, ClaimHeld, TypeOK, LavaWebhook, UpdateInvoiceStatus,
                SetStatus, StartCredit, BeginCalls
  <2>5. NotYetWritten'
    BY <1>1 DEF CreditInv, NotYetWritten, Unclaimed, ClaimHeld, AtWork, Writing, TypeOK,
                PanelTypeOK, LavaWebhook, UpdateInvoiceStatus, SetStatus, StartCredit,
                BeginCalls
  <2>6. CreditedAtMostOnce'
    BY <1>1 DEF CreditInv, CreditedAtMostOnce, TypeOK, LavaWebhook, UpdateInvoiceStatus,
                SetStatus, StartCredit, BeginCalls
  <2> QED BY <2>1, <2>2, <2>3, <2>4, <2>5, <2>6 DEF CreditInv
<1>2. ASSUME NEW o \in Gifts, NEW u \in Users, InviteClaim(w, o, u) PROVE CreditInv'
  <2>1. TypeOK'
    BY <1>2 DEF CreditInv, TypeOK, PanelTypeOK, AtWork, Statuses, Steps, Answers, InviteClaim,
                InviteClaimable, SetStatus, StartCredit, BeginCalls
  <2>2. AtWork'
    BY <1>2 DEF CreditInv, AtWork, TypeOK, PanelTypeOK, InviteClaim, InviteClaimable,
                SetStatus, StartCredit, BeginCalls
  <2>3. ClaimHeld'
    BY <1>2 DEF CreditInv, ClaimHeld, AtWork, TypeOK, PanelTypeOK, InviteClaim,
                InviteClaimable, SetStatus, StartCredit, BeginCalls
  <2>4. Unclaimed'
    BY <1>2 DEF CreditInv, Unclaimed, ClaimHeld, TypeOK, InviteClaim, InviteClaimable,
                SetStatus, StartCredit, BeginCalls
  <2>5. NotYetWritten'
    BY <1>2 DEF CreditInv, NotYetWritten, Unclaimed, ClaimHeld, AtWork, Writing, TypeOK,
                PanelTypeOK, InviteClaim, InviteClaimable, SetStatus, StartCredit, BeginCalls
  <2>6. CreditedAtMostOnce'
    BY <1>2 DEF CreditInv, CreditedAtMostOnce, TypeOK, InviteClaim, InviteClaimable, SetStatus,
                StartCredit, BeginCalls
  <2> QED BY <2>1, <2>2, <2>3, <2>4, <2>5, <2>6 DEF CreditInv
<1>3. ASSUME NEW o \in AdminCredits, AdminClaim(w, o) PROVE CreditInv'
  <2>1. TypeOK'
    BY <1>3 DEF CreditInv, TypeOK, PanelTypeOK, AtWork, Statuses, Steps, Answers, AdminClaim,
                SetStatus, StartCredit, BeginCalls
  <2>2. AtWork'
    BY <1>3 DEF CreditInv, AtWork, TypeOK, PanelTypeOK, AdminClaim, SetStatus, StartCredit,
                BeginCalls
  <2>3. ClaimHeld'
    BY <1>3 DEF CreditInv, ClaimHeld, AtWork, TypeOK, PanelTypeOK, AdminClaim, SetStatus,
                StartCredit, BeginCalls
  <2>4. Unclaimed'
    BY <1>3 DEF CreditInv, Unclaimed, ClaimHeld, TypeOK, AdminClaim, SetStatus, StartCredit,
                BeginCalls
  <2>5. NotYetWritten'
    BY <1>3 DEF CreditInv, NotYetWritten, Unclaimed, ClaimHeld, AtWork, Writing, TypeOK,
                PanelTypeOK, AdminClaim, SetStatus, StartCredit, BeginCalls
  <2>6. CreditedAtMostOnce'
    BY <1>3 DEF CreditInv, CreditedAtMostOnce, TypeOK, AdminClaim, SetStatus, StartCredit,
                BeginCalls
  <2> QED BY <2>1, <2>2, <2>3, <2>4, <2>5, <2>6 DEF CreditInv
<1> QED BY <1>1, <1>2, <1>3 DEF WorkerClaims

\* The one thread that holds an order writes it once in each leg.
LEMMA CallsCredit == ASSUME CreditInv, NEW t \in Threads, CreditStep(t) PROVE CreditInv'
<1>1. ASSUME CallLookup(t) PROVE CreditInv'
  <2>1. TypeOK'
    BY <1>1 DEF CreditInv, TypeOK, PanelTypeOK, AtWork, Statuses, Steps, Answers, CallLookup,
                Lookup, Answer, CreatesUser
  <2>2. AtWork'
    BY <1>1 DEF CreditInv, AtWork, TypeOK, PanelTypeOK, CallLookup, Lookup, Answer, CreatesUser
  <2>3. ClaimHeld'
    BY <1>1 DEF CreditInv, ClaimHeld, AtWork, TypeOK, PanelTypeOK, CallLookup, Lookup, Answer,
                CreatesUser
  <2>4. Unclaimed'
    BY <1>1 DEF CreditInv, Unclaimed, ClaimHeld, TypeOK, CallLookup, Lookup, Answer,
                CreatesUser
  <2>5. NotYetWritten'
    BY <1>1 DEF CreditInv, NotYetWritten, Unclaimed, ClaimHeld, AtWork, Writing, TypeOK,
                PanelTypeOK, CallLookup, Lookup, Answer, CreatesUser
  <2>6. CreditedAtMostOnce'
    BY <1>1 DEF CreditInv, CreditedAtMostOnce, TypeOK, CallLookup, Lookup, Answer, CreatesUser
  <2> QED BY <2>1, <2>2, <2>3, <2>4, <2>5, <2>6 DEF CreditInv
<1>2. ASSUME CallRead(t) PROVE CreditInv'
  <2>1. TypeOK'
    BY <1>2 DEF CreditInv, TypeOK, PanelTypeOK, AtWork, Statuses, Steps, Answers, CallRead,
                ExtendRead, Answer
  <2>2. AtWork'
    BY <1>2 DEF CreditInv, AtWork, TypeOK, PanelTypeOK, CallRead, ExtendRead, Answer
  <2>3. ClaimHeld'
    BY <1>2 DEF CreditInv, ClaimHeld, AtWork, TypeOK, PanelTypeOK, CallRead, ExtendRead, Answer
  <2>4. Unclaimed'
    BY <1>2 DEF CreditInv, Unclaimed, ClaimHeld, TypeOK, CallRead, ExtendRead, Answer
  <2>5. NotYetWritten'
    BY <1>2 DEF CreditInv, NotYetWritten, Unclaimed, ClaimHeld, AtWork, Writing, TypeOK,
                PanelTypeOK, CallRead, ExtendRead, Answer
  <2>6. CreditedAtMostOnce'
    BY <1>2 DEF CreditInv, CreditedAtMostOnce, TypeOK, CallRead, ExtendRead, Answer
  <2> QED BY <2>1, <2>2, <2>3, <2>4, <2>5, <2>6 DEF CreditInv
<1>3. ASSUME CallWrite(t) PROVE CreditInv'
  <2>1. PICK outcome \in WriteOutcomes :
             /\ \/ ExtendPatch(t, Days[job[t]], outcome)
                \/ CreateUser(t, Days[job[t]], outcome)
             /\ Wrote(t, outcome.effect)
             /\ Denied(t, outcome)
    BY <1>3 DEF CallWrite
  <2>a. outcome.effect \in BOOLEAN /\ outcome.reply \in Answers
    BY <2>1 DEF WriteOutcomes
  <2>b. (denied \subseteq Gifts)'
    BY <2>1 DEF CreditInv, TypeOK, Denied
  <2>2. /\ job[t] \in Orders
        /\ step[t] \in Writing
        /\ UNCHANGED <<orderVars, threadVars, bookVars, raced, crashes>>
        /\ step' = [step EXCEPT ![t] = "answered"]
        /\ UNCHANGED <<user, seen>>
    BY <1>3, <2>1 DEF CreditInv, TypeOK, CallWrite, ExtendPatch, CreateUser, Answer, Writing
  <2>3. Days[job[t]] \in Nat /\ user[t] \in Users
    BY <2>2 DEF CreditInv, TypeOK, AtWork, Writing
  <2>4. /\ (known \subseteq Users)'
        /\ (expiry \in [Users -> Int])'
        /\ (answer \in [Threads -> Answers])'
    <3>1. CASE ExtendPatch(t, Days[job[t]], outcome)
      <4>1. Extended(seen[t], Days[job[t]]) \in Int
        BY <2>3 DEF CreditInv, TypeOK, PanelTypeOK, Extended
      <4> QED BY <3>1, <4>1, <2>a DEF CreditInv, TypeOK, PanelTypeOK, ExtendPatch, Answer
    <3>2. CASE CreateUser(t, Days[job[t]], outcome)
      BY <3>2, <2>a, <2>3 DEF CreditInv, TypeOK, PanelTypeOK, CreateUser, Answer
    <3> QED BY <2>1, <3>1, <3>2
  <2>5. CASE leg[t] = "own"
    <3>1. /\ bonus' = bonus
          /\ applied' = applied \/ applied' = [applied EXCEPT ![job[t]] = 1]
      <4>1. applied[job[t]] = 0
        BY <2>2, <2>5 DEF CreditInv, NotYetWritten
      <4> QED BY <4>1, <2>1, <2>a, <2>2, <2>5 DEF CreditInv, TypeOK, Wrote
    <3>2. TypeOK'
      BY <2>b, <2>2, <2>4, <3>1 DEF CreditInv, TypeOK, PanelTypeOK, Steps
    <3>3. AtWork' /\ ClaimHeld'
      BY <2>2 DEF CreditInv, AtWork, ClaimHeld, TypeOK, PanelTypeOK, Writing
    <3>4. Unclaimed'
      BY <2>2, <3>1 DEF CreditInv, Unclaimed, ClaimHeld, TypeOK
    <3>5. NotYetWritten'
      BY <2>2, <3>1 DEF CreditInv, NotYetWritten, ClaimHeld, TypeOK, PanelTypeOK, Writing
    <3>6. CreditedAtMostOnce'
      BY <2>2, <3>1 DEF CreditInv, CreditedAtMostOnce, TypeOK
    <3> QED BY <3>2, <3>3, <3>4, <3>5, <3>6 DEF CreditInv
  <2>6. CASE leg[t] = "bonus"
    <3>1. /\ applied' = applied
          /\ bonus' = bonus \/ bonus' = [bonus EXCEPT ![job[t]] = 1]
      <4>1. bonus[job[t]] = 0 /\ job[t] \in CryptoInvoices
        BY <2>2, <2>6 DEF CreditInv, NotYetWritten, AtWork
      <4> QED BY <4>1, <2>1, <2>a, <2>2, <2>6 DEF CreditInv, TypeOK, Wrote
    <3>2. TypeOK'
      BY <2>b, <2>2, <2>4, <3>1 DEF CreditInv, TypeOK, PanelTypeOK, Steps
    <3>3. AtWork' /\ ClaimHeld'
      BY <2>2 DEF CreditInv, AtWork, ClaimHeld, TypeOK, PanelTypeOK, Writing
    <3>4. Unclaimed'
      BY <2>2, <3>1 DEF CreditInv, Unclaimed, ClaimHeld, TypeOK
    <3>5. NotYetWritten'
      <4>1. \A t2 \in Threads : t2 # t /\ job[t2] # NoOrder => job[t2] # job[t]
        BY <2>2 DEF CreditInv, ClaimHeld
      <4>2. \A t2 \in Threads : t2 # t /\ job[t2] \in CryptoInvoices => bonus'[job[t2]] = bonus[job[t2]]
        BY <3>1, <4>1 DEF CreditInv, TypeOK
      <4> QED BY <2>2, <2>6, <3>1, <4>2 DEF CreditInv, NotYetWritten, AtWork, TypeOK, PanelTypeOK, Writing
    <3>6. CreditedAtMostOnce'
      BY <2>2, <3>1 DEF CreditInv, CreditedAtMostOnce, TypeOK
    <3> QED BY <3>2, <3>3, <3>4, <3>5, <3>6 DEF CreditInv
  <2> QED BY <2>5, <2>6 DEF CreditInv, TypeOK
<1>4. ASSUME RoundFails(t) PROVE CreditInv'
  <2>1. TypeOK'
    BY <1>4 DEF CreditInv, TypeOK, PanelTypeOK, AtWork, Statuses, Steps, Answers, RoundFails,
                Release, EndCalls
  <2>2. AtWork'
    BY <1>4 DEF CreditInv, AtWork, TypeOK, PanelTypeOK, RoundFails, Release, EndCalls
  <2>3. ClaimHeld'
    BY <1>4 DEF CreditInv, ClaimHeld, AtWork, TypeOK, PanelTypeOK, RoundFails, Release,
                EndCalls
  <2>4. Unclaimed'
    BY <1>4 DEF CreditInv, Unclaimed, ClaimHeld, TypeOK, RoundFails, Release, EndCalls
  <2>5. NotYetWritten'
    BY <1>4 DEF CreditInv, NotYetWritten, Unclaimed, ClaimHeld, AtWork, Writing, TypeOK,
                PanelTypeOK, RoundFails, Release, EndCalls
  <2>6. CreditedAtMostOnce'
    BY <1>4 DEF CreditInv, CreditedAtMostOnce, TypeOK, RoundFails, Release, EndCalls
  <2> QED BY <2>1, <2>2, <2>3, <2>4, <2>5, <2>6 DEF CreditInv
<1>5. ASSUME BuyerDone(t) PROVE CreditInv'
  <2>1. TypeOK'
    BY <1>5 DEF CreditInv, TypeOK, PanelTypeOK, AtWork, Statuses, Steps, Answers, BuyerDone,
                Release, EndCalls, BeginCalls, SaveUser
  <2>2. AtWork'
    BY <1>5 DEF CreditInv, AtWork, TypeOK, PanelTypeOK, BuyerDone, Release, EndCalls,
                BeginCalls, SaveUser
  <2>3. ClaimHeld'
    BY <1>5 DEF CreditInv, ClaimHeld, AtWork, TypeOK, PanelTypeOK, BuyerDone, Release,
                EndCalls, BeginCalls, SaveUser
  <2>4. Unclaimed'
    BY <1>5 DEF CreditInv, Unclaimed, ClaimHeld, TypeOK, BuyerDone, Release, EndCalls,
                BeginCalls, SaveUser
  <2>5. NotYetWritten'
    BY <1>5 DEF CreditInv, NotYetWritten, Unclaimed, ClaimHeld, AtWork, Writing, TypeOK,
                PanelTypeOK, BuyerDone, Release, EndCalls, BeginCalls, SaveUser
  <2>6. CreditedAtMostOnce'
    BY <1>5 DEF CreditInv, CreditedAtMostOnce, TypeOK, BuyerDone, Release, EndCalls,
                BeginCalls, SaveUser
  <2> QED BY <2>1, <2>2, <2>3, <2>4, <2>5, <2>6 DEF CreditInv
<1>6. ASSUME ReferrerDone(t) PROVE CreditInv'
  <2>1. TypeOK'
    BY <1>6 DEF CreditInv, TypeOK, PanelTypeOK, AtWork, Statuses, Steps, Answers, ReferrerDone,
                Release, EndCalls
  <2>2. AtWork'
    BY <1>6 DEF CreditInv, AtWork, TypeOK, PanelTypeOK, ReferrerDone, Release, EndCalls
  <2>3. ClaimHeld'
    BY <1>6 DEF CreditInv, ClaimHeld, AtWork, TypeOK, PanelTypeOK, ReferrerDone, Release,
                EndCalls
  <2>4. Unclaimed'
    BY <1>6 DEF CreditInv, Unclaimed, ClaimHeld, TypeOK, ReferrerDone, Release, EndCalls
  <2>5. NotYetWritten'
    BY <1>6 DEF CreditInv, NotYetWritten, Unclaimed, ClaimHeld, AtWork, Writing, TypeOK,
                PanelTypeOK, ReferrerDone, Release, EndCalls
  <2>6. CreditedAtMostOnce'
    BY <1>6 DEF CreditInv, CreditedAtMostOnce, TypeOK, ReferrerDone, Release, EndCalls
  <2> QED BY <2>1, <2>2, <2>3, <2>4, <2>5, <2>6 DEF CreditInv
<1>7. ASSUME LavaDone(t) PROVE CreditInv'
  <2>1. TypeOK'
    BY <1>7 DEF CreditInv, TypeOK, PanelTypeOK, AtWork, Statuses, Steps, Answers, LavaDone,
                Release, EndCalls, SaveUser
  <2>2. AtWork'
    BY <1>7 DEF CreditInv, AtWork, TypeOK, PanelTypeOK, LavaDone, Release, EndCalls, SaveUser
  <2>3. ClaimHeld'
    BY <1>7 DEF CreditInv, ClaimHeld, AtWork, TypeOK, PanelTypeOK, LavaDone, Release, EndCalls,
                SaveUser
  <2>4. Unclaimed'
    BY <1>7 DEF CreditInv, Unclaimed, ClaimHeld, TypeOK, LavaDone, Release, EndCalls, SaveUser
  <2>5. NotYetWritten'
    BY <1>7 DEF CreditInv, NotYetWritten, Unclaimed, ClaimHeld, AtWork, Writing, TypeOK,
                PanelTypeOK, LavaDone, Release, EndCalls, SaveUser
  <2>6. CreditedAtMostOnce'
    BY <1>7 DEF CreditInv, CreditedAtMostOnce, TypeOK, LavaDone, Release, EndCalls, SaveUser
  <2> QED BY <2>1, <2>2, <2>3, <2>4, <2>5, <2>6 DEF CreditInv
<1>8. ASSUME InviteSave(t) PROVE CreditInv'
  <2>1. TypeOK'
    BY <1>8 DEF CreditInv, TypeOK, PanelTypeOK, AtWork, Statuses, Steps, Answers, InviteSave,
                SaveUser
  <2>2. AtWork'
    BY <1>8 DEF CreditInv, AtWork, TypeOK, PanelTypeOK, InviteSave, SaveUser
  <2>3. ClaimHeld'
    BY <1>8 DEF CreditInv, ClaimHeld, AtWork, TypeOK, PanelTypeOK, InviteSave, SaveUser
  <2>4. Unclaimed'
    BY <1>8 DEF CreditInv, Unclaimed, ClaimHeld, TypeOK, InviteSave, SaveUser
  <2>5. NotYetWritten'
    BY <1>8 DEF CreditInv, NotYetWritten, Unclaimed, ClaimHeld, AtWork, Writing, TypeOK,
                PanelTypeOK, InviteSave, SaveUser
  <2>6. CreditedAtMostOnce'
    BY <1>8 DEF CreditInv, CreditedAtMostOnce, TypeOK, InviteSave, SaveUser
  <2> QED BY <2>1, <2>2, <2>3, <2>4, <2>5, <2>6 DEF CreditInv
<1>9. ASSUME InviteSucceeds(t) PROVE CreditInv'
  <2>1. TypeOK'
    BY <1>9 DEF CreditInv, TypeOK, PanelTypeOK, AtWork, Statuses, Steps, Answers,
                InviteSucceeds, Release, EndCalls, FinishOrder
  <2>2. AtWork'
    BY <1>9 DEF CreditInv, AtWork, TypeOK, PanelTypeOK, InviteSucceeds, Release, EndCalls,
                FinishOrder
  <2>3. ClaimHeld'
    BY <1>9 DEF CreditInv, ClaimHeld, AtWork, TypeOK, PanelTypeOK, InviteSucceeds, Release,
                EndCalls, FinishOrder
  <2>4. Unclaimed'
    BY <1>9 DEF CreditInv, Unclaimed, ClaimHeld, TypeOK, InviteSucceeds, Release, EndCalls,
                FinishOrder
  <2>5. NotYetWritten'
    BY <1>9 DEF CreditInv, NotYetWritten, Unclaimed, ClaimHeld, AtWork, Writing, TypeOK,
                PanelTypeOK, InviteSucceeds, Release, EndCalls, FinishOrder
  <2>6. CreditedAtMostOnce'
    BY <1>9 DEF CreditInv, CreditedAtMostOnce, TypeOK, InviteSucceeds, Release, EndCalls,
                FinishOrder
  <2> QED BY <2>1, <2>2, <2>3, <2>4, <2>5, <2>6 DEF CreditInv
<1>10. ASSUME InviteFails(t) PROVE CreditInv'
  <2>1. TypeOK'
    BY <1>10 DEF CreditInv, TypeOK, PanelTypeOK, AtWork, Statuses, Steps, Answers, InviteFails,
                 Release, EndCalls, FinishOrder
  <2>2. AtWork'
    BY <1>10 DEF CreditInv, AtWork, TypeOK, PanelTypeOK, InviteFails, Release, EndCalls,
                 FinishOrder
  <2>3. ClaimHeld'
    BY <1>10 DEF CreditInv, ClaimHeld, AtWork, TypeOK, PanelTypeOK, InviteFails, Release,
                 EndCalls, FinishOrder
  <2>4. Unclaimed'
    BY <1>10 DEF CreditInv, Unclaimed, ClaimHeld, TypeOK, InviteFails, Release, EndCalls,
                 FinishOrder
  <2>5. NotYetWritten'
    BY <1>10 DEF CreditInv, NotYetWritten, Unclaimed, ClaimHeld, AtWork, Writing, TypeOK,
                 PanelTypeOK, InviteFails, Release, EndCalls, FinishOrder
  <2>6. CreditedAtMostOnce'
    BY <1>10 DEF CreditInv, CreditedAtMostOnce, TypeOK, InviteFails, Release, EndCalls,
                 FinishOrder
  <2> QED BY <2>1, <2>2, <2>3, <2>4, <2>5, <2>6 DEF CreditInv
<1>11. ASSUME AdminDone(t) PROVE CreditInv'
  <2>1. TypeOK'
    BY <1>11 DEF CreditInv, TypeOK, PanelTypeOK, AtWork, Statuses, Steps, Answers, AdminDone,
                 Release, EndCalls, FinishOrder
  <2>2. AtWork'
    BY <1>11 DEF CreditInv, AtWork, TypeOK, PanelTypeOK, AdminDone, Release, EndCalls,
                 FinishOrder
  <2>3. ClaimHeld'
    BY <1>11 DEF CreditInv, ClaimHeld, AtWork, TypeOK, PanelTypeOK, AdminDone, Release,
                 EndCalls, FinishOrder
  <2>4. Unclaimed'
    BY <1>11 DEF CreditInv, Unclaimed, ClaimHeld, TypeOK, AdminDone, Release, EndCalls,
                 FinishOrder
  <2>5. NotYetWritten'
    BY <1>11 DEF CreditInv, NotYetWritten, Unclaimed, ClaimHeld, AtWork, Writing, TypeOK,
                 PanelTypeOK, AdminDone, Release, EndCalls, FinishOrder
  <2>6. CreditedAtMostOnce'
    BY <1>11 DEF CreditInv, CreditedAtMostOnce, TypeOK, AdminDone, Release, EndCalls,
                 FinishOrder
  <2> QED BY <2>1, <2>2, <2>3, <2>4, <2>5, <2>6 DEF CreditInv
<1> QED BY <1>1, <1>2, <1>3, <1>4, <1>5, <1>6, <1>7, <1>8, <1>9, <1>10, <1>11 DEF CreditStep
\* A crash lets go of every order and leaves it claimed.
LEMMA CrashCredit == ASSUME CreditInv, Crash PROVE CreditInv'
<1>1. TypeOK'
  BY DEF CreditInv, TypeOK, PanelTypeOK, Statuses, Steps, Answers, Crash, DropCalls
<1>2. AtWork' /\ ClaimHeld' /\ NotYetWritten'
  BY DEF CreditInv, AtWork, ClaimHeld, NotYetWritten, Crash, DropCalls
<1>3. Unclaimed' /\ CreditedAtMostOnce'
  BY DEF CreditInv, Unclaimed, CreditedAtMostOnce, Crash
<1> QED BY <1>1, <1>2, <1>3 DEF CreditInv

\* Every step keeps the invariant.
LEMMA CreditStepInv == CreditInv /\ [Next]_vars => CreditInv'
<1> SUFFICES ASSUME CreditInv, [Next]_vars PROVE CreditInv'
  OBVIOUS
<1>1. CASE UNCHANGED vars
  BY <1>1 DEF vars, CreditInv, TypeOK, PanelTypeOK, AtWork, ClaimHeld, Unclaimed,
              NotYetWritten, CreditedAtMostOnce
<1> QED BY <1>1, OrderStepsCredit, PollerCredit, ClaimsCredit, CallsCredit, CrashCredit DEF Next

\* The variables of the crediting and of the panel keep their types.
THEOREM AccrualTyped == Spec => []TypeOK
<1>1. CreditInv => TypeOK
  BY DEF CreditInv
<1> QED BY <1>1, CreditInit, CreditStepInv, PTL DEF Spec

\* However often a payment is reported, an invite is redeemed or a credit is
\* requested, and wherever the bot crashes, the days of an order and its
\* referral bonus are written to the panel at most once.
THEOREM NeverCreditedTwice == Spec => []CreditedAtMostOnce
<1>1. CreditInv => CreditedAtMostOnce
  BY DEF CreditInv
<1> QED BY <1>1, CreditInit, CreditStepInv, PTL DEF Spec

-----------------------------------------------------------------------------
(* Sponsored invites                                                       *)

\* An invite has a claimant from the claim on.
ClaimantOK ==
    \A o \in Gifts : claimant[o] # NoUser => status[o] \notin {"none", "pending", "revoked"}

\* The thread that redeems an invite works for its claimant and knows what the
\* panel did, unless the panel told it the contrary or nothing.
RedeemOK ==
    \A t \in Threads : job[t] \in Gifts =>
        /\ user[t] = claimant[job[t]]
        /\ status[job[t]] = "processing"
        /\ step[t] = "answered" /\ answer[t] = "ok" => applied[job[t]] = 1
        /\ step[t] = "answered" /\ answer[t] = "none" => applied[job[t]] = 0 \/ job[t] \in denied
        /\ step[t] = "saved" => applied[job[t]] = 1 /\ user[t] \in saved

InviteInv == CreditInv /\ InviteTellsTruth /\ ClaimantOK /\ RedeemOK

\* The kinds of orders have nothing in common.
LEMMA KindsDiffer ==
    /\ \A o \in Gifts : o \in Orders /\ o \notin Invoices /\ o \notin CryptoInvoices
                        /\ o \notin LavaInvoices /\ o \notin AdminCredits /\ o # NoOrder
    /\ \A o \in Orders : o # NoOrder
OBVIOUS

\* Invites are created, lapse or are revoked while nobody redeems them.
LEMMA OrderStepsInvite == ASSUME InviteInv, OrderStep PROVE InviteTellsTruth' /\ ClaimantOK' /\ RedeemOK'
<1> USE DEF InviteInv, CreditInv, TypeOK, PanelTypeOK
<1>1. ASSUME NEW o \in Invoices, SaveInvoice(o) PROVE InviteTellsTruth' /\ ClaimantOK' /\ RedeemOK'
  BY <1>1, KindsDiffer DEF SaveInvoice, SetStatus, InviteTellsTruth, ClaimantOK, RedeemOK
<1>2. ASSUME NEW o \in Invoices, NEW s \in {"paid", "expired"}, ProviderSettles(o, s)
      PROVE  InviteTellsTruth' /\ ClaimantOK' /\ RedeemOK'
  BY <1>2 DEF ProviderSettles, InviteTellsTruth, ClaimantOK, RedeemOK
<1>3. ASSUME NEW o \in Gifts, InviteCreate(o) \/ InviteRevoke(o)
      PROVE  InviteTellsTruth' /\ ClaimantOK' /\ RedeemOK'
  <2>1. /\ o \in Orders /\ status[o] \in {"none", "pending"} /\ claimant[o] = NoUser /\ applied[o] = 0
        /\ \A t \in Threads : job[t] # o
        /\ \E s \in {"pending", "revoked"} : status' = [status EXCEPT ![o] = s]
        /\ UNCHANGED <<rvars, claimant, threadVars, bookVars, histVars>>
    BY <1>3, KindsDiffer DEF InviteCreate, InviteRevoke, SetStatus, Unclaimed, ClaimHeld, ClaimantOK
  <2>2. InviteTellsTruth' /\ ClaimantOK'
    BY <2>1, KindsDiffer DEF InviteTellsTruth, ClaimantOK
  <2>3. RedeemOK'
    BY <2>1, KindsDiffer DEF RedeemOK
  <2> QED BY <2>2, <2>3
<1>4. ASSUME NEW o \in Gifts, InviteExpire(o) PROVE InviteTellsTruth' /\ ClaimantOK' /\ RedeemOK'
  BY <1>4 DEF InviteExpire, InviteTellsTruth, ClaimantOK, RedeemOK
<1> QED BY <1>1, <1>2, <1>3, <1>4 DEF OrderStep

\* The polling thread has nothing to do with invites.
LEMMA PollerInvite == ASSUME InviteInv, PollerStep PROVE InviteTellsTruth' /\ ClaimantOK' /\ RedeemOK'
<1> USE DEF InviteInv, CreditInv, TypeOK, PanelTypeOK
<1>1. CASE StartRound
  BY <1>1 DEF StartRound, InviteTellsTruth, ClaimantOK, RedeemOK
<1>2. ASSUME NEW o \in CryptoInvoices, CheckSaysNothing(o)
      PROVE  InviteTellsTruth' /\ ClaimantOK' /\ RedeemOK'
  BY <1>2 DEF CheckSaysNothing, InviteTellsTruth, ClaimantOK, RedeemOK
<1>3. ASSUME NEW o \in CryptoInvoices, CheckSaysPaid(o)
      PROVE  InviteTellsTruth' /\ ClaimantOK' /\ RedeemOK'
  BY <1>3, KindsDiffer DEF CheckSaysPaid, UpdateInvoiceStatus, SetStatus, StartCredit, BeginCalls,
     InviteTellsTruth, ClaimantOK, RedeemOK
<1>4. ASSUME NEW o \in CryptoInvoices, CheckSaysExpired(o)
      PROVE  InviteTellsTruth' /\ ClaimantOK' /\ RedeemOK'
  BY <1>4, KindsDiffer DEF CheckSaysExpired, UpdateInvoiceStatus, SetStatus,
     InviteTellsTruth, ClaimantOK, RedeemOK
<1> QED BY <1>1, <1>2, <1>3, <1>4 DEF PollerStep

\* An invite is claimed for the account that asked, which has nothing yet.
LEMMA ClaimsInvite ==
    ASSUME InviteInv, NEW w \in Workers, WorkerClaims(w)
    PROVE  InviteTellsTruth' /\ ClaimantOK' /\ RedeemOK'
<1> USE DEF InviteInv, CreditInv, TypeOK, PanelTypeOK
<1>1. ASSUME NEW o \in LavaInvoices, LavaWebhook(w, o)
      PROVE  InviteTellsTruth' /\ ClaimantOK' /\ RedeemOK'
  BY <1>1, KindsDiffer DEF LavaWebhook, UpdateInvoiceStatus, SetStatus, StartCredit, BeginCalls,
     InviteTellsTruth, ClaimantOK, RedeemOK
<1>2. ASSUME NEW o \in Gifts, NEW u \in Users, InviteClaim(w, o, u)
      PROVE  InviteTellsTruth' /\ ClaimantOK' /\ RedeemOK'
  <2>1. /\ o \in Orders /\ status[o] = "pending"
        /\ \A t \in Threads : job[t] # o
        /\ status' = [status EXCEPT ![o] = "processing"]
        /\ claimant' = [claimant EXCEPT ![o] = u]
        /\ job' = [job EXCEPT ![w] = o] /\ user' = [user EXCEPT ![w] = u]
        /\ step' = [step EXCEPT ![w] = "lookup"] /\ UNCHANGED <<answer, bookVars, histVars>>
    BY <1>2, KindsDiffer DEF InviteClaim, InviteClaimable, SetStatus, StartCredit, BeginCalls, ClaimHeld
  <2>2. InviteTellsTruth' /\ ClaimantOK'
    BY <2>1, KindsDiffer DEF InviteTellsTruth, ClaimantOK
  <2>3. RedeemOK'
    BY <2>1, KindsDiffer DEF RedeemOK
  <2> QED BY <2>2, <2>3
<1>3. ASSUME NEW o \in AdminCredits, AdminClaim(w, o)
      PROVE  InviteTellsTruth' /\ ClaimantOK' /\ RedeemOK'
  BY <1>3, KindsDiffer DEF AdminClaim, SetStatus, StartCredit, BeginCalls,
     InviteTellsTruth, ClaimantOK, RedeemOK
<1> QED BY <1>1, <1>2, <1>3 DEF WorkerClaims

\* An object is what the panel did; None hides a write only if denied has it.
LEMMA CallsInvite ==
    ASSUME InviteInv, NEW t \in Threads, CreditStep(t)
    PROVE  InviteTellsTruth' /\ ClaimantOK' /\ RedeemOK'
<1> USE DEF InviteInv, CreditInv, TypeOK, PanelTypeOK
<1>1. CASE CallLookup(t)
  <2>1. /\ UNCHANGED <<status, claimant, applied, denied, saved, job, user>>
        /\ \A r \in Threads \ {t} : step'[r] = step[r] /\ answer'[r] = answer[r]
        /\ job[t] \in Gifts => step'[t] \in {"read", "create"}
    BY <1>1, KindsDiffer DEF CallLookup, Lookup, Answer, CreatesUser, AtWork
  <2>2. InviteTellsTruth' /\ ClaimantOK'
    BY <2>1 DEF InviteTellsTruth, ClaimantOK
  <2>3. RedeemOK'
    BY <2>1 DEF RedeemOK
  <2> QED BY <2>2, <2>3
<1>2. CASE CallRead(t)
  <2>1. /\ UNCHANGED <<status, claimant, applied, denied, saved, job, user>>
        /\ \A r \in Threads \ {t} : step'[r] = step[r] /\ answer'[r] = answer[r]
        /\ step'[t] = "patch" \/ (step'[t] = "answered" /\ answer'[t] = "none")
    BY <1>2 DEF CallRead, ExtendRead, Answer
  <2>2. InviteTellsTruth' /\ ClaimantOK'
    BY <2>1 DEF InviteTellsTruth, ClaimantOK
  <2>3. job[t] \in Gifts => applied[job[t]] = 0
    BY <1>2, KindsDiffer DEF CallRead, ExtendRead, NotYetWritten, AtWork, Writing
  <2>4. RedeemOK'
    BY <2>1, <2>3 DEF RedeemOK
  <2> QED BY <2>2, <2>4
<1>3. CASE CallWrite(t)
  <2>1. PICK outcome \in WriteOutcomes :
             /\ \/ ExtendPatch(t, Days[job[t]], outcome)
                \/ CreateUser(t, Days[job[t]], outcome)
             /\ Wrote(t, outcome.effect)
             /\ Denied(t, outcome)
    BY <1>3 DEF CallWrite
  <2>2. /\ outcome.effect \in BOOLEAN
        /\ outcome.reply = "ok" => outcome.effect
    BY <2>1 DEF WriteOutcomes
  <2>3. /\ job[t] \in Orders /\ step[t] \in Writing
        /\ UNCHANGED <<status, claimant, saved, job, user>>
        /\ step' = [step EXCEPT ![t] = "answered"] /\ answer' = [answer EXCEPT ![t] = outcome.reply]
    BY <1>3, <2>1 DEF CallWrite, ExtendPatch, CreateUser, Answer, Writing
  <2>4. \A r \in Threads : r # t /\ job[r] # NoOrder => job[r] # job[t]
    BY <2>3, KindsDiffer DEF ClaimHeld
  <2>5. \A o \in Orders : o # job[t] => applied'[o] = applied[o]
    BY <2>1, <2>3 DEF Wrote
  <2>d. /\ denied \subseteq denied'
        /\ job[t] \in Gifts /\ outcome.effect /\ outcome.reply = "none" => job[t] \in denied'
    BY <2>1 DEF Denied
  <2>6. job[t] \in Gifts => applied'[job[t]] = IF outcome.effect THEN 1 ELSE 0
    <3>1. job[t] \in Gifts => leg[t] = "own" /\ applied[job[t]] = 0
      BY <2>3, KindsDiffer DEF NotYetWritten, AtWork
    <3> QED BY <2>1, <2>2, <2>3, <3>1 DEF Wrote
  <2>7. InviteTellsTruth' /\ ClaimantOK'
    <3>1. \A o \in Gifts : status[o] # "processing" => o # job[t] /\ o \in Orders
      BY <2>3, KindsDiffer DEF RedeemOK
    <3>2. \A o \in Gifts : status[o] # "processing" => applied'[o] = applied[o]
      BY <3>1, <2>5
    <3> QED BY <2>3, <2>d, <3>2 DEF InviteTellsTruth, ClaimantOK
  <2>8. RedeemOK'
    <3> SUFFICES ASSUME NEW r \in Threads, job[r] \in Gifts
                 PROVE  /\ user'[r] = claimant'[job'[r]] /\ status'[job'[r]] = "processing"
                        /\ step'[r] = "answered" /\ answer'[r] = "ok" => applied'[job'[r]] = 1
                        /\ step'[r] = "answered" /\ answer'[r] = "none"
                               => applied'[job'[r]] = 0 \/ job'[r] \in denied'
                        /\ step'[r] = "saved" => applied'[job'[r]] = 1 /\ user'[r] \in saved'
      BY <2>3 DEF RedeemOK
    <3>1. CASE r = t
      BY <2>2, <2>3, <2>6, <2>d, <3>1 DEF RedeemOK
    <3>2. CASE r # t
      <4>1. applied'[job[r]] = applied[job[r]]
        BY <2>4, <2>5, <3>2, KindsDiffer
      <4>2. step'[r] = step[r] /\ answer'[r] = answer[r]
        BY <2>3, <3>2
      <4> QED BY <2>3, <2>d, <4>1, <4>2 DEF RedeemOK
    <3> QED BY <3>1, <3>2
  <2> QED BY <2>7, <2>8
<1>4. CASE RoundFails(t) \/ BuyerDone(t) \/ ReferrerDone(t) \/ LavaDone(t)
  <2>1. job[t] \notin Gifts
    BY <1>4, KindsDiffer DEF RoundFails, BuyerDone, ReferrerDone, LavaDone, AtWork
  <2>2. /\ UNCHANGED <<status, claimant, applied, denied>> /\ saved \subseteq saved'
        /\ \A r \in Threads \ {t} : /\ job'[r] = job[r] /\ user'[r] = user[r]
                                    /\ step'[r] = step[r] /\ answer'[r] = answer[r]
        /\ job'[t] \in {job[t], NoOrder}
    BY <1>4 DEF RoundFails, BuyerDone, ReferrerDone, LavaDone, Release, EndCalls, BeginCalls, SaveUser
  <2>3. InviteTellsTruth' /\ ClaimantOK'
    BY <2>2 DEF InviteTellsTruth, ClaimantOK
  <2>4. RedeemOK'
    BY <2>1, <2>2, KindsDiffer DEF RedeemOK
  <2> QED BY <2>3, <2>4
<1>5. CASE InviteSave(t)
  <2>1. /\ UNCHANGED <<status, claimant, applied, denied, job, user, answer>> /\ saved' = saved \cup {user[t]}
        /\ job[t] \in Gifts /\ applied[job[t]] = 1 /\ step' = [step EXCEPT ![t] = "saved"]
    BY <1>5 DEF InviteSave, SaveUser, RedeemOK
  <2>2. InviteTellsTruth' /\ ClaimantOK'
    BY <2>1 DEF InviteTellsTruth, ClaimantOK
  <2>3. RedeemOK'
    BY <2>1 DEF RedeemOK
  <2> QED BY <2>2, <2>3
<1>6. CASE InviteSucceeds(t) \/ InviteFails(t) \/ AdminDone(t)
  <2>1. PICK o \in Orders : o = job[t]
    BY <1>6 DEF InviteSucceeds, InviteFails, AdminDone
  <2>2. \A r \in Threads : r # t => job[r] # o
    BY <2>1, KindsDiffer DEF ClaimHeld
  <2>3. /\ UNCHANGED <<claimant, applied, denied, saved>>
        /\ \A r \in Threads \ {t} : /\ job'[r] = job[r] /\ user'[r] = user[r]
                                    /\ step'[r] = step[r] /\ answer'[r] = answer[r]
        /\ job'[t] = NoOrder
        /\ \A p \in Orders \ {o} : status'[p] = status[p]
    BY <1>6, <2>1 DEF InviteSucceeds, InviteFails, AdminDone, FinishOrder, Release, EndCalls
  <2>4. RedeemOK'
    BY <2>2, <2>3, KindsDiffer DEF RedeemOK
  <2>a. \A p \in Gifts : p # o => status'[p] = status[p]
    BY <2>3, KindsDiffer
  <2>5. CASE o \notin Gifts
    <3>1. \A p \in Gifts : status'[p] = status[p]
      BY <2>5, <2>a
    <3> QED BY <2>3, <2>4, <3>1 DEF InviteTellsTruth, ClaimantOK
  <2>6. CASE o \in Gifts
    <3>1. status[o] = "processing" /\ user[t] = claimant[o]
      BY <2>1, <2>6 DEF RedeemOK
    <3>2. \/ status'[o] = "succeeded" /\ applied[o] = 1 /\ claimant[o] \in saved
          \/ status'[o] = "failed" /\ (applied[o] = 0 \/ o \in denied)
          \/ status'[o] = "uncertain"
      BY <1>6, <2>1, <2>6, <3>1, KindsDiffer
         DEF InviteSucceeds, InviteFails, AdminDone, FinishOrder, RedeemOK, Answers
    <3> QED BY <2>3, <2>4, <2>a, <3>2 DEF InviteTellsTruth, ClaimantOK
  <2> QED BY <2>5, <2>6
<1> QED BY <1>1, <1>2, <1>3, <1>4, <1>5, <1>6 DEF CreditStep

\* Every step keeps what is said of invites.
LEMMA InviteStepInv == InviteInv /\ [Next]_vars => InviteInv'
<1> SUFFICES ASSUME InviteInv, [Next]_vars PROVE InviteInv'
  OBVIOUS
<1>1. CreditInv'
  BY CreditStepInv DEF InviteInv
<1>2. CASE UNCHANGED vars
  BY <1>1, <1>2 DEF vars, InviteInv, InviteTellsTruth, ClaimantOK, RedeemOK
<1>3. CASE Crash
  <2>1. InviteTellsTruth' /\ ClaimantOK' /\ RedeemOK'
    BY <1>3, KindsDiffer DEF InviteInv, Crash, InviteTellsTruth, ClaimantOK, RedeemOK
  <2> QED BY <1>1, <2>1 DEF InviteInv
<1> QED BY <1>1, <1>2, <1>3, OrderStepsInvite, PollerInvite, ClaimsInvite, CallsInvite
        DEF Next, InviteInv

\* Nothing is claimed at the beginning.
LEMMA InviteInit == Init => InviteInv
<1> SUFFICES ASSUME Init PROVE InviteInv
  OBVIOUS
<1>1. CreditInv
  BY CreditInit
<1>2. InviteTellsTruth /\ ClaimantOK /\ RedeemOK
  BY KindsDiffer DEF Init, InviteTellsTruth, ClaimantOK, RedeemOK
<1> QED BY <1>1, <1>2 DEF InviteInv

\* A succeeded invite was credited, a pending or revoked one was not, and a failed
\* one only if the panel answered the write it carried out with an error: neither
\* a lost answer, nor a crash, nor any order of claims, revocations and calls
\* makes the status say otherwise.
THEOREM InvitesTellTruth == Spec => []InviteTellsTruth
<1>1. InviteInv => InviteTellsTruth
  BY DEF InviteInv
<1> QED BY <1>1, InviteInit, InviteStepInv, PTL DEF Spec

\* An invite stays with the account that claimed it first, and a redemption
\* credits nobody else.
THEOREM InvitesBound == Spec => InvitesStayBound
<1>1. InviteInv /\ [Next]_vars => [InviteStaysBound]_vars
  <2> SUFFICES ASSUME InviteInv, Next PROVE InviteStaysBound
    BY DEF vars
  <2>1. \A t \in Threads : job[t] \in Gifts => user[t] = claimant[job[t]]
    BY DEF InviteInv, RedeemOK
  <2>2. ASSUME NEW o \in Gifts, claimant[o] # NoUser PROVE claimant'[o] = claimant[o]
    <3>1. ASSUME NEW w \in Workers, NEW p \in Gifts, NEW u \in Users, InviteClaim(w, p, u)
          PROVE  claimant'[o] = claimant[o]
      <4>1. p # o /\ claimant' = [claimant EXCEPT ![p] = u]
        BY <2>2, <3>1 DEF InviteClaim, InviteClaimable
      <4> QED BY <4>1 DEF InviteInv, CreditInv, TypeOK
    <3>2. CASE UNCHANGED claimant
      BY <3>2
    <3>3. OrderStep \/ PollerStep \/ Crash => UNCHANGED claimant
      BY DEF OrderStep, PollerStep, Crash, SaveInvoice, ProviderSettles, InviteCreate, InviteExpire,
             InviteRevoke, StartRound, CheckSaysNothing, CheckSaysPaid, CheckSaysExpired
    <3>4. \A t \in Threads : CreditStep(t) => UNCHANGED claimant
      BY DEF CreditStep, CallLookup, CallRead, CallWrite, RoundFails, BuyerDone, ReferrerDone, LavaDone,
             InviteSave, InviteSucceeds, InviteFails, AdminDone
    <3>5. \A w \in Workers : \A p \in LavaInvoices : LavaWebhook(w, p) => UNCHANGED claimant
      BY DEF LavaWebhook
    <3>6. \A w \in Workers : \A p \in AdminCredits : AdminClaim(w, p) => UNCHANGED claimant
      BY DEF AdminClaim
    <3> QED BY <3>1, <3>2, <3>3, <3>4, <3>5, <3>6 DEF Next, WorkerClaims
  <2> QED BY <2>1, <2>2 DEF InviteStaysBound
<1> QED BY <1>1, InviteInit, InviteStepInv, PTL DEF Spec, InvitesStayBound

-----------------------------------------------------------------------------
(* Days written and days received                                          *)

\* The date of u is where it started, moved by all the days written for u.
DateRight(u) == expiry[u] = IF DaysWritten(u) = 0 THEN Start[u] ELSE FromStart(u) + DaysWritten(u)
DatesRight == \A u \in Users \ raced : DateRight(u)

\* Days are written for users that the panel knows.
UnknownEmpty ==
    /\ FirstKnown \subseteq known
    /\ \A u \in Users \ known : DaysWritten(u) = 0
    /\ \A u \in Users : DaysWritten(u) \in Nat

\* What a thread has read and will write on is what the panel still has, and
\* nobody else is about to write, unless the user is one of the raced ones.
ReadsRight ==
    /\ \A t \in Threads : step[t] = "patch" =>
          user[t] \in known /\ (user[t] \notin raced => seen[t] = expiry[user[t]])
    /\ \A r, t \in Threads :
          r # t /\ step[r] = "patch" /\ step[t] = "patch" /\ user[r] = user[t] => user[t] \in raced

\* A thread works for the one its order is for, or for the one who referred him.
RightUser ==
    \A t \in Threads : job[t] # NoOrder =>
        user[t] = IF leg[t] = "own" THEN Beneficiary(job[t]) ELSE Referrer[Owner[job[t]]]

DatesInv == InviteInv /\ DatesRight /\ UnknownEmpty /\ ReadsRight /\ RightUser

\* The days written for a user are a sum over the orders, in every state.
LEMMA WrittenNow == \A u : DaysWritten(u) = Total(DaysFrom(u), Orders)
BY DEF DaysWritten, Total

\* So they are after a step.
LEMMA WrittenIsTotal ==
    \A u : /\ DaysWritten(u) = Total(DaysFrom(u), Orders)
           /\ DaysWritten(u)' = Total(DaysFrom(u)', Orders)
<1>1. (\A u : DaysWritten(u) = Total(DaysFrom(u), Orders))'
  BY WrittenNow, PTL
<1> QED BY <1>1, WrittenNow

\* A sum that no step of the crediting touches: nothing is written, and an
\* order whose beneficiary changes has nothing yet.
LEMMA SameDays ==
    ASSUME TypeOK, UNCHANGED <<applied, bonus>>,
           \A o \in Orders : Beneficiary(o)' = Beneficiary(o) \/ applied[o] = 0
    PROVE  \A u : DaysWritten(u)' = DaysWritten(u)
<1> SUFFICES ASSUME NEW u PROVE DaysWritten(u)' = DaysWritten(u)
  OBVIOUS
<1>1. ASSUME NEW o \in Orders PROVE DaysFrom(u)'[o] = DaysFrom(u)[o]
  <2>1. CASE Beneficiary(o)' = Beneficiary(o)
    BY <2>1 DEF DaysFrom
  <2>2. CASE applied[o] = 0
    <3>1. applied[o] * Days[o] = 0
      BY <2>2
    <3>2. applied'[o] * Days[o] = 0
      BY <3>1
    <3> QED BY <3>1, <3>2 DEF DaysFrom
  <2> QED BY <2>1, <2>2
<1>2. DaysFrom(u)' = DaysFrom(u)
  BY <1>1 DEF DaysFrom
<1> QED BY <1>2, WrittenIsTotal

\* Steps that write nothing to the panel leave the dates right.
LEMMA QuietDates ==
    ASSUME DatesInv, UNCHANGED <<known, expiry, applied, bonus>>, raced \subseteq raced',
           \A o \in Orders : Beneficiary(o)' = Beneficiary(o) \/ applied[o] = 0
    PROVE  DatesRight' /\ UnknownEmpty'
<1>1. \A u : DaysWritten(u)' = DaysWritten(u)
  BY SameDays DEF DatesInv, InviteInv, CreditInv
<1>2. \A u \in Users : DateRight(u) => DateRight(u)'
  BY <1>1 DEF DateRight, FromStart
<1>3. DatesRight'
  BY <1>2 DEF DatesInv, DatesRight
<1> QED BY <1>1, <1>3 DEF DatesInv, UnknownEmpty

\* A thread that does not begin to write has nothing new to be wrong about.
LEMMA ReadsKept ==
    ASSUME DatesInv, UNCHANGED <<known, expiry, raced>>,
           \A r \in Threads : step'[r] = "patch" =>
               step[r] = "patch" /\ user'[r] = user[r] /\ seen'[r] = seen[r]
    PROVE  ReadsRight'
BY DEF DatesInv, ReadsRight

\* Whoever stays with an order stays with its user.
LEMMA UsersKept ==
    ASSUME DatesInv, UNCHANGED claimant,
           \A r \in Threads : job'[r] # NoOrder =>
               job'[r] = job[r] /\ leg'[r] = leg[r] /\ user'[r] = user[r]
    PROVE  RightUser'
BY DEF DatesInv, RightUser, Beneficiary

\* A thread that starts on an order starts with the order's beneficiary.
LEMMA StartsRight ==
    ASSUME DatesInv, NEW t \in Threads, NEW o \in Orders, NEW u, StartCredit(t, o, u),
           Beneficiary(o)' = u,
           \A p \in Orders : (\E r \in Threads : job[r] = p) => Beneficiary(p)' = Beneficiary(p)
    PROVE  RightUser'
<1>1. /\ job'[t] = o /\ leg'[t] = "own" /\ user'[t] = u
      /\ \A r \in Threads \ {t} : job'[r] = job[r] /\ leg'[r] = leg[r] /\ user'[r] = user[r]
  BY DEF StartCredit, BeginCalls, DatesInv, InviteInv, CreditInv, TypeOK, PanelTypeOK
<1>2. ASSUME NEW r \in Threads \ {t}, job[r] # NoOrder
      PROVE  user'[r] = IF leg'[r] = "own" THEN Beneficiary(job[r])' ELSE Referrer[Owner[job'[r]]]
  <2>1. PICK p \in Orders : p = job[r] /\ p = job'[r]
    BY <1>1, <1>2 DEF DatesInv, InviteInv, CreditInv, TypeOK
  <2>2. user'[r] = IF leg'[r] = "own" THEN Beneficiary(p) ELSE Referrer[Owner[p]]
    BY <1>1, <1>2, <2>1 DEF DatesInv, RightUser
  <2>3. Beneficiary(p)' = Beneficiary(p)
    BY <2>1
  <2>4. Beneficiary(job[r])' = Beneficiary(p)'
    BY <2>1 DEF Beneficiary
  <2> QED BY <2>1, <2>2, <2>3, <2>4
<1>3. Beneficiary(job[t])' = u
  <2>1. Beneficiary(job[t])' = Beneficiary(o)'
    BY <1>1 DEF Beneficiary
  <2> QED BY <2>1
<1> QED BY <1>1, <1>2, <1>3 DEF RightUser

\* A write that the panel carries out adds the days of its order, for the user
\* of the thread and for nobody else.
LEMMA WriteAddsDays ==
    ASSUME DatesInv, NEW t \in Threads, job[t] # NoOrder, step[t] \in {"patch", "create"},
           UNCHANGED claimant, Wrote(t, TRUE)
    PROVE  \A u \in Users :
              DaysWritten(u)' = DaysWritten(u) + (IF u = user[t] THEN Days[job[t]] ELSE 0)
<1> USE DEF DatesInv, InviteInv, CreditInv
<1>1. PICK o \in Orders : o = job[t]
  BY DEF TypeOK
<1>2. PICK d \in Nat : d = Days[o]
  OBVIOUS
<1> SUFFICES ASSUME NEW u \in Users
             PROVE  DaysWritten(u)' = DaysWritten(u) + (IF u = user[t] THEN d ELSE 0)
  BY <1>1, <1>2
<1> DEFINE f == DaysFrom(u)
           h == DaysFrom(u)'
<1>3. \A p \in Orders : p # o => h[p] = f[p]
  <2>1. \A p \in Orders : Beneficiary(p)' = Beneficiary(p)
    BY DEF Beneficiary
  <2>2. \A p \in Orders : p # o => applied'[p] = applied[p]
    BY <1>1 DEF Wrote, TypeOK
  <2>3. \A p \in CryptoInvoices : p # o => bonus'[p] = bonus[p]
    BY <1>1 DEF Wrote, TypeOK
  <2> QED BY <2>1, <2>2, <2>3 DEF DaysFrom
<1>4. \A p \in Orders : f[p] \in Int /\ h[p] \in Int
  <2>1. /\ \A p \in Orders : applied[p] \in Nat /\ applied'[p] \in Nat /\ Days[p] \in Nat
        /\ \A p \in CryptoInvoices : bonus[p] \in Nat /\ bonus'[p] \in Nat
    BY DEF Wrote, TypeOK
  <2>2. \A x, y \in Nat : x * y \in Int
    OBVIOUS
  <2> QED BY <2>1, <2>2 DEF DaysFrom
<1>5. h[o] - f[o] = IF u = user[t] THEN d ELSE 0
  <2>1. Beneficiary(o)' = Beneficiary(o)
    BY DEF Beneficiary
  <2>2. CASE leg[t] = "own"
    <3>1. applied[o] = 0 /\ applied'[o] = 1 /\ bonus' = bonus /\ Beneficiary(o) = user[t]
      BY <1>1, <2>2 DEF Wrote, TypeOK, NotYetWritten, Writing, RightUser
    <3>2. PICK b \in Int : b = IF o \in CryptoInvoices /\ Referrer[Owner[o]] = u THEN bonus[o] * Days[o] ELSE 0
      <4>1. o \in CryptoInvoices => bonus[o] * d \in Int
        <5>1. o \in CryptoInvoices => bonus[o] \in Nat
          BY DEF TypeOK
        <5> QED BY <5>1
      <4> QED BY <1>2, <4>1
    <3>3. applied[o] * Days[o] = 0 /\ applied'[o] * Days[o] = d
      BY <1>2, <3>1
    <3>4. f[o] = (IF user[t] = u THEN 0 ELSE 0) + b
      BY <3>1, <3>2, <3>3 DEF DaysFrom
    <3>5. h[o] = (IF user[t] = u THEN d ELSE 0) + b
      BY <2>1, <3>1, <3>2, <3>3 DEF DaysFrom
    <3> HIDE DEF f, h
    <3> QED BY <3>4, <3>5
  <2>3. CASE leg[t] = "bonus"
    <3>1. /\ o \in CryptoInvoices /\ bonus[o] = 0 /\ bonus'[o] = 1 /\ applied' = applied
          /\ Referrer[Owner[o]] = user[t]
      BY <1>1, <2>3 DEF Wrote, TypeOK, AtWork, NotYetWritten, Writing, RightUser
    <3>2. PICK b \in Int : b = IF Beneficiary(o) = u THEN applied[o] * Days[o] ELSE 0
      <4>1. applied[o] * d \in Int
        <5>1. applied[o] \in Nat
          BY DEF TypeOK
        <5> QED BY <5>1
      <4> QED BY <1>2, <4>1
    <3>3. bonus[o] * Days[o] = 0 /\ bonus'[o] * Days[o] = d
      BY <1>2, <3>1
    <3>4. f[o] = b + (IF user[t] = u THEN 0 ELSE 0)
      BY <3>1, <3>2, <3>3 DEF DaysFrom
    <3>5. h[o] = b + (IF user[t] = u THEN d ELSE 0)
      BY <2>1, <3>1, <3>2, <3>3 DEF DaysFrom
    <3> HIDE DEF f, h
    <3> QED BY <3>4, <3>5
  <2> QED BY <2>2, <2>3 DEF TypeOK
<1>6. DaysWritten(u) = Total(f, Orders) /\ DaysWritten(u)' = Total(h, Orders)
  BY WrittenIsTotal
<1> HIDE DEF f, h
<1>7. Total(h, Orders) = Total(f, Orders) + (h[o] - f[o])
  BY <1>3, <1>4, OrdersAssumption, TotalOfChange
<1> QED BY <1>5, <1>6, <1>7

\* A date that was right and is extended by what was read of it is right.
LEMMA WriteDates ==
    ASSUME DatesInv, NEW t \in Threads, CallWrite(t)
    PROVE  DatesRight' /\ UnknownEmpty' /\ ReadsRight' /\ RightUser'
<1> USE DEF DatesInv, InviteInv, CreditInv
<1>1. PICK outcome \in WriteOutcomes :
           /\ \/ ExtendPatch(t, Days[job[t]], outcome)
              \/ CreateUser(t, Days[job[t]], outcome)
           /\ Wrote(t, outcome.effect)
  BY DEF CallWrite
<1>2. /\ job[t] # NoOrder /\ job[t] \in Orders /\ step[t] \in {"patch", "create"} /\ user[t] \in Users
      /\ step'[t] # "patch" /\ \A r \in Threads \ {t} : step'[r] = step[r]
      /\ UNCHANGED <<user, seen, job, leg, claimant, raced>>
  BY <1>1 DEF CallWrite, ExtendPatch, CreateUser, Answer, TypeOK, PanelTypeOK, AtWork
<1>3. RightUser'
  BY <1>2, UsersKept
<1>4. outcome.effect \in BOOLEAN
  BY DEF WriteOutcomes
<1>5. CASE ~outcome.effect
  <2>1. UNCHANGED <<known, expiry, applied, bonus>>
    BY <1>1, <1>5 DEF ExtendPatch, CreateUser, Wrote
  <2>2. \A o \in Orders : Beneficiary(o)' = Beneficiary(o)
    BY <1>2 DEF Beneficiary
  <2>3. DatesRight' /\ UnknownEmpty'
    BY <1>2, <2>1, <2>2, QuietDates
  <2>4. ReadsRight'
    BY <1>2, <2>1, ReadsKept
  <2> QED BY <1>3, <2>3, <2>4
<1>6. CASE outcome.effect
  <2>1. PICK u \in Users, d \in Nat \ {0} : u = user[t] /\ d = Days[job[t]]
    BY <1>2
  <2>2. \A v \in Users : DaysWritten(v)' = DaysWritten(v) + (IF v = u THEN d ELSE 0)
    <3>1. Wrote(t, TRUE)
      BY <1>1, <1>4, <1>6
    <3> QED BY <1>2, <2>1, <3>1, WriteAddsDays
  <2>3. /\ known \subseteq known' /\ u \in known'
        /\ \A v \in Users : v # u => expiry'[v] = expiry[v]
    <3>1. step[t] = "patch" => u \in known
      BY <1>2, <2>1 DEF ReadsRight
    <3> QED BY <1>1, <1>6, <2>1, <3>1 DEF ExtendPatch, CreateUser, TypeOK, PanelTypeOK
  <2>4. \A v \in Users : DaysWritten(v) \in Nat /\ DaysWritten(v)' \in Nat
    <3>1. \A v \in Users : DaysWritten(v) \in Nat
      BY DEF UnknownEmpty
    <3> QED BY <2>1, <2>2, <3>1
  <2>5. UnknownEmpty'
    <3>1. \A v \in Users \ known' : DaysWritten(v)' = 0
      BY <2>2, <2>3, <2>4 DEF UnknownEmpty
    <3> QED BY <2>3, <2>4, <3>1 DEF UnknownEmpty
  <2>6. u \notin raced => DateRight(u)'
    <3> SUFFICES ASSUME u \notin raced PROVE DateRight(u)'
      OBVIOUS
    <3>1. PICK n \in Nat, s \in Int : n = DaysWritten(u) /\ s = Start[u]
      BY <2>4
    <3>2. DaysWritten(u)' = n + d
      BY <2>1, <2>2, <3>1
    <3>3. expiry[u] = IF n = 0 THEN s ELSE (IF s < 0 THEN 0 ELSE s) + n
      BY <3>1 DEF DatesRight, DateRight, FromStart
    <3>4. CASE ExtendPatch(t, Days[job[t]], outcome)
      <4>1. step[t] = "patch" /\ expiry'[u] = Extended(seen[t], d)
        BY <1>6, <2>1, <3>4 DEF ExtendPatch, TypeOK, PanelTypeOK
      <4>2. seen[t] = expiry[u]
        BY <2>1, <4>1 DEF ReadsRight
      <4>3. expiry'[u] = (IF s < 0 THEN 0 ELSE s) + (n + d)
        BY <3>3, <4>1, <4>2 DEF Extended
      <4> QED BY <3>1, <3>2, <4>3 DEF DateRight, FromStart
    <3>5. CASE CreateUser(t, Days[job[t]], outcome)
      <4>1. u \notin known /\ expiry'[u] = d
        BY <1>6, <2>1, <3>5 DEF CreateUser, TypeOK, PanelTypeOK
      <4>2. n = 0 /\ s = 0
        BY <3>1, <4>1 DEF UnknownEmpty
      <4>3. expiry'[u] = (IF s < 0 THEN 0 ELSE s) + (n + d)
        BY <4>1, <4>2
      <4> QED BY <3>1, <3>2, <4>3 DEF DateRight, FromStart
    <3> QED BY <1>1, <3>4, <3>5
  <2>7. DatesRight'
    <3>1. ASSUME NEW v \in Users \ raced, v # u PROVE DateRight(v)'
      <4>1. DaysWritten(v)' = DaysWritten(v) /\ expiry'[v] = expiry[v]
        BY <2>2, <2>3, <2>4, <3>1
      <4> QED BY <4>1 DEF DatesRight, DateRight, FromStart
    <3> QED BY <1>2, <2>6, <3>1 DEF DatesRight
  <2>8. ReadsRight'
    <3>1. ASSUME NEW r \in Threads, step'[r] = "patch"
          PROVE  user'[r] \in known' /\ (user'[r] \notin raced' => seen'[r] = expiry'[user'[r]])
      <4>1. r # t /\ step[r] = "patch" /\ user'[r] = user[r] /\ seen'[r] = seen[r] /\ raced' = raced
        BY <1>2, <3>1
      <4>2. user[r] \in known /\ (user[r] \notin raced => seen[r] = expiry[user[r]])
        BY <4>1 DEF ReadsRight
      <4>3. ASSUME user[r] = u PROVE u \in raced
        <5>1. CASE step[t] = "patch"
          BY <2>1, <4>1, <4>3, <5>1 DEF ReadsRight
        <5>2. CASE step[t] # "patch"
          <6>1. u \notin known
            BY <1>1, <1>6, <2>1, <5>2 DEF ExtendPatch, CreateUser
          <6> QED BY <4>2, <4>3, <6>1
        <5> QED BY <5>1, <5>2
      <4> QED BY <2>3, <4>1, <4>2, <4>3 DEF TypeOK, PanelTypeOK
    <3>2. \A q, r \in Threads : q # r /\ step'[q] = "patch" /\ step'[r] = "patch" /\ user'[q] = user'[r]
             => user'[r] \in raced'
      BY <1>2 DEF ReadsRight
    <3> QED BY <3>1, <3>2 DEF ReadsRight
  <2> QED BY <1>3, <2>5, <2>7, <2>8
<1> QED BY <1>4, <1>5, <1>6

\* A thread that reads a date reads the current one, and puts the user among
\* the raced ones if another thread is about to write it.
LEMMA ReadDates ==
    ASSUME DatesInv, NEW t \in Threads, CallRead(t)
    PROVE  DatesRight' /\ UnknownEmpty' /\ ReadsRight' /\ RightUser'
<1> USE DEF DatesInv, InviteInv, CreditInv
<1>1. /\ UNCHANGED <<known, expiry, applied, bonus, user, job, leg, claimant>>
      /\ step[t] = "read" /\ user[t] \in Users
      /\ \A r \in Threads \ {t} : step'[r] = step[r] /\ seen'[r] = seen[r]
  BY DEF CallRead, ExtendRead, Answer, TypeOK, PanelTypeOK, AtWork
<1>2. raced' = IF step'[t] = "patch" /\ \E r \in Threads \ {t} : step[r] = "patch" /\ user[r] = user[t]
               THEN raced \cup {user[t]} ELSE raced
  BY DEF CallRead
<1>3. step'[t] = "patch" => user[t] \in known /\ seen'[t] = expiry[user[t]]
  BY DEF CallRead, ExtendRead, Answer, TypeOK, PanelTypeOK
<1>4. RightUser'
  BY <1>1, UsersKept
<1>5. DatesRight' /\ UnknownEmpty'
  <2>1. \A o \in Orders : Beneficiary(o)' = Beneficiary(o)
    BY <1>1 DEF Beneficiary
  <2>2. raced \subseteq raced'
    BY <1>2
  <2> QED BY <1>1, <2>1, <2>2, QuietDates
<1>6. ReadsRight'
  <2>1. ASSUME NEW r \in Threads, step'[r] = "patch"
        PROVE  user'[r] \in known' /\ (user'[r] \notin raced' => seen'[r] = expiry'[user'[r]])
    BY <1>1, <1>2, <1>3, <2>1 DEF ReadsRight
  <2>2. ASSUME NEW q \in Threads, NEW r \in Threads, q # r, step'[q] = "patch", step'[r] = "patch",
               user'[q] = user'[r]
        PROVE  user'[r] \in raced'
    <3>1. CASE q = t
      BY <1>1, <1>2, <2>2, <3>1
    <3>2. CASE r = t
      BY <1>1, <1>2, <2>2, <3>2
    <3>3. CASE q # t /\ r # t
      BY <1>1, <1>2, <2>2, <3>3 DEF ReadsRight
    <3> QED BY <3>1, <3>2, <3>3
  <2> QED BY <2>1, <2>2 DEF ReadsRight
<1> QED BY <1>4, <1>5, <1>6

\* Claims and releases: nothing is written, and whoever starts on an order does
\* so for its beneficiary.
LEMMA StartsDates ==
    ASSUME DatesInv, NEW t \in Threads, NEW o \in Orders, NEW u, StartCredit(t, o, u),
           UNCHANGED <<applied, bonus, raced>>, Beneficiary(o)' = u,
           \A p \in Orders : (\E r \in Threads : job[r] = p) => Beneficiary(p)' = Beneficiary(p),
           \A p \in Orders : Beneficiary(p)' = Beneficiary(p) \/ applied[p] = 0
    PROVE  DatesRight' /\ UnknownEmpty' /\ ReadsRight' /\ RightUser'
<1>1. /\ UNCHANGED <<known, expiry, seen>>
      /\ \A r \in Threads : step'[r] = "patch" => step[r] = "patch" /\ user'[r] = user[r]
  BY DEF StartCredit, BeginCalls, DatesInv, InviteInv, CreditInv, TypeOK, PanelTypeOK
<1>2. DatesRight' /\ UnknownEmpty'
  BY <1>1, QuietDates
<1>3. ReadsRight'
  BY <1>1, ReadsKept
<1>4. RightUser'
  BY StartsRight
<1> QED BY <1>2, <1>3, <1>4

\* Steps after which every thread is where it was, or further from a write, and
\* has the order and the user it had, or none.
LEMMA RestDates ==
    ASSUME DatesInv, UNCHANGED <<known, expiry, applied, bonus, raced, claimant>>,
           \A r \in Threads : step'[r] = "patch" =>
               step[r] = "patch" /\ user'[r] = user[r] /\ seen'[r] = seen[r],
           \A r \in Threads : job'[r] # NoOrder =>
               job'[r] = job[r] /\ leg'[r] = leg[r] /\ user'[r] = user[r]
    PROVE  DatesRight' /\ UnknownEmpty' /\ ReadsRight' /\ RightUser'
<1>1. \A o \in Orders : Beneficiary(o)' = Beneficiary(o)
  BY DEF Beneficiary
<1>2. DatesRight' /\ UnknownEmpty'
  BY <1>1, QuietDates
<1>3. ReadsRight' /\ RightUser'
  BY ReadsKept, UsersKept
<1> QED BY <1>2, <1>3

\* The steps of a thread that neither read nor write a date.
LEMMA CallsDates ==
    ASSUME DatesInv, NEW t \in Threads, CreditStep(t)
    PROVE  DatesRight' /\ UnknownEmpty' /\ ReadsRight' /\ RightUser'
<1> USE DEF DatesInv, InviteInv, CreditInv, TypeOK, PanelTypeOK
<1>1. CASE CallLookup(t)
  <2>1. /\ UNCHANGED <<known, expiry, applied, bonus, raced, claimant, user, seen, job, leg>>
        /\ \A r \in Threads : step'[r] = "patch" => step[r] = "patch"
    BY <1>1 DEF CallLookup, Lookup, Answer
  <2> QED BY <2>1, RestDates
<1>2. CASE InviteSave(t)
  <2>1. /\ UNCHANGED <<known, expiry, applied, bonus, raced, claimant, user, seen, job, leg>>
        /\ \A r \in Threads : step'[r] = "patch" => step[r] = "patch"
    BY <1>2 DEF InviteSave
  <2> QED BY <2>1, RestDates
<1>3. CASE Release(t) /\ UNCHANGED <<applied, bonus, raced, claimant>>
  <2>1. /\ UNCHANGED <<known, expiry>>
        /\ \A r \in Threads \ {t} : /\ step'[r] = step[r] /\ user'[r] = user[r] /\ seen'[r] = seen[r]
                                    /\ job'[r] = job[r] /\ leg'[r] = leg[r]
        /\ step'[t] # "patch" /\ job'[t] = NoOrder
    BY <1>3 DEF Release, EndCalls
  <2> QED BY <1>3, <2>1, RestDates
<1>4. CASE BuyerDone(t) /\ ~Release(t)
  <2>1. PICK ref : ref = Referrer[Owner[job[t]]]
    OBVIOUS
  <2>2. /\ leg' = [leg EXCEPT ![t] = "bonus"] /\ BeginCalls(t, ref)
        /\ UNCHANGED <<job, applied, bonus, raced, claimant>>
    BY <1>4, <2>1 DEF BuyerDone
  <2>3. /\ UNCHANGED <<known, expiry, seen>>
        /\ \A r \in Threads \ {t} : step'[r] = step[r] /\ user'[r] = user[r] /\ leg'[r] = leg[r]
        /\ step'[t] = "lookup" /\ user'[t] = ref /\ leg'[t] = "bonus"
    BY <2>2 DEF BeginCalls
  <2>4. \A o : Beneficiary(o)' = Beneficiary(o)
    BY <2>2 DEF Beneficiary
  <2>5. DatesRight' /\ UnknownEmpty'
    BY <2>2, <2>3, <2>4, QuietDates
  <2>6. ReadsRight'
    BY <2>2, <2>3, ReadsKept
  <2>7. RightUser'
    BY <2>1, <2>2, <2>3, <2>4 DEF RightUser, Beneficiary
  <2> QED BY <2>5, <2>6, <2>7
<1> QED BY <1>1, <1>2, <1>3, <1>4, ReadDates, WriteDates
        DEF CreditStep, RoundFails, BuyerDone, ReferrerDone, LavaDone, InviteSucceeds, InviteFails, AdminDone

\* A claim is for the owner of the order, or makes the account that asks its
\* beneficiary.
LEMMA ClaimsDates ==
    ASSUME DatesInv, PollerStep \/ \E w \in Workers : WorkerClaims(w)
    PROVE  DatesRight' /\ UnknownEmpty' /\ ReadsRight' /\ RightUser'
<1> USE DEF DatesInv, InviteInv, CreditInv, TypeOK, PanelTypeOK
<1>0. UNCHANGED claimant => \A o : Beneficiary(o)' = Beneficiary(o)
  BY DEF Beneficiary
<1>1. ASSUME NEW t \in Threads, NEW o \in Invoices \cup AdminCredits, StartCredit(t, o, Owner[o]),
             UNCHANGED <<applied, bonus, raced, claimant>>
      PROVE  DatesRight' /\ UnknownEmpty' /\ ReadsRight' /\ RightUser'
  <2>1. o \in Orders /\ Beneficiary(o)' = Owner[o]
    BY DEF Beneficiary
  <2> QED BY <1>0, <1>1, <2>1, StartsDates
<1>2. ASSUME NEW w \in Workers, NEW o \in Gifts, NEW u \in Users, InviteClaim(w, o, u)
      PROVE  DatesRight' /\ UnknownEmpty' /\ ReadsRight' /\ RightUser'
  <2>1. /\ w \in Threads /\ o \in Orders /\ StartCredit(w, o, u) /\ UNCHANGED <<applied, bonus, raced>>
        /\ claimant' = [claimant EXCEPT ![o] = u] /\ status[o] = "pending"
    BY <1>2 DEF InviteClaim, InviteClaimable
  <2>2. Beneficiary(o)' = u /\ \A p : p # o => Beneficiary(p)' = Beneficiary(p)
    BY <2>1 DEF Beneficiary
  <2>3. applied[o] = 0 /\ \A r \in Threads : job[r] # o
    BY <2>1, KindsDiffer DEF Unclaimed, ClaimHeld
  <2> QED BY <2>1, <2>2, <2>3, StartsDates
<1>3. CASE UNCHANGED <<rvars, applied, bonus, raced, claimant, job, leg>>
  BY <1>3, RestDates
<1> QED BY <1>1, <1>2, <1>3
        DEF PollerStep, WorkerClaims, StartRound, CheckSaysNothing, CheckSaysPaid, CheckSaysExpired,
            LavaWebhook, AdminClaim

\* Every step keeps the dates right.
LEMMA DatesStepInv == DatesInv /\ [Next]_vars => DatesInv'
<1> SUFFICES ASSUME DatesInv, [Next]_vars PROVE DatesInv'
  OBVIOUS
<1>1. InviteInv'
  BY InviteStepInv DEF DatesInv
<1>2. CASE OrderStep \/ UNCHANGED vars
  <2>1. UNCHANGED <<rvars, applied, bonus, raced, claimant, job, leg>>
    BY <1>2 DEF OrderStep, vars, SaveInvoice, ProviderSettles, InviteCreate, InviteExpire, InviteRevoke
  <2> QED BY <1>1, <2>1, RestDates DEF DatesInv
<1>3. CASE Crash
  <2>1. UNCHANGED <<known, expiry, applied, bonus, raced, claimant>>
    BY <1>3 DEF Crash, DropCalls
  <2>2. \A r \in Threads : step'[r] # "patch" /\ job'[r] = NoOrder
    BY <1>3 DEF Crash, DropCalls
  <2> QED BY <1>1, <2>1, <2>2, RestDates DEF DatesInv
<1> QED BY <1>1, <1>2, <1>3, CallsDates, ClaimsDates DEF Next, DatesInv

\* At the beginning nothing is written and every date is where it starts.
LEMMA DatesInit == Init => DatesInv
<1> SUFFICES ASSUME Init PROVE DatesInv
  OBVIOUS
<1>1. \A u : DaysWritten(u) = 0
  <2>1. ASSUME NEW u, NEW o \in Orders PROVE DaysFrom(u)[o] = 0
    <3>1. applied[o] = 0 /\ (o \in CryptoInvoices => bonus[o] = 0) /\ Days[o] \in Nat
      BY DEF Init
    <3>2. 0 * Days[o] = 0
      BY <3>1
    <3> QED BY <3>1, <3>2 DEF DaysFrom
  <2> QED BY <2>1, WrittenIsTotal, OrdersAssumption, TotalOfZeros
<1>2. DatesRight /\ UnknownEmpty
  BY <1>1 DEF Init, DatesRight, DateRight, UnknownEmpty
<1>3. ReadsRight /\ RightUser
  BY DEF Init, ReadsRight, RightUser
<1> QED BY <1>2, <1>3, InviteInit DEF DatesInv

\* A subscription runs for all the days that were written for it, unless two
\* threads were extending it at the same time: timeouts, lost answers, crashes
\* and expired dates lose nothing.
THEOREM DaysAddUp == Spec => []DaysLostOnlyInRaces
<1>1. DatesInv => DaysLostOnlyInRaces
  BY DEF DatesInv, DatesRight, DateRight, DaysLostOnlyInRaces
<1> QED BY <1>1, DatesInit, DatesStepInv, PTL DEF Spec
==============================================================================
