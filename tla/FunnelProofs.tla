---------------------------- MODULE FunnelProofs ----------------------------
(***************************************************************************)
(* Proofs about Funnel, for any number of subscribers, broadcasts, hours,  *)
(* invoices and faults: nobody is told the same thing twice, and the end   *)
(* of a term is announced.                                                 *)
(***************************************************************************)
EXTENDS Funnel, TLAPS

MessageKeys == MessageNames \X Nat

AtWork == pc \in {"sub", "bills"}

\* The message k may still be sent to u: there is no row for it, and a reminder
\* is about the present term, on its last day, or about one that was renewed.
Sendable(u, k) ==
    /\ k \in MessageKeys
    /\ k[1] # "weekly_ref_promo" => <<u, k>> \notin hist
    /\ k[1] = "ends_soon" => /\ k[2] <= expire[u]
                             /\ k[2] = expire[u] => expire[u] - now <= 24

\* A list of messages for u, none of them twice.
ListOK(u, s) ==
    /\ s \in Seq(MessageKeys)
    /\ \A i, j \in DOMAIN s : s[i] = s[j] => i = j
    /\ \A i \in DOMAIN s : Sendable(u, s[i])

FunnelTypes ==
    /\ now \in Nat /\ expire \in [Users -> Nat]
    /\ bill \in [Users -> Nat \cup {None}] /\ since \in [Users -> Nat \cup {None}]
    /\ queue \subseteq Users /\ clean \subseteq Users
    /\ AtWork => cur \in Users
    /\ bstat \in [Requests -> {"none", "queued", "processing", "completed"}]
    /\ bleft \in [Requests -> SUBSET Users]

TodoOK == AtWork => ListOK(cur, todo)

\* What was delivered has its row, unless the delivery was not acknowledged.
HistoryOK ==
    \A u \in Users, k \in MessageKeys :
        <<u, k>> \in told /\ k[1] # "weekly_ref_promo" => <<u, k>> \in hist \/ <<u, k>> \in lapsed

\* A broadcast has not reached those who are left for it.
CastsOK ==
    \A r \in Requests :
        /\ bleft[r] # {} => bstat[r] = "processing"
        /\ \A u \in Users : u \in bleft[r] \/ bstat[r] \in {"none", "queued"} =>
              <<u, <<r, 0>>>> \notin told

\* The row of a reminder is about a term that was renewed since, or the
\* subscriber was reminded on the last day.
RemindedOK ==
    \A u \in Users, e \in Nat :
        <<u, <<"ends_soon", e>>>> \in hist =>
            /\ e <= expire[u]
            /\ e = expire[u] => <<u, e>> \in warned

\* On the last day the visit under way has reminded the subscriber or will.
VisitOK ==
    AtWork =>
        /\ cur \notin clean
        /\ well /\ cur \notin frozen /\ now > 72 /\ expire[cur] - now \in 1..24 =>
              \/ <<cur, expire[cur]>> \in warned
              \/ pc = "sub" /\ \E i \in DOMAIN todo : todo[i] = EndsSoon(cur)

FunnelInv ==
    /\ FunnelTypes /\ TodoOK /\ HistoryOK /\ CastsOK /\ RemindedOK /\ VisitOK
    /\ MessagedOnce /\ WarnedUnlessSilenced

-----------------------------------------------------------------------------
(* What is due                                                             *)

ChainNames ==
    {"traffic_6h", "pre_expire_3d_renew", "rating_request", "traffic_12h_dis",
     "traffic_12h_dis_end", "trial_expire_tomorrow", "trial_expired",
     "no_traffic_1h", "no_traffic_24h", "no_traffic_48h", "no_traffic_expired",
     "no_traffic_7d"}

\* A branch of the chain that applies has not sent its message, and the rating
\* branch applies only to a subscriber whom its exception silences.
ChainOK(u, b) ==
    b.on => \E name \in ChainNames :
               /\ b.key = <<name, 0>> /\ ~Sent(u, name)
               /\ name = "rating_request" => Silenced(u)

\* Every branch of the if-elif chain looks for its own row.
LEMMA ChainBranches ==
    ASSUME NEW u \in Users, NEW i \in DOMAIN Chain(u) PROVE ChainOK(u, Chain(u)[i])
<1> USE DEF ChainOK, ChainNames, Plain, Branch
<1>1. CASE since[u] # None
  <2>1. i \in 1..7 /\ Chain(u)[i] = TrafficChain(u)[i]
    BY <1>1 DEF Chain, TrafficChain
  <2>2. ChainOK(u, TrafficChain(u)[1]) /\ ChainOK(u, TrafficChain(u)[2])
    BY DEF TrafficChain
  <2>3. ChainOK(u, TrafficChain(u)[3])
    BY <1>1 DEF TrafficChain, Silenced
  <2>4. ChainOK(u, TrafficChain(u)[4]) /\ ChainOK(u, TrafficChain(u)[5])
    BY DEF TrafficChain, DisEnd
  <2>5. ChainOK(u, TrafficChain(u)[6]) /\ ChainOK(u, TrafficChain(u)[7])
    BY DEF TrafficChain
  <2> QED BY <2>1, <2>2, <2>3, <2>4, <2>5
<1>2. CASE since[u] = None
  <2>1. i \in 1..5 /\ Chain(u)[i] = NoTrafficChain(u)[i]
    BY <1>2 DEF Chain, NoTrafficChain
  <2>2. ChainOK(u, NoTrafficChain(u)[1]) /\ ChainOK(u, NoTrafficChain(u)[2])
    BY DEF NoTrafficChain
  <2>3. ChainOK(u, NoTrafficChain(u)[3]) /\ ChainOK(u, NoTrafficChain(u)[4])
    BY DEF NoTrafficChain
  <2>4. ChainOK(u, NoTrafficChain(u)[5])
    BY DEF NoTrafficChain
  <2> QED BY <2>1, <2>2, <2>3, <2>4
<1> QED BY <1>1, <1>2

\* The branch taken is one that applies, or nothing is sent.
LEMMA TakenBranch ==
    ASSUME NEW u \in Users
    PROVE  LET b == Taken(Chain(u))
           IN  \/ ~b.sends /\ b.key = <<"nothing", 0>>
               \/ b.on /\ ChainOK(u, b)
<1> DEFINE on == {i \in DOMAIN Chain(u) : Chain(u)[i].on}
<1>1. CASE on = {}
  BY <1>1 DEF Taken, Branch
<1>2. CASE on # {}
  <2>1. DOMAIN Chain(u) = 1..7 \/ DOMAIN Chain(u) = 1..5
    BY DEF Chain, TrafficChain, NoTrafficChain
  <2>2. on \subseteq 1..7
    BY <2>1
  <2> HIDE DEF on
  <2>3. \E i \in on : \A j \in on : i <= j
    <3>1. CASE 1 \in on
      BY <2>2, <3>1
    <3>2. CASE 1 \notin on /\ 2 \in on
      BY <2>2, <3>2
    <3>3. CASE 1 \notin on /\ 2 \notin on /\ 3 \in on
      BY <2>2, <3>3
    <3>4. CASE \A n \in 1..3 : n \notin on
      <4>1. CASE 4 \in on
        BY <2>2, <3>4, <4>1
      <4>2. CASE 4 \notin on /\ 5 \in on
        BY <2>2, <3>4, <4>2
      <4>3. CASE 4 \notin on /\ 5 \notin on /\ 6 \in on
        BY <2>2, <3>4, <4>3
      <4>4. CASE 4 \notin on /\ 5 \notin on /\ 6 \notin on
        <5>1. \A n \in on : n = 7
          BY <2>2, <3>4, <4>4
        <5> QED BY <1>2, <5>1
      <4> QED BY <4>1, <4>2, <4>3, <4>4
    <3> QED BY <3>1, <3>2, <3>3, <3>4
  <2>4. (CHOOSE i \in on : \A j \in on : i <= j) \in on
    BY <2>3
  <2>5. PICK i \in on : Taken(Chain(u)) = Chain(u)[i]
    BY <1>2, <2>4 DEF Taken, on
  <2>6. i \in DOMAIN Chain(u) /\ Chain(u)[i].on
    BY DEF on
  <2> QED BY <2>5, <2>6, ChainBranches
<1> QED BY <1>1, <1>2

\* The list t is the list s with the message of branch b, if b sends it.
Extends(t, s, b) ==
    /\ \A i \in DOMAIN t : (b.on /\ b.sends /\ t[i] = b.key) \/ \E j \in DOMAIN s : t[i] = s[j]
    /\ \A j \in DOMAIN s : \E i \in DOMAIN t : t[i] = s[j]
    /\ b.on /\ b.sends => \E i \in DOMAIN t : t[i] = b.key

\* Adding a branch to a list of messages for u.
LEMMA AddKeeps ==
    ASSUME NEW u \in Users, NEW s, ListOK(u, s), NEW b,
           b.on /\ b.sends => Sendable(u, b.key) /\ \A i \in DOMAIN s : s[i] # b.key
    PROVE  ListOK(u, Add(s, b)) /\ Extends(Add(s, b), s, b)
<1>1. CASE ~(b.on /\ b.sends)
  BY <1>1 DEF Add, Extends
<1>2. CASE b.on /\ b.sends
  <2> DEFINE n == Len(s) + 1
  <2>1. /\ Add(s, b) = Append(s, b.key) /\ s \in Seq(MessageKeys) /\ b.key \in MessageKeys
        /\ DOMAIN s = 1..Len(s) /\ Len(s) \in Nat
    BY <1>2 DEF Add, ListOK, Sendable
  <2>2. /\ Add(s, b) \in Seq(MessageKeys) /\ DOMAIN Add(s, b) = 1..n
        /\ Add(s, b)[n] = b.key /\ \A i \in 1..Len(s) : Add(s, b)[i] = s[i]
    BY <2>1
  <2>3. \A i \in 1..n : i = n \/ i \in 1..Len(s)
    BY <2>1
  <2>4. \A i, j \in DOMAIN Add(s, b) : Add(s, b)[i] = Add(s, b)[j] => i = j
    BY <1>2, <2>1, <2>2, <2>3 DEF ListOK
  <2>5. \A i \in DOMAIN Add(s, b) : Sendable(u, Add(s, b)[i])
    BY <1>2, <2>1, <2>2, <2>3 DEF ListOK
  <2>6. n \in DOMAIN Add(s, b) /\ \A j \in DOMAIN s : j \in DOMAIN Add(s, b)
    BY <2>1, <2>2
  <2> HIDE DEF n
  <2> QED BY <1>2, <2>1, <2>2, <2>3, <2>4, <2>5, <2>6 DEF ListOK, Extends
<1> QED BY <1>1, <1>2

\* A message without a date is due only while it has no row.
LEMMA PlainSendable ==
    ASSUME NEW u, NEW name \in MessageNames \ {"ends_soon"}, NEW on
    PROVE  LET b == Plain(u, name, on)
           IN  b.on => Sendable(u, b.key) /\ b.key[1] = name
<1>1. Plain(u, name, on).key = <<name, 0>> /\ (Plain(u, name, on).on => ~Sent(u, name))
  BY DEF Plain, Branch
<1>2. ~Sent(u, name) => Sendable(u, <<name, 0>>)
  <2>1. <<name, 0>> \in MessageKeys
    BY DEF MessageKeys
  <2> QED BY <2>1 DEF Sendable, Sent
<1> QED BY <1>1, <1>2

\* A reminder or an offer that is due has not been sent.
LEMMA PaidBranches ==
    ASSUME FunnelTypes, NEW u \in Users
    PROVE  /\ Paid(u)[1].on => /\ Sendable(u, Paid(u)[1].key)
                               /\ Paid(u)[1].key[1] \in {"ends_soon", "sub_expired_imm"}
           /\ Paid(u)[2].on => /\ Sendable(u, Paid(u)[2].key)
                               /\ Paid(u)[2].key[1] \in {"family_upsell", "sub_expired_24h"}
           /\ Paid(u)[3].on => /\ Sendable(u, Paid(u)[3].key)
                               /\ Paid(u)[3].key[1] \in {"annual_upsell", "sub_expired_7d"}
           /\ u \notin frozen /\ expire[u] - now \in 1..24 /\ <<u, EndsSoon(u)>> \notin hist =>
                 Paid(u)[1].on /\ Paid(u)[1].sends /\ Paid(u)[1].key = EndsSoon(u)
<1>0. now \in Nat /\ expire[u] \in Nat
  BY DEF FunnelTypes
<1>1. CASE u \notin frozen /\ expire[u] - now >= 0
  <2>1. /\ Paid(u)[1].key = EndsSoon(u) /\ Paid(u)[1].sends
        /\ Paid(u)[1].on <=> LastDay(u)
    BY <1>1 DEF Paid
  <2>2. Paid(u)[1].on => Sendable(u, Paid(u)[1].key) /\ Paid(u)[1].key[1] = "ends_soon"
    <3>1. <<"ends_soon", expire[u]>> \in MessageKeys
      BY <1>0 DEF MessageKeys, MessageNames
    <3> QED BY <1>0, <2>1, <3>1 DEF LastDay, Sendable, EndsSoon
  <2>3. Paid(u)[2].on => Sendable(u, Paid(u)[2].key) /\ Paid(u)[2].key[1] = "family_upsell"
    <3>1. Paid(u)[2] = Plain(u, "family_upsell", now >= 720)
      BY <1>1 DEF Paid
    <3>2. "family_upsell" \in MessageNames \ {"ends_soon"}
      BY DEF MessageNames
    <3> QED BY <3>1, <3>2, PlainSendable
  <2>4. Paid(u)[3].on => Sendable(u, Paid(u)[3].key) /\ Paid(u)[3].key[1] = "annual_upsell"
    <3>1. Paid(u)[3] = Plain(u, "annual_upsell", now >= 1440)
      BY <1>1 DEF Paid
    <3>2. "annual_upsell" \in MessageNames \ {"ends_soon"}
      BY DEF MessageNames
    <3> QED BY <3>1, <3>2, PlainSendable
  <2>5. expire[u] - now \in 1..24 /\ <<u, EndsSoon(u)>> \notin hist =>
           Paid(u)[1].on /\ Paid(u)[1].sends /\ Paid(u)[1].key = EndsSoon(u)
    BY <1>0, <2>1 DEF LastDay
  <2> QED BY <2>2, <2>3, <2>4, <2>5
<1>2. CASE ~(u \notin frozen /\ expire[u] - now >= 0)
  <2>2. Paid(u)[1].on => Sendable(u, Paid(u)[1].key) /\ Paid(u)[1].key[1] = "sub_expired_imm"
    <3>1. Paid(u)[1] = Plain(u, "sub_expired_imm", now - expire[u] >= 0 /\ now - expire[u] < 24)
      BY <1>2 DEF Paid
    <3>2. "sub_expired_imm" \in MessageNames \ {"ends_soon"}
      BY DEF MessageNames
    <3> QED BY <3>1, <3>2, PlainSendable
  <2>3. Paid(u)[2].on => Sendable(u, Paid(u)[2].key) /\ Paid(u)[2].key[1] = "sub_expired_24h"
    <3>1. Paid(u)[2] = Plain(u, "sub_expired_24h", now - expire[u] >= 24 /\ now - expire[u] < 168)
      BY <1>2 DEF Paid
    <3>2. "sub_expired_24h" \in MessageNames \ {"ends_soon"}
      BY DEF MessageNames
    <3> QED BY <3>1, <3>2, PlainSendable
  <2>4. Paid(u)[3].on => Sendable(u, Paid(u)[3].key) /\ Paid(u)[3].key[1] = "sub_expired_7d"
    <3>1. Paid(u)[3] = Plain(u, "sub_expired_7d", now - expire[u] >= 168)
      BY <1>2 DEF Paid
    <3>2. "sub_expired_7d" \in MessageNames \ {"ends_soon"}
      BY DEF MessageNames
    <3> QED BY <3>1, <3>2, PlainSendable
  <2>5. ~(u \notin frozen /\ expire[u] - now \in 1..24)
    BY <1>0, <1>2
  <2> QED BY <2>2, <2>3, <2>4, <2>5
<1> QED BY <1>1, <1>2

\* What a visit sends: nothing twice, and the reminder if it is due.
LEMMA DueList ==
    ASSUME FunnelTypes, NEW u \in Users
    PROVE  /\ ListOK(u, Due(u))
           /\ u \notin frozen /\ now > 72 /\ expire[u] - now \in 1..24 /\ <<u, EndsSoon(u)>> \notin hist =>
                 \E i \in DOMAIN Due(u) : Due(u)[i] = EndsSoon(u)
<1> DEFINE b  == Taken(Chain(u))
           p  == Paid(u)
           s1 == Add(<<>>, b)
           s2 == Add(s1, p[1])
           s3 == Add(s2, p[2])
           s4 == Add(s3, p[3])
           s5 == Add(s4, Weekly(u))
<1>1. ListOK(u, <<>>)
  BY DEF ListOK
<1>2. b.on /\ b.sends => Sendable(u, b.key) /\ b.key[1] \in ChainNames
  <2> SUFFICES ASSUME b.on, b.sends PROVE Sendable(u, b.key) /\ b.key[1] \in ChainNames
    OBVIOUS
  <2>1. PICK name \in ChainNames : b.key = <<name, 0>> /\ <<u, <<name, 0>>>> \notin hist
    BY TakenBranch DEF ChainOK, Sent
  <2> HIDE DEF b
  <2> QED BY <2>1 DEF ChainNames, Sendable, MessageKeys, MessageNames
<1>3. Sendable(u, Weekly(u).key) /\ Weekly(u).key[1] = "weekly_ref_promo"
  BY DEF Weekly, Branch, Sendable, MessageKeys, MessageNames
<1>4. Due(u) = IF now <= 72 THEN s1 ELSE s5
  BY DEF Due
<1> HIDE DEF b, p
<1>5. ListOK(u, s1) /\ \A i \in DOMAIN s1 : s1[i][1] \in ChainNames
  <2>1. b.on /\ b.sends => Sendable(u, b.key) /\ \A i \in DOMAIN <<>> : <<>>[i] # b.key
    BY <1>2
  <2>2. ListOK(u, s1) /\ Extends(s1, <<>>, b)
    BY <1>1, <2>1, AddKeeps
  <2> HIDE DEF s1
  <2> QED BY <1>2, <2>2 DEF Extends
<1> HIDE DEF s1
<1>6. /\ ListOK(u, s2)
      /\ \A i \in DOMAIN s2 : s2[i][1] \in ChainNames \cup {"ends_soon", "sub_expired_imm"}
      /\ p[1].on /\ p[1].sends => \E i \in DOMAIN s2 : s2[i] = p[1].key
  <2>1. p[1].on => /\ Sendable(u, p[1].key) /\ p[1].key[1] \in {"ends_soon", "sub_expired_imm"}
    BY PaidBranches DEF p
  <2>2. p[1].on /\ p[1].sends =>
           Sendable(u, p[1].key) /\ \A i \in DOMAIN s1 : s1[i] # p[1].key
    BY <1>5, <2>1 DEF ChainNames
  <2>3. ListOK(u, s2) /\ Extends(s2, s1, p[1])
    BY <1>5, <2>2, AddKeeps
  <2> HIDE DEF s2
  <2> QED BY <1>5, <2>1, <2>3 DEF Extends
<1> HIDE DEF s2
<1>7. /\ ListOK(u, s3)
      /\ \A i \in DOMAIN s3 : s3[i][1] \in ChainNames \cup {"ends_soon", "sub_expired_imm",
                                             "family_upsell", "sub_expired_24h"}
      /\ p[1].on /\ p[1].sends => \E i \in DOMAIN s3 : s3[i] = p[1].key
  <2>1. p[2].on => /\ Sendable(u, p[2].key) /\ p[2].key[1] \in {"family_upsell", "sub_expired_24h"}
    BY PaidBranches DEF p
  <2>2. p[2].on /\ p[2].sends =>
           Sendable(u, p[2].key) /\ \A i \in DOMAIN s2 : s2[i] # p[2].key
    BY <1>6, <2>1 DEF ChainNames
  <2>3. ListOK(u, s3) /\ Extends(s3, s2, p[2])
    BY <1>6, <2>2, AddKeeps
  <2> HIDE DEF s3
  <2> QED BY <1>6, <2>1, <2>3 DEF Extends
<1> HIDE DEF s3
<1>8. /\ ListOK(u, s4)
      /\ \A i \in DOMAIN s4 : s4[i][1] # "weekly_ref_promo"
      /\ p[1].on /\ p[1].sends => \E i \in DOMAIN s4 : s4[i] = p[1].key
  <2>1. p[3].on => /\ Sendable(u, p[3].key) /\ p[3].key[1] \in {"annual_upsell", "sub_expired_7d"}
    BY PaidBranches DEF p
  <2>2. p[3].on /\ p[3].sends =>
           Sendable(u, p[3].key) /\ \A i \in DOMAIN s3 : s3[i] # p[3].key
    BY <1>7, <2>1 DEF ChainNames
  <2>3. \A i \in DOMAIN s3 : s3[i][1] # "weekly_ref_promo"
    BY <1>7 DEF ChainNames
  <2>4. ListOK(u, s4) /\ Extends(s4, s3, p[3])
    BY <1>7, <2>2, AddKeeps
  <2> HIDE DEF s4
  <2> QED BY <1>7, <2>1, <2>3, <2>4 DEF Extends
<1> HIDE DEF s4
<1>9. /\ ListOK(u, s5)
      /\ p[1].on /\ p[1].sends => \E i \in DOMAIN s5 : s5[i] = p[1].key
  <2>1. \A i \in DOMAIN s4 : s4[i] # Weekly(u).key
    BY <1>3, <1>8
  <2> QED BY <1>3, <1>8, <2>1, AddKeeps DEF Extends
<1> HIDE DEF s5
<1>10. u \notin frozen /\ expire[u] - now \in 1..24 /\ <<u, EndsSoon(u)>> \notin hist =>
          p[1].on /\ p[1].sends /\ p[1].key = EndsSoon(u)
  BY PaidBranches DEF p
<1>11. now \in Nat
  BY DEF FunnelTypes
<1> QED BY <1>4, <1>5, <1>9, <1>10, <1>11

\* The reminders of an invoice.
LEMMA AbandonedList ==
    ASSUME FunnelTypes, NEW u \in Users PROVE ListOK(u, Abandoned(u))
<1>1. CASE Abandoned(u) = <<>>
  BY <1>1 DEF ListOK
<1>2. CASE Abandoned(u) # <<>>
  <2>1. PICK name \in {"abandoned_pay_30m", "abandoned_pay_3h"} :
           Abandoned(u) = <<<<name, bill[u]>>>> /\ bill[u] # None /\ <<u, <<name, bill[u]>>>> \notin hist
    BY <1>2 DEF Abandoned
  <2>2. bill[u] \in Nat
    BY <2>1 DEF FunnelTypes
  <2>3. Sendable(u, <<name, bill[u]>>)
    BY <2>1, <2>2 DEF Sendable, MessageKeys, MessageNames
  <2> QED BY <2>1, <2>3 DEF ListOK, Sendable
<1> QED BY <1>1, <1>2

-----------------------------------------------------------------------------
(* The invariant                                                           *)

\* The bot starts with empty tables.
LEMMA FunnelInitially == FunnelInit => FunnelInv
<1> SUFFICES ASSUME FunnelInit PROVE FunnelInv
  OBVIOUS
<1> USE DEF FunnelInit, AtWork
<1>1. FunnelTypes
  BY FunnelAssumption DEF FunnelTypes, None
<1>2. TodoOK /\ HistoryOK /\ CastsOK /\ RemindedOK /\ VisitOK
  BY DEF TodoOK, HistoryOK, CastsOK, RemindedOK, VisitOK
<1>3. MessagedOnce /\ WarnedUnlessSilenced
  BY DEF MessagedOnce, WarnedUnlessSilenced
<1> QED BY <1>1, <1>2, <1>3 DEF FunnelInv

\* The steps that send nothing and leave the clock, the terms and the broadcasts.
Quiet ==
    /\ UNCHANGED <<now, since, expire, frozen, clean, hist, told, twice, lapsed, warned, bstat, bleft>>
    /\ bill' \in [Users -> Nat \cup {None}] /\ queue' \subseteq Users
    /\ ~AtWork' \/ UNCHANGED <<pc, cur, todo, well>>

\* They keep the invariant.
LEMMA QuietKeeps == FunnelInv /\ Quiet => FunnelInv'
<1> SUFFICES ASSUME FunnelInv, Quiet PROVE FunnelInv'
  OBVIOUS
<1> USE DEF FunnelInv, Quiet, AtWork
<1>1. FunnelTypes'
  BY DEF FunnelTypes
<1>2. TodoOK'
  BY DEF TodoOK, ListOK, Sendable
<1>3. HistoryOK' /\ CastsOK' /\ RemindedOK' /\ MessagedOnce'
  BY DEF HistoryOK, CastsOK, RemindedOK, MessagedOnce
<1>4. VisitOK'
  BY DEF VisitOK, EndsSoon
<1>5. WarnedUnlessSilenced'
  BY DEF WarnedUnlessSilenced, Silenced, Sent
<1> QED BY <1>1, <1>2, <1>3, <1>4, <1>5

\* The steps of the pass that are quiet, and stuttering.
LEMMA QuietPassSteps ==
    FunnelInv /\ (StartPass \/ VisitOther \/ EndPass \/ UNCHANGED fvars) => FunnelInv'
<1> USE DEF world, db, pass, casts, ghosts
<1>0. FunnelInv => FunnelTypes
  BY DEF FunnelInv
<1>1. FunnelInv /\ StartPass => Quiet
  BY <1>0 DEF StartPass, Quiet, AtWork, FunnelTypes
<1>2. FunnelInv /\ VisitOther => Quiet
  BY <1>0 DEF VisitOther, Quiet, FunnelTypes
<1>3. FunnelInv /\ EndPass => Quiet
  BY <1>0 DEF EndPass, Quiet, AtWork, FunnelTypes
<1>4. FunnelInv /\ UNCHANGED fvars => Quiet
  BY <1>0 DEF fvars, Quiet, FunnelTypes
<1> QED BY <1>1, <1>2, <1>3, <1>4, QuietKeeps

\* The quiet steps that are about one subscriber.
LEMMA QuietUserSteps ==
    ASSUME FunnelInv, NEW u \in Users, VisitFails(u) \/ SaveInvoice(u) \/ Toggle(u)
    PROVE  FunnelInv'
<1> USE DEF world, db, pass, casts, ghosts
<1>0. FunnelTypes
  BY DEF FunnelInv
<1>1. CASE VisitFails(u)
  BY <1>0, <1>1, QuietKeeps DEF VisitFails, Quiet, FunnelTypes
<1>2. CASE SaveInvoice(u)
  <2>1. bill' \in [Users -> Nat \cup {None}]
    BY <1>0, <1>2 DEF SaveInvoice, FunnelTypes
  <2> QED BY <1>0, <1>2, <2>1, QuietKeeps DEF SaveInvoice, Quiet, FunnelTypes
<1>3. CASE Toggle(u)
  BY <1>0, <1>3, QuietKeeps DEF Toggle, Quiet, FunnelTypes
<1> QED BY <1>1, <1>2, <1>3

\* An exception ends the visit of a subscriber whom it silences.
LEMMA RaisesSilenced == ASSUME NEW u \in Users, Raises(u) PROVE Silenced(u)
<1> DEFINE b == Taken(Chain(u))
<1>1. b.key[1] = "rating_request"
  BY DEF Raises
<1>2. \/ ~b.sends /\ b.key = <<"nothing", 0>>
      \/ b.on /\ ChainOK(u, b)
  BY TakenBranch
<1> HIDE DEF b
<1> QED BY <1>1, <1>2 DEF ChainOK

\* A visit starts with what is due to this subscriber.
LEMMA VisitKeeps == ASSUME FunnelInv, NEW u \in Users, Visit(u) PROVE FunnelInv'
<1> USE DEF world, db, pass, casts, ghosts
<1>0. /\ UNCHANGED <<now, since, expire, frozen, bill, hist, told, twice, lapsed, warned, bstat, bleft>>
      /\ queue' \subseteq Users /\ well' = TRUE /\ pc = "next"
      /\ FunnelTypes
  BY DEF Visit, FunnelInv, FunnelTypes
<1>1. HistoryOK' /\ CastsOK' /\ RemindedOK' /\ MessagedOnce'
  BY <1>0 DEF FunnelInv, HistoryOK, CastsOK, RemindedOK, MessagedOnce
<1>2. CASE Raises(u)
  <2>1. UNCHANGED <<pc, cur, todo>> /\ clean' = clean \cup {u} /\ Silenced(u)
    BY <1>2, RaisesSilenced DEF Visit
  <2>2. FunnelTypes' /\ TodoOK' /\ VisitOK'
    BY <1>0, <2>1 DEF FunnelTypes, TodoOK, VisitOK, AtWork
  <2>3. WarnedUnlessSilenced'
    BY <1>0, <2>1 DEF FunnelInv, WarnedUnlessSilenced, Silenced, Sent
  <2> QED BY <1>1, <2>2, <2>3 DEF FunnelInv
<1>3. CASE ~Raises(u)
  <2>1. pc' = "sub" /\ cur' = u /\ todo' = Due(u) /\ clean' = clean \ {u}
    BY <1>3 DEF Visit
  <2>2. FunnelTypes'
    BY <1>0, <2>1 DEF FunnelTypes, AtWork
  <2>3. ListOK(u, Due(u))
    BY <1>0, DueList
  <2>4. TodoOK'
    <3> DEFINE d == Due(u)
    <3>1. ListOK(u, d) /\ todo' = d
      BY <2>1, <2>3
    <3> HIDE DEF d
    <3> QED BY <1>0, <2>1, <3>1 DEF TodoOK, ListOK, Sendable
  <2>5. VisitOK'
    <3>1. CASE <<u, EndsSoon(u)>> \in hist
      <4>1. expire[u] \in Nat
        BY <1>0 DEF FunnelTypes
      <4>2. <<u, expire[u]>> \in warned
        BY <3>1, <4>1 DEF FunnelInv, RemindedOK, EndsSoon
      <4> QED BY <1>0, <2>1, <4>2 DEF VisitOK
    <3>2. CASE <<u, EndsSoon(u)>> \notin hist
      <4> DEFINE d == Due(u)
      <4>1. todo' = d
        BY <2>1
      <4>2. u \notin frozen /\ now > 72 /\ expire[u] - now \in 1..24 => \E i \in DOMAIN d : d[i] = EndsSoon(u)
        BY <1>0, <3>2, DueList
      <4> HIDE DEF d
      <4> QED BY <1>0, <2>1, <4>1, <4>2 DEF VisitOK, EndsSoon
    <3> QED BY <3>1, <3>2
  <2>6. WarnedUnlessSilenced'
    BY <1>0, <2>1 DEF FunnelInv, WarnedUnlessSilenced, Silenced, Sent
  <2> QED BY <1>1, <2>2, <2>4, <2>5, <2>6 DEF FunnelInv
<1> QED BY <1>2, <1>3

-----------------------------------------------------------------------------
(* The sends                                                               *)

\* The first message of the list, and what is left after it.
FirstAndRest(u, s) ==
    /\ Head(s) \in MessageKeys /\ Sendable(u, Head(s)) /\ ListOK(u, Tail(s))
    /\ \A i \in DOMAIN Tail(s) : Tail(s)[i] # Head(s)
    /\ \A i \in DOMAIN s : s[i] = Head(s) \/ \E j \in DOMAIN Tail(s) : Tail(s)[j] = s[i]

\* The first message is not among the others.
LEMMA TailList == ASSUME NEW u, NEW s, ListOK(u, s), s # <<>> PROVE FirstAndRest(u, s)
<1>1. s \in Seq(MessageKeys) /\ DOMAIN s = 1..Len(s) /\ Len(s) \in Nat /\ 1 \in DOMAIN s
  BY DEF ListOK
<1>2. /\ Head(s) = s[1] /\ Tail(s) \in Seq(MessageKeys) /\ DOMAIN Tail(s) = 1..(Len(s) - 1)
      /\ \A i \in 1..(Len(s) - 1) : i + 1 \in DOMAIN s /\ i + 1 # 1 /\ Tail(s)[i] = s[i + 1]
  BY <1>1
<1>3. \A i \in DOMAIN s : i = 1 \/ (i - 1 \in DOMAIN Tail(s) /\ Tail(s)[i - 1] = s[i])
  BY <1>1, <1>2
<1>4. \A i \in DOMAIN Tail(s) : Tail(s)[i] # Head(s)
  BY <1>1, <1>2 DEF ListOK
<1>5. \A i, j \in DOMAIN Tail(s) : Tail(s)[i] = Tail(s)[j] => i = j
  <2> SUFFICES ASSUME NEW i \in DOMAIN Tail(s), NEW j \in DOMAIN Tail(s), Tail(s)[i] = Tail(s)[j]
               PROVE  i = j
    OBVIOUS
  <2>1. i + 1 = j + 1
    BY <1>2 DEF ListOK
  <2> QED BY <1>1, <1>2, <2>1
<1>6. \A i \in DOMAIN Tail(s) : Sendable(u, Tail(s)[i])
  BY <1>2 DEF ListOK
<1>7. Sendable(u, Head(s)) /\ Head(s) \in MessageKeys
  BY <1>1, <1>2 DEF ListOK, Sendable
<1>8. \A i \in DOMAIN s : s[i] = Head(s) \/ \E j \in DOMAIN Tail(s) : Tail(s)[j] = s[i]
  BY <1>2, <1>3
<1> QED BY <1>2, <1>4, <1>5, <1>6, <1>7, <1>8 DEF ListOK, FirstAndRest

\* What a send finds and leaves.
LEMMA SendFrame ==
    ASSUME FunnelInv, Sending,
           UNCHANGED <<world, pc, queue, cur, clean, casts>>
    PROVE  /\ cur \in Users /\ cur \notin clean /\ AtWork /\ AtWork'
           /\ FirstAndRest(cur, todo) /\ todo' = Tail(todo)
           /\ UNCHANGED <<now, since, expire, frozen, bill, pc, cur, clean, bstat, bleft>>
           /\ FunnelTypes /\ FunnelTypes'
<1>1. UNCHANGED <<now, since, expire, frozen, bill, pc, cur, clean, queue, bstat, bleft>>
  BY DEF world, casts
<1>2. AtWork /\ todo # <<>> /\ todo' = Tail(todo)
  BY DEF Sending, AtWork
<1>3. FunnelTypes /\ cur \in Users /\ cur \notin clean /\ ListOK(cur, todo)
  BY <1>2 DEF FunnelInv, FunnelTypes, TodoOK, VisitOK
<1>4. FirstAndRest(cur, todo)
  BY <1>2, <1>3, TailList
<1>5. AtWork' /\ FunnelTypes'
  BY <1>1, <1>2, <1>3 DEF AtWork, FunnelTypes
<1> QED BY <1>1, <1>2, <1>3, <1>4, <1>5

\* A message that goes out: only an unacknowledged one can go out again.
LEMMA DeliverKeeps ==
    ASSUME FunnelInv, Deliver(cur, Head(todo)), cur \in Users, FirstAndRest(cur, todo),
           UNCHANGED <<bstat, bleft>>,
           hist \subseteq hist', lapsed \subseteq lapsed',
           <<cur, Head(todo)>> \in hist' \/ <<cur, Head(todo)>> \in lapsed'
    PROVE  HistoryOK' /\ CastsOK' /\ MessagedOnce'
<1> DEFINE k == Head(todo)
<1>1. k \in MessageKeys /\ Sendable(cur, k)
  BY DEF FirstAndRest
<1> HIDE DEF k
<1>2. told' = told \cup {<<cur, k>>} /\ (<<cur, k>> \in hist' \/ <<cur, k>> \in lapsed')
  BY DEF Deliver, k
<1>3. HistoryOK'
  BY <1>2 DEF FunnelInv, HistoryOK
<1>4. CastsOK'
  <2>1. \A r \in Requests : k # <<r, 0>>
    BY <1>1, FunnelAssumption DEF MessageKeys
  <2> QED BY <1>2, <2>1 DEF FunnelInv, CastsOK
<1>5. MessagedOnce'
  <2>1. CASE <<cur, k>> \in told /\ k[1] # "weekly_ref_promo"
    <3>1. <<cur, k>> \in lapsed
      BY <1>1, <2>1 DEF FunnelInv, HistoryOK, Sendable
    <3>2. twice' = twice \cup {<<cur, k>>}
      BY <2>1 DEF Deliver, k
    <3> QED BY <3>1, <3>2 DEF FunnelInv, MessagedOnce
  <2>2. CASE ~(<<cur, k>> \in told /\ k[1] # "weekly_ref_promo")
    BY <2>2 DEF Deliver, k, FunnelInv, MessagedOnce
  <2> QED BY <2>1, <2>2
<1> QED BY <1>3, <1>4, <1>5

\* A send that fails, or whose answer is lost, writes no row.
LEMMA UnrecordedKeeps ==
    ASSUME FunnelInv, SendUnrecorded \/ SendRefused \/ SendUnreachable PROVE FunnelInv'
<1>0. /\ Sending /\ UNCHANGED <<world, pc, queue, cur, clean, casts>>
      /\ UNCHANGED hist /\ well' = FALSE
  BY DEF SendUnrecorded, SendRefused, SendUnreachable, db
<1>1. /\ cur \in Users /\ cur \notin clean /\ AtWork /\ AtWork'
      /\ FirstAndRest(cur, todo) /\ todo' = Tail(todo)
      /\ UNCHANGED <<now, since, expire, frozen, bill, pc, cur, clean, bstat, bleft>>
      /\ FunnelTypes'
  BY <1>0, SendFrame
<1>2. TodoOK'
  <2> DEFINE t == Tail(todo)
  <2>1. ListOK(cur, t) /\ todo' = t
    BY <1>1 DEF FirstAndRest
  <2> HIDE DEF t
  <2> QED BY <1>0, <1>1, <2>1 DEF TodoOK, ListOK, Sendable
<1>3. VisitOK'
  BY <1>0, <1>1 DEF VisitOK
<1>4. warned \subseteq warned'
  BY DEF SendUnrecorded, SendRefused, SendUnreachable, Deliver, ghosts
<1>5. RemindedOK'
  BY <1>0, <1>1, <1>4 DEF FunnelInv, RemindedOK
<1>6. WarnedUnlessSilenced'
  BY <1>0, <1>1, <1>4 DEF FunnelInv, WarnedUnlessSilenced, Silenced, Sent
<1>7. HistoryOK' /\ CastsOK' /\ MessagedOnce'
  <2>1. CASE SendUnrecorded
    <3>1. Deliver(cur, Head(todo)) /\ lapsed' = lapsed \cup {<<cur, Head(todo)>>}
      BY <2>1 DEF SendUnrecorded
    <3>2. lapsed \subseteq lapsed' /\ <<cur, Head(todo)>> \in lapsed' /\ hist \subseteq hist'
      BY <1>0, <3>1
    <3> QED BY <1>1, <3>1, <3>2, DeliverKeeps
  <2>2. CASE SendRefused \/ SendUnreachable
    <3>1. UNCHANGED <<told, twice, lapsed>>
      BY <2>2 DEF SendRefused, SendUnreachable, ghosts
    <3> QED BY <1>0, <1>1, <3>1 DEF FunnelInv, HistoryOK, CastsOK, MessagedOnce
  <2> QED BY <2>1, <2>2
<1> QED BY <1>1, <1>2, <1>3, <1>5, <1>6, <1>7 DEF FunnelInv

\* A message and its row: a reminder of the present term counts as the warning.
LEMMA RecordedKeeps == ASSUME FunnelInv, SendRecorded PROVE FunnelInv'
<1> DEFINE k == Head(todo)
<1>0. /\ Sending /\ UNCHANGED <<world, pc, queue, cur, clean, casts, well, lapsed>>
      /\ Deliver(cur, k) /\ hist' = hist \cup {<<cur, k>>}
  BY DEF SendRecorded
<1>1. /\ cur \in Users /\ cur \notin clean /\ AtWork /\ AtWork'
      /\ FirstAndRest(cur, todo) /\ todo' = Tail(todo)
      /\ UNCHANGED <<now, since, expire, frozen, bill, pc, cur, clean, bstat, bleft>>
      /\ FunnelTypes /\ FunnelTypes'
  BY <1>0, SendFrame
<1>2. k \in MessageKeys /\ Sendable(cur, k)
  BY <1>1 DEF FirstAndRest
<1>3. HistoryOK' /\ CastsOK' /\ MessagedOnce'
  <2>1. hist \subseteq hist' /\ lapsed \subseteq lapsed' /\ <<cur, Head(todo)>> \in hist'
    BY <1>0
  <2> QED BY <1>0, <1>1, <2>1, DeliverKeeps
<1>4. TodoOK'
  <2> DEFINE t == Tail(todo)
  <2>1. ListOK(cur, t) /\ todo' = t /\ \A i \in DOMAIN t : t[i] # k
    BY <1>1 DEF FirstAndRest
  <2> HIDE DEF t, k
  <2> QED BY <1>0, <1>1, <2>1 DEF TodoOK, ListOK, Sendable
<1>5. /\ warned \subseteq warned'
      /\ k[1] = "ends_soon" /\ expire[cur] - now <= 24 => <<cur, expire[cur]>> \in warned'
  BY <1>0 DEF Deliver
<1>6. RemindedOK'
  <2> HIDE DEF k
  <2> SUFFICES ASSUME NEW u \in Users, NEW e \in Nat, <<u, <<"ends_soon", e>>>> \in hist'
               PROVE  e <= expire[u] /\ (e = expire[u] => <<u, e>> \in warned')
    BY <1>1 DEF RemindedOK
  <2>1. CASE <<u, <<"ends_soon", e>>>> \in hist
    BY <1>5, <2>1 DEF FunnelInv, RemindedOK
  <2>2. CASE u = cur /\ k = <<"ends_soon", e>>
    BY <1>2, <1>5, <2>2 DEF Sendable
  <2> QED BY <1>0, <2>1, <2>2
<1>7. VisitOK'
  <2> SUFFICES ASSUME well, cur \notin frozen, now > 72, expire[cur] - now \in 1..24, <<cur, expire[cur]>> \notin warned'
               PROVE  pc = "sub" /\ \E i \in DOMAIN Tail(todo) : Tail(todo)[i] = EndsSoon(cur)
    BY <1>0, <1>1 DEF VisitOK, EndsSoon
  <2>1. PICK i \in DOMAIN todo : pc = "sub" /\ todo[i] = EndsSoon(cur)
    BY <1>1, <1>5 DEF FunnelInv, VisitOK
  <2>2. expire[cur] - now <= 24
    <3>1. now \in Nat /\ expire[cur] \in Nat
      BY <1>1 DEF FunnelTypes
    <3> QED BY <3>1
  <2>3. k # EndsSoon(cur)
    BY <1>5, <2>2 DEF EndsSoon
  <2> QED BY <1>1, <2>1, <2>3 DEF FirstAndRest
<1>8. WarnedUnlessSilenced'
  <2>1. \A u \in clean : u # cur
    BY <1>1
  <2> HIDE DEF k
  <2> QED BY <1>0, <1>1, <1>5, <2>1 DEF FunnelInv, WarnedUnlessSilenced, Silenced, Sent
<1> QED BY <1>1, <1>3, <1>4, <1>6, <1>7, <1>8 DEF FunnelInv

-----------------------------------------------------------------------------
(* The other steps                                                         *)

\* The reminder is behind the visit when it comes to the invoices.
LEMMA ReadInvoicesKeeps == ASSUME FunnelInv, ReadInvoices PROVE FunnelInv'
<1> USE DEF AtWork
<1>0. /\ UNCHANGED <<now, since, expire, frozen, bill, hist, told, twice, lapsed, warned, bstat, bleft,
                     queue, cur, clean, well>>
      /\ pc = "sub" /\ todo = <<>> /\ pc' = "bills" /\ todo' = Abandoned(cur)
  BY DEF ReadInvoices, world, db, pass, casts, ghosts
<1>1. FunnelTypes /\ cur \in Users
  BY <1>0 DEF FunnelInv, FunnelTypes
<1>2. FunnelTypes'
  BY <1>0, <1>1 DEF FunnelTypes
<1>3. TodoOK'
  <2> DEFINE d == Abandoned(cur)
  <2>1. ListOK(cur, d) /\ todo' = d
    BY <1>0, <1>1, AbandonedList
  <2> HIDE DEF d
  <2> QED BY <1>0, <2>1 DEF TodoOK, ListOK, Sendable
<1>4. HistoryOK' /\ CastsOK' /\ RemindedOK' /\ MessagedOnce'
  BY <1>0 DEF FunnelInv, HistoryOK, CastsOK, RemindedOK, MessagedOnce
<1>5. VisitOK'
  <2>1. DOMAIN todo = {}
    BY <1>0
  <2> QED BY <1>0, <2>1 DEF FunnelInv, VisitOK
<1>6. WarnedUnlessSilenced'
  BY <1>0 DEF FunnelInv, WarnedUnlessSilenced, Silenced, Sent
<1> QED BY <1>2, <1>3, <1>4, <1>5, <1>6 DEF FunnelInv

\* A visit that met no failure ends with the subscriber warned.
LEMMA LeaveUserKeeps == ASSUME FunnelInv, LeaveUser PROVE FunnelInv'
<1> USE DEF AtWork
<1>0. /\ UNCHANGED <<now, since, expire, frozen, bill, hist, told, twice, lapsed, warned, bstat, bleft, queue>>
      /\ pc = "bills" /\ pc' = "next" /\ clean' = IF well THEN clean \cup {cur} ELSE clean
  BY DEF LeaveUser, world, db, pass, casts, ghosts
<1>1. FunnelTypes /\ cur \in Users
  BY <1>0 DEF FunnelInv, FunnelTypes
<1>2. FunnelTypes' /\ TodoOK' /\ VisitOK'
  BY <1>0, <1>1 DEF FunnelTypes, TodoOK, VisitOK
<1>3. HistoryOK' /\ CastsOK' /\ RemindedOK' /\ MessagedOnce'
  BY <1>0 DEF FunnelInv, HistoryOK, CastsOK, RemindedOK, MessagedOnce
<1>4. WarnedUnlessSilenced'
  <2>1. well /\ cur \notin frozen /\ now > 72 /\ expire[cur] - now \in 1..24 => <<cur, expire[cur]>> \in warned
    BY <1>0 DEF FunnelInv, VisitOK
  <2> QED BY <1>0, <2>1 DEF FunnelInv, WarnedUnlessSilenced, Silenced, Sent
<1> QED BY <1>2, <1>3, <1>4 DEF FunnelInv

\* A crash loses the visit and the broadcasts, and no row.
LEMMA CrashKeeps == ASSUME FunnelInv, Crash PROVE FunnelInv'
<1> USE DEF AtWork
<1>0. /\ UNCHANGED <<now, since, expire, frozen, bill, hist, told, twice, lapsed, warned, bstat, clean>>
      /\ pc' = "rest" /\ queue' = {} /\ bleft' = [r \in Requests |-> {}]
  BY DEF Crash, world, db, ghosts
<1>2. FunnelTypes' /\ TodoOK' /\ VisitOK'
  BY <1>0 DEF FunnelInv, FunnelTypes, TodoOK, VisitOK
<1>3. HistoryOK' /\ CastsOK' /\ RemindedOK' /\ MessagedOnce'
  BY <1>0 DEF FunnelInv, HistoryOK, CastsOK, RemindedOK, MessagedOnce
<1>4. WarnedUnlessSilenced'
  BY <1>0 DEF FunnelInv, WarnedUnlessSilenced, Silenced, Sent
<1> QED BY <1>2, <1>3, <1>4 DEF FunnelInv

\* The hour changes between passes only.
LEMMA TickKeeps == ASSUME FunnelInv, Tick PROVE FunnelInv'
<1> USE DEF AtWork
<1>0. /\ UNCHANGED <<since, expire, frozen, bill, hist, told, twice, lapsed, warned, bstat, bleft, pc, queue>>
      /\ pc = "rest" /\ clean' = {} /\ now' \in Instants
  BY DEF Tick, db, casts, ghosts
<1>2. FunnelTypes' /\ TodoOK' /\ VisitOK'
  BY <1>0, FunnelAssumption DEF FunnelInv, FunnelTypes, TodoOK, VisitOK
<1>3. HistoryOK' /\ CastsOK' /\ RemindedOK' /\ MessagedOnce'
  BY <1>0 DEF FunnelInv, HistoryOK, CastsOK, RemindedOK, MessagedOnce
<1>4. WarnedUnlessSilenced'
  BY <1>0 DEF WarnedUnlessSilenced
<1> QED BY <1>2, <1>3, <1>4 DEF FunnelInv

\* A first connection silences nobody who was not.
LEMMA ConnectKeeps == ASSUME FunnelInv, NEW u \in Users, Connect(u) PROVE FunnelInv'
<1> USE DEF AtWork
<1>0. /\ UNCHANGED <<now, expire, frozen, bill, hist, told, twice, lapsed, warned, bstat, bleft, pc, queue, clean>>
      /\ pc = "rest" /\ since[u] = None /\ since' = [since EXCEPT ![u] = now]
  BY DEF Connect, db, pass, casts, ghosts
<1>1. FunnelTypes
  BY DEF FunnelInv
<1>2. FunnelTypes' /\ TodoOK' /\ VisitOK'
  BY <1>0, <1>1 DEF FunnelTypes, TodoOK, VisitOK
<1>3. HistoryOK' /\ CastsOK' /\ RemindedOK' /\ MessagedOnce'
  BY <1>0 DEF FunnelInv, HistoryOK, CastsOK, RemindedOK, MessagedOnce
<1>4. WarnedUnlessSilenced'
  <2>1. ~Silenced(u) /\ \A v \in Users : v # u => since'[v] = since[v]
    BY <1>0, <1>1 DEF Silenced, FunnelTypes
  <2>2. clean \subseteq Users
    BY <1>1 DEF FunnelTypes
  <2> QED BY <1>0, <2>1, <2>2 DEF FunnelInv, WarnedUnlessSilenced, Silenced, Sent
<1> QED BY <1>2, <1>3, <1>4 DEF FunnelInv

\* A payment moves the end of the term: old rows and the reminders that a visit
\* still holds are then about a term that was renewed, and the subscriber, whom the
\* pass has not visited in the new term, is no longer counted among the clean.
LEMMA PayKeeps ==
    ASSUME FunnelInv, NEW u \in Users, NEW term \in Terms, Pay(u, term) PROVE FunnelInv'
<1> USE DEF AtWork
<1>0. /\ UNCHANGED <<now, since, frozen, hist, told, twice, lapsed, warned, bstat, bleft,
                     pc, queue, cur, todo>>
      /\ bill' = [bill EXCEPT ![u] = None]
      /\ clean' = clean \ {u} /\ well' = (well /\ cur # u)
      /\ expire' = [expire EXCEPT ![u] = (IF expire[u] > now THEN expire[u] ELSE now) + term]
  BY DEF Pay, db, casts, ghosts
<1>1. FunnelTypes
  BY DEF FunnelInv
<1>2. now \in Nat /\ expire[u] \in Nat /\ term \in Nat /\ term >= 24
  BY <1>1, FunnelAssumption DEF FunnelTypes
<1>3. /\ expire'[u] \in Nat /\ expire'[u] > expire[u]
      /\ \A v \in Users : v # u => expire'[v] = expire[v]
  BY <1>0, <1>1, <1>2 DEF FunnelTypes
<1>4. FunnelTypes'
  <2>1. expire' \in [Users -> Nat]
    BY <1>0, <1>1, <1>2, <1>3 DEF FunnelTypes
  <2>2. bill' \in [Users -> Nat \cup {None}]
    BY <1>0, <1>1 DEF FunnelTypes
  <2> QED BY <1>0, <1>1, <2>1, <2>2 DEF FunnelTypes
<1>5. TodoOK'
  <2> SUFFICES ASSUME AtWork PROVE ListOK(cur, todo)'
    BY <1>0 DEF TodoOK
  <2>1. ListOK(cur, todo) /\ cur \in Users
    BY <1>1 DEF FunnelInv, TodoOK, FunnelTypes
  <2>2. \A k \in MessageKeys : Sendable(cur, k) => Sendable(cur, k)'
    <3> SUFFICES ASSUME NEW k \in MessageKeys, Sendable(cur, k) PROVE Sendable(cur, k)'
      OBVIOUS
    <3>1. k[2] \in Nat
      BY DEF MessageKeys
    <3>2. CASE cur = u
      BY <1>0, <1>2, <1>3, <3>1, <3>2 DEF Sendable
    <3>3. CASE cur # u
      BY <1>0, <1>3, <2>1, <3>3 DEF Sendable
    <3> QED BY <3>2, <3>3
  <2>3. \A i \in DOMAIN todo : todo[i] \in MessageKeys
    BY <2>1 DEF ListOK, Sendable
  <2> QED BY <1>0, <2>1, <2>2, <2>3 DEF ListOK
<1>6. HistoryOK' /\ CastsOK' /\ MessagedOnce'
  BY <1>0 DEF FunnelInv, HistoryOK, CastsOK, MessagedOnce
<1>7. RemindedOK'
  <2> SUFFICES ASSUME NEW v \in Users, NEW e \in Nat, <<v, <<"ends_soon", e>>>> \in hist
               PROVE  e <= expire'[v] /\ (e = expire'[v] => <<v, e>> \in warned)
    BY <1>0 DEF RemindedOK
  <2>1. e <= expire[v] /\ (e = expire[v] => <<v, e>> \in warned)
    BY DEF FunnelInv, RemindedOK
  <2> QED BY <1>2, <1>3, <2>1
<1>8. VisitOK'
  <2> SUFFICES ASSUME AtWork PROVE VisitOK'
    BY <1>0 DEF VisitOK
  <2>1. cur \in Users
    BY <1>1 DEF FunnelTypes
  <2>2. CASE cur = u
    BY <1>0, <2>2 DEF FunnelInv, VisitOK
  <2>3. CASE cur # u
    <3>1. well' => well
      BY <1>0
    <3>2. cur' = cur /\ expire'[cur] = expire[cur] /\ cur \notin clean'
      BY <1>0, <1>3, <2>1, <2>3 DEF FunnelInv, VisitOK
    <3> QED BY <1>0, <3>1, <3>2 DEF FunnelInv, VisitOK, EndsSoon
  <2> QED BY <2>2, <2>3
<1>9. WarnedUnlessSilenced'
  <2> SUFFICES ASSUME NEW v \in clean', v \notin frozen, now > 72, expire'[v] - now \in 1..24
               PROVE  <<v, expire'[v]>> \in warned \/ Silenced(v)
    BY <1>0 DEF WarnedUnlessSilenced, Silenced, Sent
  <2>1. v \in Users /\ v \in clean /\ v # u
    BY <1>0, <1>1 DEF FunnelTypes
  <2> QED BY <1>3, <2>1 DEF FunnelInv, WarnedUnlessSilenced
<1> QED BY <1>4, <1>5, <1>6, <1>7, <1>8, <1>9 DEF FunnelInv

\* A frozen account needs no warning, and one that was resumed waits for its visit.
LEMMA FreezeKeeps ==
    ASSUME FunnelInv, NEW u \in Users, AccountFreeze(u) \/ AccountUnfreeze(u) PROVE FunnelInv'
<1> USE DEF AtWork
<1>0. /\ UNCHANGED <<now, since, expire, bill, hist, told, twice, lapsed, warned, bstat, bleft, pc, queue>>
      /\ pc = "rest" /\ clean' \subseteq clean /\ clean' \ frozen' \subseteq clean \ frozen
  BY DEF AccountFreeze, AccountUnfreeze, db, pass, casts, ghosts
<1>2. FunnelTypes' /\ TodoOK' /\ VisitOK'
  BY <1>0 DEF FunnelInv, FunnelTypes, TodoOK, VisitOK
<1>3. HistoryOK' /\ CastsOK' /\ RemindedOK' /\ MessagedOnce'
  BY <1>0 DEF FunnelInv, HistoryOK, CastsOK, RemindedOK, MessagedOnce
<1>4. WarnedUnlessSilenced'
  BY <1>0 DEF FunnelInv, WarnedUnlessSilenced, Silenced, Sent
<1> QED BY <1>2, <1>3, <1>4 DEF FunnelInv

\* What every step of a broadcast leaves alone.
LEMMA CastFrame ==
    ASSUME FunnelInv, UNCHANGED <<world, db, pass, lapsed>>,
           bstat' \in [Requests -> {"none", "queued", "processing", "completed"}],
           bleft' \in [Requests -> SUBSET Users], warned \subseteq warned'
    PROVE  FunnelTypes' /\ TodoOK' /\ RemindedOK' /\ VisitOK' /\ WarnedUnlessSilenced'
<1>0. UNCHANGED <<now, since, expire, frozen, bill, hist, pc, queue, cur, todo, clean, well>>
  BY DEF world, db, pass
<1>1. FunnelTypes'
  BY <1>0 DEF FunnelInv, FunnelTypes, AtWork
<1>2. TodoOK'
  BY <1>0 DEF FunnelInv, TodoOK, ListOK, Sendable, AtWork
<1>3. RemindedOK'
  BY <1>0 DEF FunnelInv, RemindedOK
<1>4. VisitOK'
  BY <1>0 DEF FunnelInv, VisitOK, EndsSoon, AtWork
<1>5. WarnedUnlessSilenced'
  BY <1>0 DEF FunnelInv, WarnedUnlessSilenced, Silenced, Sent
<1> QED BY <1>1, <1>2, <1>3, <1>4, <1>5

\* A broadcast is accepted, started and completed.
LEMMA CastStatusKeeps ==
    ASSUME FunnelInv, NEW r \in Requests,
           QueueBroadcast(r) \/ StartBroadcast(r) \/ EndBroadcast(r)
    PROVE  FunnelInv'
<1>0. /\ UNCHANGED <<world, db, pass, told, twice, lapsed, warned>>
      /\ bstat \in [Requests -> {"none", "queued", "processing", "completed"}]
      /\ bleft \in [Requests -> SUBSET Users]
  BY DEF QueueBroadcast, StartBroadcast, EndBroadcast, ghosts, FunnelInv, FunnelTypes
<1>1. HistoryOK' /\ MessagedOnce'
  BY <1>0 DEF FunnelInv, HistoryOK, MessagedOnce, db
<1>2. /\ bstat' \in [Requests -> {"none", "queued", "processing", "completed"}]
      /\ bleft' \in [Requests -> SUBSET Users]
  BY <1>0 DEF QueueBroadcast, StartBroadcast, EndBroadcast
<1>3. CastsOK'
  <2>1. CASE QueueBroadcast(r)
    BY <1>0, <2>1 DEF QueueBroadcast, FunnelInv, CastsOK
  <2>2. CASE StartBroadcast(r)
    BY <1>0, <2>2 DEF StartBroadcast, FunnelInv, CastsOK
  <2>3. CASE EndBroadcast(r)
    BY <1>0, <2>3 DEF EndBroadcast, FunnelInv, CastsOK
  <2> QED BY <2>1, <2>2, <2>3
<1>4. FunnelTypes' /\ TodoOK' /\ RemindedOK' /\ VisitOK' /\ WarnedUnlessSilenced'
  <2>1. warned \subseteq warned'
    BY <1>0
  <2> QED BY <1>0, <1>2, <2>1, CastFrame
<1> QED BY <1>1, <1>3, <1>4 DEF FunnelInv

\* A broadcast goes out to somebody whom it has not reached.
LEMMA CastSendKeeps ==
    ASSUME FunnelInv, NEW r \in Requests, NEW u \in Users, SendBroadcast(r, u)
    PROVE  FunnelInv'
<1>0. /\ UNCHANGED <<world, db, pass, bstat, lapsed>>
      /\ bleft' = [bleft EXCEPT ![r] = bleft[r] \ {u}] /\ u \in bleft[r]
      /\ bstat \in [Requests -> {"none", "queued", "processing", "completed"}]
      /\ bleft \in [Requests -> SUBSET Users]
  BY DEF SendBroadcast, FunnelInv, FunnelTypes
<1>1. <<u, <<r, 0>>>> \notin told /\ bstat[r] = "processing"
  BY <1>0 DEF FunnelInv, CastsOK
<1>2. UNCHANGED <<twice, warned>> /\ (told' = told \/ told' = told \cup {<<u, <<r, 0>>>>})
  <2>1. r # "ends_soon"
    BY FunnelAssumption DEF MessageNames
  <2> QED BY <1>1, <2>1 DEF SendBroadcast, Deliver
<1>3. HistoryOK' /\ MessagedOnce'
  <2>1. \A k \in MessageKeys : k # <<r, 0>>
    BY FunnelAssumption DEF MessageKeys
  <2> QED BY <1>0, <1>2, <2>1 DEF FunnelInv, HistoryOK, MessagedOnce, db
<1>4. CastsOK'
  <2> SUFFICES ASSUME NEW q \in Requests
               PROVE  /\ bleft'[q] # {} => bstat[q] = "processing"
                      /\ \A v \in Users : v \in bleft'[q] \/ bstat[q] \in {"none", "queued"} =>
                            <<v, <<q, 0>>>> \notin told'
    BY <1>0 DEF CastsOK
  <2>1. /\ bleft[q] # {} => bstat[q] = "processing"
        /\ \A v \in Users : v \in bleft[q] \/ bstat[q] \in {"none", "queued"} =>
              <<v, <<q, 0>>>> \notin told
    BY DEF FunnelInv, CastsOK
  <2>2. CASE q = r
    BY <1>0, <1>1, <1>2, <2>1, <2>2
  <2>3. CASE q # r
    BY <1>0, <1>2, <2>1, <2>3
  <2> QED BY <2>2, <2>3
<1>5. FunnelTypes' /\ TodoOK' /\ RemindedOK' /\ VisitOK' /\ WarnedUnlessSilenced'
  <2>1. warned \subseteq warned'
    BY <1>2
  <2>2. bleft' \in [Requests -> SUBSET Users]
    BY <1>0
  <2> QED BY <1>0, <2>1, <2>2, CastFrame
<1> QED BY <1>3, <1>4, <1>5 DEF FunnelInv

-----------------------------------------------------------------------------
(* The theorems                                                            *)

\* Every step of the bot and of the world keeps the invariant.
LEMMA FunnelStep == FunnelInv /\ [FunnelNext]_fvars => FunnelInv'
<1> SUFFICES ASSUME FunnelInv, [FunnelNext]_fvars PROVE FunnelInv'
  OBVIOUS
<1>1. CASE StartPass \/ VisitOther \/ EndPass \/ UNCHANGED fvars
  BY <1>1, QuietPassSteps
<1>2. CASE ReadInvoices \/ LeaveUser
  BY <1>2, ReadInvoicesKeeps, LeaveUserKeeps
<1>3. CASE SendRecorded \/ SendUnrecorded \/ SendRefused \/ SendUnreachable
  BY <1>3, RecordedKeeps, UnrecordedKeeps
<1>4. CASE Crash \/ Tick
  BY <1>4, CrashKeeps, TickKeeps
<1>5. ASSUME NEW u \in Users,
             \/ Visit(u) \/ VisitFails(u) \/ Connect(u) \/ SaveInvoice(u) \/ Toggle(u)
             \/ AccountFreeze(u) \/ AccountUnfreeze(u)
             \/ \E term \in Terms : Pay(u, term)
      PROVE  FunnelInv'
  BY <1>5, VisitKeeps, QuietUserSteps, ConnectKeeps, PayKeeps, FreezeKeeps
<1>6. ASSUME NEW r \in Requests,
             \/ QueueBroadcast(r) \/ StartBroadcast(r) \/ EndBroadcast(r)
             \/ \E u \in Users : SendBroadcast(r, u)
      PROVE  FunnelInv'
  BY <1>6, CastStatusKeeps, CastSendKeeps
<1> QED BY <1>1, <1>2, <1>3, <1>4, <1>5, <1>6 DEF FunnelNext

\* The invariant of the funnel holds in every behaviour of the bot.
THEOREM FunnelInvariant == FunnelSpec => []FunnelInv
<1> QED BY FunnelInitially, FunnelStep, PTL DEF FunnelSpec

\* send_funnel_notification never repeats a message that Telegram acknowledged,
\* and no broadcast is repeated, for any number of users, crashes and renewals.
THEOREM NobodyToldTwice == FunnelSpec => []MessagedOnce
<1>1. FunnelInv => MessagedOnce
  BY DEF FunnelInv
<1> QED BY <1>1, FunnelInvariant, PTL

\* run_notifications_check announces the end of every term, one-day terms included,
\* on its last day to all whose account is active and whom a pass visits without a
\* failure, but for those silenced by the exception.
THEOREM TermEndAnnounced == FunnelSpec => []WarnedUnlessSilenced
<1>1. FunnelInv => WarnedUnlessSilenced
  BY DEF FunnelInv
<1> QED BY <1>1, FunnelInvariant, PTL

=============================================================================
