------------------------ MODULE PoolCollectorProofs ------------------------
(***************************************************************************)
(* Proofs about PoolCollector, for any feeds, nodes, countries, groups,    *)
(* limits, thresholds and tiers, and for any number of cycles and faults:  *)
(* what clients are served was proved by a probe, the scheduler's file and *)
(* the database agree on the failures of a node unless one of them lost    *)
(* some, a starved group is known to the operator, and every batch the     *)
(* scheduler may return shares its places fairly.                          *)
(***************************************************************************)
EXTENDS PoolCollector, FiniteSetTheorems, NaturalsInduction, WellFoundedInduction, TLAPS

\* What the scheduler's file knows of a node, and what a row holds.
Metas == [ok : {"yes", "no", "none"}, fails : 0..FailCap, cool : 0..MaxCool, age : 0..OldAge]
MetaOK(m) ==
    /\ m \in Metas
    /\ m.fails > 0 <=> m.ok = "no"
    /\ m.cool > 0 => m.ok = "no"
MemoryOK(st) ==
    /\ st \in [cand : [Fps -> Metas], cur : Nat]
    /\ \A n \in Fps : MetaOK(st.cand[n])
RowSet == [row : BOOLEAN, ok : BOOLEAN, en : BOOLEAN, fails : 0..FailCap, age : 0..OldAge]
RowOK(r) ==
    /\ r \in RowSet
    /\ r.row /\ r.fails < Threshold => r.en
    /\ r.en => r.fails < Threshold \/ r.fails = 1
    /\ r.ok => r.en
    /\ ~r.row => r.fails = 0 /\ ~r.ok /\ ~r.en

\* The cycle at work.
Pcs == {"idle", "save", "upsert", "alert"}
Answers == {"yes", "no", "none"}
RunOK ==
    /\ run.pc \in Pcs /\ run.ver \in [Fps -> Answers]
    /\ run.pc = "save" => MemoryOK(run.mem) /\ ~run.saved

TypesOK ==
    /\ MemoryOK(file) /\ RunOK /\ \A n \in Fps : RowOK(db[n])
    /\ grp \in [Groups -> SUBSET Fps] /\ lost \subseteq Fps /\ since \in Nat
    /\ \A n \in Fps : proof[n] \in 0..OldAge /\ ev[n] \in 0..FailCap

\* A row never claims a later 204 than the node has given; what the running
\* cycle has just seen is known to everyone it has told.
ProofOK ==
    /\ \A n \in Fps : proof[n] <= db[n].age
    /\ run.pc \in {"save", "upsert"} => \A n \in Fps : run.ver[n] = "yes" =>
          /\ proof[n] = 0 /\ ev[n] = 0
          /\ run.pc = "save" => run.mem.cand[n].fails = 0
          /\ run.saved => file.cand[n].fails = 0

\* The rows in the feed were fresh at the last commit.
FeedOK == since < MaxSince => \A n \in DirectPoolFeed : db[n].age <= HealthTTL + since

\* A failure count after one more verdict.
Applied(fails, v) ==
    CASE v = "yes"  -> 0
      [] v = "no"   -> IF fails < FailCap THEN fails + 1 ELSE FailCap
      [] v = "none" -> fails

\* A node's evidence, between the cycle's end and the next, after the probes,
\* and after the save.
SameEvidence(n) ==
    /\ run.pc \in {"idle", "alert"} => file.cand[n].fails = ev[n] /\ db[n].fails = ev[n]
    /\ run.pc = "save" => /\ run.mem.cand[n].fails = ev[n]
                          /\ Applied(db[n].fails, run.ver[n]) = ev[n]
                          /\ run.ver[n] = "none" => file.cand[n].fails = ev[n]
    /\ run.pc = "upsert" => /\ file.cand[n].fails = ev[n]
                            /\ Applied(db[n].fails, run.ver[n]) = ev[n]

CollectorInv ==
    /\ TypesOK /\ ProofOK /\ FeedOK /\ StarvedIsAlerted
    /\ \A n \in Fps \ lost : SameEvidence(n)

-----------------------------------------------------------------------------
(* Records and counts                                                      *)

\* The smaller of two numbers.
LEMMA MinOfTwo == ASSUME NEW a \in Int, NEW b \in Int PROVE Min({a, b}) = IF a <= b THEN a ELSE b
BY DEF Min

\* The numbers the constants are.
LEMMA Numbers ==
    /\ OldAge \in Nat /\ HealthTTL \in Nat /\ MaxSince \in Nat /\ OldAge > HealthTTL + MaxSince
    /\ FailCap \in Nat /\ FailCap >= 1 /\ Threshold \in Nat /\ Threshold >= 1 /\ MaxCool \in Nat
    /\ BaseCool \in Nat /\ IsFiniteSet(Sources) /\ "all" \in Groups
BY CollectorAssumption DEF OldAge

\* The fields of what the file knows of a node.
LEMMA MetaFields ==
    ASSUME NEW ok, NEW fails, NEW cool, NEW age
    PROVE  /\ Meta(ok, fails, cool, age).ok = ok /\ Meta(ok, fails, cool, age).fails = fails
           /\ Meta(ok, fails, cool, age).cool = cool /\ Meta(ok, fails, cool, age).age = age
BY DEF Meta

\* When such a record is well formed.
LEMMA MetaIsOK ==
    ASSUME NEW ok \in Answers, NEW fails \in 0..FailCap, NEW cool \in 0..MaxCool, NEW age \in 0..OldAge,
           fails > 0 <=> ok = "no", cool > 0 => ok = "no"
    PROVE  MetaOK(Meta(ok, fails, cool, age))
BY MetaFields DEF MetaOK, Meta, Metas, Answers

\* The types of its fields.
LEMMA MetaTypes ==
    ASSUME NEW m, MetaOK(m)
    PROVE  /\ m.ok \in Answers /\ m.fails \in 0..FailCap /\ m.cool \in 0..MaxCool /\ m.age \in 0..OldAge
           /\ m.fails > 0 <=> m.ok = "no"
           /\ m.cool > 0 => m.ok = "no"
BY DEF MetaOK, Metas, Answers

\* Nothing is known of a node the file has never seen.
LEMMA NeverOK == MetaOK(Never) /\ Never.fails = 0
BY Numbers, MetaFields, MetaIsOK DEF Never, Answers

\* The fields of a memory.
LEMMA MemoryFields ==
    ASSUME NEW cand, NEW cur PROVE Memory(cand, cur).cand = cand /\ Memory(cand, cur).cur = cur
BY DEF Memory

\* A memory of well-formed records.
LEMMA MemoryIsOK ==
    ASSUME NEW cand, NEW cur \in Nat, cand \in [Fps -> Metas], \A n \in Fps : MetaOK(cand[n])
    PROVE  MemoryOK(Memory(cand, cur))
BY MemoryFields DEF MemoryOK, Memory

\* What a memory holds.
LEMMA MemoryTypes ==
    ASSUME NEW st, MemoryOK(st)
    PROVE  st.cur \in Nat /\ st.cand \in [Fps -> Metas] /\ \A n \in Fps : MetaOK(st.cand[n])
BY DEF MemoryOK

\* The first state of the file knows no node.
LEMMA InitMemory ==
    /\ MemoryOK(InitSchedulerState)
    /\ \A n \in Fps : InitSchedulerState.cand[n] = Never /\ InitSchedulerState.cand[n].fails = 0
<1> DEFINE none == [n \in Fps |-> Never]
<1>1. none \in [Fps -> Metas] /\ \A n \in Fps : none[n] = Never /\ MetaOK(none[n])
  BY NeverOK DEF MetaOK
<1>2. MemoryOK(Memory(none, 0)) /\ Memory(none, 0).cand = none
  <2> HIDE DEF none
  <2> QED BY <1>1, MemoryIsOK, MemoryFields
<1> QED BY <1>1, <1>2, NeverOK DEF InitSchedulerState

\* The fields of a row.
LEMMA RowFields ==
    ASSUME NEW row, NEW ok, NEW en, NEW fails, NEW age
    PROVE  /\ Row(row, ok, en, fails, age).row = row /\ Row(row, ok, en, fails, age).ok = ok
           /\ Row(row, ok, en, fails, age).en = en /\ Row(row, ok, en, fails, age).fails = fails
           /\ Row(row, ok, en, fails, age).age = age
BY DEF Row

\* When a row is well formed.
LEMMA RowIsOK ==
    ASSUME NEW row \in BOOLEAN, NEW ok \in BOOLEAN, NEW en \in BOOLEAN,
           NEW fails \in 0..FailCap, NEW age \in 0..OldAge,
           row /\ fails < Threshold => en, en => fails < Threshold \/ fails = 1,
           ok => en, ~row => fails = 0 /\ ~ok /\ ~en
    PROVE  RowOK(Row(row, ok, en, fails, age))
BY RowFields DEF RowOK, Row, RowSet

\* The types of a row's fields.
LEMMA RowTypes ==
    ASSUME NEW r, RowOK(r)
    PROVE  /\ r.row \in BOOLEAN /\ r.ok \in BOOLEAN /\ r.en \in BOOLEAN
           /\ r.fails \in 0..FailCap /\ r.age \in 0..OldAge
           /\ r.row /\ r.fails < Threshold => r.en
           /\ r.en => r.fails < Threshold \/ r.fails = 1
           /\ r.ok => r.en
           /\ ~r.row => r.fails = 0 /\ ~r.ok /\ ~r.en
BY DEF RowOK, RowSet

\* The row of a node the database does not know.
LEMMA NoRowOK == RowOK(NoRow) /\ NoRow.fails = 0 /\ NoRow.age = OldAge /\ ~NoRow.en
<1>1. 0 \in 0..FailCap /\ OldAge \in 0..OldAge
  BY Numbers
<1>2. RowOK(Row(FALSE, FALSE, FALSE, 0, OldAge))
  BY <1>1, RowIsOK
<1>3. NoRow.fails = 0 /\ NoRow.age = OldAge /\ ~NoRow.en
  BY DEF NoRow, Row
<1> QED BY <1>2, <1>3 DEF NoRow

\* The fields of a cycle.
LEMMA CycleFields ==
    ASSUME NEW pc, NEW mem, NEW ver, NEW saved
    PROVE  /\ Cycle(pc, mem, ver, saved).pc = pc /\ Cycle(pc, mem, ver, saved).mem = mem
           /\ Cycle(pc, mem, ver, saved).ver = ver /\ Cycle(pc, mem, ver, saved).saved = saved
BY DEF Cycle

\* A verdict moves a count within its bounds.
LEMMA AppliedInRange ==
    ASSUME NEW f \in 0..FailCap, NEW v \in Answers
    PROVE  /\ Applied(f, v) \in 0..FailCap
           /\ v = "yes" => Applied(f, v) = 0
           /\ v = "none" => Applied(f, v) = f
           /\ v = "no" => Applied(f, v) = Min({f + 1, FailCap}) /\ Applied(f, v) >= 1
<1>1. Min({f + 1, FailCap}) = IF f + 1 <= FailCap THEN f + 1 ELSE FailCap
  BY Numbers, MinOfTwo
<1> QED BY <1>1, Numbers DEF Applied, Answers

-----------------------------------------------------------------------------
(* What a cycle schedules                                                  *)

\* A plan made of parts of the eligible nodes.
LEMMA FilledFrom ==
    ASSUME NEW m, NEW el, NEW o, o \subseteq el, NEW t1, t1 \subseteq o, NEW t2, t2 \subseteq el,
           NEW t3, t3 \subseteq el, NEW limit, NEW p \in Filled(m, el, o, t1, t2, t3, limit)
    PROVE  p.batch \subseteq el /\ p.left \subseteq el /\ (p.explored => p.left # {})
<1> DEFINE left == (el \ o) \ t2
           Plan(t4) == [batch |-> t1 \cup t2 \cup t3 \cup t4, el |-> el, due |-> o, t2 |-> t2,
                        explored |-> Cardinality(t1 \cup t2) < limit /\ left # {}, left |-> left]
<1>1. PICK t4 \in OldestFirst(m, o \ t1, limit - Cardinality(t1 \cup t2 \cup t3)) : p = Plan(t4)
  BY DEF Filled
<1>2. t4 \subseteq el
  BY DEF OldestFirst
<1>3. /\ Plan(t4).batch = t1 \cup t2 \cup t3 \cup t4 /\ Plan(t4).left = left
      /\ Plan(t4).explored = (Cardinality(t1 \cup t2) < limit /\ left # {})
  OBVIOUS
<1>4. p.batch \subseteq el /\ p.left \subseteq el
  BY <1>1, <1>2, <1>3
<1>5. p.explored => left # {}
  <2> HIDE DEF left
  <2> QED BY <1>1, <1>3, Zenon
<1>6. p.left = left
  BY <1>1, <1>3
<1> QED BY <1>4, <1>5, <1>6

\* Every batch of schedule_candidates is taken from the nodes it was given.
LEMMA BatchFromNodes ==
    ASSUME NEW st, NEW nodes, NEW limit, NEW p \in ScheduleCandidates(st, nodes, limit)
    PROVE  p.batch \subseteq nodes /\ p.left \subseteq nodes /\ (p.explored => p.left # {})
<1> DEFINE el == Eligible(st.cand, nodes)
<1>1. el \subseteq nodes
  BY DEF Eligible
<1>2. PICK o \in VerifiedOverdue(st.cand, el) : p \in Refreshed(st, el, o, limit)
  BY Zenon DEF ScheduleCandidates
<1>3. o \subseteq el
  BY <1>2 DEF VerifiedOverdue
<1>4. PICK t1 \in OldestFirst(st.cand, o, RefreshCeiling(limit, el, o)) : p \in Served(st, el, o, t1, limit)
  BY <1>2, Zenon DEF Refreshed
<1>5. t1 \subseteq o
  BY <1>4 DEF OldestFirst
<1> DEFINE room == Max({Cardinality(t1), DeficitCeiling(limit, el \ o)}) - Cardinality(t1)
<1>6. PICK t2 \in UNION {DeficitPicks(el \ o, d, room) : d \in Deficits(st.cand)} :
          p \in Explored(st, el, o, t1, t2, limit)
  BY <1>4, Zenon DEF Served
<1>7. PICK d \in Deficits(st.cand) : t2 \in DeficitPicks(el \ o, d, room)
  BY <1>6, Zenon
<1>8. t2 \subseteq el
  BY <1>7 DEF DeficitPicks
<1> DEFINE left == (el \ o) \ t2
           more == limit - Cardinality(t1 \cup t2)
<1>9. PICK t3 \in UNION {ExplorePicks(left, w, st.cur, more) : w \in [Sources -> Weights]} :
          p \in Filled(st.cand, el, o, t1, t2, t3, limit)
  BY <1>6, Zenon DEF Explored
<1>10. PICK w \in [Sources -> Weights] : t3 \in ExplorePicks(left, w, st.cur, more)
  BY <1>9, Zenon
<1>11. t3 \subseteq el
  BY <1>10 DEF ExplorePicks
<1>12. p.batch \subseteq el /\ p.left \subseteq el /\ (p.explored => p.left # {})
  <2> HIDE DEF el
  <2> QED BY <1>3, <1>5, <1>8, <1>9, <1>11, FilledFrom, Zenon
<1> QED BY <1>1, <1>12

\* A feed's nodes name their feed.
LEMMA NodesHaveSources ==
    ASSUME NEW answered, answered \subseteq Sources, NEW nodes \in Unique(FetchAllSources(answered))
    PROVE  \A r \in nodes : r.src \in Sources
<1>1. nodes \subseteq FetchAllSources(answered)
  BY DEF Unique
<1>2. ASSUME NEW r \in FetchAllSources(answered) PROVE r.src \in Sources
  <2>1. PICK s \in answered : r \in ParseNodes(s)
    BY <1>2, Zenon DEF FetchAllSources
  <2>2. PICK e : r = NodeOf(s, e)
    BY <2>1, Zenon DEF ParseNodes
  <2> QED BY <2>2 DEF NodeOf
<1> QED BY <1>1, <1>2

\* The cursor stays a number, because it is only moved over sources there are;
\* nothing else of the state moves with it.
LEMMA AdvanceKeeps ==
    ASSUME NEW st, MemoryOK(st), NEW plan, plan.explored => plan.left # {},
           \A r \in plan.left : r.src \in Sources
    PROVE  MemoryOK(Advance(st, plan)) /\ Advance(st, plan).cand = st.cand
<1>1. CASE ~plan.explored
  BY <1>1 DEF Advance
<1>2. CASE plan.explored
  <2> DEFINE list == SourceList(plan.left)
             len == Cardinality(list)
             cur == ((st.cur % len) + 1) % len
  <2>1. list \subseteq Sources /\ list # {}
    BY <1>2 DEF SourceList
  <2>2. len \in Nat /\ len # 0
    BY <2>1, Numbers, FS_Subset, FS_CardinalityType, FS_EmptySet
  <2>3. st.cur \in Nat /\ st.cand \in [Fps -> Metas] /\ \A n \in Fps : MetaOK(st.cand[n])
    BY MemoryTypes
  <2>4. st.cur % len \in Nat
    <3> HIDE DEF len
    <3> QED BY <2>2, <2>3
  <2>5. cur \in Nat
    <3> DEFINE c == st.cur % len
    <3> HIDE DEF len, c
    <3>1. (c + 1) % len \in Nat
      BY <2>2, <2>4 DEF c
    <3> QED BY <3>1 DEF c
  <2>6. Advance(st, plan) = Memory(st.cand, cur)
    BY <1>2 DEF Advance
  <2> HIDE DEF cur
  <2> QED BY <2>3, <2>5, <2>6, MemoryIsOK, MemoryFields
<1> QED BY <1>1, <1>2

\* Both calls of the scheduler leave the evidence alone, and only nodes the
\* feeds listed are probed.
LEMMA ChosenFacts ==
    ASSUME NEW st, MemoryOK(st), NEW nodes, \A r \in nodes : r.src \in Sources, NEW x \in Chosen(st, nodes)
    PROVE  MemoryOK(x.st) /\ x.st.cand = st.cand /\ x.targets \subseteq nodes
<1> DEFINE Pairs == {<<p.batch, Advance(st, p)>> : p \in ScheduleCandidates(st, nodes, Limit)}
           Second(y, alive) == {[st |-> y[2], targets |-> q.batch] :
                                 q \in ScheduleCandidates(y[2], alive, ProbeLimit)}
<1>1. PICK y \in Pairs : x \in UNION {Second(y, alive) : alive \in TcpAlive(y[1])}
  BY Zenon DEF Chosen
<1>2. PICK alive \in TcpAlive(y[1]) : x \in Second(y, alive)
  BY <1>1, Zenon
<1>3. PICK p \in ScheduleCandidates(st, nodes, Limit) : y = <<p.batch, Advance(st, p)>>
  BY <1>1
<1>4. PICK q \in ScheduleCandidates(y[2], alive, ProbeLimit) : x = [st |-> y[2], targets |-> q.batch]
  BY <1>2, Zenon
<1>5. y[1] = p.batch /\ y[2] = Advance(st, p)
  BY <1>3
<1>6. p.batch \subseteq nodes /\ p.left \subseteq nodes /\ (p.explored => p.left # {})
  BY <1>3, BatchFromNodes
<1>7. q.batch \subseteq alive
  BY <1>4, BatchFromNodes
<1>8. alive \subseteq p.batch
  BY <1>2, <1>5 DEF TcpAlive
<1>9. MemoryOK(Advance(st, p)) /\ Advance(st, p).cand = st.cand
  BY <1>6, AdvanceKeeps
<1>10. x.st = y[2] /\ x.targets = q.batch
  BY <1>4
<1> QED BY <1>5, <1>6, <1>7, <1>8, <1>9, <1>10

\* Verdicts are only about probed nodes.
LEMMA VerdictFacts ==
    ASSUME NEW targets, NEW v \in Verdicts(targets)
    PROVE  /\ v \in [Fps -> Answers]
           /\ \A n \in Fps : v[n] # "none" => \E r \in targets : r.fp = n
<1>1. v \in [Fps -> Answers]
  BY DEF Verdicts, Answers
<1>2. ASSUME NEW n \in Fps, v[n] # "none" PROVE \E r \in targets : r.fp = n
  <2>1. v[n] \in ProxyProbe(n \in {r.fp : r \in targets})
    BY Zenon DEF Verdicts
  <2>2. n \in {r.fp : r \in targets}
    BY <1>2, <2>1 DEF ProxyProbe
  <2> QED BY <2>2
<1> QED BY <1>1, <1>2

-----------------------------------------------------------------------------
(* The evidence a verdict leaves                                           *)

\* update_state counts a verdict the way the evidence does.
LEMMA UpdatedCounts ==
    ASSUME NEW m, MetaOK(m), NEW v \in Answers, NEW x \in Updated(m, v)
    PROVE  MetaOK(x) /\ x.fails = Applied(m.fails, v)
<1>0. m.fails \in 0..FailCap
  BY MetaTypes
<1>1. CASE v = "yes"
  <2>1. x = Meta("yes", 0, 0, 0)
    BY <1>1 DEF Updated
  <2>2. 0 \in 0..FailCap /\ 0 \in 0..MaxCool /\ 0 \in 0..OldAge /\ "yes" \in Answers
    BY Numbers DEF Answers
  <2>3. MetaOK(Meta("yes", 0, 0, 0))
    BY <2>2, MetaIsOK
  <2>4. Applied(m.fails, v) = 0
    BY <1>0, <1>1, AppliedInRange
  <2>5. Meta("yes", 0, 0, 0).fails = 0
    BY MetaFields
  <2> QED BY <2>1, <2>3, <2>4, <2>5
<1>2. CASE v = "no"
  <2> DEFINE f == Min({m.fails + 1, FailCap})
  <2>1. f = Applied(m.fails, v) /\ f \in 0..FailCap /\ f >= 1
    BY <1>0, <1>2, AppliedInRange
  <2>2. PICK c \in ComputeCooldown(f) : x = Meta("no", f, c, OldAge)
    BY <1>2 DEF Updated, Failed
  <2>3. c \in 0..MaxCool
    BY <2>2 DEF ComputeCooldown
  <2>4. OldAge \in 0..OldAge /\ "no" \in Answers
    BY Numbers DEF Answers
  <2> HIDE DEF f
  <2>5. MetaOK(Meta("no", f, c, OldAge))
    BY <2>1, <2>3, <2>4, MetaIsOK
  <2> QED BY <2>1, <2>2, <2>5, MetaFields
<1>3. CASE v = "none"
  BY <1>0, <1>3, AppliedInRange DEF Updated
<1> QED BY <1>1, <1>2, <1>3 DEF Answers

\* So does the whole of update_state; what it prunes starts from nothing.
LEMMA UpdateFacts ==
    ASSUME NEW st, MemoryOK(st), NEW v \in [Fps -> Answers], NEW pruned, NEW new \in UpdateState(st, v, pruned)
    PROVE  /\ MemoryOK(new)
           /\ \A n \in Fps : new.cand[n].fails = IF n \in pruned THEN 0 ELSE Applied(st.cand[n].fails, v[n])
<1>1. PICK c : /\ new = Memory(c, st.cur)
               /\ c \in [Fps -> UNION {Updated(st.cand[n], v[n]) : n \in Fps} \cup {Never}]
               /\ \A n \in Fps : IF n \in pruned THEN c[n] = Never ELSE c[n] \in Updated(st.cand[n], v[n])
  BY DEF UpdateState
<1>2. st.cur \in Nat /\ \A n \in Fps : MetaOK(st.cand[n])
  BY MemoryTypes
<1>3. ASSUME NEW n \in Fps
      PROVE  /\ MetaOK(c[n])
             /\ c[n].fails = IF n \in pruned THEN 0 ELSE Applied(st.cand[n].fails, v[n])
  <2>1. CASE n \in pruned
    BY <1>1, <2>1, NeverOK
  <2>2. CASE n \notin pruned
    <3>1. c[n] \in Updated(st.cand[n], v[n]) /\ MetaOK(st.cand[n]) /\ v[n] \in Answers
      BY <1>1, <1>2, <2>2
    <3>2. MetaOK(c[n]) /\ c[n].fails = Applied(st.cand[n].fails, v[n])
      BY <3>1, UpdatedCounts
    <3> QED BY <2>2, <3>2
  <2> QED BY <2>1, <2>2
<1>4. c \in [Fps -> Metas]
  BY <1>1, <1>3 DEF MetaOK
<1>5. MemoryOK(Memory(c, st.cur)) /\ Memory(c, st.cur).cand = c
  BY <1>2, <1>3, <1>4, MemoryIsOK, MemoryFields
<1> QED BY <1>1, <1>3, <1>5

\* A probe's own evidence.
LEMMA WitnessFacts ==
    ASSUME NEW v \in [Fps -> Answers], Witness(v),
           \A n \in Fps : proof[n] \in 0..OldAge /\ ev[n] \in 0..FailCap
    PROVE  \A n \in Fps : /\ proof'[n] \in 0..OldAge /\ ev'[n] \in 0..FailCap
                          /\ ev'[n] = Applied(ev[n], v[n]) /\ proof'[n] <= proof[n]
                          /\ v[n] = "yes" => proof'[n] = 0 /\ ev'[n] = 0
<1> SUFFICES ASSUME NEW n \in Fps
             PROVE  /\ proof'[n] \in 0..OldAge /\ ev'[n] \in 0..FailCap
                    /\ ev'[n] = Applied(ev[n], v[n]) /\ proof'[n] <= proof[n]
                    /\ v[n] = "yes" => proof'[n] = 0 /\ ev'[n] = 0
  OBVIOUS
<1>1. proof'[n] = IF v[n] = "yes" THEN 0 ELSE proof[n]
  BY DEF Witness
<1>2. ev'[n] = CASE v[n] = "yes"  -> 0
                 [] v[n] = "no"   -> Min({ev[n] + 1, FailCap})
                 [] v[n] = "none" -> ev[n]
  BY DEF Witness
<1>3. v[n] \in Answers /\ proof[n] \in 0..OldAge /\ ev[n] \in 0..FailCap
  OBVIOUS
<1>4. ev'[n] = Applied(ev[n], v[n])
  BY <1>2, <1>3, AppliedInRange DEF Answers
<1>5. Applied(ev[n], v[n]) \in 0..FailCap /\ (v[n] = "yes" => Applied(ev[n], v[n]) = 0)
  BY <1>3, AppliedInRange
<1> QED BY <1>1, <1>3, <1>4, <1>5, Numbers

\* The upsert of a node counts its verdict likewise; the row's last success
\* is older than before, or now, and a row that is enabled is below the
\* threshold or has failed its first probe.
LEMMA UpsertFacts ==
    ASSUME NEW r, RowOK(r), NEW v \in Answers
    PROVE  /\ RowOK(UpsertNode(r, v))
           /\ UpsertNode(r, v).fails = Applied(r.fails, v)
           /\ v # "yes" => UpsertNode(r, v).age >= r.age
<1>0. /\ r.row \in BOOLEAN /\ r.ok \in BOOLEAN /\ r.en \in BOOLEAN
      /\ r.fails \in 0..FailCap /\ r.age \in 0..OldAge
      /\ r.row /\ r.fails < Threshold => r.en
      /\ r.en => r.fails < Threshold \/ r.fails = 1
      /\ r.ok => r.en
      /\ ~r.row => r.fails = 0 /\ ~r.ok /\ ~r.en
  BY RowTypes
<1>z. 0 \in 0..FailCap /\ 1 \in 0..FailCap /\ 0 \in 0..OldAge /\ OldAge \in 0..OldAge /\ 0 < Threshold
  BY Numbers
<1>1. CASE v = "yes"
  <2>1. UpsertNode(r, v) = Row(TRUE, TRUE, TRUE, 0, 0)
    BY <1>1 DEF UpsertNode
  <2>2. RowOK(Row(TRUE, TRUE, TRUE, 0, 0))
    BY <1>z, RowIsOK
  <2>3. Applied(r.fails, v) = 0
    BY <1>0, <1>1, AppliedInRange
  <2>4. Row(TRUE, TRUE, TRUE, 0, 0).fails = 0
    BY DEF Row
  <2> QED BY <1>1, <2>1, <2>2, <2>3, <2>4
<1>2. CASE v = "none"
  <2>1. UpsertNode(r, v) = r
    BY <1>2 DEF UpsertNode
  <2>2. Applied(r.fails, v) = r.fails
    BY <1>0, <1>2, AppliedInRange
  <2>3. r.age >= r.age
    BY <1>0, Numbers
  <2> QED BY <2>1, <2>2, <2>3
<1>3. CASE v = "no" /\ ~r.row
  <2>1. UpsertNode(r, v) = Row(TRUE, FALSE, TRUE, 1, OldAge)
    BY <1>0, <1>3 DEF UpsertNode
  <2>2. RowOK(Row(TRUE, FALSE, TRUE, 1, OldAge))
    BY <1>z, RowIsOK
  <2>3. Applied(r.fails, v) = 1
    BY <1>0, <1>3, Numbers DEF Applied
  <2>4. Row(TRUE, FALSE, TRUE, 1, OldAge).fails = 1 /\ Row(TRUE, FALSE, TRUE, 1, OldAge).age = OldAge
    BY DEF Row
  <2>5. OldAge >= r.age
    BY <1>0, Numbers
  <2> QED BY <2>1, <2>2, <2>3, <2>4, <2>5
<1>4. CASE v = "no" /\ r.row
  <2> DEFINE ok == r.ok /\ r.fails + 1 < Threshold
             en == r.en /\ r.fails + 1 < Threshold
             fails == Min({r.fails + 1, FailCap})
  <2>1. UpsertNode(r, v) = Row(TRUE, ok, en, fails, r.age)
    BY <1>0, <1>4 DEF UpsertNode
  <2>2. fails = Applied(r.fails, v) /\ fails \in 0..FailCap
    BY <1>0, <1>4, AppliedInRange
  <2>3. fails = IF r.fails + 1 <= FailCap THEN r.fails + 1 ELSE FailCap
    BY <1>0, Numbers, MinOfTwo
  <2>4. Threshold <= FailCap
    BY CollectorAssumption
  <2>5. fails < Threshold => r.fails + 1 < Threshold
    <3> HIDE DEF fails
    <3> QED BY <2>3, <2>4, <1>0, Numbers
  <2>6. r.fails + 1 < Threshold => fails < Threshold
    <3> HIDE DEF fails
    <3> QED BY <2>3, <2>4, <1>0, Numbers
  <2>7. ok \in BOOLEAN /\ en \in BOOLEAN
    OBVIOUS
  <2>8. fails < Threshold => en
    <3> SUFFICES ASSUME fails < Threshold PROVE en
      OBVIOUS
    <3>1. r.fails + 1 < Threshold
      BY <2>5
    <3>2. r.en
      BY <1>0, <1>4, <3>1, Numbers
    <3> QED BY <3>1, <3>2
  <2>9. en => fails < Threshold
    BY <2>6
  <2>10. ok => en
    BY <1>0
  <2> HIDE DEF ok, en, fails
  <2>11. RowOK(Row(TRUE, ok, en, fails, r.age))
    BY <1>0, <2>2, <2>7, <2>8, <2>9, <2>10, RowIsOK
  <2>12. Row(TRUE, ok, en, fails, r.age).fails = fails /\ Row(TRUE, ok, en, fails, r.age).age = r.age
    BY DEF Row
  <2>13. r.age >= r.age
    BY <1>0, Numbers
  <2> QED BY <2>1, <2>2, <2>11, <2>12, <2>13
<1> QED BY <1>0, <1>1, <1>2, <1>3, <1>4 DEF Answers

-----------------------------------------------------------------------------
(* One step                                                                *)

\* The file read at the start of a cycle is well formed, and all that a node
\* that lost nothing has against it.
LEMMA LoadFacts ==
    ASSUME CollectorInv, run.pc = "idle", NEW readable \in BOOLEAN
    PROVE  /\ MemoryOK(LoadState(readable))
           /\ \A n \in Fps \ lost : readable \/ file.cand[n] = Never => LoadState(readable).cand[n].fails = ev[n]
<1>1. MemoryOK(file) /\ \A n \in Fps \ lost : file.cand[n].fails = ev[n]
  BY DEF CollectorInv, TypesOK, SameEvidence
<1>2. CASE readable
  BY <1>1, <1>2 DEF LoadState
<1>3. CASE ~readable
  BY <1>1, <1>3, InitMemory, NeverOK DEF LoadState
<1> QED BY <1>2, <1>3

\* What a cycle's probes leave, if what it knows of the nodes without losses
\* matches the evidence.
LEMMA ProbedStep ==
    ASSUME CollectorInv, run.pc = "idle", NEW pc \in {"save", "upsert"}, NEW mem, NEW v \in [Fps -> Answers],
           run' = Cycle(pc, mem, v, FALSE), Witness(v), pc = "save" => MemoryOK(mem),
           UNCHANGED <<file, db, grp, alert, since, told>>, lost \subseteq lost', lost' \subseteq Fps,
           pc = "save" => \A n \in Fps : v[n] = "yes" => mem.cand[n].fails = 0,
           pc = "save" => \A n \in Fps \ lost' : mem.cand[n].fails = Applied(ev[n], v[n]),
           pc = "upsert" => \A n \in Fps \ lost' : v[n] = "none"
    PROVE  CollectorInv'
<1>1. /\ run'.pc = pc /\ run'.mem = mem /\ run'.ver = v /\ run'.saved = FALSE
  BY DEF Cycle
<1>2. \A n \in Fps : proof[n] \in 0..OldAge /\ ev[n] \in 0..FailCap /\ RowOK(db[n]) /\ proof[n] <= db[n].age
  BY DEF CollectorInv, TypesOK, ProofOK
<1>3. \A n \in Fps : /\ proof'[n] \in 0..OldAge /\ ev'[n] \in 0..FailCap
                     /\ ev'[n] = Applied(ev[n], v[n]) /\ proof'[n] <= proof[n]
                     /\ v[n] = "yes" => proof'[n] = 0 /\ ev'[n] = 0
  BY <1>2, WitnessFacts
<1>4. TypesOK'
  <2>1. RunOK'
    BY <1>1 DEF RunOK, Pcs
  <2> QED BY <2>1, <1>3 DEF CollectorInv, TypesOK
<1>5. ProofOK'
  <2>1. ASSUME NEW n \in Fps PROVE proof'[n] <= db[n].age
    <3>1. db[n].age \in 0..OldAge
      BY <1>2, RowTypes
    <3> QED BY <1>2, <1>3, <3>1, Numbers
  <2> QED BY <2>1, <1>1, <1>3 DEF ProofOK
<1>6. FeedOK'
  BY DEF CollectorInv, FeedOK, DirectPoolFeed
<1>7. StarvedIsAlerted'
  BY <1>1 DEF StarvedIsAlerted
<1>8. ASSUME NEW n \in Fps \ lost' PROVE SameEvidence(n)'
  <2>1. file.cand[n].fails = ev[n] /\ db[n].fails = ev[n]
    BY DEF CollectorInv, SameEvidence
  <2>2. v[n] = "none" => Applied(ev[n], v[n]) = ev[n]
    BY <1>2, AppliedInRange
  <2> QED BY <2>1, <2>2, <1>1, <1>3 DEF SameEvidence
<1> QED BY <1>4, <1>5, <1>6, <1>7, <1>8 DEF CollectorInv

\* A cycle with the scheduler.
LEMMA CollectStep ==
    ASSUME CollectorInv, NEW readable \in BOOLEAN, Collect(readable) PROVE CollectorInv'
<1> DEFINE st == LoadState(readable)
<1>1. run.pc = "idle" /\ UNCHANGED <<file, db, grp, alert, since, told>>
  BY DEF Collect
<1>2. PICK answered \in SUBSET Sources : \E nodes \in Unique(FetchAllSources(answered)) :
         \E x \in Chosen(st, nodes) :
         \E v \in Verdicts(x.targets), pruned \in {{}, Prunable(x.st.cand, nodes)} :
         \E new \in UpdateState(x.st, v, pruned) :
            /\ run' = Cycle("save", new, v, FALSE) /\ Witness(v)
            /\ lost' = lost \cup Forgotten(readable, x.st.cand, pruned)
  BY Zenon DEF Collect
<1>3. PICK nodes \in Unique(FetchAllSources(answered)) :
         \E x \in Chosen(st, nodes) :
         \E v \in Verdicts(x.targets), pruned \in {{}, Prunable(x.st.cand, nodes)} :
         \E new \in UpdateState(x.st, v, pruned) :
            /\ run' = Cycle("save", new, v, FALSE) /\ Witness(v)
            /\ lost' = lost \cup Forgotten(readable, x.st.cand, pruned)
  BY <1>2, Zenon
<1>4. PICK x \in Chosen(st, nodes) :
         \E v \in Verdicts(x.targets), pruned \in {{}, Prunable(x.st.cand, nodes)} :
         \E new \in UpdateState(x.st, v, pruned) :
            /\ run' = Cycle("save", new, v, FALSE) /\ Witness(v)
            /\ lost' = lost \cup Forgotten(readable, x.st.cand, pruned)
  BY <1>3, Zenon
<1>5. PICK v \in Verdicts(x.targets), pruned \in {{}, Prunable(x.st.cand, nodes)} :
         \E new \in UpdateState(x.st, v, pruned) :
            /\ run' = Cycle("save", new, v, FALSE) /\ Witness(v)
            /\ lost' = lost \cup Forgotten(readable, x.st.cand, pruned)
  BY <1>4, Zenon
<1>6. PICK new \in UpdateState(x.st, v, pruned) :
            /\ run' = Cycle("save", new, v, FALSE) /\ Witness(v)
            /\ lost' = lost \cup Forgotten(readable, x.st.cand, pruned)
  BY <1>5, Zenon
<1>7. MemoryOK(st) /\ \A n \in Fps \ lost : readable \/ file.cand[n] = Never => st.cand[n].fails = ev[n]
  BY <1>1, LoadFacts
<1>8. \A r \in nodes : r.src \in Sources
  BY <1>2, <1>3, NodesHaveSources
<1> HIDE DEF st
<1>9. MemoryOK(x.st) /\ x.st.cand = st.cand /\ x.targets \subseteq nodes
  BY <1>4, <1>7, <1>8, ChosenFacts
<1>10. v \in [Fps -> Answers] /\ \A n \in Fps : v[n] # "none" => \E r \in x.targets : r.fp = n
  BY <1>5, VerdictFacts
<1>11. pruned \subseteq Fps /\ \A n \in pruned : v[n] = "none"
  <2>1. \A n \in Prunable(x.st.cand, nodes) : n \in Fps /\ \A r \in nodes : r.fp # n
    BY DEF Prunable
  <2> QED BY <2>1, <1>5, <1>9, <1>10
<1>12. /\ MemoryOK(new)
       /\ \A n \in Fps : new.cand[n].fails = IF n \in pruned THEN 0 ELSE Applied(st.cand[n].fails, v[n])
  BY <1>6, <1>9, <1>10, UpdateFacts
<1>13. \A n \in Fps : st.cand[n].fails \in 0..FailCap /\ ev[n] \in 0..FailCap
  BY <1>7, MemoryTypes, MetaTypes DEF CollectorInv, TypesOK
<1>14. ASSUME NEW n \in Fps, v[n] = "yes" PROVE new.cand[n].fails = 0
  <2>1. n \notin pruned /\ Applied(st.cand[n].fails, v[n]) = 0
    BY <1>11, <1>13, <1>14, <1>10, AppliedInRange
  <2> QED BY <2>1, <1>12
<1>15. lost \subseteq lost' /\ lost' \subseteq Fps
  BY <1>6, <1>11 DEF CollectorInv, TypesOK, Forgotten
<1>16. ASSUME NEW n \in Fps \ lost' PROVE new.cand[n].fails = Applied(ev[n], v[n])
  <2>1. n \notin lost /\ (readable \/ file.cand[n] = Never) /\ (n \in pruned => ~(x.st.cand[n].fails > 0))
    BY <1>6 DEF Forgotten
  <2>2. st.cand[n].fails = ev[n]
    BY <1>7, <2>1
  <2>3. CASE n \notin pruned
    BY <1>12, <2>2, <2>3
  <2>4. CASE n \in pruned
    <3>1. st.cand[n].fails = 0 /\ new.cand[n].fails = 0
      BY <2>1, <2>4, <1>9, <1>12, <1>13
    <3>2. Applied(ev[n], v[n]) = ev[n]
      BY <1>10, <1>11, <1>13, <2>4, AppliedInRange
    <3> QED BY <2>2, <3>1, <3>2
  <2> QED BY <2>3, <2>4
<1> QED BY <1>1, <1>6, <1>10, <1>12, <1>14, <1>15, <1>16, ProbedStep

\* A cycle without it: whatever it tests is news to the file.
LEMMA UnscheduledStep ==
    ASSUME CollectorInv, CollectUnscheduled PROVE CollectorInv'
<1>1. PICK targets : \E v \in Verdicts(targets) :
         run' = Cycle("upsert", InitSchedulerState, v, FALSE) /\ Witness(v) /\ lost' = lost \cup Tested(v)
  BY Zenon DEF CollectUnscheduled
<1>2. PICK v \in Verdicts(targets) :
         run' = Cycle("upsert", InitSchedulerState, v, FALSE) /\ Witness(v) /\ lost' = lost \cup Tested(v)
  BY <1>1, Zenon
<1>3. run.pc = "idle" /\ UNCHANGED <<file, db, grp, alert, since, told>>
  BY DEF CollectUnscheduled
<1>4. v \in [Fps -> Answers]
  BY <1>2, VerdictFacts
<1>5. lost \subseteq lost' /\ lost' \subseteq Fps /\ \A n \in Fps \ lost' : v[n] = "none"
  BY <1>2 DEF Tested, CollectorInv, TypesOK
<1> QED BY <1>2, <1>3, <1>4, <1>5, ProbedStep

\* The save, or its failure.
LEMMA SaveStep ==
    ASSUME CollectorInv, NEW ok \in BOOLEAN, SaveState(ok) PROVE CollectorInv'
<1>1. /\ run.pc = "save" /\ run' = Cycle("upsert", InitSchedulerState, run.ver, ok)
      /\ file' = (IF ok THEN run.mem ELSE file)
      /\ lost' = (IF ok THEN lost ELSE lost \cup Tested(run.ver))
      /\ UNCHANGED <<db, grp, alert, since, proof, ev, told>>
  BY DEF SaveState
<1>2. run'.pc = "upsert" /\ run'.ver = run.ver /\ run'.saved = ok
  BY <1>1 DEF Cycle
<1>3. /\ MemoryOK(file) /\ MemoryOK(run.mem) /\ run.ver \in [Fps -> Answers] /\ lost \subseteq Fps
      /\ \A n \in Fps : RowOK(db[n])
  BY <1>1 DEF CollectorInv, TypesOK, RunOK
<1>4. TypesOK'
  <2>1. MemoryOK(file')
    BY <1>1, <1>3
  <2>2. RunOK'
    BY <1>2, <1>3 DEF RunOK, Pcs
  <2>3. lost' \subseteq Fps
    BY <1>1, <1>3 DEF Tested
  <2> QED BY <2>1, <2>2, <2>3, <1>1 DEF CollectorInv, TypesOK
<1>5. ProofOK'
  <2>1. ASSUME NEW n \in Fps, run.ver[n] = "yes"
        PROVE  proof[n] = 0 /\ ev[n] = 0 /\ run.mem.cand[n].fails = 0
    BY <1>1, <2>1 DEF CollectorInv, ProofOK
  <2>2. \A n \in Fps : proof[n] <= db[n].age
    BY DEF CollectorInv, ProofOK
  <2> QED BY <2>1, <2>2, <1>1, <1>2 DEF ProofOK
<1>6. FeedOK'
  BY <1>1 DEF CollectorInv, FeedOK, DirectPoolFeed
<1>7. StarvedIsAlerted'
  BY <1>2 DEF StarvedIsAlerted
<1>8. ASSUME NEW n \in Fps \ lost' PROVE SameEvidence(n)'
  <2>1. n \notin lost
    BY <1>1
  <2>2. /\ run.mem.cand[n].fails = ev[n] /\ Applied(db[n].fails, run.ver[n]) = ev[n]
        /\ run.ver[n] = "none" => file.cand[n].fails = ev[n]
    BY <2>1, <1>1 DEF CollectorInv, SameEvidence
  <2>3. file'.cand[n].fails = ev[n]
    BY <1>1, <2>2 DEF Tested
  <2> QED BY <2>2, <2>3, <1>1, <1>2 DEF SameEvidence
<1> QED BY <1>4, <1>5, <1>6, <1>7, <1>8 DEF CollectorInv

\* At rest, and after a commit, no verdicts are under way.
LEMMA RestFields ==
    /\ AtRest.pc = "idle" /\ AtRest.ver = Untested /\ Untested \in [Fps -> Answers]
    /\ \A pc : /\ Cycle(pc, InitSchedulerState, Untested, FALSE).pc = pc
               /\ Cycle(pc, InitSchedulerState, Untested, FALSE).ver = Untested
BY DEF AtRest, Cycle, Untested, Answers

\* A death: the verdicts the cycle had in hand are lost.
LEMMA DieStep ==
    ASSUME CollectorInv, Die PROVE CollectorInv'
<1>1. /\ run.pc # "idle" /\ run' = AtRest /\ told' = FALSE
      /\ lost' = (IF run.pc = "alert" THEN lost ELSE lost \cup Tested(run.ver))
      /\ UNCHANGED <<file, db, grp, alert, since, proof, ev>>
  BY DEF Die
<1>2. run'.pc = "idle" /\ run'.ver = Untested /\ Untested \in [Fps -> Answers]
  BY <1>1, RestFields
<1>3. run.pc \in Pcs /\ run.ver \in [Fps -> Answers] /\ lost \subseteq Fps /\ \A n \in Fps : RowOK(db[n])
  BY DEF CollectorInv, TypesOK, RunOK
<1>4. TypesOK'
  <2>1. RunOK'
    BY <1>2 DEF RunOK, Pcs
  <2>2. lost' \subseteq Fps
    BY <1>1, <1>3 DEF Tested
  <2> QED BY <2>1, <2>2, <1>1 DEF CollectorInv, TypesOK
<1>5. ProofOK'
  BY <1>1, <1>2 DEF CollectorInv, ProofOK
<1>6. FeedOK'
  BY <1>1 DEF CollectorInv, FeedOK, DirectPoolFeed
<1>7. StarvedIsAlerted'
  BY <1>1 DEF StarvedIsAlerted
<1>8. ASSUME NEW n \in Fps \ lost' PROVE SameEvidence(n)'
  <2>1. n \notin lost
    BY <1>1
  <2>2. CASE run.pc = "alert"
    BY <2>1, <2>2, <1>1, <1>2 DEF CollectorInv, SameEvidence
  <2>3. CASE run.pc \in {"save", "upsert"}
    <3>1. run.ver[n] = "none"
      BY <1>1, <2>3 DEF Tested
    <3>2. db[n].fails \in 0..FailCap
      BY <1>3, RowTypes
    <3>3. Applied(db[n].fails, run.ver[n]) = db[n].fails
      BY <1>3, <3>1, <3>2, AppliedInRange
    <3>4. file.cand[n].fails = ev[n] /\ db[n].fails = ev[n]
      BY <2>1, <2>3, <3>1, <3>3 DEF CollectorInv, SameEvidence
    <3> QED BY <3>4, <1>1, <1>2 DEF SameEvidence
  <2> QED BY <2>2, <2>3, <1>1, <1>3 DEF Pcs
<1> QED BY <1>4, <1>5, <1>6, <1>7, <1>8 DEF CollectorInv

\* The transaction.  The database has learnt the cycle's verdicts; a node that
\* answered has no failures left for anyone to have lost.
LEMMA UpsertStep ==
    ASSUME CollectorInv, UpsertNodes PROVE CollectorInv'
<1> DEFINE rows == [n \in Fps |-> UpsertNode(db[n], run.ver[n])]
           known == IF run.saved THEN {n \in Fps : run.ver[n] = "yes"} ELSE {}
<1>1. /\ run.pc = "upsert" /\ run' = Cycle("alert", InitSchedulerState, Untested, FALSE) /\ since' = 0
      /\ UNCHANGED <<file, alert, proof, ev, told>>
  BY DEF UpsertNodes
<1>2. PICK purged \in {{}, Purgeable(rows)} :
         /\ db' = [n \in Fps |-> IF n \in purged THEN NoRow ELSE rows[n]]
         /\ grp' \in Rebuilt(rows)
         /\ lost' = (lost \ known) \cup purged
  BY DEF UpsertNodes
<1>3. run'.pc = "alert" /\ run'.ver = Untested /\ Untested \in [Fps -> Answers]
  BY <1>1, RestFields
<1>4. purged \subseteq Fps
  BY <1>2 DEF Purgeable
<1>5. ASSUME NEW n \in Fps
      PROVE  /\ RowOK(rows[n]) /\ rows[n].fails = Applied(db[n].fails, run.ver[n])
             /\ run.ver[n] # "yes" => rows[n].age >= db[n].age
             /\ run.ver[n] \in Answers /\ db[n].fails \in 0..FailCap /\ db[n].age \in 0..OldAge
             /\ proof[n] \in 0..OldAge /\ proof[n] <= db[n].age
             /\ run.ver[n] = "yes" => proof[n] = 0 /\ ev[n] = 0 /\ (run.saved => file.cand[n].fails = 0)
  <2>1. RowOK(db[n]) /\ run.ver[n] \in Answers /\ proof[n] \in 0..OldAge
    BY DEF CollectorInv, TypesOK, RunOK
  <2>2. rows[n] = UpsertNode(db[n], run.ver[n])
    OBVIOUS
  <2>3. db[n].fails \in 0..FailCap /\ db[n].age \in 0..OldAge
    BY <2>1, RowTypes
  <2>4. /\ proof[n] <= db[n].age
        /\ run.ver[n] = "yes" => proof[n] = 0 /\ ev[n] = 0 /\ (run.saved => file.cand[n].fails = 0)
    BY <1>1 DEF CollectorInv, ProofOK
  <2> HIDE DEF rows
  <2> QED BY <2>1, <2>2, <2>3, <2>4, UpsertFacts
<1>6. ASSUME NEW n \in Fps PROVE db'[n] = IF n \in purged THEN NoRow ELSE rows[n]
  BY <1>2
<1> HIDE DEF rows
<1>7. ASSUME NEW n \in Fps PROVE RowOK(db'[n]) /\ proof[n] <= db'[n].age
  <2>1. CASE n \in purged
    BY <2>1, <1>5, <1>6, NoRowOK, Numbers
  <2>2. CASE n \notin purged
    <3>1. rows[n].age \in 0..OldAge
      BY <1>5, RowTypes
    <3> QED BY <2>2, <3>1, <1>5, <1>6, Numbers
  <2> QED BY <2>1, <2>2
<1>8. TypesOK'
  <2>1. RunOK'
    BY <1>3 DEF RunOK, Pcs
  <2>2. lost' \subseteq Fps
    BY <1>2, <1>4 DEF CollectorInv, TypesOK
  <2>3. grp' \in [Groups -> SUBSET Fps]
    BY <1>2 DEF Rebuilt, Healthy
  <2> QED BY <2>1, <2>2, <2>3, <1>1, <1>7 DEF CollectorInv, TypesOK
<1>9. ProofOK'
  BY <1>1, <1>3, <1>7 DEF ProofOK
<1>10. FeedOK'
  <2>1. ASSUME NEW n \in grp'["all"], db'[n].en PROVE n \in Fps /\ db'[n].age <= HealthTTL + 0
    <3>1. n \in Fps /\ rows[n].age <= HealthTTL
      BY <2>1, <1>2, Numbers DEF Rebuilt, Healthy
    <3>2. n \notin purged
      BY <2>1, <3>1, <1>6, NoRowOK
    <3>3. rows[n].age \in Nat
      BY <3>1, <1>5, RowTypes
    <3> QED BY <3>1, <3>2, <3>3, <1>6, Numbers
  <2> QED BY <2>1, <1>1 DEF FeedOK, DirectPoolFeed
<1>11. StarvedIsAlerted'
  BY <1>3 DEF StarvedIsAlerted
<1>12. ASSUME NEW n \in Fps \ lost' PROVE SameEvidence(n)'
  <2>1. n \notin purged /\ (n \notin lost \/ n \in known)
    BY <1>2
  <2>2. file.cand[n].fails = ev[n] /\ Applied(db[n].fails, run.ver[n]) = ev[n]
    <3>1. CASE n \notin lost
      BY <3>1, <1>1 DEF CollectorInv, SameEvidence
    <3>2. CASE n \in known
      <4>1. run.saved /\ run.ver[n] = "yes"
        BY <3>2
      <4>2. Applied(db[n].fails, run.ver[n]) = 0
        BY <4>1, <1>5, AppliedInRange
      <4> QED BY <4>1, <4>2, <1>5
    <3> QED BY <2>1, <3>1, <3>2
  <2>3. db'[n].fails = ev[n]
    BY <2>1, <2>2, <1>5, <1>6
  <2> QED BY <2>2, <2>3, <1>1, <1>3 DEF SameEvidence
<1> QED BY <1>8, <1>9, <1>10, <1>11, <1>12 DEF CollectorInv

\* The alert is the cycle's last step; when it got through, it named every
\* starved group, or an earlier one had.
LEMMA AlertStep ==
    ASSUME CollectorInv, NEW reached \in BOOLEAN, SendGroupStarvationAlert(reached) PROVE CollectorInv'
<1>1. /\ run.pc = "alert" /\ run' = AtRest /\ told' = reached
      /\ alert' = (IF Starved = {} THEN NoAlert
                   ELSE IF Suppressed(Starved) \/ ~reached THEN alert
                   ELSE [sent |-> 0, groups |-> Starved])
      /\ UNCHANGED <<file, db, grp, since, proof, ev, lost>>
  BY DEF SendGroupStarvationAlert
<1>2. run'.pc = "idle" /\ run'.ver = Untested /\ Untested \in [Fps -> Answers]
  BY <1>1, RestFields
<1>3. TypesOK'
  <2>1. RunOK'
    BY <1>2 DEF RunOK, Pcs
  <2> QED BY <2>1, <1>1 DEF CollectorInv, TypesOK
<1>4. ProofOK'
  BY <1>1, <1>2 DEF CollectorInv, ProofOK
<1>5. FeedOK'
  BY <1>1 DEF CollectorInv, FeedOK, DirectPoolFeed
<1>6. StarvedIsAlerted'
  <2>1. Starved' = Starved
    BY <1>1 DEF Starved, GroupHealthSnapshot
  <2>2. ASSUME reached PROVE Starved \subseteq alert'.groups
    <3>1. CASE Starved = {}
      BY <3>1
    <3>2. CASE Starved # {} /\ Suppressed(Starved)
      BY <3>2, <1>1 DEF Suppressed
    <3>3. CASE Starved # {} /\ ~Suppressed(Starved)
      <4>1. alert' = [sent |-> 0, groups |-> Starved]
        BY <3>3, <2>2, <1>1
      <4> QED BY <4>1
    <3> QED BY <3>1, <3>2, <3>3
  <2> QED BY <2>1, <2>2, <1>1 DEF StarvedIsAlerted
<1>7. ASSUME NEW n \in Fps \ lost' PROVE SameEvidence(n)'
  BY <1>1, <1>2 DEF CollectorInv, SameEvidence
<1> QED BY <1>3, <1>4, <1>5, <1>6, <1>7 DEF CollectorInv

\* An hour passes: nothing grows older faster than the time since a commit.
LEMMA TickStep ==
    ASSUME CollectorInv, Tick PROVE CollectorInv'
<1> DEFINE aged == [n \in Fps |-> OlderMeta(file.cand[n])]
<1>1. /\ run.pc = "idle" /\ told' = FALSE
      /\ file' = Memory(aged, file.cur)
      /\ db' = [n \in Fps |-> OlderRow(db[n])]
      /\ since' = Min({since + 1, MaxSince})
      /\ proof' = [n \in Fps |-> Older(proof[n])]
      /\ UNCHANGED <<grp, run, ev, lost>>
  BY DEF Tick
<1>2. since \in Nat /\ MemoryOK(file)
  BY DEF CollectorInv, TypesOK
<1>3. since' = IF since + 1 <= MaxSince THEN since + 1 ELSE MaxSince
  BY <1>1, <1>2, Numbers, MinOfTwo
<1>4. \A a \in 0..OldAge : Older(a) \in 0..OldAge /\ Older(a) <= a + 1 /\ \A b \in 0..a : Older(b) <= Older(a)
  BY Numbers DEF Older
<1>5. ASSUME NEW n \in Fps PROVE MetaOK(aged[n]) /\ aged[n].fails = file.cand[n].fails
  <2> DEFINE m == file.cand[n]
             cool == IF m.cool = 0 THEN 0 ELSE m.cool - 1
  <2>1. MetaOK(m)
    BY <1>2, MemoryTypes
  <2>2. aged[n] = Meta(m.ok, m.fails, cool, Older(m.age))
    BY DEF OlderMeta
  <2> HIDE DEF m
  <2>3. /\ m.ok \in Answers /\ m.fails \in 0..FailCap /\ m.cool \in 0..MaxCool /\ m.age \in 0..OldAge
        /\ m.fails > 0 <=> m.ok = "no"
        /\ m.cool > 0 => m.ok = "no"
    BY <2>1, MetaTypes
  <2>4. cool \in 0..MaxCool /\ (cool > 0 => m.ok = "no") /\ Older(m.age) \in 0..OldAge
    BY <2>3, <1>4, Numbers
  <2> HIDE DEF cool, aged
  <2>5. MetaOK(Meta(m.ok, m.fails, cool, Older(m.age)))
    BY <2>3, <2>4, MetaIsOK
  <2>6. Meta(m.ok, m.fails, cool, Older(m.age)).fails = m.fails
    BY MetaFields
  <2> QED BY <2>2, <2>5, <2>6 DEF m
<1>6. MemoryOK(file') /\ file'.cand = aged
  <2>1. aged \in [Fps -> Metas]
    BY <1>5 DEF MetaOK
  <2>2. file.cur \in Nat
    BY <1>2, MemoryTypes
  <2> HIDE DEF aged
  <2> QED BY <1>1, <1>5, <2>1, <2>2, MemoryIsOK, MemoryFields
<1>7. ASSUME NEW n \in Fps
      PROVE  /\ RowOK(db'[n]) /\ db'[n].fails = db[n].fails /\ db'[n].age = Older(db[n].age)
             /\ db'[n].en = db[n].en /\ db'[n].ok = db[n].ok /\ db[n].age \in 0..OldAge
  <2>1. RowOK(db[n])
    BY DEF CollectorInv, TypesOK
  <2>2. /\ db[n].row \in BOOLEAN /\ db[n].ok \in BOOLEAN /\ db[n].en \in BOOLEAN
        /\ db[n].fails \in 0..FailCap /\ db[n].age \in 0..OldAge
        /\ db[n].row /\ db[n].fails < Threshold => db[n].en
        /\ db[n].en => db[n].fails < Threshold \/ db[n].fails = 1
        /\ db[n].ok => db[n].en
        /\ ~db[n].row => db[n].fails = 0 /\ ~db[n].ok /\ ~db[n].en
    BY <2>1, RowTypes
  <2>3. db'[n] = Row(db[n].row, db[n].ok, db[n].en, db[n].fails, Older(db[n].age))
    BY <1>1 DEF OlderRow
  <2>4. Older(db[n].age) \in 0..OldAge
    BY <2>2, <1>4
  <2>5. RowOK(Row(db[n].row, db[n].ok, db[n].en, db[n].fails, Older(db[n].age)))
    BY <2>2, <2>4, RowIsOK
  <2>6. /\ db'[n].fails = db[n].fails /\ db'[n].age = Older(db[n].age)
        /\ db'[n].en = db[n].en /\ db'[n].ok = db[n].ok
    BY <2>3 DEF Row
  <2> QED BY <2>2, <2>3, <2>5, <2>6
<1>8. ASSUME NEW n \in Fps PROVE proof'[n] \in 0..OldAge /\ proof'[n] <= db'[n].age
  <2>1. proof[n] \in 0..OldAge /\ proof[n] <= db[n].age
    BY DEF CollectorInv, TypesOK, ProofOK
  <2>2. proof'[n] = Older(proof[n])
    BY <1>1
  <2> QED BY <2>1, <2>2, <1>4, <1>7, Numbers
<1>9. TypesOK'
  <2>1. since' \in Nat
    BY <1>2, <1>3, Numbers
  <2>2. RunOK'
    BY <1>1 DEF CollectorInv, TypesOK, RunOK
  <2> QED BY <2>1, <2>2, <1>1, <1>6, <1>7, <1>8 DEF CollectorInv, TypesOK
<1>10. ProofOK'
  BY <1>1, <1>8 DEF ProofOK
<1>11. FeedOK'
  <2>1. ASSUME since' < MaxSince, NEW n \in Fps, n \in grp["all"], db'[n].en, db'[n].ok
        PROVE  db'[n].age <= HealthTTL + since'
    <3>1. since < MaxSince /\ since' = since + 1
      BY <2>1, <1>2, <1>3, Numbers
    <3>2. n \in DirectPoolFeed
      BY <2>1, <1>7 DEF DirectPoolFeed
    <3>3. db[n].age <= HealthTTL + since
      BY <3>1, <3>2 DEF CollectorInv, FeedOK
    <3> QED BY <3>1, <3>3, <1>2, <1>4, <1>7, Numbers
  <2>2. grp' = grp /\ grp["all"] \subseteq Fps
    BY <1>1, Numbers DEF CollectorInv, TypesOK
  <2> QED BY <2>1, <2>2 DEF FeedOK, DirectPoolFeed
<1>12. StarvedIsAlerted'
  BY <1>1 DEF StarvedIsAlerted
<1>13. ASSUME NEW n \in Fps \ lost' PROVE SameEvidence(n)'
  <2>1. file.cand[n].fails = ev[n] /\ db[n].fails = ev[n]
    BY <1>1 DEF CollectorInv, SameEvidence
  <2>2. file'.cand[n].fails = ev[n] /\ db'[n].fails = ev[n]
    BY <2>1, <1>5, <1>6, <1>7
  <2> QED BY <2>2, <1>1 DEF SameEvidence
<1> QED BY <1>9, <1>10, <1>11, <1>12, <1>13 DEF CollectorInv

-----------------------------------------------------------------------------
(* Numbers and finite sets                                                 *)

\* The larger of two numbers.
LEMMA MaxOfTwo == ASSUME NEW a \in Int, NEW b \in Int PROVE Max({a, b}) = IF a >= b THEN a ELSE b
BY DEF Max

\* Every set of numbers has a least one.
LEMMA LeastNumber ==
    ASSUME NEW M, M \subseteq Nat, M # {}
    PROVE  \E m \in M : \A n \in M : n >= m
<1>1. \E m \in M : \A n \in M : ~ (<<n, m>> \in OpToRel(<, Nat))
  BY NatLessThanWellFounded, WFMin
<1>2. PICK m \in M : \A n \in M : ~ (<<n, m>> \in OpToRel(<, Nat))
  BY <1>1
<1>3. \A n \in M : ~ (n < m)
  BY <1>2 DEF OpToRel
<1> QED BY <1>3

\* What holds at zero and goes on from each number to the next holds of all.
LEMMA CountUp ==
    ASSUME NEW M, 0 \in M, \A n \in Nat : n \in M => n + 1 \in M
    PROVE  \A n \in Nat : n \in M
<1> SUFFICES ASSUME NEW k \in Nat, k \notin M PROVE FALSE
  OBVIOUS
<1>1. PICK m \in Nat \ M : \A n \in Nat \ M : n >= m
  <2>1. Nat \ M \subseteq Nat /\ Nat \ M # {}
    OBVIOUS
  <2> QED BY <2>1, LeastNumber
<1>2. m # 0
  OBVIOUS
<1>3. m - 1 \in Nat /\ m - 1 \notin Nat \ M
  BY <1>1, <1>2
<1>4. (m - 1) + 1 \in M
  BY <1>3
<1>5. (m - 1) + 1 = m
  OBVIOUS
<1> QED BY <1>4, <1>5

\* A set with a bounded measure has an element where it is greatest.
LEMMA Greatest ==
    ASSUME NEW S, S # {}, NEW f, NEW b \in Nat, \A s \in S : f[s] \in 0..b
    PROVE  \E s \in S : \A t \in S : f[t] <= f[s]
<1> DEFINE M == {b - f[s] : s \in S}
<1>1. M \subseteq Nat /\ M # {}
  OBVIOUS
<1>2. PICK m \in M : \A n \in M : n >= m
  BY <1>1, LeastNumber
<1>3. PICK s \in S : m = b - f[s]
  BY <1>2
<1>4. ASSUME NEW t \in S PROVE f[t] <= f[s]
  <2>1. b - f[t] >= m
    BY <1>2
  <2>2. b - f[t] >= b - f[s] /\ f[t] \in Nat /\ f[s] \in Nat
    BY <1>3, <2>1
  <2> QED BY <2>2
<1> QED BY <1>4

\* And one where it is least.
LEMMA Smallest ==
    ASSUME NEW S, S # {}, NEW f, \A s \in S : f[s] \in Nat
    PROVE  \E s \in S : \A t \in S : f[s] <= f[t]
<1> DEFINE M == {f[s] : s \in S}
<1>1. M \subseteq Nat /\ M # {}
  OBVIOUS
<1>2. PICK m \in M : \A n \in M : n >= m
  BY <1>1, LeastNumber
<1>3. PICK s \in S : m = f[s]
  BY <1>2
<1>4. ASSUME NEW t \in S PROVE f[s] <= f[t]
  BY <1>2, <1>3
<1> QED BY <1>4

\* How many elements a part of a finite set has, and what is left.
LEMMA Parts ==
    ASSUME NEW S, IsFiniteSet(S), NEW s, s \subseteq S
    PROVE  /\ IsFiniteSet(s) /\ IsFiniteSet(S \ s)
           /\ Cardinality(s) \in Nat /\ Cardinality(S) \in Nat /\ Cardinality(s) <= Cardinality(S)
           /\ Cardinality(S \ s) = Cardinality(S) - Cardinality(s)
           /\ Cardinality(s) = Cardinality(S) => s = S
           /\ Cardinality(s) = 0 <=> s = {}
<1>1. S \cap s = s
  OBVIOUS
<1>2. IsFiniteSet(S \ s) /\ Cardinality(S \ s) = Cardinality(S) - Cardinality(s)
  BY <1>1, FS_Difference
<1> QED BY <1>2, FS_Subset, FS_CardinalityType, FS_EmptySet

\* Two sets that share nothing.
LEMMA Apart ==
    ASSUME NEW S, IsFiniteSet(S), NEW T, IsFiniteSet(T), S \cap T = {}
    PROVE  /\ IsFiniteSet(S \cup T) /\ Cardinality(S) \in Nat /\ Cardinality(T) \in Nat
           /\ Cardinality(S \cup T) = Cardinality(S) + Cardinality(T)
<1>1. IsFiniteSet(S \cup T) /\ Cardinality(S \cup T) = Cardinality(S) + Cardinality(T) - Cardinality({})
  BY FS_Union
<1>2. Cardinality(S) \in Nat /\ Cardinality(T) \in Nat /\ Cardinality({}) = 0
  BY FS_CardinalityType, FS_EmptySet
<1> QED BY <1>1, <1>2

\* The image of a finite set under a function.
LEMMA ImageFinite ==
    ASSUME NEW S, IsFiniteSet(S), NEW f
    PROVE  IsFiniteSet({f[x] : x \in S})
<1> DEFINE T == {f[x] : x \in S}
           g == [x \in S |-> f[x]]
<1>1. g \in Surjection(S, T)
  <2>1. g \in [S -> T] /\ \A t \in T : \E x \in S : g[x] = t
    OBVIOUS
  <2> HIDE DEF g, T
  <2> QED BY <2>1 DEF Surjection
<1> HIDE DEF g, T
<1>2. IsFiniteSet(T)
  BY <1>1, FS_Surjection
<1> QED BY <1>2 DEF T

-----------------------------------------------------------------------------
(* The batches schedule_candidates may return                              *)

\* The k nodes that were verified longest ago.
LEMMA OldestExist ==
    ASSUME NEW m, NEW o, IsFiniteSet(o), \A r \in o : m[r.fp].age \in 0..OldAge, OldAge \in Nat,
           NEW k \in Nat
    PROVE  OldestFirst(m, o, k) # {}
<1> DEFINE Fine(s, j) == /\ s \subseteq o /\ Cardinality(s) = Min({j, Cardinality(o)})
                         /\ \A a \in s, b \in o \ s : m[a.fp].age >= m[b.fp].age
           M == {j \in Nat : \E s : Fine(s, j)}
<1>1. Cardinality(o) \in Nat
  BY FS_CardinalityType
<1>2. 0 \in M
  <2>1. Fine({}, 0)
    BY <1>1, MinOfTwo, FS_EmptySet
  <2> QED BY <2>1
<1>3. ASSUME NEW j \in Nat, \E s : Fine(s, j) PROVE \E s : Fine(s, j + 1)
  <2>1. PICK s : Fine(s, j)
    BY <1>3
  <2>2. CASE Cardinality(o) <= j
    <3>1. Fine(s, j + 1)
      BY <2>1, <2>2, <1>1, MinOfTwo
    <3> QED BY <3>1
  <2>3. CASE j < Cardinality(o)
    <3>1. Cardinality(s) = j /\ s \subseteq o
      BY <2>1, <2>3, <1>1, MinOfTwo
    <3>2. o \ s # {} /\ IsFiniteSet(s)
      <4>1. IsFiniteSet(s)
        BY <3>1, FS_Subset
      <4>2. s # o
        BY <3>1, <2>3, <1>1
      <4> QED BY <3>1, <4>1, <4>2
    <3> DEFINE f == [b \in o \ s |-> m[b.fp].age]
    <3>3. PICK b \in o \ s : \A c \in o \ s : f[c] <= f[b]
      <4>1. \A c \in o \ s : f[c] \in 0..OldAge
        OBVIOUS
      <4> HIDE DEF f
      <4> QED BY <3>2, <4>1, Greatest
    <3>4. \A c \in o \ s : m[c.fp].age <= m[b.fp].age
      BY <3>3
    <3> DEFINE u == s \cup {b}
    <3>5. u \subseteq o /\ Cardinality(u) = j + 1
      BY <3>1, <3>2, <3>3, FS_AddElement
    <3>6. Cardinality(u) = Min({j + 1, Cardinality(o)})
      BY <3>5, <2>3, <1>1, MinOfTwo
    <3>7. ASSUME NEW a \in u, NEW c \in o \ u PROVE m[a.fp].age >= m[c.fp].age
      <4>1. CASE a \in s
        BY <4>1, <2>1
      <4>2. CASE a = b
        BY <4>2, <3>4
      <4> QED BY <4>1, <4>2
    <3>8. Fine(u, j + 1)
      BY <3>5, <3>6, <3>7
    <3> QED BY <3>8
  <2> HIDE DEF Fine
  <2> QED BY <2>2, <2>3, <1>1
<1>4. k \in M
  <2>1. \A n \in Nat : n \in M => n + 1 \in M
    <3> HIDE DEF Fine
    <3> QED BY <1>3
  <2> HIDE DEF M
  <2> QED BY <1>2, <2>1, CountUp
<1>5. PICK s : Fine(s, k)
  BY <1>4
<1>6. s \in OldestFirst(m, o, k)
  BY <1>5 DEF OldestFirst
<1> QED BY <1>6

\* Some country deficits are possible.
LEMMA DeficitsExist ==
    ASSUME NEW m PROVE [c \in Countries |-> Target] \in Deficits(m)
<1> DEFINE healthy == {n \in Fps : m[n].ok = "yes"}
           h == [n \in healthy |-> NoCountry]
           Known(g, c) == Cardinality({n \in healthy : g[n] = c})
<1>1. h \in [healthy -> Countries \cup {NoCountry}]
  OBVIOUS
<1>2. ASSUME NEW c \in Countries PROVE Target - Min({Target, Known(h, c)}) = Target
  <2>1. {n \in healthy : h[n] = c} = {}
    BY CollectorAssumption
  <2>2. Known(h, c) = 0
    BY <2>1, FS_EmptySet
  <2> HIDE DEF Known
  <2>3. Target \in Nat /\ Min({Target, Known(h, c)}) = 0
    BY <2>2, MinOfTwo, CollectorAssumption
  <2> QED BY <2>3
<1>3. [c \in Countries |-> Target - Min({Target, Known(h, c)})] = [c \in Countries |-> Target]
  <2> HIDE DEF Known, h
  <2> QED BY <1>2
<1>4. [c \in Countries |-> Target - Min({Target, Known(h, c)})] \in Deficits(m)
  BY <1>1 DEF Deficits
<1> QED BY <1>3, <1>4

\* A country's nodes within a set, when one node joins it.
LEMMA InGrows ==
    ASSUME NEW s, IsFiniteSet(s), NEW r, r \notin s, NEW c
    PROVE  /\ Cardinality(In(s, c)) \in Nat
           /\ r.cc = c => Cardinality(In(s \cup {r}, c)) = Cardinality(In(s, c)) + 1
           /\ r.cc # c => In(s \cup {r}, c) = In(s, c)
<1>1. IsFiniteSet(In(s, c)) /\ Cardinality(In(s, c)) \in Nat /\ r \notin In(s, c)
  BY Parts DEF In
<1>2. r.cc = c => In(s \cup {r}, c) = In(s, c) \cup {r}
  BY DEF In
<1>3. r.cc # c => In(s \cup {r}, c) = In(s, c)
  BY DEF In
<1>4. Cardinality(In(s, c) \cup {r}) = Cardinality(In(s, c)) + 1
  BY <1>1, FS_AddElement
<1> QED BY <1>1, <1>2, <1>3, <1>4

\* When every country lacks equally many, some choice serves them: one that
\* cannot be made larger.
LEMMA DeficitPicksExist ==
    ASSUME NEW rest, IsFiniteSet(rest), NEW k \in Nat
    PROVE  DeficitPicks(rest, [c \in Countries |-> Target], k) # {}
<1> DEFINE d == [c \in Countries |-> Target]
           known == {r \in rest : r.cc \in Countries}
           ok == {s \in SUBSET known : /\ Cardinality(s) <= k
                                       /\ \A c \in Countries : Cardinality(In(s, c)) <= d[c]}
           f == [s \in ok |-> Cardinality(s)]
<1>1. \A c \in Countries : d[c] = Target /\ Target \in Nat
  BY CollectorAssumption
<1> HIDE DEF d
<1>2. {} \in ok
  <2>1. \A c \in Countries : In({}, c) = {}
    BY DEF In
  <2> QED BY <2>1, <1>1, FS_EmptySet
<1>3. \A s \in SUBSET known : IsFiniteSet(s) /\ Cardinality(s) \in Nat
  BY Parts
<1>4. PICK s \in ok : \A t \in ok : Cardinality(t) <= Cardinality(s)
  <2>1. \A t \in ok : f[t] = Cardinality(t) /\ f[t] \in 0..k
    BY <1>3
  <2> HIDE DEF f, ok
  <2>2. \E s \in ok : \A t \in ok : f[t] <= f[s]
    BY <1>2, <2>1, Greatest
  <2> QED BY <2>1, <2>2
<1>5. s \subseteq known /\ IsFiniteSet(s) /\ Cardinality(s) \in Nat /\ Cardinality(s) <= k
  BY <1>3
<1>6. ASSUME Cardinality(s) # k, NEW c \in Countries PROVE Cardinality(In(s, c)) = Wanted(rest, d, c)
  <2>1. /\ IsFiniteSet(In(rest, c)) /\ In(s, c) \subseteq In(rest, c)
        /\ Cardinality(In(rest, c)) \in Nat /\ Cardinality(In(s, c)) \in Nat
        /\ Cardinality(In(s, c)) <= Cardinality(In(rest, c))
        /\ (Cardinality(In(s, c)) = Cardinality(In(rest, c)) => In(s, c) = In(rest, c))
    <3>1. IsFiniteSet(In(rest, c))
      BY Parts DEF In
    <3>2. In(s, c) \subseteq In(rest, c)
      BY <1>5 DEF In
    <3>3. PICK S, T : S = In(rest, c) /\ T = In(s, c)
      OBVIOUS
    <3>4. IsFiniteSet(S) /\ T \subseteq S
      BY <3>1, <3>2, <3>3
    <3>5. /\ Cardinality(T) \in Nat /\ Cardinality(S) \in Nat /\ Cardinality(T) <= Cardinality(S)
          /\ (Cardinality(T) = Cardinality(S) => T = S)
      BY <3>4, Parts
    <3> QED BY <3>3, <3>4, <3>5
  <2>2. Wanted(rest, d, c) = IF d[c] <= Cardinality(In(rest, c)) THEN d[c] ELSE Cardinality(In(rest, c))
    BY <2>1, <1>1, MinOfTwo DEF Wanted
  <2>3. Cardinality(In(s, c)) <= d[c]
    OBVIOUS
  <2> SUFFICES ASSUME Cardinality(In(s, c)) < d[c], Cardinality(In(s, c)) < Cardinality(In(rest, c))
               PROVE  FALSE
    BY <2>1, <2>2, <2>3, <1>1
  <2>4. PICK r \in In(rest, c) : r \notin In(s, c)
    <3>1. In(s, c) # In(rest, c)
      BY <2>1
    <3> QED BY <2>1, <3>1
  <2>5. r \in known /\ r.cc = c /\ r \notin s
    BY <2>4 DEF In
  <2> DEFINE u == s \cup {r}
  <2>6. u \subseteq known /\ Cardinality(u) = Cardinality(s) + 1
    BY <1>5, <2>5, FS_AddElement
  <2>7. ASSUME NEW b \in Countries PROVE Cardinality(In(u, b)) <= d[b]
    <3>1. Cardinality(In(s, b)) <= d[b]
      OBVIOUS
    <3>2. /\ Cardinality(In(s, b)) \in Nat
          /\ r.cc = b => Cardinality(In(u, b)) = Cardinality(In(s, b)) + 1
          /\ r.cc # b => In(u, b) = In(s, b)
      BY <1>5, <2>5, InGrows
    <3> HIDE DEF u
    <3>3. CASE b = c
      BY <3>2, <3>3, <2>5, <1>1, <2>1
    <3>4. CASE b # c
      BY <3>1, <3>2, <3>4, <2>5
    <3> QED BY <3>3, <3>4
  <2>8. u \in ok
    <3>1. Cardinality(u) <= k
      BY <1>5, <1>6, <2>6
    <3> HIDE DEF u
    <3> QED BY <2>6, <2>7, <3>1
  <2>9. Cardinality(u) <= Cardinality(s)
    BY <2>8, <1>4
  <2> QED BY <2>6, <2>9, <1>5
<1>7. \A b, c \in Countries : ~(d[b] > d[c])
  BY <1>1
<1>8. s \in DeficitPicks(rest, d, k)
  <2>1. \A c \in Countries : Cardinality(In(s, c)) <= d[c]
    OBVIOUS
  <2>2. Cardinality(s) = k \/ \A c \in Countries : Cardinality(In(s, c)) = Wanted(rest, d, c)
    BY <1>6
  <2> QED BY <2>1, <2>2, <1>5, <1>7 DEF DeficitPicks
<1> QED BY <1>8 DEF d

\* A row of positions, len to a round: later rounds come later, and no two
\* different seats share a position.
LEMMA Rounds ==
    ASSUME NEW len \in Nat, len >= 1, NEW p \in Nat, NEW q \in Nat, NEW x \in 0..len-1, NEW y \in 0..len-1
    PROVE  /\ p * len + x \in Nat
           /\ p < q => p * len + x < q * len + y
           /\ p * len + x < len => p = 0
           /\ p * len + x = q * len + y => x = y
<1>1. p * len \in Nat /\ q * len \in Nat
  OBVIOUS
<1>2. ASSUME NEW i \in Nat, NEW j \in Nat, i < j PROVE i * len + len <= j * len
  <2>1. i * len + len = (i + 1) * len
    OBVIOUS
  <2>2. j = (i + 1) + (j - i - 1) /\ j - i - 1 \in Nat
    BY <1>2
  <2> DEFINE e == j - i - 1
  <2>3. e \in Nat /\ j = (i + 1) + e
    BY <2>2
  <2> HIDE DEF e
  <2>4. j * len = (i + 1) * len + e * len /\ e * len \in Nat
    BY <2>3
  <2>5. (i + 1) * len \in Nat
    OBVIOUS
  <2> QED BY <2>1, <2>4, <2>5
<1>3. p < q => p * len + len <= q * len
  BY <1>2
<1>4. q < p => q * len + len <= p * len
  BY <1>2
<1>5. p # 0 => 0 * len + len <= p * len
  BY <1>2
<1>6. 0 * len = 0
  OBVIOUS
<1> DEFINE pl == p * len
           ql == q * len
<1>7. /\ pl \in Nat /\ ql \in Nat
      /\ p < q => pl + len <= ql
      /\ q < p => ql + len <= pl
      /\ p # 0 => len <= pl
      /\ p = q => pl = ql
  BY <1>1, <1>3, <1>4, <1>5, <1>6
<1> HIDE DEF pl, ql
<1>8. /\ pl + x \in Nat
      /\ p < q => pl + x < ql + y
      /\ pl + x < len => p = 0
      /\ pl + x = ql + y => x = y
  BY <1>7
<1> QED BY <1>8 DEF pl, ql

\* The remainder of a number below twice the divisor.
LEMMA ModOnce ==
    ASSUME NEW n \in Nat, NEW len \in Nat, len >= 1, n < 2 * len
    PROVE  n % len = IF n < len THEN n ELSE n - len
OBVIOUS

\* A seat after turning the circle, and different seats stay different.
LEMMA Turned ==
    ASSUME NEW len \in Nat, len >= 1, NEW cursor \in Nat, NEW i \in 0..len-1, NEW j \in 0..len-1
    PROVE  /\ (i + len - (cursor % len)) % len \in 0..len-1
           /\ (i + len - (cursor % len)) % len = (j + len - (cursor % len)) % len => i = j
<1> DEFINE c == cursor % len
<1>1. c \in 0..len-1
  OBVIOUS
<1> HIDE DEF c
<1>2. ASSUME NEW n \in 0..len-1
      PROVE  (n + len - c) % len = IF n < c THEN n + len - c ELSE n - c
  <2>1. n + len - c \in Nat /\ n + len - c < 2 * len
    BY <1>1
  <2> DEFINE v == n + len - c
  <2> HIDE DEF v
  <2>2. v % len = IF v < len THEN v ELSE v - len
    BY <2>1, ModOnce DEF v
  <2> QED BY <1>1, <2>2 DEF v
<1>3. /\ (i + len - c) % len = IF i < c THEN i + len - c ELSE i - c
      /\ (j + len - c) % len = IF j < c THEN j + len - c ELSE j - c
  BY <1>2
<1>4. /\ (i + len - c) % len \in 0..len-1
      /\ (i + len - c) % len = (j + len - c) % len => i = j
  BY <1>1, <1>3
<1> QED BY <1>4 DEF c

\* How many rounds a source of weight w waits for its t-th turn.
LEMMA RoundGrows ==
    ASSUME NEW w \in 1..4, NEW t \in Nat
    PROVE  /\ (t \div w) * 4 + (t % w) \in Nat
           /\ (t \div w) * 4 + (t % w) < ((t + 1) \div w) * 4 + ((t + 1) % w)
           /\ (0 \div w) * 4 + (0 % w) = 0
           /\ (t \div w) * 4 + (t % w) = 0 => t = 0
<1>1. CASE w = 1
  BY <1>1
<1>2. CASE w = 2
  BY <1>2
<1>3. CASE w = 3
  BY <1>3
<1>4. CASE w = 4
  BY <1>4
<1> QED BY <1>1, <1>2, <1>3, <1>4

\* Numbers have different places in a finite set of numbers.
LEMMA Places ==
    ASSUME NEW L, IsFiniteSet(L), L \subseteq Nat, NEW a \in L, NEW b \in L
    PROVE  /\ Cardinality({u \in L : u < a}) \in 0..Cardinality(L)-1
           /\ Cardinality({u \in L : u < a}) = Cardinality({u \in L : u < b}) => a = b
<1> DEFINE Below(c) == {u \in L : u < c}
<1>1. ASSUME NEW c \in L
      PROVE  /\ IsFiniteSet(Below(c)) /\ Cardinality(Below(c)) \in Nat /\ Cardinality(L) \in Nat
             /\ Cardinality(Below(c)) < Cardinality(L)
  <2>1. Below(c) \subseteq L /\ Below(c) # L
    OBVIOUS
  <2> HIDE DEF Below
  <2>2. /\ IsFiniteSet(Below(c)) /\ Cardinality(Below(c)) \in Nat /\ Cardinality(L) \in Nat
        /\ Cardinality(Below(c)) <= Cardinality(L)
        /\ (Cardinality(Below(c)) = Cardinality(L) => Below(c) = L)
    BY <2>1, Parts
  <2> QED BY <2>1, <2>2
<1>2. ASSUME NEW c \in L, NEW e \in L, c < e PROVE Cardinality(Below(c)) < Cardinality(Below(e))
  <2>1. Below(c) \subseteq Below(e) /\ Below(c) # Below(e)
    <3>0. c \in Nat /\ e \in Nat /\ \A u \in L : u \in Nat
      OBVIOUS
    <3>1. c \in Below(e) /\ c \notin Below(c)
      BY <1>2, <3>0
    <3>2. ASSUME NEW u \in Below(c) PROVE u \in Below(e)
      BY <1>2, <3>0
    <3> QED BY <3>1, <3>2
  <2>2. IsFiniteSet(Below(e))
    BY <1>1
  <2> HIDE DEF Below
  <2>3. /\ Cardinality(Below(c)) \in Nat /\ Cardinality(Below(e)) \in Nat
        /\ Cardinality(Below(c)) <= Cardinality(Below(e))
        /\ (Cardinality(Below(c)) = Cardinality(Below(e)) => Below(c) = Below(e))
    BY <2>1, <2>2, Parts
  <2> QED BY <2>1, <2>3
<1>3. a \in Nat /\ b \in Nat
  OBVIOUS
<1>4. Cardinality(Below(a)) \in 0..Cardinality(L)-1
  <2> HIDE DEF Below
  <2> QED BY <1>1
<1>5. Cardinality(Below(a)) = Cardinality(Below(b)) => a = b
  <2>1. a < b => Cardinality(Below(a)) < Cardinality(Below(b))
    BY <1>2
  <2>2. b < a => Cardinality(Below(b)) < Cardinality(Below(a))
    BY <1>2
  <2>3. Cardinality(Below(a)) \in Nat /\ Cardinality(Below(b)) \in Nat
    BY <1>1
  <2> HIDE DEF Below
  <2> QED BY <1>3, <2>1, <2>2, <2>3
<1> QED BY <1>4, <1>5

\* The turns of the sources: a later one of the same source comes later, those
\* of two sources never fall together, and only the first of a source falls
\* into the first round.
LEMMA Turns ==
    ASSUME NEW nodes, IsFiniteSet(SourceList(nodes)), SourceList(nodes) \subseteq Sources,
           NEW w \in [Sources -> Weights], NEW cursor \in Nat,
           NEW a \in SourceList(nodes), NEW b \in SourceList(nodes), NEW t \in Nat, NEW s \in Nat
    PROVE  /\ Turn(nodes, w, cursor, a, t) \in Nat
           /\ Turn(nodes, w, cursor, a, t) < Turn(nodes, w, cursor, a, t + 1)
           /\ Turn(nodes, w, cursor, a, t) = Turn(nodes, w, cursor, b, s) => a = b
           /\ Turn(nodes, w, cursor, a, t) < Turn(nodes, w, cursor, b, 0) => t = 0
<1> DEFINE list == SourceList(nodes)
           len == Cardinality(list)
           Index(c) == Cardinality({u \in list : u < c})
           Seat(c) == (Index(c) + len - (cursor % len)) % len
           Round(c, k) == (k \div w[c]) * 4 + (k % w[c])
<1>1. list \subseteq Nat /\ list # {}
  BY CollectorAssumption
<1>2. len \in Nat /\ len >= 1
  <2> HIDE DEF list
  <2>1. Cardinality(list) \in Nat /\ Cardinality(list) # 0
    BY <1>1, Parts DEF list
  <2> QED BY <2>1
<1>3. Index(a) \in 0..len-1 /\ Index(b) \in 0..len-1 /\ (Index(a) = Index(b) => a = b)
  BY <1>1, Places
<1>4. Seat(a) \in 0..len-1 /\ Seat(b) \in 0..len-1 /\ (Seat(a) = Seat(b) => a = b)
  <2> HIDE DEF Index, len
  <2>1. /\ Seat(a) \in 0..len-1
        /\ Seat(a) = Seat(b) => Index(a) = Index(b)
    BY <1>2, <1>3, Turned
  <2>2. Seat(b) \in 0..len-1
    BY <1>2, <1>3, Turned
  <2> QED BY <2>1, <2>2, <1>3
<1>5. w[a] \in 1..4 /\ w[b] \in 1..4
  BY CollectorAssumption
<1>6. /\ Round(a, t) \in Nat /\ Round(b, s) \in Nat /\ Round(a, t + 1) \in Nat /\ Round(b, 0) = 0
      /\ Round(a, t) < Round(a, t + 1)
      /\ Round(a, t) = 0 => t = 0
  <2>1. t + 1 \in Nat
    OBVIOUS
  <2> QED BY <2>1, <1>5, RoundGrows
<1>7. \A c, k : Turn(nodes, w, cursor, c, k) = Round(c, k) * len + Seat(c)
  BY DEF Turn
<1> HIDE DEF Round, Seat, len
<1>8. Turn(nodes, w, cursor, a, t) \in Nat
  BY <1>2, <1>4, <1>6, <1>7, Rounds
<1>9. Turn(nodes, w, cursor, a, t) < Turn(nodes, w, cursor, a, t + 1)
  <2>1. Round(a, t) * len + Seat(a) < Round(a, t + 1) * len + Seat(a)
    BY <1>2, <1>4, <1>6, Rounds
  <2> QED BY <2>1, <1>7
<1>10. Turn(nodes, w, cursor, a, t) = Turn(nodes, w, cursor, b, s) => a = b
  <2>1. Round(a, t) * len + Seat(a) = Round(b, s) * len + Seat(b) => Seat(a) = Seat(b)
    BY <1>2, <1>4, <1>6, Rounds
  <2> QED BY <2>1, <1>4, <1>7
<1>11. ASSUME Turn(nodes, w, cursor, a, t) < Turn(nodes, w, cursor, b, 0) PROVE t = 0
  <2>1. Turn(nodes, w, cursor, b, 0) = Seat(b)
    BY <1>2, <1>4, <1>6, <1>7
  <2>2. Round(a, t) * len + Seat(a) \in Nat /\ Round(a, t) * len + Seat(a) < len
    BY <1>2, <1>4, <1>7, <1>8, <1>11, <2>1
  <2>3. Round(a, t) * len + Seat(a) < len => Round(a, t) = 0
    BY <1>2, <1>4, <1>6, Rounds
  <2> QED BY <2>2, <2>3, <1>6
<1> QED BY <1>8, <1>9, <1>10, <1>11

\* A source's nodes within a set, when one node joins it.
LEMMA FromGrows ==
    ASSUME NEW s, IsFiniteSet(s), NEW r, r \notin s, NEW a
    PROVE  /\ Cardinality(From(s, a)) \in Nat
           /\ r.src = a => Cardinality(From(s \cup {r}, a)) = Cardinality(From(s, a)) + 1
           /\ r.src # a => From(s \cup {r}, a) = From(s, a)
<1>1. IsFiniteSet(From(s, a)) /\ Cardinality(From(s, a)) \in Nat /\ r \notin From(s, a)
  BY Parts DEF From
<1>2. r.src = a => From(s \cup {r}, a) = From(s, a) \cup {r}
  BY DEF From
<1>3. r.src # a => From(s \cup {r}, a) = From(s, a)
  BY DEF From
<1>4. Cardinality(From(s, a) \cup {r}) = Cardinality(From(s, a)) + 1
  BY <1>1, FS_AddElement
<1> QED BY <1>1, <1>2, <1>3, <1>4

\* The sources of finitely many nodes.
LEMMA SourcesFinite ==
    ASSUME NEW nodes, \A r \in nodes : r.src \in Sources
    PROVE  SourceList(nodes) \subseteq Sources /\ IsFiniteSet(SourceList(nodes))
<1>1. SourceList(nodes) \subseteq Sources
  BY DEF SourceList
<1> QED BY <1>1, Parts, CollectorAssumption

\* How many nodes of a source a set has taken.
Taken(s, a) == Cardinality(From(s, a))
\* No source was given a turn before one that came earlier.
InTurn(nodes, w, cursor, s) ==
    \A a, b \in SourceList(nodes) :
        From(s, a) # {} /\ From(s, b) # From(nodes, b) =>
            Turn(nodes, w, cursor, a, Taken(s, a) - 1) < Turn(nodes, w, cursor, b, Taken(s, b))

\* Taken one after the other, the next node is the one whose turn it is.
LEMMA NextTurn ==
    ASSUME NEW nodes, IsFiniteSet(nodes), \A r \in nodes : r.src \in Sources,
           NEW w \in [Sources -> Weights], NEW cursor \in Nat,
           NEW s, s \subseteq nodes, s # nodes, InTurn(nodes, w, cursor, s)
    PROVE  \E r \in nodes \ s : InTurn(nodes, w, cursor, s \cup {r})
<1> DEFINE list == SourceList(nodes)
           T(a, k) == Turn(nodes, w, cursor, a, k)
           open == {b \in list : From(s, b) # From(nodes, b)}
           f == [b \in open |-> T(b, Taken(s, b))]
<1>1. list \subseteq Sources /\ IsFiniteSet(list)
  BY SourcesFinite
<1>2. IsFiniteSet(s)
  BY Parts
<1>3. \A a : Taken(s, a) \in Nat /\ (Taken(s, a) = 0 <=> From(s, a) = {})
  BY <1>2, Parts DEF From, Taken
<1>4. \A a \in list, k \in Nat : T(a, k) \in Nat /\ T(a, k) < T(a, k + 1)
  BY <1>1, Turns
<1>5. open # {}
  <2>1. PICK r \in nodes : r \notin s
    OBVIOUS
  <2>2. r.src \in list /\ r \in From(nodes, r.src) /\ r \notin From(s, r.src)
    BY <2>1 DEF SourceList, From
  <2> QED BY <2>2
<1>6. PICK b \in open : \A c \in open : T(b, Taken(s, b)) <= T(c, Taken(s, c))
  <2> HIDE DEF T
  <2>1. \A c \in open : f[c] = T(c, Taken(s, c)) /\ f[c] \in Nat
    BY <1>3, <1>4
  <2> HIDE DEF f, open
  <2>2. \E b \in open : \A c \in open : f[b] <= f[c]
    BY <1>5, <2>1, Smallest
  <2> QED BY <2>1, <2>2
<1>7. PICK r \in nodes \ s : r.src = b
  <2>1. From(s, b) \subseteq From(nodes, b)
    BY DEF From
  <2>2. PICK r : r \in From(nodes, b) /\ r \notin From(s, b)
    BY <1>6, <2>1
  <2> QED BY <2>2 DEF From
<1> DEFINE u == s \cup {r}
<1>8. /\ Taken(u, b) = Taken(s, b) + 1
      /\ \A c : c # b => From(u, c) = From(s, c) /\ Taken(u, c) = Taken(s, c)
  BY <1>2, <1>7, FromGrows DEF Taken
<1>9. ASSUME NEW a \in list, NEW c \in list, From(u, a) # {}, From(u, c) # From(nodes, c)
      PROVE  T(a, Taken(u, a) - 1) < T(c, Taken(u, c))
  <2>1. Taken(s, b) \in Nat /\ (Taken(s, b) + 1) - 1 = Taken(s, b) /\ b \in list
    BY <1>3, <1>6
  <2>2. c # b => c \in open
    BY <1>8, <1>9
  <2>3. T(b, Taken(s, b)) \in Nat /\ T(b, Taken(s, b)) < T(b, Taken(s, b) + 1) /\ T(b, Taken(s, b) + 1) \in Nat
    BY <1>4, <2>1
  <2>4. CASE a = b /\ c = b
    BY <2>1, <2>3, <2>4, <1>8
  <2>5. CASE a = b /\ c # b
    <3>1. T(b, Taken(s, b)) <= T(c, Taken(s, c))
      BY <2>2, <2>5, <1>6
    <3>2. T(b, Taken(s, b)) # T(c, Taken(s, c))
      BY <2>1, <2>5, <1>1, <1>3, Turns
    <3>3. T(c, Taken(s, c)) \in Nat
      BY <1>3, <1>4
    <3> HIDE DEF T, u
    <3> QED BY <3>1, <3>2, <3>3, <2>1, <2>3, <2>5, <1>8
  <2>6. CASE a # b
    <3>1. From(s, a) # {} /\ Taken(u, a) = Taken(s, a)
      BY <2>6, <1>8, <1>9
    <3>2. Taken(s, a) - 1 \in Nat
      BY <3>1, <1>3
    <3>3. T(a, Taken(s, a) - 1) \in Nat
      BY <3>2, <1>4
    <3>4. CASE c # b
      <4>1. From(s, c) # From(nodes, c) /\ Taken(u, c) = Taken(s, c)
        BY <3>4, <1>8, <1>9
      <4> QED BY <3>1, <4>1 DEF InTurn
    <3>5. CASE c = b
      <4>1. T(a, Taken(s, a) - 1) < T(b, Taken(s, b))
        BY <3>1, <1>6 DEF InTurn
      <4> HIDE DEF T, u
      <4> QED BY <3>1, <3>3, <3>5, <4>1, <2>3, <1>8
    <3> QED BY <3>4, <3>5
  <2> QED BY <2>4, <2>5, <2>6
<1>10. InTurn(nodes, w, cursor, u)
  BY <1>9 DEF InTurn
<1> QED BY <1>7, <1>10

\* So any share can be given out in turn.
LEMMA ExplorePicksExist ==
    ASSUME NEW nodes, IsFiniteSet(nodes), \A r \in nodes : r.src \in Sources,
           NEW w \in [Sources -> Weights], NEW cursor \in Nat, NEW k \in Nat
    PROVE  ExplorePicks(nodes, w, cursor, k) # {}
<1> DEFINE Fine(s, j) == /\ s \subseteq nodes /\ Cardinality(s) = Min({j, Cardinality(nodes)})
                         /\ InTurn(nodes, w, cursor, s)
           M == {j \in Nat : \E s : Fine(s, j)}
<1>1. Cardinality(nodes) \in Nat
  BY FS_CardinalityType
<1>2. 0 \in M
  <2>1. InTurn(nodes, w, cursor, {})
    BY DEF InTurn, From
  <2>2. Fine({}, 0)
    BY <1>1, <2>1, MinOfTwo, FS_EmptySet
  <2> QED BY <2>2
<1>3. ASSUME NEW j \in Nat, \E s : Fine(s, j) PROVE \E s : Fine(s, j + 1)
  <2>1. PICK s : Fine(s, j)
    BY <1>3
  <2>2. CASE Cardinality(nodes) <= j
    <3>1. Fine(s, j + 1)
      BY <2>1, <2>2, <1>1, MinOfTwo
    <3> QED BY <3>1
  <2>3. CASE j < Cardinality(nodes)
    <3>1. Cardinality(s) = j /\ s \subseteq nodes /\ InTurn(nodes, w, cursor, s)
      BY <2>1, <2>3, <1>1, MinOfTwo
    <3>2. s # nodes /\ IsFiniteSet(s)
      BY <3>1, <2>3, <1>1, FS_Subset
    <3>3. PICK r \in nodes \ s : InTurn(nodes, w, cursor, s \cup {r})
      BY <3>1, <3>2, NextTurn
    <3>4. Cardinality(s \cup {r}) = j + 1
      BY <3>1, <3>2, <3>3, FS_AddElement
    <3>5. Cardinality(s \cup {r}) = Min({j + 1, Cardinality(nodes)})
      BY <3>4, <2>3, <1>1, MinOfTwo
    <3>6. Fine(s \cup {r}, j + 1)
      BY <3>1, <3>3, <3>5
    <3> QED BY <3>6
  <2> HIDE DEF Fine
  <2> QED BY <2>2, <2>3, <1>1
<1>4. k \in M
  <2>1. \A n \in Nat : n \in M => n + 1 \in M
    <3> HIDE DEF Fine
    <3> QED BY <1>3
  <2> HIDE DEF M
  <2> QED BY <1>2, <2>1, CountUp
<1>5. PICK s : Fine(s, k)
  BY <1>4
<1>6. s \in ExplorePicks(nodes, w, cursor, k)
  BY <1>5 DEF ExplorePicks, InTurn, Taken
<1> QED BY <1>6

\* The shares of a batch.
LEMMA Shares ==
    ASSUME NEW limit \in Nat, NEW el, NEW o, NEW rest
    PROVE  /\ RefreshCeiling(limit, el, o) \in 0..limit
           /\ limit >= 1 => RefreshCeiling(limit, el, o) >= 1
           /\ o # el /\ limit >= 2 => RefreshCeiling(limit, el, o) < limit
           /\ DeficitCeiling(limit, rest) \in 0..limit
<1>1. /\ (7 * limit) \div 10 \in Nat /\ (limit >= 2 => (7 * limit) \div 10 < limit)
      /\ (limit - 1) \div 5 \in Int /\ (limit >= 5 => (limit - 1) \div 5 \in 0..limit)
  OBVIOUS
<1> DEFINE a == (7 * limit) \div 10
           b == (limit - 1) \div 5
<1>2. Max({1, a}) = (IF 1 >= a THEN 1 ELSE a) /\ Max({1, b}) = (IF 1 >= b THEN 1 ELSE b)
  BY <1>1, MaxOfTwo
<1>3. /\ RefreshCeiling(limit, el, o) = IF o # el /\ limit >= 2 THEN Max({1, a}) ELSE limit
      /\ DeficitCeiling(limit, rest) = IF limit >= 5 /\ rest # {} THEN limit - Max({1, b}) ELSE limit
  BY DEF RefreshCeiling, DeficitCeiling
<1>4. a \in Nat /\ (limit >= 2 => a < limit) /\ b \in Int /\ (limit >= 5 => b \in 0..limit)
  BY <1>1
<1> HIDE DEF a, b
<1> QED BY <1>2, <1>3, <1>4

\* A batch and the nodes it was made of: o are due, t1 and t4 refreshed, t2
\* for the countries, t3 for discovery.
Parted(batch, el, o, t1, t2, t3, t4, limit) ==
    /\ o \subseteq el /\ t1 \subseteq o /\ t2 \subseteq el \ o
    /\ t3 \subseteq (el \ o) \ t2 /\ t4 \subseteq o \ t1
    /\ Cardinality(t1) = Min({RefreshCeiling(limit, el, o), Cardinality(o)})
    /\ Cardinality(t2) <= Max({Cardinality(t1), DeficitCeiling(limit, el \ o)}) - Cardinality(t1)
    /\ Cardinality(t3) = Min({limit - Cardinality(t1 \cup t2), Cardinality((el \ o) \ t2)})
    /\ Cardinality(t4) = Min({limit - Cardinality(t1 \cup t2 \cup t3), Cardinality(o \ t1)})
    /\ batch = t1 \cup t2 \cup t3 \cup t4
ExploredInTurn(t3, el, o, t2, room, cursor) ==
    \E w \in [Sources -> Weights] : t3 \in ExplorePicks((el \ o) \ t2, w, cursor, room)
IsPlan(p, st, el, limit) ==
    \E o, t1, t2, t3, t4 :
        /\ Parted(p.batch, el, o, t1, t2, t3, t4, limit)
        /\ ExploredInTurn(t3, el, o, t2, limit - Cardinality(t1 \cup t2), st.cur)
        /\ p.el = el /\ p.due = o /\ p.t2 = t2

\* Every batch of schedule_candidates is put together so.
LEMMA PlanHasParts ==
    ASSUME NEW st, NEW nodes, NEW limit, NEW p \in ScheduleCandidates(st, nodes, limit)
    PROVE  IsPlan(p, st, Eligible(st.cand, nodes), limit)
<1> DEFINE el == Eligible(st.cand, nodes)
<1>1. PICK o \in VerifiedOverdue(st.cand, el) : p \in Refreshed(st, el, o, limit)
  BY Zenon DEF ScheduleCandidates
<1> HIDE DEF el
<1>2. o \subseteq el
  BY <1>1 DEF VerifiedOverdue
<1>3. PICK t1 \in OldestFirst(st.cand, o, RefreshCeiling(limit, el, o)) : p \in Served(st, el, o, t1, limit)
  BY <1>1, Zenon DEF Refreshed
<1>4. t1 \subseteq o /\ Cardinality(t1) = Min({RefreshCeiling(limit, el, o), Cardinality(o)})
  BY <1>3 DEF OldestFirst
<1> DEFINE room == Max({Cardinality(t1), DeficitCeiling(limit, el \ o)}) - Cardinality(t1)
<1>5. PICK t2 \in UNION {DeficitPicks(el \ o, d, room) : d \in Deficits(st.cand)} :
          p \in Explored(st, el, o, t1, t2, limit)
  BY <1>3, Zenon DEF Served
<1>6. PICK d \in Deficits(st.cand) : t2 \in DeficitPicks(el \ o, d, room)
  BY <1>5, Zenon
<1>7. t2 \subseteq el \ o /\ Cardinality(t2) <= room
  BY <1>6 DEF DeficitPicks
<1> HIDE DEF room
<1> DEFINE left == (el \ o) \ t2
           more == limit - Cardinality(t1 \cup t2)
<1>8. PICK t3 \in UNION {ExplorePicks(left, w, st.cur, more) : w \in [Sources -> Weights]} :
          p \in Filled(st.cand, el, o, t1, t2, t3, limit)
  BY <1>5, Zenon DEF Explored
<1>9. PICK w \in [Sources -> Weights] : t3 \in ExplorePicks(left, w, st.cur, more)
  BY <1>8, Zenon
<1>10. t3 \subseteq left /\ Cardinality(t3) = Min({more, Cardinality(left)})
  BY <1>9 DEF ExplorePicks
<1> DEFINE Plan(t4) == [batch |-> t1 \cup t2 \cup t3 \cup t4, el |-> el, due |-> o, t2 |-> t2,
                        explored |-> Cardinality(t1 \cup t2) < limit /\ left # {}, left |-> left]
<1>11. PICK t4 \in OldestFirst(st.cand, o \ t1, limit - Cardinality(t1 \cup t2 \cup t3)) : p = Plan(t4)
  BY <1>8, Zenon DEF Filled
<1>12. t4 \subseteq o \ t1 /\ Cardinality(t4) = Min({limit - Cardinality(t1 \cup t2 \cup t3), Cardinality(o \ t1)})
  BY <1>11 DEF OldestFirst
<1>13. p.batch = t1 \cup t2 \cup t3 \cup t4 /\ p.el = el /\ p.due = o /\ p.t2 = t2
  BY <1>11
<1>14. Parted(p.batch, el, o, t1, t2, t3, t4, limit)
  BY <1>2, <1>4, <1>7, <1>10, <1>12, <1>13 DEF Parted, room
<1>15. ExploredInTurn(t3, el, o, t2, limit - Cardinality(t1 \cup t2), st.cur)
  BY <1>9, Zenon DEF ExploredInTurn
<1> HIDE DEF left, more, Plan
<1>16. IsPlan(p, st, el, limit)
  BY <1>13, <1>14, <1>15, Zenon DEF IsPlan
<1> QED BY <1>16 DEF el

\* The sizes of the parts: they fill the batch, and leave each other room.
LEMMA PartsFill ==
    ASSUME NEW el, IsFiniteSet(el), NEW limit \in Nat, NEW batch, NEW o, NEW t1, NEW t2, NEW t3, NEW t4,
           Parted(batch, el, o, t1, t2, t3, t4, limit)
    PROVE  /\ Cardinality(batch) = Min({limit, Cardinality(el)})
           /\ limit >= 2 /\ el # o => batch \ o # {}
           /\ limit >= 1 /\ o # {} => batch \cap o # {}
           /\ Cardinality(t1 \cup t2) \in 0..limit
<1>1. /\ o \subseteq el /\ t1 \subseteq o /\ t2 \subseteq el \ o
      /\ t3 \subseteq (el \ o) \ t2 /\ t4 \subseteq o \ t1 /\ batch = t1 \cup t2 \cup t3 \cup t4
  BY DEF Parted
<1> DEFINE rest == el \ o
           left == (el \ o) \ t2
           ceil == RefreshCeiling(limit, el, o)
           share == DeficitCeiling(limit, el \ o)
           e == Cardinality(el)
           n == Cardinality(o)
           c1 == Cardinality(t1)
           c2 == Cardinality(t2)
           c3 == Cardinality(t3)
           c4 == Cardinality(t4)
<1>2. IsFiniteSet(o) /\ n \in Nat /\ e \in Nat /\ IsFiniteSet(rest) /\ Cardinality(rest) = e - n /\ n <= e
      /\ (n = 0 <=> o = {}) /\ (n = e => o = el)
  BY <1>1, Parts
<1>3. IsFiniteSet(t1) /\ c1 \in Nat /\ IsFiniteSet(o \ t1) /\ Cardinality(o \ t1) = n - c1 /\ c1 <= n
      /\ (c1 = 0 <=> t1 = {})
  BY <1>1, <1>2, Parts
<1>4. IsFiniteSet(t2) /\ c2 \in Nat /\ c2 <= e - n /\ IsFiniteSet(left) /\ Cardinality(left) = (e - n) - c2
      /\ (c2 = 0 <=> t2 = {})
  <2> HIDE DEF rest
  <2>1. t2 \subseteq rest
    BY <1>1 DEF rest
  <2>2. /\ IsFiniteSet(t2) /\ IsFiniteSet(rest \ t2) /\ Cardinality(t2) \in Nat /\ Cardinality(t2) <= Cardinality(rest)
        /\ Cardinality(rest \ t2) = Cardinality(rest) - Cardinality(t2)
        /\ (Cardinality(t2) = 0 <=> t2 = {})
    BY <2>1, <1>2, Parts
  <2>3. rest \ t2 = left
    BY DEF rest
  <2> QED BY <2>2, <2>3, <1>2
<1>5. IsFiniteSet(t3) /\ c3 \in Nat /\ (c3 = 0 <=> t3 = {})
  <2> HIDE DEF left
  <2>1. t3 \subseteq left
    BY <1>1 DEF left
  <2> QED BY <2>1, <1>4, Parts
<1>6. IsFiniteSet(t4) /\ c4 \in Nat
  BY <1>1, <1>3, Parts
<1>7. IsFiniteSet(t1 \cup t2) /\ Cardinality(t1 \cup t2) = c1 + c2
  <2>1. t1 \cap t2 = {}
    BY <1>1
  <2> QED BY <2>1, <1>3, <1>4, Apart
<1>8. IsFiniteSet(t1 \cup t2 \cup t3) /\ Cardinality(t1 \cup t2 \cup t3) = (c1 + c2) + c3
  <2>1. (t1 \cup t2) \cap t3 = {}
    BY <1>1
  <2> DEFINE t == t1 \cup t2
  <2>2. IsFiniteSet(t) /\ t \cap t3 = {} /\ Cardinality(t) = c1 + c2
    BY <2>1, <1>7
  <2> HIDE DEF t
  <2>3. IsFiniteSet(t \cup t3) /\ Cardinality(t \cup t3) = Cardinality(t) + Cardinality(t3)
    BY <2>2, <1>5, Apart
  <2> QED BY <2>2, <2>3 DEF t
<1>9. Cardinality(batch) = ((c1 + c2) + c3) + c4
  <2> DEFINE t == t1 \cup t2 \cup t3
  <2>1. IsFiniteSet(t) /\ t \cap t4 = {} /\ Cardinality(t) = (c1 + c2) + c3
    BY <1>1, <1>8
  <2> HIDE DEF t
  <2>2. Cardinality(t \cup t4) = Cardinality(t) + Cardinality(t4)
    BY <2>1, <1>6, Apart
  <2> QED BY <2>1, <2>2, <1>1 DEF t
<1>10. /\ ceil \in 0..limit /\ (limit >= 1 => ceil >= 1) /\ (o # el /\ limit >= 2 => ceil < limit)
       /\ share \in 0..limit
  BY Shares
<1>11. c1 = IF ceil <= n THEN ceil ELSE n
  <2>1. c1 = Min({ceil, n})
    BY DEF Parted
  <2> HIDE DEF ceil, n, c1
  <2> QED BY <2>1, <1>2, <1>10, MinOfTwo
<1>12. c2 <= (IF c1 >= share THEN c1 ELSE share) - c1
  <2>1. c2 <= Max({c1, share}) - c1
    BY DEF Parted
  <2> HIDE DEF share, c1, c2
  <2> QED BY <2>1, <1>3, <1>10, MaxOfTwo
<1>13. c3 = IF limit - (c1 + c2) <= (e - n) - c2 THEN limit - (c1 + c2) ELSE (e - n) - c2
  <2>1. c3 = Min({limit - (c1 + c2), (e - n) - c2})
    BY <1>4, <1>7 DEF Parted
  <2> HIDE DEF e, n, c1, c2, c3
  <2> QED BY <2>1, <1>2, <1>3, <1>4, MinOfTwo
<1>14. c4 = IF limit - ((c1 + c2) + c3) <= n - c1 THEN limit - ((c1 + c2) + c3) ELSE n - c1
  <2>1. c4 = Min({limit - ((c1 + c2) + c3), n - c1})
    BY <1>3, <1>8 DEF Parted
  <2> HIDE DEF e, n, c1, c2, c3, c4
  <2> QED BY <2>1, <1>2, <1>3, <1>4, <1>5, MinOfTwo
<1>15. Min({limit, e}) = IF limit <= e THEN limit ELSE e
  BY <1>2, MinOfTwo
<1>16. o # el => n < e
  BY <1>2
<1> HIDE DEF e, n, c1, c2, c3, c4, ceil, share
<1>17. c1 + c2 \in 0..limit
  BY <1>2, <1>3, <1>4, <1>10, <1>11, <1>12
<1>18. ((c1 + c2) + c3) + c4 = IF limit <= e THEN limit ELSE e
  BY <1>2, <1>3, <1>4, <1>5, <1>6, <1>13, <1>14, <1>17
<1>19. limit >= 2 /\ el # o => c2 # 0 \/ c3 # 0
  BY <1>2, <1>3, <1>4, <1>10, <1>11, <1>13, <1>16
<1>20. limit >= 1 /\ n # 0 => c1 # 0
  BY <1>2, <1>10, <1>11
<1>21. limit >= 2 /\ el # o => batch \ o # {}
  BY <1>1, <1>4, <1>5, <1>19
<1>22. limit >= 1 /\ o # {} => batch \cap o # {}
  BY <1>1, <1>2, <1>3, <1>20
<1>23. Cardinality(batch) = Min({limit, Cardinality(el)})
  BY <1>9, <1>15, <1>18 DEF e
<1>24. Cardinality(t1 \cup t2) \in 0..limit
  BY <1>7, <1>17
<1> QED BY <1>21, <1>22, <1>23, <1>24

\* With nothing due, no country to serve and a place for every source,
\* exploration leaves no source out.
LEMMA AllSourcesExplored ==
    ASSUME NEW el, IsFiniteSet(el), \A r \in el : r.src \in Sources,
           NEW w \in [Sources -> Weights], NEW cursor \in Nat,
           NEW limit \in Nat, limit >= Cardinality(Sources),
           NEW s \in ExplorePicks(el, w, cursor, limit)
    PROVE  SourceList(s) = SourceList(el)
<1>1. s \subseteq el /\ Cardinality(s) = Min({limit, Cardinality(el)})
  BY DEF ExplorePicks
<1>2. \A a, b \in SourceList(el) : From(s, a) # {} /\ From(s, b) # From(el, b) =>
         Turn(el, w, cursor, a, Cardinality(From(s, a)) - 1) < Turn(el, w, cursor, b, Cardinality(From(s, b)))
  BY DEF ExplorePicks
<1>3. SourceList(s) \subseteq SourceList(el)
  BY <1>1 DEF SourceList
<1> SUFFICES ASSUME NEW b \in SourceList(el), b \notin SourceList(s) PROVE FALSE
  BY <1>3
<1>4. SourceList(el) \subseteq Sources /\ IsFiniteSet(SourceList(el))
  BY SourcesFinite
<1>5. IsFiniteSet(s) /\ Cardinality(s) \in Nat /\ Cardinality(el) \in Nat
      /\ (Cardinality(s) = Cardinality(el) => s = el)
  BY <1>1, Parts
<1>6. From(s, b) = {} /\ From(el, b) # {} /\ Cardinality(From(s, b)) = 0
  <2>1. From(s, b) = {} /\ From(el, b) # {}
    BY DEF SourceList, From
  <2> QED BY <2>1, FS_EmptySet
<1>7. Cardinality(s) = limit
  <2>1. s # el
    OBVIOUS
  <2>2. Min({limit, Cardinality(el)}) = IF limit <= Cardinality(el) THEN limit ELSE Cardinality(el)
    BY <1>5, MinOfTwo
  <2> QED BY <2>1, <2>2, <1>1, <1>5
<1>8. ASSUME NEW a \in SourceList(s) PROVE Cardinality(From(s, a)) = 1
  <2>1. From(s, a) # {} /\ a \in SourceList(el)
    BY <1>3 DEF SourceList, From
  <2>2. Turn(el, w, cursor, a, Cardinality(From(s, a)) - 1) < Turn(el, w, cursor, b, 0)
    BY <2>1, <1>2, <1>6
  <2>3. Cardinality(From(s, a)) \in Nat /\ Cardinality(From(s, a)) # 0
    BY <2>1, <1>5, Parts DEF From
  <2> DEFINE t == Cardinality(From(s, a)) - 1
  <2>4. t \in Nat
    BY <2>3
  <2> HIDE DEF t
  <2>5. t = 0
    <3>1. Turn(el, w, cursor, a, t) < Turn(el, w, cursor, b, 0)
      BY <2>2 DEF t
    <3>2. 0 \in Nat
      OBVIOUS
    <3> QED BY <3>1, <3>2, <2>1, <2>4, <1>4, Turns
  <2> QED BY <2>3, <2>5 DEF t
<1> DEFINE f == [r \in s |-> r.src]
           T == Sources \ {b}
<1>9. ASSUME NEW r \in s, NEW q \in s, r.src = q.src PROVE r = q
  <2>1. r \in From(s, r.src) /\ q \in From(s, r.src) /\ r.src \in SourceList(s)
    BY <1>9 DEF From, SourceList
  <2>2. Cardinality(From(s, r.src)) = 1 /\ IsFiniteSet(From(s, r.src))
    BY <2>1, <1>5, <1>8, Parts DEF From
  <2>3. PICK x : From(s, r.src) = {x}
    BY <2>2, FS_Singleton
  <2> QED BY <2>1, <2>3
<1>10. f \in Injection(s, T)
  <2>1. f \in [s -> T]
    <3>1. ASSUME NEW r \in s PROVE r.src \in T
      BY <1>1 DEF SourceList
    <3> QED BY <3>1
  <2>2. \A r, q \in s : f[r] = f[q] => r = q
    BY <1>9
  <2> HIDE DEF f, T
  <2> QED BY <2>1, <2>2 DEF Injection, IsInjective
<1>11. IsFiniteSet(T) /\ Cardinality(T) = Cardinality(Sources) - 1 /\ Cardinality(Sources) \in Nat
  <2>1. b \in Sources /\ IsFiniteSet(Sources)
    BY <1>4, CollectorAssumption
  <2> QED BY <2>1, FS_RemoveElement, FS_CardinalityType
<1>12. Cardinality(s) <= Cardinality(T)
  <2> HIDE DEF f, T
  <2> QED BY <1>10, <1>11, FS_Injection
<1> QED BY <1>7, <1>11, <1>12

\* A weight for every source.
LEMMA WeightsExist == \E w : w \in [Sources -> Weights]
<1>1. PICK x \in Weights : TRUE
  BY CollectorAssumption
<1>2. [s \in Sources |-> x] \in [Sources -> Weights]
  OBVIOUS
<1> QED BY <1>2

\* Whatever it knows and is offered, schedule_candidates finds a batch.
LEMMA PlansExist ==
    ASSUME NEW st, st.cur \in Nat, NEW nodes, IsFiniteSet(nodes), NEW limit \in Nat,
           \A r \in nodes : r.src \in Sources /\ st.cand[r.fp].age \in 0..OldAge
    PROVE  ScheduleCandidates(st, nodes, limit) # {}
<1> DEFINE m == st.cand
           el == Eligible(m, nodes)
           Over(r, t) == m[r.fp].ok = "yes" /\ m[r.fp].age >= t
           o == {r \in el : \A t \in VerifyTtlFor : Over(r, t)}
<1>0. OldAge \in Nat
  BY CollectorAssumption DEF OldAge
<1>1. IsFiniteSet(el) /\ el \subseteq nodes
  <2>1. el \subseteq nodes
    BY DEF Eligible
  <2> QED BY <2>1, Parts
<1>2. o \in VerifiedOverdue(m, el)
  <2>1. VerifyTtlFor # {}
    BY CollectorAssumption DEF VerifyTtlFor
  <2>2. o \subseteq {r \in el : \E t \in VerifyTtlFor : Over(r, t)}
    BY <2>1
  <2> HIDE DEF el
  <2> QED BY <2>2 DEF VerifiedOverdue
<1>3. o \subseteq el
  OBVIOUS
<1> HIDE DEF el, o
<1>4. IsFiniteSet(o) /\ \A r \in o : m[r.fp].age \in 0..OldAge
  BY <1>1, <1>3, Parts
<1> DEFINE ceil == RefreshCeiling(limit, el, o)
           share == DeficitCeiling(limit, el \ o)
<1>5. ceil \in 0..limit /\ share \in 0..limit
  BY Shares
<1>6. PICK t1 : t1 \in OldestFirst(m, o, ceil)
  <2> HIDE DEF ceil, m
  <2>1. ceil \in Nat
    BY <1>5
  <2>2. OldestFirst(m, o, ceil) # {}
    BY <2>1, <1>0, <1>4, OldestExist
  <2> QED BY <2>2
<1>7. t1 \subseteq o /\ Cardinality(t1) = Min({ceil, Cardinality(o)})
  BY <1>6 DEF OldestFirst
<1>8. IsFiniteSet(t1) /\ Cardinality(t1) \in Nat
  BY <1>4, <1>7, Parts
<1> DEFINE room == Max({Cardinality(t1), share}) - Cardinality(t1)
           rest == el \ o
           d == [c \in Countries |-> Target]
<1>9. room \in Nat /\ IsFiniteSet(rest)
  <2>1. IsFiniteSet(rest)
    BY <1>1, <1>3, Parts
  <2> HIDE DEF share
  <2>2. Max({Cardinality(t1), share}) = IF Cardinality(t1) >= share THEN Cardinality(t1) ELSE share
    BY <1>5, <1>8, MaxOfTwo
  <2> QED BY <1>5, <1>8, <2>1, <2>2
<1>10. PICK t2 : t2 \in DeficitPicks(rest, d, room)
  <2> HIDE DEF rest, room
  <2> QED BY <1>9, DeficitPicksExist
<1>11. d \in Deficits(m)
  BY DeficitsExist
<1>12. t2 \subseteq rest /\ Cardinality(t2) <= room
  <2> HIDE DEF rest, room, d
  <2> QED BY <1>10 DEF DeficitPicks
<1>13. IsFiniteSet(t2) /\ Cardinality(t2) \in Nat
  BY <1>9, <1>12, Parts
<1> DEFINE left == rest \ t2
           more == limit - Cardinality(t1 \cup t2)
<1>14. IsFiniteSet(left) /\ left \subseteq nodes /\ \A r \in left : r.src \in Sources
  <2>1. left \subseteq nodes
    BY <1>1
  <2> HIDE DEF left
  <2> QED BY <2>1, Parts
<1>15. more \in Nat
  <2>1. t1 \cap t2 = {}
    BY <1>7, <1>12
  <2>2. Cardinality(t1 \cup t2) = Cardinality(t1) + Cardinality(t2)
    BY <2>1, <1>8, <1>13, Apart
  <2> HIDE DEF ceil, share
  <2>3. Cardinality(o) \in Nat /\ Cardinality(t1) <= ceil
    <3>1. Cardinality(o) \in Nat
      BY <1>4, FS_CardinalityType
    <3> QED BY <3>1, <1>5, <1>7, MinOfTwo
  <2>4. Max({Cardinality(t1), share}) = IF Cardinality(t1) >= share THEN Cardinality(t1) ELSE share
    BY <1>5, <1>8, MaxOfTwo
  <2> QED BY <2>2, <2>3, <2>4, <1>5, <1>8, <1>12, <1>13
<1>16. PICK w : w \in [Sources -> Weights]
  BY WeightsExist
<1>17. PICK t3 : t3 \in ExplorePicks(left, w, st.cur, more)
  <2> HIDE DEF left, more
  <2> QED BY <1>14, <1>15, <1>16, ExplorePicksExist
<1> DEFINE t == t1 \cup t2 \cup t3
           again == limit - Cardinality(t)
<1>18. again \in Nat
  <2>1. t3 \subseteq left /\ Cardinality(t3) = Min({more, Cardinality(left)})
    BY <1>17 DEF ExplorePicks
  <2>2. IsFiniteSet(t3) /\ Cardinality(t3) \in Nat /\ Cardinality(left) \in Nat
    <3> HIDE DEF left
    <3> QED BY <2>1, <1>14, Parts
  <2>3. Cardinality(t3) <= more
    <3> HIDE DEF left, more
    <3> QED BY <2>1, <2>2, <1>15, MinOfTwo
  <2> DEFINE u == t1 \cup t2
  <2>4. IsFiniteSet(u) /\ u \cap t3 = {} /\ Cardinality(u) \in Nat
    <3>1. t1 \cap t2 = {} /\ u \cap t3 = {}
      BY <1>7, <1>12, <2>1
    <3>2. IsFiniteSet(u)
      BY <3>1, <1>8, <1>13, Apart
    <3> QED BY <3>1, <3>2, FS_CardinalityType
  <2> HIDE DEF u
  <2>5. Cardinality(u \cup t3) = Cardinality(u) + Cardinality(t3)
    BY <2>2, <2>4, Apart
  <2>6. more = limit - Cardinality(u) /\ again = limit - Cardinality(u \cup t3)
    BY DEF u
  <2> HIDE DEF more, again
  <2> QED BY <2>2, <2>3, <2>4, <2>5, <2>6
<1>19. PICK t4 : t4 \in OldestFirst(m, o \ t1, again)
  <2>1. IsFiniteSet(o \ t1) /\ \A r \in o \ t1 : m[r.fp].age \in 0..OldAge
    BY <1>4, FS_Difference
  <2> HIDE DEF m, again
  <2>2. OldestFirst(m, o \ t1, again) # {}
    BY <2>1, <1>0, <1>18, OldestExist
  <2> QED BY <2>2
<1> DEFINE p == [batch |-> t1 \cup t2 \cup t3 \cup t4, el |-> el, due |-> o, t2 |-> t2,
                 explored |-> Cardinality(t1 \cup t2) < limit /\ left # {}, left |-> left]
<1>20. p \in Filled(m, el, o, t1, t2, t3, limit)
  <2> HIDE DEF m
  <2> QED BY <1>19 DEF Filled
<1> HIDE DEF p, left, more
<1>21. p \in Explored(st, el, o, t1, t2, limit)
  BY <1>16, <1>17, <1>20, Zenon DEF Explored, left, more, rest, m
<1>22. p \in Served(st, el, o, t1, limit)
  <2> HIDE DEF d
  <2> QED BY <1>10, <1>11, <1>21, Zenon DEF Served, room, rest, share, m
<1>23. p \in Refreshed(st, el, o, limit)
  BY <1>6, <1>22, Zenon DEF Refreshed
<1>24. p \in ScheduleCandidates(st, nodes, limit)
  BY <1>2, <1>23, Zenon DEF ScheduleCandidates, el, m
<1> QED BY <1>24

\* The feeds list finitely many nodes, each with its source and fingerprint.
LEMMA NodesFinite ==
    ASSUME NEW nodes \in Unique(FetchAllSources(Sources))
    PROVE  IsFiniteSet(nodes) /\ \A r \in nodes : r.src \in Sources /\ r.fp \in Fps
<1>1. ASSUME NEW s \in Sources
      PROVE  IsFiniteSet(ParseNodes(s)) /\ \A r \in ParseNodes(s) : r.src \in Sources /\ r.fp \in Fps
  <2> DEFINE E == {x \in Feed[s] : IF x.form = "json" THEN NodeFromSingbox(x) ELSE ParseUriToSingbox(x)}
             f == [e \in E |-> NodeOf(s, e)]
  <2>1. E \subseteq Feed[s]
    OBVIOUS
  <2>2. ParseNodes(s) = {NodeOf(s, e) : e \in E}
    BY Zenon DEF ParseNodes
  <2> HIDE DEF E
  <2>3. {NodeOf(s, e) : e \in E} = {f[e] : e \in E}
    OBVIOUS
  <2>4. IsFiniteSet(E)
    BY <2>1, Parts, FeedAssumption
  <2> HIDE DEF f
  <2>5. IsFiniteSet({f[e] : e \in E})
    BY <2>4, ImageFinite
  <2>6. \A e \in E : NodeOf(s, e).src = s
    BY DEF NodeOf
  <2>7. \A r \in ParseNodes(s) : r.src = s /\ r.fp \in Fps
    BY <2>2, <2>6, FeedAssumption
  <2> QED BY <2>2, <2>3, <2>5, <2>7
<1> DEFINE F == [s \in Sources |-> ParseNodes(s)]
           All == {F[s] : s \in Sources}
<1>2. FetchAllSources(Sources) = UNION All
  <2>1. \A s \in Sources : F[s] = ParseNodes(s)
    OBVIOUS
  <2> HIDE DEF F
  <2>2. {ParseNodes(s) : s \in Sources} = All
    BY <2>1
  <2> HIDE DEF All
  <2> QED BY <2>2 DEF FetchAllSources
<1>3. IsFiniteSet(UNION All)
  <2>1. \A T \in All : IsFiniteSet(T)
    BY <1>1
  <2> HIDE DEF F
  <2>2. IsFiniteSet(All)
    BY CollectorAssumption, ImageFinite
  <2> HIDE DEF All
  <2> QED BY <2>1, <2>2, FS_UNION
<1>4. \A r \in UNION All : r.src \in Sources /\ r.fp \in Fps
  BY <1>1
<1>5. nodes \subseteq UNION All
  BY <1>2, Zenon DEF Unique
<1> HIDE DEF All
<1> QED BY <1>3, <1>4, <1>5, Parts

\* What SelectionIsFair asks of the batches for one set of nodes.
FairPlans(st, nodes) ==
    LET plans == ScheduleCandidates(st, nodes, Limit) IN
    /\ plans # {}
    /\ \A p \in plans :
        /\ Cardinality(p.batch) = Min({Limit, Cardinality(p.el)})
        /\ Limit >= 2 /\ p.el # p.due => p.batch \ p.due # {}
        /\ Limit >= 1 /\ p.due # {} => p.batch \cap p.due # {}
        /\ p.due = {} /\ p.t2 = {} /\ Limit >= Cardinality(Sources) =>
               SourceList(p.batch) = SourceList(p.el)

\* It holds of any memory of well-typed ages.
LEMMA PlansAreFair ==
    ASSUME NEW st, st.cur \in Nat, \A n \in Fps : st.cand[n].age \in 0..OldAge,
           NEW nodes, IsFiniteSet(nodes), \A r \in nodes : r.src \in Sources /\ r.fp \in Fps
    PROVE  FairPlans(st, nodes)
<1>1. Limit \in Nat
  BY CollectorAssumption
<1>2. ScheduleCandidates(st, nodes, Limit) # {}
  <2>1. \A r \in nodes : r.src \in Sources /\ st.cand[r.fp].age \in 0..OldAge
    OBVIOUS
  <2> QED BY <2>1, <1>1, PlansExist
<1>3. ASSUME NEW p \in ScheduleCandidates(st, nodes, Limit)
      PROVE  /\ Cardinality(p.batch) = Min({Limit, Cardinality(p.el)})
             /\ Limit >= 2 /\ p.el # p.due => p.batch \ p.due # {}
             /\ Limit >= 1 /\ p.due # {} => p.batch \cap p.due # {}
             /\ p.due = {} /\ p.t2 = {} /\ Limit >= Cardinality(Sources) =>
                    SourceList(p.batch) = SourceList(p.el)
  <2> DEFINE el == Eligible(st.cand, nodes)
  <2>1. el \subseteq nodes
    BY DEF Eligible
  <2>2. IsPlan(p, st, el, Limit)
    BY PlanHasParts
  <2> HIDE DEF el
  <2>3. IsFiniteSet(el) /\ \A r \in el : r.src \in Sources
    BY <2>1, Parts
  <2>4. PICK o, t1, t2, t3, t4 :
          /\ Parted(p.batch, el, o, t1, t2, t3, t4, Limit)
          /\ ExploredInTurn(t3, el, o, t2, Limit - Cardinality(t1 \cup t2), st.cur)
          /\ p.el = el /\ p.due = o /\ p.t2 = t2
    BY <2>2, Zenon DEF IsPlan
  <2>5. /\ Cardinality(p.batch) = Min({Limit, Cardinality(el)})
        /\ Limit >= 2 /\ el # o => p.batch \ o # {}
        /\ Limit >= 1 /\ o # {} => p.batch \cap o # {}
    BY <2>3, <2>4, <1>1, PartsFill
  <2>6. ASSUME o = {}, t2 = {}, Limit >= Cardinality(Sources) PROVE SourceList(p.batch) = SourceList(el)
    <3>1. t1 = {} /\ t4 = {} /\ p.batch = t3
      BY <2>4, <2>6 DEF Parted
    <3>2. (el \ o) \ t2 = el /\ t1 \cup t2 = {} /\ Limit - Cardinality({}) = Limit
      BY <2>6, <3>1, <1>1, FS_EmptySet
    <3>3. PICK w \in [Sources -> Weights] : t3 \in ExplorePicks(el, w, st.cur, Limit)
      BY <2>4, <3>2 DEF ExploredInTurn
    <3>4. SourceList(t3) = SourceList(el)
      BY <2>3, <2>6, <3>3, <1>1, AllSourcesExplored
    <3> QED BY <3>1, <3>4
  <2> QED BY <2>4, <2>5, <2>6
<1> QED BY <1>2, <1>3 DEF FairPlans

-----------------------------------------------------------------------------
(* The theorems                                                            *)

\* Before the first cycle nothing is known, served or lost.
LEMMA CollectorStarts == CollectorInit => CollectorInv
<1> SUFFICES ASSUME CollectorInit PROVE CollectorInv
  OBVIOUS
<1>1. /\ file = InitSchedulerState /\ db = [n \in Fps |-> NoRow] /\ grp = [g \in Groups |-> {}]
      /\ run = AtRest /\ since = MaxSince /\ proof = [n \in Fps |-> OldAge] /\ ev = [n \in Fps |-> 0]
      /\ lost = {} /\ told = FALSE
  BY DEF CollectorInit
<1>2. run.pc = "idle" /\ run.ver \in [Fps -> Answers]
  BY <1>1, RestFields
<1>3. \A n \in Fps : db[n] = NoRow /\ proof[n] = OldAge /\ ev[n] = 0
  BY <1>1
<1>4. TypesOK
  <2>1. RunOK
    BY <1>2 DEF RunOK, Pcs
  <2>2. since \in Nat /\ OldAge \in 0..OldAge /\ 0 \in 0..FailCap
    BY <1>1, Numbers
  <2> QED BY <2>1, <2>2, <1>1, <1>3, InitMemory, NoRowOK DEF TypesOK
<1>5. ProofOK
  BY <1>2, <1>3, NoRowOK, Numbers DEF ProofOK
<1>6. FeedOK
  BY <1>1, Numbers DEF FeedOK
<1>7. StarvedIsAlerted
  BY <1>1 DEF StarvedIsAlerted
<1>8. ASSUME NEW n \in Fps PROVE SameEvidence(n)
  BY <1>1, <1>2, <1>3, InitMemory, NoRowOK DEF SameEvidence
<1> QED BY <1>4, <1>5, <1>6, <1>7, <1>8 DEF CollectorInv

\* Every step of a cycle, its death at any of them and the hours between two
\* cycles keep the invariant.
LEMMA CollectorSteps == CollectorInv /\ [CollectorNext]_cvars => CollectorInv'
<1> SUFFICES ASSUME CollectorInv, [CollectorNext]_cvars PROVE CollectorInv'
  OBVIOUS
<1>1. CASE \E b \in BOOLEAN : Collect(b) \/ SaveState(b) \/ SendGroupStarvationAlert(b)
  BY <1>1, CollectStep, SaveStep, AlertStep
<1>2. CASE CollectUnscheduled
  BY <1>2, UnscheduledStep
<1>3. CASE UpsertNodes
  BY <1>3, UpsertStep
<1>4. CASE Die
  BY <1>4, DieStep
<1>5. CASE Tick
  BY <1>5, TickStep
<1>6. CASE UNCHANGED cvars
  <2>1. UNCHANGED <<file, db, grp, alert, run, since, proof, ev, lost, told>>
    BY <1>6 DEF cvars
  <2>2. TypesOK' /\ ProofOK' /\ FeedOK'
    BY <2>1 DEF CollectorInv, TypesOK, RunOK, ProofOK, FeedOK, DirectPoolFeed
  <2>3. StarvedIsAlerted'
    BY <2>1 DEF CollectorInv, StarvedIsAlerted, Starved, GroupHealthSnapshot
  <2>4. ASSUME NEW n \in Fps \ lost' PROVE SameEvidence(n)'
    BY <2>1 DEF CollectorInv, SameEvidence
  <2> QED BY <2>2, <2>3, <2>4 DEF CollectorInv
<1> QED BY <1>1, <1>2, <1>3, <1>4, <1>5, <1>6 DEF CollectorNext

\* The inductive invariant holds throughout.
THEOREM CollectorInvariant == CollectorSpec => []CollectorInv
BY CollectorStarts, CollectorSteps, PTL DEF CollectorSpec

\* The variables have their types, and a row is enabled, verified and counted
\* consistently (upsert_nodes and update_state), whatever the feeds and
\* probes bring.
THEOREM CollectorTypes == CollectorSpec => []CollectorTypeOK
<1>1. CollectorInv => CollectorTypeOK
  <2> SUFFICES ASSUME CollectorInv PROVE CollectorTypeOK
    OBVIOUS
  <2>1. \A n \in Fps : /\ file.cand[n].fails > 0 <=> file.cand[n].ok = "no"
                       /\ file.cand[n].cool > 0 => file.cand[n].ok = "no"
    BY MemoryTypes, MetaTypes DEF CollectorInv, TypesOK
  <2>2. \A n \in Fps : /\ db[n].row /\ db[n].fails < Threshold => db[n].en
                       /\ db[n].en => db[n].fails < Threshold \/ db[n].fails = 1
                       /\ db[n].ok => db[n].en
    BY RowTypes DEF CollectorInv, TypesOK
  <2>3. /\ file \in [cand : [Fps -> Metas], cur : Nat]
        /\ grp \in [Groups -> SUBSET Fps] /\ lost \subseteq Fps
        /\ run.pc \in {"idle", "save", "upsert", "alert"}
    BY DEF CollectorInv, TypesOK, MemoryOK, RunOK, Pcs
  <2> QED BY <2>1, <2>2, <2>3 DEF CollectorTypeOK, Metas
<1> QED BY <1>1, CollectorInvariant, PTL

\* What clients are served got its 204 within the health TTL of the last
\* commit, through lost files, failed saves, rollbacks and deaths.
THEOREM ServedProven == CollectorSpec => []ServedIsProven
<1>1. CollectorInv => ServedIsProven
  <2> SUFFICES ASSUME CollectorInv, since < MaxSince, NEW n \in DirectPoolFeed
               PROVE  proof[n] <= HealthTTL + since
    BY DEF ServedIsProven
  <2>1. n \in Fps
    BY Numbers DEF DirectPoolFeed, CollectorInv, TypesOK
  <2>2. proof[n] \in 0..OldAge /\ RowOK(db[n]) /\ proof[n] <= db[n].age /\ since \in Nat
    BY <2>1 DEF CollectorInv, TypesOK, ProofOK
  <2>3. db[n].age \in 0..OldAge
    BY <2>2, RowTypes
  <2>4. db[n].age <= HealthTTL + since
    BY DEF CollectorInv, FeedOK
  <2> QED BY <2>2, <2>3, <2>4, Numbers
<1> QED BY <1>1, CollectorInvariant, PTL

\* The file and the database count the same failures of every node of which
\* neither has lost a verdict (update_state and upsert_nodes).
THEOREM EvidenceShared == CollectorSpec => []EvidenceAgrees
<1>1. CollectorInv => EvidenceAgrees
  BY DEF CollectorInv, EvidenceAgrees, SameEvidence
<1> QED BY <1>1, CollectorInvariant, PTL

\* After a cycle whose alert went through, every starved group has been named
\* to the operator (send_group_starvation_alert and its suppression).
THEOREM StarvedKnown == CollectorSpec => []StarvedIsAlerted
<1>1. CollectorInv => StarvedIsAlerted
  BY DEF CollectorInv
<1> QED BY <1>1, CollectorInvariant, PTL

\* Whatever the feeds bring between two cycles, schedule_candidates finds a
\* batch; it fills the budget, leaves discovery a place, refreshes what is due
\* and, with nothing else to serve, leaves no source out.
THEOREM SelectionFair == CollectorSpec => []SelectionIsFair
<1>1. CollectorInv => SelectionIsFair
  <2> SUFFICES ASSUME CollectorInv, NEW nodes \in Unique(FetchAllSources(Sources))
               PROVE  FairPlans(file, nodes)
    BY Zenon DEF SelectionIsFair, FairPlans
  <2>1. file.cur \in Nat /\ \A n \in Fps : file.cand[n].age \in 0..OldAge
    BY MemoryTypes, MetaTypes DEF CollectorInv, TypesOK
  <2>2. IsFiniteSet(nodes) /\ \A r \in nodes : r.src \in Sources /\ r.fp \in Fps
    BY NodesFinite
  <2> QED BY <2>1, <2>2, PlansAreFair
<1> QED BY <1>1, CollectorInvariant, PTL
=============================================================================
