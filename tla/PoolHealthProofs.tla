-------------------------- MODULE PoolHealthProofs --------------------------
(***************************************************************************)
(* Proofs about PoolHealth, for any outbounds, groups, caps, thresholds and*)
(* number of health checks: the counts that take an outbound out of a      *)
(* group, the candidates that may come back, and the file the service runs *)
(* with, although the rebuild does not take the lock.                      *)
(***************************************************************************)
EXTENDS PoolHealth, FiniteSetTheorems, TLAPS

\* A check at work holds the lock; one that is not knows nothing.
LockOK ==
    \A h \in Checkers : /\ hc[h].pc # "idle" => lock = h
                        /\ hc[h].pc = "idle" => hc[h] = Asleep

\* While the service does not run with the file on disk, somebody is about to
\* restart it or a restart is known to be missing.
SyncOK ==
    \/ svc = cfg \/ unsynced
    \/ rb.pc \in {"move", "restart"}
    \/ \E h \in Checkers : hc[h].pc \in {"restart", "again"}

\* The rebuild had room for all of group g's outbounds in configuration c.
Full(c, g) == c.ok /\ Cardinality(c.nodes \cap Eligible[g]) <= GroupCap
\* What c may use in g is in g, or in C.
Covered(c, g, C) == Full(c, g) => Valid(c) \cap Eligible[g] \subseteq c.act[g] \cup C

\* What check r has in hand covers the file c, what it writes and what it may
\* roll back to; so does the state file s for the latter.
HeldOK(r, c, s, g) ==
    /\ r.pc # "idle" => Covered(c, g, r.mem.cand[g])
    /\ r.pc \in {"probe", "write", "replace"} => Covered(r.cf, g, r.mem.cand[g])
    /\ r.pc = "probe" => r.cf.act[g] \cap Valid(r.cf) \subseteq r.mem.cand[g]
    /\ Covered(r.orig, g, r.mem.cand[g]) /\ Covered(r.orig, g, s.cand[g])

\* A rebuilt configuration uses all it may; the state file covers the
\* configuration, until a check has replaced it.
CandidatesOK ==
    /\ \A g \in Groups : Covered(rb.new, g, {})
    /\ ~forgot =>
         /\ \A g \in Groups, h \in Checkers : HeldOK(hc[h], cfg, st, g)
         /\ (\A h \in Checkers : hc[h].pc \notin NewFile) => \A g \in Groups : Covered(cfg, g, st.cand[g])

\* What a check has in hand.
Pcs == {"idle", "probe", "write", "replace", "restart", "rollback", "again", "save"}
Rows == [pc : Pcs, cf : Configs, orig : Configs, mem : States]

PoolInv == PoolTypeOK /\ LockOK /\ FailuresAreConsecutive /\ SyncOK /\ CandidatesOK

-----------------------------------------------------------------------------
(* Records                                                                 *)

\* There is no file and nothing is known at the beginning.
LEMMA EmptyRecords ==
    /\ Absent \in Configs /\ ~Absent.ok /\ Blank \in States
    /\ \A t \in Tags : Blank.fails[t] = 0
BY PoolAssumption DEF Absent, Configs, Blank, States

\* The fields of a check.
LEMMA CheckFields ==
    ASSUME NEW pc, NEW cf, NEW orig, NEW mem
    PROVE  /\ Check(pc, cf, orig, mem).pc = pc /\ Check(pc, cf, orig, mem).cf = cf
           /\ Check(pc, cf, orig, mem).orig = orig /\ Check(pc, cf, orig, mem).mem = mem
BY DEF Check

\* A check is a record of its kind.
LEMMA CheckIsRow ==
    ASSUME NEW pc \in Pcs, NEW cf \in Configs, NEW orig \in Configs, NEW mem \in States
    PROVE  Check(pc, cf, orig, mem) \in Rows
BY DEF Check, Rows

\* The types of its fields.
LEMMA RowFields ==
    ASSUME NEW r \in Rows PROVE r.pc \in Pcs /\ r.cf \in Configs /\ r.orig \in Configs /\ r.mem \in States
BY DEF Rows

\* A check that sleeps has nothing in hand.
LEMMA AsleepFields ==
    /\ Asleep \in Rows /\ Asleep.pc = "idle" /\ Asleep.mem = Blank
    /\ Asleep.cf = Absent /\ Asleep.orig = Absent
BY EmptyRecords, CheckIsRow, CheckFields DEF Asleep, Pcs

\* The fields of a configuration, which may be given other members.
LEMMA ConfigFields ==
    ASSUME NEW c \in Configs
    PROVE  /\ c.ok \in BOOLEAN /\ c.nodes \subseteq Tags /\ c.act \in [Groups -> SUBSET Tags]
           /\ Valid(c) \subseteq Tags
           /\ \A a \in [Groups -> SUBSET Tags] : [ok |-> c.ok, nodes |-> c.nodes, act |-> a] \in Configs
BY DEF Configs, Valid

\* The fields of a state file.
LEMMA StateFields ==
    ASSUME NEW s \in States
    PROVE  s.cand \in [Groups -> SUBSET Tags] /\ s.fails \in [Tags -> 0..FailCap]
BY DEF States

\* The record of check h is replaced by r.
Becomes(h, r) == hc' = [hc EXCEPT ![h] = r]

\* A step of one check leaves the others alone.
LEMMA BecomesFacts ==
    ASSUME hc \in [Checkers -> Rows], NEW h \in Checkers, NEW r \in Rows, Becomes(h, r)
    PROVE  /\ hc' \in [Checkers -> Rows] /\ hc'[h] = r
           /\ \A k \in Checkers : k # h => hc'[k] = hc[k]
BY DEF Becomes

\* A check at work is the only one, because of the lock.
LEMMA Alone ==
    ASSUME LockOK, NEW h \in Checkers, hc[h].pc # "idle"
    PROVE  lock = h /\ \A k \in Checkers : k # h => hc[k] = Asleep
BY DEF LockOK

\* Nobody is at work while the lock is free.
LEMMA NobodyElse ==
    ASSUME LockOK, lock = NoOne PROVE \A k \in Checkers : hc[k] = Asleep
BY PoolAssumption DEF LockOK

-----------------------------------------------------------------------------
(* What a probe finds                                                      *)

\* A count stays within its cap; only a dead verdict raises it.
LEMMA CountSteps ==
    ASSUME NEW n \in 0..FailCap, NEW verdict
    PROVE  /\ Count(n, verdict) \in 0..FailCap
           /\ verdict = "unknown" => Count(n, verdict) = n
           /\ verdict = "dead" => Count(n, verdict) = IF n < FailCap THEN n + 1 ELSE n
BY PoolAssumption DEF Count

\* A round of verdicts changes counts and no candidates.
LEMMA RecountFields ==
    ASSUME NEW m \in States, NEW v
    PROVE  /\ Recount(m, v) \in States /\ Recount(m, v).cand = m.cand
           /\ \A t \in Tags : Recount(m, v).fails[t] =
                IF t \in References(m) THEN Count(m.fails[t], v[t]) ELSE m.fails[t]
<1>1. \A t \in Tags : m.fails[t] \in 0..FailCap
  BY StateFields
<1>2. \A t \in Tags : Count(m.fails[t], v[t]) \in 0..FailCap
  BY <1>1, CountSteps
<1>3. m.cand \in [Groups -> SUBSET Tags]
  BY StateFields
<1> QED BY <1>1, <1>2, <1>3 DEF Recount, States

\* A round of verdicts, and what becomes of the check's configuration.
LEMMA ProbeWrites ==
    ASSUME NEW h \in Checkers, HcProbe(h)
    PROVE  \E v \in [References(hc[h].mem) -> {"alive", "dead", "unknown"}],
              act \in [Groups -> SUBSET References(hc[h].mem)] :
             /\ Compared(h, hc[h].cf, act, Recount(hc[h].mem, v))
             /\ Witness(References(hc[h].mem), v)
BY Zenon DEF HcProbe

\* The counts a check goes on with stay within what was seen.
LEMMA RecountConsecutive ==
    ASSUME NEW m \in States, NEW v \in [References(m) -> {"alive", "dead", "unknown"}],
           Witness(References(m), v), ev \in [Tags -> 0..FailCap], unsaved \subseteq Tags
    PROVE  /\ ev' \in [Tags -> 0..FailCap] /\ unsaved' \subseteq Tags
           /\ \A t \in Tags \ unsaved' : /\ t \notin unsaved /\ ev[t] <= ev'[t]
                                         /\ m.fails[t] <= ev[t] => Recount(m, v).fails[t] <= ev'[t]
<1> DEFINE refs == References(m)
<1>1. refs \subseteq Tags
  BY StateFields DEF References
<1>2. \A t \in Tags : m.fails[t] \in 0..FailCap /\ ev[t] \in 0..FailCap
  BY StateFields
<1>3. ev' \in [Tags -> 0..FailCap]
  BY <1>2, PoolAssumption DEF Witness
<1>4. unsaved' \subseteq Tags
  BY <1>1 DEF Witness
<1>5. ASSUME NEW t \in Tags \ unsaved'
      PROVE  /\ t \notin unsaved /\ ev[t] <= ev'[t]
             /\ m.fails[t] <= ev[t] => Recount(m, v).fails[t] <= ev'[t]
  <2>1. t \notin unsaved /\ (t \in refs => v[t] \in {"dead", "unknown"})
    BY <1>5 DEF Witness
  <2>2. CASE t \in refs /\ v[t] = "dead"
    <3>1. Recount(m, v).fails[t] = IF m.fails[t] < FailCap THEN m.fails[t] + 1 ELSE m.fails[t]
      BY <1>2, <2>2, RecountFields, CountSteps
    <3>2. ev'[t] = IF ev[t] < FailCap THEN ev[t] + 1 ELSE ev[t]
      BY <2>2 DEF Witness
    <3> QED BY <1>2, <2>1, <3>1, <3>2, PoolAssumption
  <2>3. CASE t \notin refs \/ v[t] = "unknown"
    <3>1. Recount(m, v).fails[t] = m.fails[t]
      BY <1>2, <2>3, RecountFields, CountSteps
    <3>2. ev'[t] = ev[t]
      BY <2>3 DEF Witness
    <3> QED BY <1>2, <2>1, <3>1, <3>2
  <2> QED BY <2>1, <2>2, <2>3
<1> QED BY <1>3, <1>4, <1>5

-----------------------------------------------------------------------------
(* Steps                                                                   *)

\* What the invariant says of types.
LEMMA InvTypes ==
    ASSUME PoolInv
    PROVE  /\ cfg \in Configs /\ svc \in Configs /\ st \in States /\ lock \in Checkers \cup {NoOne}
           /\ hc \in [Checkers -> Rows] /\ rb.new \in Configs
           /\ rb.pc \in {"idle", "compare", "rename", "move", "restart"}
           /\ ev \in [Tags -> 0..FailCap] /\ unsaved \subseteq Tags
           /\ forgot \in BOOLEAN /\ unsynced \in BOOLEAN /\ faults \in 0..MaxFaults
BY DEF PoolInv, PoolTypeOK, Rows, Pcs

\* A configuration that needs no candidates is covered by any.
LEMMA CoveredByAny ==
    ASSUME NEW c, NEW g, NEW C, Covered(c, g, {}) \/ ~c.ok
    PROVE  Covered(c, g, C)
BY DEF Covered, Full

\* A check that sleeps has nothing to remember.
LEMMA AsleepHolds ==
    ASSUME NEW c, NEW s, NEW g PROVE HeldOK(Asleep, c, s, g)
<1>1. /\ Asleep.pc = "idle" /\ ~Asleep.orig.ok
  BY AsleepFields, EmptyRecords
<1> QED BY <1>1, CoveredByAny DEF HeldOK

\* A step of check h, everybody else being asleep, keeps the invariant when what
\* it leaves behind does.
LEMMA CheckStep ==
    ASSUME PoolInv, NEW h \in Checkers, NEW r \in Rows, Becomes(h, r),
           \A k \in Checkers : k # h => hc[k] = Asleep,
           cfg' \in Configs, svc' \in Configs, st' \in States, rb' = rb,
           ev' \in [Tags -> 0..FailCap], unsaved' \subseteq Tags,
           forgot' \in BOOLEAN, unsynced' \in BOOLEAN, faults' \in 0..MaxFaults,
           (r.pc # "idle" /\ lock' = h) \/ (r = Asleep /\ lock' = NoOne),
           \A t \in Tags \ unsaved' : st'.fails[t] <= ev'[t] /\ r.mem.fails[t] <= ev'[t],
           svc' = cfg' \/ unsynced' \/ rb.pc \in {"move", "restart"} \/ r.pc \in {"restart", "again"},
           forgot' \/ \A g \in Groups : /\ HeldOK(r, cfg', st', g)
                                        /\ r.pc \notin NewFile => Covered(cfg', g, st'.cand[g])
    PROVE  PoolInv'
<1>1. /\ hc' \in [Checkers -> Rows] /\ hc'[h] = r
      /\ \A k \in Checkers : k # h => hc'[k] = Asleep
  BY InvTypes, BecomesFacts
<1>2. PoolTypeOK'
  <2>1. lock' \in Checkers \cup {NoOne}
    OBVIOUS
  <2>2. rb' \in [pc : {"idle", "compare", "rename", "move", "restart"}, new : Configs]
    BY DEF PoolInv, PoolTypeOK
  <2> QED BY <1>1, <2>1, <2>2 DEF PoolTypeOK, Rows, Pcs
<1>3. LockOK'
  BY <1>1, AsleepFields DEF LockOK
<1>4. FailuresAreConsecutive'
  <2>1. \A t \in Tags : Asleep.mem.fails[t] = 0 /\ ev'[t] \in 0..FailCap
    BY AsleepFields, EmptyRecords
  <2>2. \A t \in Tags : Asleep.mem.fails[t] <= ev'[t]
    BY <2>1, PoolAssumption
  <2> QED BY <1>1, <2>2 DEF FailuresAreConsecutive
<1>5. SyncOK'
  BY <1>1 DEF SyncOK
<1>6. CandidatesOK'
  <2>1. \A g \in Groups : Covered(rb'.new, g, {})
    BY DEF PoolInv, CandidatesOK
  <2>2. ~forgot' => \A g \in Groups, k \in Checkers : HeldOK(hc'[k], cfg', st', g)
    BY <1>1, AsleepHolds
  <2>3. ~forgot' => ((\A k \in Checkers : hc'[k].pc \notin NewFile)
                       => \A g \in Groups : Covered(cfg', g, st'.cand[g]))
    BY <1>1
  <2>4. CandidatesOK' = (/\ \A g \in Groups : Covered(rb'.new, g, {})
                         /\ ~forgot' =>
                              /\ \A g \in Groups, k \in Checkers : HeldOK(hc'[k], cfg', st', g)
                              /\ (\A k \in Checkers : hc'[k].pc \notin NewFile)
                                   => \A g \in Groups : Covered(cfg', g, st'.cand[g]))
    BY DEF CandidatesOK, HeldOK, Covered, Full, Valid, NewFile
  <2> QED BY <2>1, <2>2, <2>3, <2>4
<1> QED BY <1>2, <1>3, <1>4, <1>5, <1>6 DEF PoolInv

\* A step of the rebuild keeps the invariant when the configurations do.
LEMMA RebuildStep ==
    ASSUME PoolInv, UNCHANGED <<st, lock, hc, ev, unsaved, forgot>>,
           cfg' \in Configs, svc' \in Configs,
           rb' \in [pc : {"idle", "compare", "rename", "move", "restart"}, new : Configs],
           unsynced' \in BOOLEAN, faults' \in 0..MaxFaults,
           \A g \in Groups : Covered(rb'.new, g, {}),
           cfg' = cfg \/ \A g \in Groups : Covered(cfg', g, {}),
           SyncOK'
    PROVE  PoolInv'
<1>1. PoolTypeOK'
  BY DEF PoolInv, PoolTypeOK
<1>2. LockOK' /\ FailuresAreConsecutive'
  BY DEF PoolInv, LockOK, FailuresAreConsecutive
<1>3. CandidatesOK'
  <2>1. ~forgot => \A g \in Groups, k \in Checkers : HeldOK(hc[k], cfg', st, g)
    <3> SUFFICES ASSUME ~forgot, NEW g \in Groups, NEW k \in Checkers PROVE HeldOK(hc[k], cfg', st, g)
      OBVIOUS
    <3>1. HeldOK(hc[k], cfg, st, g)
      BY DEF PoolInv, CandidatesOK
    <3>2. hc[k].pc # "idle" => Covered(cfg', g, hc[k].mem.cand[g])
      BY <3>1, CoveredByAny DEF HeldOK
    <3> QED BY <3>1, <3>2 DEF HeldOK
  <2>2. ~forgot => ((\A k \in Checkers : hc[k].pc \notin NewFile)
                       => \A g \in Groups : Covered(cfg', g, st.cand[g]))
    <3> SUFFICES ASSUME ~forgot, \A k \in Checkers : hc[k].pc \notin NewFile, NEW g \in Groups
                 PROVE  Covered(cfg', g, st.cand[g])
      OBVIOUS
    <3>1. Covered(cfg, g, st.cand[g])
      BY DEF PoolInv, CandidatesOK
    <3> QED BY <3>1, CoveredByAny
  <2>3. CandidatesOK' = (/\ \A g \in Groups : Covered(rb'.new, g, {})
                         /\ ~forgot' =>
                              /\ \A g \in Groups, k \in Checkers : HeldOK(hc'[k], cfg', st', g)
                              /\ (\A k \in Checkers : hc'[k].pc \notin NewFile)
                                   => \A g \in Groups : Covered(cfg', g, st'.cand[g]))
    BY DEF CandidatesOK, HeldOK, Covered, Full, Valid, NewFile
  <2> QED BY <2>1, <2>2, <2>3
<1> QED BY <1>1, <1>2, <1>3 DEF PoolInv

-----------------------------------------------------------------------------
(* The health check                                                        *)

\* What the invariant says of a check h at work.
LEMMA AtWork ==
    ASSUME PoolInv, NEW h \in Checkers, hc[h].pc # "idle"
    PROVE  /\ hc[h] \in Rows /\ hc[h].cf \in Configs /\ hc[h].orig \in Configs /\ hc[h].mem \in States
           /\ lock = h /\ \A k \in Checkers : k # h => hc[k] = Asleep
           /\ \A t \in Tags \ unsaved : st.fails[t] <= ev[t] /\ hc[h].mem.fails[t] <= ev[t]
           /\ hc[h].pc \notin {"restart", "again"} => svc = cfg \/ unsynced \/ rb.pc \in {"move", "restart"}
           /\ ~forgot => \A g \in Groups : /\ HeldOK(hc[h], cfg, st, g)
                                           /\ hc[h].pc \notin NewFile => Covered(cfg, g, st.cand[g])
<1>1. /\ hc[h] \in Rows /\ lock = h /\ \A k \in Checkers : k # h => hc[k] = Asleep
  BY InvTypes, Alone DEF PoolInv
<1>2. hc[h].cf \in Configs /\ hc[h].orig \in Configs /\ hc[h].mem \in States
  BY <1>1, RowFields
<1>3. \A t \in Tags \ unsaved : st.fails[t] <= ev[t] /\ hc[h].mem.fails[t] <= ev[t]
  BY DEF PoolInv, FailuresAreConsecutive
<1>4. hc[h].pc \notin {"restart", "again"} => svc = cfg \/ unsynced \/ rb.pc \in {"move", "restart"}
  BY <1>1, AsleepFields DEF PoolInv, SyncOK
<1>5. ~forgot => \A g \in Groups : HeldOK(hc[h], cfg, st, g)
  BY DEF PoolInv, CandidatesOK
<1>6. ~forgot /\ hc[h].pc \notin NewFile => \A g \in Groups : Covered(cfg, g, st.cand[g])
  BY <1>1, AsleepFields DEF PoolInv, CandidatesOK, NewFile
<1> QED BY <1>1, <1>2, <1>3, <1>4, <1>5, <1>6

\* A check that ends leaves its memory behind.
LEMMA EndsStep ==
    ASSUME PoolInv, NEW h \in Checkers, hc[h].pc # "idle", Ends(h),
           cfg' \in Configs, svc' \in Configs, st' \in States, UNCHANGED <<rb, ev>>, unsaved' \subseteq Tags,
           forgot' \in BOOLEAN, unsynced' \in BOOLEAN, faults' \in 0..MaxFaults,
           \A t \in Tags \ unsaved' : st'.fails[t] <= ev[t],
           svc' = cfg' \/ unsynced' \/ rb.pc \in {"move", "restart"},
           forgot' \/ \A g \in Groups : Covered(cfg', g, st'.cand[g])
    PROVE  PoolInv'
<1>1. Becomes(h, Asleep) /\ lock' = NoOne /\ Asleep \in Rows
  BY AsleepFields DEF Ends, Becomes
<1>2. \A k \in Checkers : k # h => hc[k] = Asleep
  BY AtWork
<1>3. \A t \in Tags : Asleep.mem.fails[t] <= ev[t]
  <2>1. \A t \in Tags : Asleep.mem.fails[t] = 0 /\ ev[t] \in 0..FailCap
    BY AsleepFields, EmptyRecords, InvTypes
  <2> QED BY <2>1, PoolAssumption
<1>4. forgot' \/ \A g \in Groups : /\ HeldOK(Asleep, cfg', st', g)
                                   /\ Asleep.pc \notin NewFile => Covered(cfg', g, st'.cand[g])
  BY AsleepHolds
<1>5. ev' \in [Tags -> 0..FailCap] /\ ev' = ev /\ rb' = rb
  BY InvTypes
<1> QED BY <1>1, <1>2, <1>3, <1>4, <1>5, CheckStep

\* A check that goes on with the same memory.
LEMMA GotoStep ==
    ASSUME PoolInv, NEW h \in Checkers, hc[h].pc # "idle",
           NEW pc \in Pcs \ {"idle"}, NEW cf \in Configs, NEW orig \in Configs,
           Goto(h, pc, cf, orig),
           cfg' \in Configs, svc' \in Configs, UNCHANGED <<st, lock, rb, ev, unsaved>>,
           forgot' \in BOOLEAN, unsynced' \in BOOLEAN, faults' \in 0..MaxFaults,
           svc' = cfg' \/ unsynced' \/ rb.pc \in {"move", "restart"} \/ pc \in {"restart", "again"},
           forgot' \/ \A g \in Groups :
                         /\ Covered(cfg', g, hc[h].mem.cand[g])
                         /\ pc \in {"probe", "write", "replace"} => Covered(cf, g, hc[h].mem.cand[g])
                         /\ pc # "probe"
                         /\ Covered(orig, g, hc[h].mem.cand[g]) /\ Covered(orig, g, st.cand[g])
                         /\ pc \notin NewFile => Covered(cfg', g, st.cand[g])
    PROVE  PoolInv'
<1>1. PICK r : r = Check(pc, cf, orig, hc[h].mem)
  OBVIOUS
<1>2. r.pc = pc /\ r.cf = cf /\ r.orig = orig /\ r.mem = hc[h].mem
  BY <1>1, CheckFields
<1>3. hc[h].mem \in States /\ lock = h /\ \A k \in Checkers : k # h => hc[k] = Asleep
  BY AtWork
<1>4. r \in Rows
  BY <1>1, <1>3, CheckIsRow
<1>5. Becomes(h, r)
  BY <1>1 DEF Goto, Becomes
<1>6. st' \in States /\ rb' = rb /\ ev' \in [Tags -> 0..FailCap] /\ unsaved' \subseteq Tags /\ lock' = h
  BY <1>3, InvTypes
<1>7. \A t \in Tags \ unsaved' : st'.fails[t] <= ev'[t] /\ r.mem.fails[t] <= ev'[t]
  BY <1>2, AtWork
<1>8. forgot' \/ \A g \in Groups : /\ HeldOK(r, cfg', st', g)
                                   /\ r.pc \notin NewFile => Covered(cfg', g, st'.cand[g])
  BY <1>2 DEF HeldOK
<1> QED BY <1>2, <1>3, <1>4, <1>5, <1>6, <1>7, <1>8, CheckStep

\* The number of failures stays within its bound.
LEMMA FaultCounts ==
    ASSUME faults \in 0..MaxFaults, Fault \/ Fine PROVE faults' \in 0..MaxFaults
BY PoolAssumption DEF Fault, Fine

\* The members of a group are registered as its candidates; counts are kept or
\* deleted.
LEMMA RegisteredFields ==
    ASSUME NEW c \in Configs, NEW s \in States
    PROVE  /\ Registered(c, s) \in States
           /\ \A g \in Groups : Registered(c, s).cand[g] = (s.cand[g] \cup c.act[g]) \cap Valid(c)
           /\ \A t \in Tags : Registered(c, s).fails[t] \in {s.fails[t], 0}
<1>1. Valid(c) \subseteq Tags /\ s.fails \in [Tags -> 0..FailCap] /\ 0 \in 0..FailCap
  BY ConfigFields, StateFields, PoolAssumption
<1> QED BY <1>1 DEF Registered, States

\* A check takes the lock when nobody is at work, and knows what the state file
\* knows.
LEMMA LoadKeeps ==
    ASSUME PoolInv, NEW h \in Checkers, HcLoad(h) PROVE PoolInv'
<1>1. PICK s \in States : /\ Becomes(h, Check("probe", cfg, Absent, Registered(cfg, s)))
                          /\ s = st \/ (s = Blank /\ forgot' = TRUE)
                          /\ Fault \/ Fine
                          /\ forgot' \in BOOLEAN /\ (~forgot' => ~forgot)
  <2>1. st \in States /\ Blank \in States /\ forgot \in BOOLEAN
    BY InvTypes, EmptyRecords
  <2> QED BY <2>1, Zenon DEF HcLoad, Becomes
<1>2. PICK m : m = Registered(cfg, s)
  OBVIOUS
<1>3. PICK r : r = Check("probe", cfg, Absent, m)
  OBVIOUS
<1>4. cfg \in Configs /\ Absent \in Configs /\ m \in States
  BY <1>2, InvTypes, EmptyRecords, RegisteredFields
<1>5. r \in Rows /\ r.pc = "probe" /\ r.cf = cfg /\ r.orig = Absent /\ r.mem = m
  BY <1>3, <1>4, CheckIsRow, CheckFields DEF Pcs
<1>6. /\ UNCHANGED <<cfg, svc, st, rb, ev, unsaved, unsynced>> /\ lock' = h
      /\ \A k \in Checkers : hc[k] = Asleep
  BY NobodyElse DEF HcLoad, files, PoolInv
<1>7. \A t \in Tags \ unsaved : st.fails[t] <= ev[t] /\ m.fails[t] <= ev[t]
  <2>1. \A t \in Tags : m.fails[t] \in {s.fails[t], 0} /\ ev[t] \in 0..FailCap
    BY <1>2, <1>4, InvTypes, RegisteredFields
  <2>2. \A t \in Tags : s.fails[t] = st.fails[t] \/ s.fails[t] = 0
    BY <1>1, EmptyRecords
  <2>3. \A t \in Tags \ unsaved : st.fails[t] <= ev[t]
    BY DEF PoolInv, FailuresAreConsecutive
  <2> QED BY <2>1, <2>2, <2>3, PoolAssumption
<1>8. svc = cfg \/ unsynced \/ rb.pc \in {"move", "restart"}
  BY <1>6, AsleepFields DEF PoolInv, SyncOK
<1>9. ASSUME ~forgot', NEW g \in Groups
      PROVE  HeldOK(r, cfg, st, g) /\ Covered(cfg, g, st.cand[g])
  <2>1. Covered(cfg, g, st.cand[g])
    BY <1>1, <1>6, <1>9, AsleepFields DEF PoolInv, CandidatesOK, NewFile
  <2>2. m.cand[g] = (st.cand[g] \cup cfg.act[g]) \cap Valid(cfg)
    BY <1>1, <1>2, <1>4, <1>9, RegisteredFields
  <2>3. Covered(cfg, g, m.cand[g]) /\ cfg.act[g] \cap Valid(cfg) \subseteq m.cand[g]
    BY <2>1, <2>2 DEF Covered
  <2>4. Covered(Absent, g, m.cand[g]) /\ Covered(Absent, g, st.cand[g])
    BY EmptyRecords, CoveredByAny
  <2> QED BY <1>5, <2>1, <2>3, <2>4 DEF HeldOK
<1>10. faults' \in 0..MaxFaults
  BY <1>1, InvTypes, FaultCounts
<1>11. Becomes(h, r)
  BY <1>1, <1>2, <1>3
<1>12. /\ cfg' \in Configs /\ svc' \in Configs /\ st' \in States /\ rb' = rb
       /\ ev' \in [Tags -> 0..FailCap] /\ unsaved' \subseteq Tags /\ unsynced' \in BOOLEAN
  BY <1>6, InvTypes
<1>13. \A t \in Tags \ unsaved' : st'.fails[t] <= ev'[t] /\ r.mem.fails[t] <= ev'[t]
  BY <1>5, <1>6, <1>7
<1>14. forgot' \/ \A g \in Groups : /\ HeldOK(r, cfg', st', g)
                                    /\ r.pc \notin NewFile => Covered(cfg', g, st'.cand[g])
  BY <1>6, <1>9
<1> QED BY <1>1, <1>5, <1>6, <1>8, <1>10, <1>11, <1>12, <1>13, <1>14, CheckStep

\* Whatever members a round of verdicts leaves a group, the candidates cover
\* the rest.
LEMMA ProbeKeeps ==
    ASSUME PoolInv, NEW h \in Checkers, HcProbe(h) PROVE PoolInv'
<1>1. PICK c, m : c = hc[h].cf /\ m = hc[h].mem
  OBVIOUS
<1>2. PICK v \in [References(m) -> {"alive", "dead", "unknown"}],
           act \in [Groups -> SUBSET References(m)] :
         Compared(h, c, act, Recount(m, v)) /\ Witness(References(m), v)
  BY <1>1, ProbeWrites
<1>3. PICK m2 : m2 = Recount(m, v)
  OBVIOUS
<1>4. hc[h].pc = "probe" /\ UNCHANGED <<cfg, svc, st, lock, rb, forgot, unsynced, faults>>
  BY DEF HcProbe, files
<1>5. /\ c \in Configs /\ m \in States /\ lock = h /\ \A k \in Checkers : k # h => hc[k] = Asleep
      /\ \A t \in Tags \ unsaved : st.fails[t] <= ev[t] /\ m.fails[t] <= ev[t]
      /\ svc = cfg \/ unsynced \/ rb.pc \in {"move", "restart"}
      /\ ~forgot => \A g \in Groups : HeldOK(hc[h], cfg, st, g) /\ Covered(cfg, g, st.cand[g])
  BY <1>1, <1>4, AtWork DEF NewFile
<1>6. m2 \in States /\ m2.cand = m.cand
  BY <1>3, <1>5, RecountFields
<1>7. PICK c2 : c2 = [ok |-> c.ok, nodes |-> c.nodes, act |-> act]
  OBVIOUS
<1>8. PICK r : /\ Becomes(h, r)
               /\ r = Check("write", c2, Absent, m2) \/ r = Check("save", Absent, Absent, m2)
  BY <1>2, <1>3, <1>7 DEF Compared, Becomes
<1>9. c2 \in Configs /\ Absent \in Configs
  <2>1. References(m) \subseteq Tags
    BY <1>5, StateFields DEF References
  <2>2. act \in [Groups -> SUBSET Tags]
    BY <2>1
  <2> QED BY <1>5, <1>7, <2>2, ConfigFields, EmptyRecords
<1>10. /\ r \in Rows /\ r.pc \in {"write", "save"} /\ r.orig = Absent /\ r.mem = m2
       /\ r.pc = "write" => r.cf = c2
  BY <1>6, <1>8, <1>9, CheckIsRow, CheckFields DEF Pcs
<1>11. /\ ev' \in [Tags -> 0..FailCap] /\ unsaved' \subseteq Tags
       /\ \A t \in Tags \ unsaved' : /\ t \notin unsaved /\ ev[t] <= ev'[t]
                                     /\ m.fails[t] <= ev[t] => m2.fails[t] <= ev'[t]
  BY <1>2, <1>3, <1>5, InvTypes, RecountConsecutive
<1>12. \A t \in Tags \ unsaved' : st.fails[t] <= ev'[t] /\ m2.fails[t] <= ev'[t]
  <2>1. \A t \in Tags : st.fails[t] \in 0..FailCap /\ ev[t] \in 0..FailCap /\ ev'[t] \in 0..FailCap
    BY <1>11, InvTypes, StateFields
  <2> QED BY <1>5, <1>11, <2>1, PoolAssumption
<1>13. ASSUME ~forgot, NEW g \in Groups
       PROVE  HeldOK(r, cfg, st, g) /\ Covered(cfg, g, st.cand[g])
  <2>1. /\ Covered(cfg, g, m.cand[g]) /\ Covered(c, g, m.cand[g])
        /\ c.act[g] \cap Valid(c) \subseteq m.cand[g] /\ Covered(cfg, g, st.cand[g])
    BY <1>1, <1>4, <1>5, <1>13 DEF HeldOK
  <2>2. Covered(c2, g, m.cand[g])
    BY <1>7, <2>1 DEF Covered, Full, Valid
  <2>3. Covered(Absent, g, m.cand[g]) /\ Covered(Absent, g, st.cand[g])
    BY EmptyRecords, CoveredByAny
  <2> QED BY <1>6, <1>10, <2>1, <2>2, <2>3 DEF HeldOK
<1>14. /\ cfg' \in Configs /\ svc' \in Configs /\ st' \in States /\ rb' = rb /\ lock' = h
       /\ forgot' \in BOOLEAN /\ unsynced' \in BOOLEAN /\ faults' \in 0..MaxFaults
  BY <1>4, <1>5, InvTypes
<1>15. \A t \in Tags \ unsaved' : st'.fails[t] <= ev'[t] /\ r.mem.fails[t] <= ev'[t]
  BY <1>4, <1>10, <1>12
<1>16. svc' = cfg' \/ unsynced' \/ rb.pc \in {"move", "restart"}
  BY <1>4, <1>5
<1>17. forgot' \/ \A g \in Groups : /\ HeldOK(r, cfg', st', g)
                                    /\ r.pc \notin NewFile => Covered(cfg', g, st'.cand[g])
  BY <1>4, <1>13
<1> QED BY <1>5, <1>8, <1>10, <1>11, <1>14, <1>15, <1>16, <1>17, CheckStep

\* The file that is kept for a rollback is covered by the state file.
LEMMA ValidateKeeps ==
    ASSUME PoolInv, NEW h \in Checkers, HcValidate(h) PROVE PoolInv'
<1>1. hc[h].pc = "write" /\ UNCHANGED <<cfg, svc, st, rb, ev, unsaved, forgot, unsynced>>
  BY DEF HcValidate, files, ghosts
<1>2. /\ cfg' \in Configs /\ svc' \in Configs /\ st' \in States /\ unsaved' \subseteq Tags
      /\ forgot' \in BOOLEAN /\ unsynced' \in BOOLEAN /\ faults' \in 0..MaxFaults
      /\ cfg \in Configs /\ UNCHANGED <<st, rb, ev, unsaved>>
  <2>1. Fault \/ Fine
    BY DEF HcValidate
  <2> QED BY <1>1, <2>1, InvTypes, FaultCounts
<1>3. /\ hc[h].cf \in Configs
      /\ \A t \in Tags \ unsaved : st.fails[t] <= ev[t]
      /\ svc = cfg \/ unsynced \/ rb.pc \in {"move", "restart"}
      /\ ~forgot => \A g \in Groups : HeldOK(hc[h], cfg, st, g) /\ Covered(cfg, g, st.cand[g])
  BY <1>1, AtWork DEF NewFile
<1>4. \A t \in Tags \ unsaved' : st'.fails[t] <= ev[t]
  BY <1>1, <1>3
<1>5. svc' = cfg' \/ unsynced' \/ rb.pc \in {"move", "restart"}
  BY <1>1, <1>3
<1>6. forgot' \/ \A g \in Groups : Covered(cfg', g, st'.cand[g])
  BY <1>1, <1>3
<1>7. CASE Ends(h)
  BY <1>1, <1>2, <1>4, <1>5, <1>6, <1>7, EndsStep
<1>8. CASE Goto(h, "replace", hc[h].cf, cfg) /\ UNCHANGED lock
  <2>1. forgot' \/ \A g \in Groups :
           /\ Covered(cfg', g, hc[h].mem.cand[g]) /\ Covered(hc[h].cf, g, hc[h].mem.cand[g])
           /\ Covered(cfg, g, hc[h].mem.cand[g]) /\ Covered(cfg, g, st.cand[g])
           /\ Covered(cfg', g, st.cand[g])
    BY <1>1, <1>3 DEF HeldOK
  <2>2. "replace" \in Pcs \ {"idle"}
    BY DEF Pcs
  <2> QED BY <1>1, <1>2, <1>3, <1>5, <1>8, <2>1, <2>2, GotoStep
<1> QED BY <1>7, <1>8 DEF HcValidate

\* The new file is covered by the candidates of the check, and a restart follows.
LEMMA ReplaceKeeps ==
    ASSUME PoolInv, NEW h \in Checkers, HcReplace(h) PROVE PoolInv'
<1>1. /\ hc[h].pc = "replace" /\ UNCHANGED <<svc, st, lock, rb, ev, unsaved, forgot, unsynced, faults>>
      /\ cfg' = hc[h].cf /\ Goto(h, "restart", Absent, hc[h].orig)
  BY DEF HcReplace, ghosts
<1>2. /\ hc[h].cf \in Configs /\ hc[h].orig \in Configs /\ Absent \in Configs
      /\ ~forgot => \A g \in Groups : HeldOK(hc[h], cfg, st, g)
  BY <1>1, AtWork, EmptyRecords
<1>3. /\ cfg' \in Configs /\ svc' \in Configs
      /\ forgot' \in BOOLEAN /\ unsynced' \in BOOLEAN /\ faults' \in 0..MaxFaults
  BY <1>1, <1>2, InvTypes
<1>4. forgot' \/ \A g \in Groups :
         /\ Covered(cfg', g, hc[h].mem.cand[g])
         /\ Covered(hc[h].orig, g, hc[h].mem.cand[g]) /\ Covered(hc[h].orig, g, st.cand[g])
  BY <1>1, <1>2 DEF HeldOK
<1>5. "restart" \in Pcs \ {"idle"} /\ "restart" \in NewFile
  BY DEF Pcs, NewFile
<1> QED BY <1>1, <1>2, <1>3, <1>4, <1>5, GotoStep

\* A restart of any outcome, called by a check or by the rebuild.
LEMMA RestartOutcome ==
    ASSUME PoolInv, Restarted \/ RestartSkipped \/ RestartFailed, cfg' = cfg
    PROVE  /\ cfg' \in Configs /\ svc' \in Configs /\ unsynced' \in BOOLEAN /\ faults' \in 0..MaxFaults
           /\ svc' = cfg' \/ unsynced'
<1>1. /\ cfg' \in Configs /\ svc' \in Configs /\ unsynced' \in BOOLEAN
      /\ svc' = cfg' \/ unsynced'
  BY InvTypes, EmptyRecords DEF Restarted, RestartSkipped, RestartFailed
<1>2. Fault \/ Fine
  BY DEF Restarted, RestartSkipped, RestartFailed
<1> QED BY <1>1, <1>2, InvTypes, FaultCounts

\* A restart brings the service in line with the file, or is known to be missing.
LEMMA RestartKeeps ==
    ASSUME PoolInv, NEW h \in Checkers, HcRestart(h) PROVE PoolInv'
<1>1. /\ hc[h].pc = "restart" /\ UNCHANGED <<cfg, st, lock, rb, ev, unsaved, forgot>>
      /\ Restarted \/ RestartSkipped \/ RestartFailed
  BY DEF HcRestart
<1>2. /\ hc[h].orig \in Configs /\ Absent \in Configs
      /\ ~forgot => \A g \in Groups : HeldOK(hc[h], cfg, st, g)
  BY <1>1, AtWork, EmptyRecords
<1>3. /\ cfg' \in Configs /\ svc' \in Configs /\ unsynced' \in BOOLEAN /\ faults' \in 0..MaxFaults
      /\ (svc' = cfg' \/ unsynced') /\ forgot' \in BOOLEAN
  BY <1>1, InvTypes, RestartOutcome
<1>4. forgot' \/ \A g \in Groups :
         /\ Covered(cfg', g, hc[h].mem.cand[g])
         /\ Covered(hc[h].orig, g, hc[h].mem.cand[g]) /\ Covered(hc[h].orig, g, st.cand[g])
         /\ Covered(Absent, g, hc[h].mem.cand[g]) /\ Covered(Absent, g, st.cand[g])
  BY <1>1, <1>2, EmptyRecords, CoveredByAny DEF HeldOK
<1>5. {"save", "rollback"} \subseteq Pcs \ {"idle"} /\ {"save", "rollback"} \subseteq NewFile
  BY DEF Pcs, NewFile
<1>6. CASE Goto(h, "save", Absent, Absent)
  BY <1>1, <1>2, <1>3, <1>4, <1>5, <1>6, GotoStep
<1>7. CASE Goto(h, "rollback", Absent, hc[h].orig)
  BY <1>1, <1>2, <1>3, <1>4, <1>5, <1>7, GotoStep
<1> QED BY <1>6, <1>7 DEF HcRestart

\* A rollback brings back a file that the state file covers.
LEMMA RollbackKeeps ==
    ASSUME PoolInv, NEW h \in Checkers, HcRollback(h) PROVE PoolInv'
<1>1. hc[h].pc = "rollback" /\ UNCHANGED <<svc, st, rb, ev, unsaved>>
  BY DEF HcRollback
<1>2. /\ hc[h].orig \in Configs /\ Absent \in Configs
      /\ \A t \in Tags \ unsaved : st.fails[t] <= ev[t]
      /\ svc = cfg \/ unsynced \/ rb.pc \in {"move", "restart"}
      /\ ~forgot => \A g \in Groups : HeldOK(hc[h], cfg, st, g)
  BY <1>1, AtWork, EmptyRecords
<1>3. svc' \in Configs /\ st' \in States /\ unsaved' \subseteq Tags
      /\ \A t \in Tags \ unsaved' : st'.fails[t] <= ev[t]
  BY <1>1, <1>2, InvTypes
<1>4. faults' \in 0..MaxFaults
  <2>1. Fault \/ Fine
    BY DEF HcRollback
  <2> QED BY <2>1, InvTypes, FaultCounts
<1>5. CASE /\ cfg' = hc[h].orig /\ Goto(h, "again", Absent, hc[h].orig)
           /\ UNCHANGED <<lock, unsynced, forgot>>
  <2>1. forgot' \/ \A g \in Groups :
           /\ Covered(cfg', g, hc[h].mem.cand[g]) /\ Covered(cfg', g, st.cand[g])
           /\ Covered(hc[h].orig, g, hc[h].mem.cand[g]) /\ Covered(hc[h].orig, g, st.cand[g])
    BY <1>2, <1>5 DEF HeldOK
  <2>2. "again" \in Pcs \ {"idle"}
    BY DEF Pcs
  <2>3. forgot' \in BOOLEAN /\ unsynced' \in BOOLEAN /\ cfg' \in Configs
    BY <1>2, <1>5, InvTypes
  <2> QED BY <1>1, <1>2, <1>3, <1>4, <1>5, <2>1, <2>2, <2>3, GotoStep
<1>6. CASE Ends(h) /\ forgot' = TRUE /\ UNCHANGED <<cfg, unsynced>>
  <2>1. cfg' \in Configs /\ unsynced' \in BOOLEAN /\ forgot' \in BOOLEAN
    BY <1>6, InvTypes
  <2>2. svc' = cfg' \/ unsynced' \/ rb.pc \in {"move", "restart"}
    BY <1>1, <1>2, <1>6
  <2> QED BY <1>1, <1>3, <1>4, <1>6, <2>1, <2>2, EndsStep
<1>7. CASE cfg' = Absent /\ unsynced' = TRUE /\ Ends(h) /\ UNCHANGED forgot
  <2>1. cfg' \in Configs /\ unsynced' \in BOOLEAN /\ forgot' \in BOOLEAN
    BY <1>2, <1>7, InvTypes
  <2>2. \A g \in Groups : Covered(cfg', g, st'.cand[g])
    BY <1>7, EmptyRecords, CoveredByAny
  <2> QED BY <1>1, <1>3, <1>4, <1>7, <2>1, <2>2, EndsStep
<1> QED BY <1>5, <1>6, <1>7 DEF HcRollback

\* So does the restart after a rollback.
LEMMA RestartAgainKeeps ==
    ASSUME PoolInv, NEW h \in Checkers, HcRestartAgain(h) PROVE PoolInv'
<1>1. /\ hc[h].pc = "again" /\ UNCHANGED <<cfg, st, rb, ev, unsaved, forgot>> /\ Ends(h)
      /\ Restarted \/ RestartSkipped \/ RestartFailed
  BY DEF HcRestartAgain
<1>2. /\ \A t \in Tags \ unsaved : st.fails[t] <= ev[t]
      /\ ~forgot => \A g \in Groups : Covered(cfg, g, st.cand[g])
  BY <1>1, AtWork DEF NewFile
<1>3. /\ cfg' \in Configs /\ svc' \in Configs /\ unsynced' \in BOOLEAN /\ faults' \in 0..MaxFaults
      /\ svc' = cfg' \/ unsynced'
  BY <1>1, RestartOutcome
<1>4. /\ forgot' \in BOOLEAN /\ st' \in States /\ unsaved' \subseteq Tags
      /\ \A t \in Tags \ unsaved' : st'.fails[t] <= ev[t]
  BY <1>1, <1>2, InvTypes
<1>5. forgot' \/ \A g \in Groups : Covered(cfg', g, st'.cand[g])
  BY <1>1, <1>2
<1> QED BY <1>1, <1>3, <1>4, <1>5, EndsStep

\* The candidates of the check become those of the state file.
LEMMA SaveKeeps ==
    ASSUME PoolInv, NEW h \in Checkers, HcSave(h) PROVE PoolInv'
<1>1. hc[h].pc = "save" /\ UNCHANGED <<cfg, svc, rb, ev, unsynced>> /\ Ends(h)
  BY DEF HcSave
<1>2. /\ \A t \in Tags \ unsaved : st.fails[t] <= ev[t] /\ hc[h].mem.fails[t] <= ev[t]
      /\ svc = cfg \/ unsynced \/ rb.pc \in {"move", "restart"}
      /\ ~forgot => \A g \in Groups : HeldOK(hc[h], cfg, st, g)
      /\ hc[h].mem \in States
  BY <1>1, AtWork
<1>3. /\ cfg' \in Configs /\ svc' \in Configs /\ unsynced' \in BOOLEAN
      /\ svc' = cfg' \/ unsynced' \/ rb.pc \in {"move", "restart"}
  BY <1>1, <1>2, InvTypes
<1>4. faults' \in 0..MaxFaults
  <2>1. Fault \/ Fine
    BY DEF HcSave
  <2> QED BY <2>1, InvTypes, FaultCounts
<1>5. CASE /\ st' = hc[h].mem /\ unsaved' = {t \in unsaved : hc[h].mem.fails[t] # 0} /\ UNCHANGED forgot
  <2>1. st' \in States /\ unsaved' \subseteq Tags /\ forgot' \in BOOLEAN
    BY <1>2, <1>5, InvTypes
  <2>2. \A t \in Tags \ unsaved' : st'.fails[t] <= ev[t]
    <3>1. \A t \in Tags : ev[t] \in 0..FailCap
      BY InvTypes
    <3> QED BY <1>2, <1>5, <3>1, PoolAssumption
  <2>3. forgot' \/ \A g \in Groups : Covered(cfg', g, st'.cand[g])
    BY <1>1, <1>2, <1>5 DEF HeldOK
  <2> QED BY <1>1, <1>3, <1>4, <2>1, <2>2, <2>3, EndsStep
<1>6. CASE UNCHANGED <<st, unsaved>> /\ forgot' = TRUE
  <2>1. st' \in States /\ unsaved' \subseteq Tags /\ forgot' \in BOOLEAN
    BY <1>6, InvTypes
  <2>2. \A t \in Tags \ unsaved' : st'.fails[t] <= ev[t]
    BY <1>2, <1>6
  <2> QED BY <1>1, <1>3, <1>4, <1>6, <2>1, <2>2, EndsStep
<1> QED BY <1>5, <1>6 DEF HcSave

\* A check that dies after it replaced the file is remembered as such.
LEMMA DiesKeeps ==
    ASSUME PoolInv, NEW h \in Checkers, HcDies(h) PROVE PoolInv'
<1>1. hc[h].pc # "idle" /\ UNCHANGED <<cfg, svc, st, rb, ev, unsaved>> /\ Ends(h) /\ Fault
  BY DEF HcDies, files
<1>2. /\ forgot' \in BOOLEAN /\ unsynced' \in BOOLEAN
      /\ ~forgot' => ~forgot /\ hc[h].pc \notin NewFile
      /\ (unsynced => unsynced') /\ (hc[h].pc \in {"restart", "again"} => unsynced')
  BY InvTypes DEF HcDies
<1>3. /\ \A t \in Tags \ unsaved : st.fails[t] <= ev[t]
      /\ hc[h].pc \notin {"restart", "again"} => svc = cfg \/ unsynced \/ rb.pc \in {"move", "restart"}
      /\ ~forgot /\ hc[h].pc \notin NewFile => \A g \in Groups : Covered(cfg, g, st.cand[g])
  BY <1>1, AtWork
<1>4. /\ cfg' \in Configs /\ svc' \in Configs /\ st' \in States /\ unsaved' \subseteq Tags
      /\ faults' \in 0..MaxFaults
      /\ \A t \in Tags \ unsaved' : st'.fails[t] <= ev[t]
  BY <1>1, <1>3, InvTypes, FaultCounts
<1>5. svc' = cfg' \/ unsynced' \/ rb.pc \in {"move", "restart"}
  BY <1>1, <1>2, <1>3
<1>6. forgot' \/ \A g \in Groups : Covered(cfg', g, st'.cand[g])
  BY <1>1, <1>2, <1>3
<1> QED BY <1>1, <1>2, <1>4, <1>5, <1>6, EndsStep

-----------------------------------------------------------------------------
(* The rebuild                                                             *)

\* Where the cap leaves room, a rebuilt group has all it may have.
LEMMA BuiltUsesAll ==
    ASSUME NEW N \in SUBSET Tags, NEW c \in Built(N)
    PROVE  c \in Configs /\ \A g \in Groups : Covered(c, g, {})
<1>1. PICK f \in [Groups -> SUBSET N] :
         /\ c = [ok |-> TRUE, nodes |-> N, act |-> f]
         /\ \A k \in Groups : /\ f[k] \subseteq Eligible[k]
                              /\ Cardinality(f[k]) = Smaller(Cardinality(N \cap Eligible[k]), GroupCap)
  BY DEF Built
<1>2. c.nodes = N /\ c.act = f /\ c \in Configs
  BY <1>1 DEF Configs
<1>3. ASSUME NEW g \in Groups, Cardinality(N \cap Eligible[g]) <= GroupCap
      PROVE  f[g] = N \cap Eligible[g]
  <2>1. IsFiniteSet(N \cap Eligible[g])
    BY PoolAssumption, FS_Subset
  <2>2. Cardinality(N \cap Eligible[g]) \in Nat
    BY <2>1, FS_CardinalityType
  <2>3. Cardinality(f[g]) = Cardinality(N \cap Eligible[g])
    BY <1>1, <1>3, <2>2, PoolAssumption DEF Smaller
  <2>4. f[g] \subseteq N \cap Eligible[g]
    BY <1>1
  <2> QED BY <2>1, <2>3, <2>4, FS_Subset
<1> QED BY <1>2, <1>3 DEF Covered, Full, Valid

\* The rebuild needs no candidates and restarts the service, without the lock.
LEMMA RebuildKeeps ==
    ASSUME PoolInv, RbBuild \/ RbCompare \/ RbRename \/ RbMove \/ RbRestart \/ RbDies
    PROVE  PoolInv'
<1> DEFINE RbTypes == [pc : {"idle", "compare", "rename", "move", "restart"}, new : Configs]
<1>1. /\ rb \in RbTypes /\ cfg \in Configs /\ svc \in Configs /\ Absent \in Configs
      /\ unsynced \in BOOLEAN /\ faults \in 0..MaxFaults
      /\ \A g \in Groups : Covered(rb.new, g, {}) /\ Covered(Absent, g, {})
      /\ SyncOK
  BY EmptyRecords, CoveredByAny DEF PoolInv, PoolTypeOK, CandidatesOK
<1>2. CASE RbBuild
  <2>0. PICK N \in SUBSET Tags : \E c \in Built(N) : rb' = [pc |-> "compare", new |-> c]
    BY <1>2 DEF RbBuild
  <2>1. PICK c \in Built(N) : rb' = [pc |-> "compare", new |-> c]
    BY <2>0
  <2>2. rb.pc = "idle" /\ UNCHANGED <<cfg, svc, st, lock, hc, ev, unsaved, forgot, unsynced, faults>>
    BY <1>2 DEF RbBuild, files, ghosts
  <2>3. c \in Configs /\ \A g \in Groups : Covered(c, g, {})
    BY BuiltUsesAll
  <2>4. rb' \in RbTypes /\ rb'.new = c
    BY <2>1, <2>3
  <2>5. SyncOK'
    BY <1>1, <2>2 DEF SyncOK
  <2> QED BY <1>1, <2>2, <2>3, <2>4, <2>5, RebuildStep
<1>3. CASE RbCompare
  <2>1. rb.pc = "compare" /\ UNCHANGED <<cfg, svc, st, lock, hc, ev, unsaved, forgot, unsynced, faults>>
    BY <1>3 DEF RbCompare, files, ghosts
  <2>2. rb' \in RbTypes /\ rb'.new \in {rb.new, Absent}
    BY <1>1, <1>3 DEF RbCompare, RbDone
  <2>3. SyncOK'
    BY <1>1, <2>1 DEF SyncOK
  <2> QED BY <1>1, <2>1, <2>2, <2>3, RebuildStep
<1>4. CASE RbRename
  <2>1. cfg' = Absent /\ UNCHANGED <<svc, st, lock, hc, ev, unsaved, forgot, unsynced, faults>>
    BY <1>4 DEF RbRename, ghosts
  <2>2. rb' \in RbTypes /\ rb'.new = rb.new /\ rb'.pc = "move"
    BY <1>1, <1>4 DEF RbRename
  <2>3. SyncOK'
    BY <2>2 DEF SyncOK
  <2> QED BY <1>1, <2>1, <2>2, <2>3, RebuildStep
<1>5. CASE RbMove
  <2>1. cfg' = rb.new /\ UNCHANGED <<svc, st, lock, hc, ev, unsaved, forgot, unsynced, faults>>
    BY <1>5 DEF RbMove, ghosts
  <2>2. rb' \in RbTypes /\ rb'.new = Absent /\ rb'.pc = "restart" /\ rb.new \in Configs
    BY <1>1, <1>5 DEF RbMove
  <2>3. SyncOK'
    BY <2>2 DEF SyncOK
  <2> QED BY <1>1, <2>1, <2>2, <2>3, RebuildStep
<1>6. CASE RbRestart
  <2>1. /\ UNCHANGED <<cfg, st, lock, hc, ev, unsaved, forgot>>
        /\ Restarted \/ RestartFailed
    BY <1>6 DEF RbRestart
  <2>2. rb' \in RbTypes /\ rb'.new = Absent
    BY <1>1, <1>6 DEF RbRestart, RbDone
  <2>3. /\ cfg' \in Configs /\ svc' \in Configs /\ unsynced' \in BOOLEAN /\ faults' \in 0..MaxFaults
        /\ svc' = cfg' \/ unsynced'
    BY <2>1, RestartOutcome
  <2>4. SyncOK'
    BY <2>3 DEF SyncOK
  <2> QED BY <1>1, <2>1, <2>2, <2>3, <2>4, RebuildStep
<1>7. CASE RbDies
  <2>1. /\ UNCHANGED <<cfg, svc, st, lock, hc, ev, unsaved, forgot>> /\ Fault
    BY <1>7 DEF RbDies, files
  <2>2. rb' \in RbTypes /\ rb'.new = Absent
    BY <1>1, <1>7 DEF RbDies, RbDone
  <2>3. /\ unsynced' \in BOOLEAN /\ faults' \in 0..MaxFaults
        /\ (unsynced => unsynced') /\ (rb.pc \in {"move", "restart"} => unsynced')
    BY <1>1, <1>7, <2>1, FaultCounts DEF RbDies
  <2>4. SyncOK'
    BY <1>1, <2>1, <2>3 DEF SyncOK
  <2> QED BY <1>1, <2>1, <2>2, <2>3, <2>4, RebuildStep
<1> QED BY <1>2, <1>3, <1>4, <1>5, <1>6, <1>7

-----------------------------------------------------------------------------
(* The theorems                                                            *)

\* The invariant holds of every reachable state: the lock really excludes the
\* checks, and every step of a check or of the rebuild keeps the files in order.
THEOREM PoolInvariant == PoolSpec => []PoolInv
<1>1. PoolInit => PoolInv
  <2> SUFFICES ASSUME PoolInit PROVE PoolInv
    OBVIOUS
  <2>1. /\ cfg = Absent /\ svc = Absent /\ st = Blank /\ lock = NoOne
        /\ hc = [h \in Checkers |-> Asleep] /\ rb = [pc |-> "idle", new |-> Absent]
        /\ ev = [t \in Tags |-> 0] /\ unsaved = {} /\ ~forgot /\ unsynced = FALSE /\ faults = 0
        /\ forgot \in BOOLEAN
    BY DEF PoolInit
  <2>2. PoolTypeOK
    <3>1. hc \in [Checkers -> Rows]
      BY <2>1, AsleepFields
    <3>2. 0 \in 0..FailCap /\ 0 \in 0..MaxFaults
      BY PoolAssumption
    <3>3. rb \in [pc : {"idle", "compare", "rename", "move", "restart"}, new : Configs]
      BY <2>1, EmptyRecords
    <3> QED BY <2>1, <3>1, <3>2, <3>3, EmptyRecords DEF PoolTypeOK, Rows, Pcs
  <2>3. LockOK
    BY <2>1, AsleepFields DEF LockOK
  <2>4. FailuresAreConsecutive
    BY <2>1, AsleepFields, EmptyRecords DEF FailuresAreConsecutive
  <2>5. SyncOK
    BY <2>1 DEF SyncOK
  <2>6. CandidatesOK
    <3>1. rb.new = Absent /\ ~cfg.ok
      BY <2>1, EmptyRecords
    <3>2. \A g \in Groups : Covered(rb.new, g, {}) /\ Covered(cfg, g, st.cand[g])
      BY <3>1, EmptyRecords, CoveredByAny
    <3>3. \A g \in Groups, h \in Checkers : HeldOK(hc[h], cfg, st, g)
      BY <2>1, AsleepHolds
    <3> QED BY <3>2, <3>3 DEF CandidatesOK
  <2> QED BY <2>2, <2>3, <2>4, <2>5, <2>6 DEF PoolInv
<1>2. PoolInv /\ [PoolNext]_hvars => PoolInv'
  <2> SUFFICES ASSUME PoolInv, [PoolNext]_hvars PROVE PoolInv'
    OBVIOUS
  <2>1. CASE UNCHANGED hvars
    BY ZenonT(60), <2>1 DEF hvars, PoolInv, PoolTypeOK, LockOK, FailuresAreConsecutive, SyncOK, CandidatesOK,
                HeldOK, Covered, Full, Valid
  <2>2. CASE RbBuild \/ RbCompare \/ RbRename \/ RbMove \/ RbRestart \/ RbDies
    BY <2>2, RebuildKeeps
  <2>3. ASSUME NEW h \in Checkers,
               \/ HcLoad(h) \/ HcProbe(h) \/ HcValidate(h) \/ HcReplace(h) \/ HcRestart(h)
               \/ HcRollback(h) \/ HcRestartAgain(h) \/ HcSave(h) \/ HcDies(h)
        PROVE  PoolInv'
    BY <2>3, LoadKeeps, ProbeKeeps, ValidateKeeps, ReplaceKeeps, RestartKeeps, RollbackKeeps,
       RestartAgainKeeps, SaveKeeps, DiesKeeps
  <2> QED BY <2>1, <2>2, <2>3 DEF PoolNext
<1> QED BY <1>1, <1>2, PTL DEF PoolSpec

\* The files, the checks and the rebuild keep their types, and a failure count
\* stays within its cap, for any number of checks and failures.
THEOREM PoolTypes == PoolSpec => []PoolTypeOK
<1>1. PoolInv => PoolTypeOK
  BY DEF PoolInv
<1> QED BY <1>1, PoolInvariant, PTL

\* No outbound is taken out for failures that a 204 separates, whatever checks
\* died or could not save, unless that 204 itself was not saved.
THEOREM FailureCounts == PoolSpec => []FailuresAreConsecutive
<1>1. PoolInv => FailuresAreConsecutive
  BY DEF PoolInv
<1> QED BY <1>1, PoolInvariant, PTL

\* When nobody is at work, the service runs with the file on disk, unless a
\* restart is known to be missing, although the rebuild does not take the lock.
THEOREM QuietInSync == PoolSpec => []QuietMeansInSync
<1>1. PoolInv => QuietMeansInSync
  BY DEF PoolInv, SyncOK, QuietMeansInSync
<1> QED BY <1>1, PoolInvariant, PTL

\* An outbound that a check took out of a group can come back: it is still a
\* candidate, in the state file or in the check that is about to write it.
THEOREM Candidates == PoolSpec => []CandidatesRemembered
<1>1. PoolInv => CandidatesRemembered
  <2> SUFFICES ASSUME PoolInv, NEW g \in Groups, ~forgot, Full(cfg, g)
               PROVE  Valid(cfg) \cap Eligible[g] \subseteq cfg.act[g] \cup Known(g)
    BY DEF CandidatesRemembered, Full
  <2>1. CASE \A h \in Checkers : hc[h].pc \notin NewFile
    <3>1. Covered(cfg, g, st.cand[g])
      BY <2>1 DEF PoolInv, CandidatesOK
    <3> QED BY <3>1 DEF Covered, Known
  <2>2. CASE \E h \in Checkers : hc[h].pc \in NewFile
    <3>1. PICK h \in Checkers : hc[h].pc \in NewFile
      BY <2>2
    <3>2. Covered(cfg, g, hc[h].mem.cand[g])
      BY <3>1 DEF PoolInv, CandidatesOK, HeldOK, NewFile
    <3> QED BY <3>1, <3>2 DEF Covered, Known
  <2> QED BY <2>1, <2>2
<1> QED BY <1>1, PoolInvariant, PTL
=============================================================================
