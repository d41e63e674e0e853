---------------------------- MODULE PoolCollector ----------------------------
(***************************************************************************)
(* One collector cycle after another (src/bot/mosaic_pool_collector.py     *)
(* main with --full-probe): fetch the feeds, pick candidates with the      *)
(* scheduler (src/bot/mosaic_pool_scheduler.py), probe them, save the      *)
(* scheduler's file, write PostgreSQL and rebuild the groups clients are   *)
(* served from, and alert the operator of starved groups.  The file and    *)
(* the database are two memories of the same verdicts, and a cycle may die *)
(* between them.  Nothing is shared while a cycle computes, so everything  *)
(* up to update_state is one step and a death in it is a stuttering step.  *)
(*                                                                         *)
(* Time is counted in ticks between cycles.  Left open, because they hang  *)
(* on measured numbers: the yield of a source (its weight), the tier of a  *)
(* node's refresh interval, scores within a group, and whether the week of *)
(* prune_ttl or the month of STALE_PURGE_DAYS has passed.                  *)
(***************************************************************************)
EXTENDS Naturals, FiniteSets, FiniteSetsExt

CONSTANTS
    Fps,           \* fingerprints of nodes
    Sources,       \* feeds: numbers, in the order of their names
    Countries, NoCountry,
    Feed,          \* Feed[s]: the entries feed s lists
    FeedCountry,   \* FeedCountry[s]: the country declared for s, or NoCountry
    Target,        \* country_targets, one quota for every country
    Limit, ProbeLimit,
    Weights,       \* what a source's yield may make its weight, within 1..4
    RefreshSoon, RefreshLate,  \* the shortest and longest refresh age of verify_ttl_for
    BaseCool, MaxCool,
    HealthTTL,     \* HEALTH_TTL_HOURS
    Threshold,     \* FAILURE_DISABLE_THRESHOLD
    FailCap,       \* bound on every failure count
    Groups, Exit,  \* groups beside all, one to a country; Exit[n]: the group of n's country
    GroupCap, Floor,           \* a group's size limit, and the alert floor
    RepeatTicks,   \* ALERT_REPEAT_HOURS
    MaxSince,      \* how many ticks without a commit are told apart
    MaxCycles,     \* bound on cycles
    MaxFaults      \* bound on lost files, failed saves, deaths and unscheduled cycles

ASSUME CollectorAssumption ==
    /\ Sources \subseteq Nat /\ IsFiniteSet(Sources) /\ Weights \subseteq 1..4 /\ Weights # {}
    /\ {Limit, ProbeLimit, Target, MaxSince, MaxCycles, MaxFaults} \subseteq Nat
    /\ {BaseCool, MaxCool, HealthTTL, GroupCap, RepeatTicks} \subseteq Nat \ {0}
    /\ RefreshSoon \in Nat /\ RefreshLate \in Nat /\ RefreshSoon <= RefreshLate
    /\ Threshold \in Nat \ {0} /\ FailCap \in Nat /\ Threshold <= FailCap
    /\ "all" \in Groups /\ Exit \in [Fps -> Groups] /\ NoCountry \notin Countries

VARIABLES
    file,    \* the scheduler's state file
    db,      \* db[n]: the row of mosaic_nodes
    grp,     \* grp[g]: mosaic_group_nodes
    alert,   \* the alert state file
    run,     \* the running cycle
    since,   \* ticks since a cycle committed to the database
    proof,   \* proof[n]: ticks since a probe of n really got its 204
    ev,      \* ev[n]: verdicts false on n since then
    lost,    \* nodes with evidence the file or the database has not got
    cycles,  \* cycles begun
    faults,  \* of those MaxFaults bounds, how many have happened
    told     \* the last alert step neither failed nor lacked credentials

cvars == <<file, db, grp, alert, run, since, proof, ev, lost, cycles, faults, told>>

OldAge == HealthTTL + MaxSince + 1      \* at least this long ago, or never
Meta(ok, fails, cool, age) == [ok |-> ok, fails |-> fails, cool |-> cool, age |-> age]
Memory(cand, cur) == [cand |-> cand, cur |-> cur]
Row(row, ok, en, fails, age) == [row |-> row, ok |-> ok, en |-> en, fails |-> fails, age |-> age]
Cycle(pc, mem, ver, saved) == [pc |-> pc, mem |-> mem, ver |-> ver, saved |-> saved]

Never == Meta("none", 0, 0, OldAge)
InitSchedulerState == Memory([n \in Fps |-> Never], 0)
NoRow == Row(FALSE, FALSE, FALSE, 0, OldAge)
NoAlert == [sent |-> RepeatTicks, groups |-> {}]
Untested == [n \in Fps |-> "none"]
AtRest == Cycle("idle", InitSchedulerState, Untested, FALSE)

CollectorInit ==
    /\ file = InitSchedulerState /\ db = [n \in Fps |-> NoRow]
    /\ grp = [g \in Groups |-> {}] /\ alert = NoAlert /\ run = AtRest
    /\ since = MaxSince /\ proof = [n \in Fps |-> OldAge] /\ ev = [n \in Fps |-> 0]
    /\ lost = {} /\ cycles = 0 /\ faults = 0 /\ told = FALSE
-----------------------------------------------------------------------------
\* Phase 0: what a feed yields.  An entry that does not parse is dropped
\* without a word; one that does names a node by its fingerprint.

SupportedTypes == {"vless", "vmess", "trojan", "shadowsocks", "hysteria", "hysteria2"}
IsForbiddenHost(host) == host \in {"own", "private", "undotted", "none"}
NodeFromSingbox(e) ==
    /\ e.type \in SupportedTypes /\ e.transport \notin {"xhttp", "splithttp"}
    /\ e.complete /\ ~IsForbiddenHost(e.host) /\ ~e.local
\* A URI knows three of the schemes.  The Shadowsocks form that is base64
\* throughout has no dotted host for the first check, so it never parses.
ParseUriToSingbox(e) ==
    /\ ~IsForbiddenHost(e.host) /\ e.transport \notin {"xhttp", "splithttp"}
    /\ e.type \in {"vless", "trojan", "shadowsocks"} /\ e.complete
NodeOf(s, e) ==
    [fp |-> e.fp, src |-> s, udp |-> e.type \in {"hysteria", "hysteria2"},
     cc |-> IF FeedCountry[s] # NoCountry \/ e.form = "json" THEN FeedCountry[s] ELSE e.fragment]
ParseNodes(s) == {NodeOf(s, e) : e \in {x \in Feed[s] :
                    IF x.form = "json" THEN NodeFromSingbox(x) ELSE ParseUriToSingbox(x)}}
FetchAllSources(answered) == UNION {ParseNodes(s) : s \in answered}
\* A feed is one response body, and a node that parses has a fingerprint.
ASSUME FeedAssumption ==
    \A s \in Sources : IsFiniteSet(Feed[s]) /\ \A r \in ParseNodes(s) : r.fp \in Fps

\* One copy for each fingerprint, one with a country if there is one.
Unique(nodes) ==
    {u \in SUBSET nodes :
        /\ {r.fp : r \in u} = {r.fp : r \in nodes}
        /\ \A a, b \in u : a.fp = b.fp => a = b
        /\ \A a \in u, b \in nodes : a.fp = b.fp /\ a.cc = NoCountry => b.cc = NoCountry}
-----------------------------------------------------------------------------
\* Scheduling: the batches schedule_candidates may return.

Eligible(m, nodes) == {r \in nodes : m[r.fp].cool = 0}
\* A node's tier hangs on its lifetime counts; the ages it may ask for.
VerifyTtlFor == RefreshSoon..RefreshLate
\* Verified nodes to refresh: surely those too old for every tier, and those
\* too old for some tier if it is theirs.
VerifiedOverdue(m, el) ==
    LET Over(r, t) == m[r.fp].ok = "yes" /\ m[r.fp].age >= t
    IN {o \in SUBSET {r \in el : \E t \in VerifyTtlFor : Over(r, t)} :
            {r \in el : \A t \in VerifyTtlFor : Over(r, t)} \subseteq o}
OldestFirst(m, o, k) ==
    {s \in SUBSET o : /\ Cardinality(s) = Min({k, Cardinality(o)})
                      /\ \A a \in s, b \in o \ s : m[a.fp].age >= m[b.fp].age}
\* The refresh share is seven tenths, unless there is nothing else to check.
RefreshCeilingUp(limit, el, o) ==
    IF o # el /\ limit >= 2 THEN Max({1, (7 * limit + 9) \div 10}) ELSE limit
RefreshCeiling(limit, el, o) ==
    IF o # el /\ limit >= 2 THEN Max({1, (7 * limit) \div 10}) ELSE limit

\* A country's deficit is its quota less the verified nodes it is known to
\* have; which country a node counts for, and which verified nodes are too old
\* for their tier to count at all, is left open with the tier.
Deficits(m) ==
    LET healthy == {n \in Fps : m[n].ok = "yes"}
        Known(h, c) == Cardinality({n \in healthy : h[n] = c})
    IN {[c \in Countries |-> Target - Min({Target, Known(h, c)})] :
            h \in [healthy -> Countries \cup {NoCountry}]}
In(nodes, c) == {r \in nodes : r.cc = c}
Wanted(nodes, d, c) == Min({d[c], Cardinality(In(nodes, c))})
\* floor(limit * (1.0 - 0.8)) in floating point, hence the - 1.
DeficitCeiling(limit, rest) ==
    IF limit >= 5 /\ rest # {} THEN limit - Max({1, (limit - 1) \div 5}) ELSE limit
\* The countries that lack most are served first, each up to its deficit,
\* until the share is used up.
DeficitPicks(rest, d, k) ==
    LET Full(s, c) == Cardinality(In(s, c)) = Wanted(rest, d, c)
    IN {s \in SUBSET {r \in rest : r.cc \in Countries} :
          /\ Cardinality(s) <= k
          /\ \A c \in Countries : Cardinality(In(s, c)) <= d[c]
          /\ Cardinality(s) = k \/ \A c \in Countries : Full(s, c)
          /\ \A b, c \in Countries : d[b] > d[c] /\ In(s, c) # {} => Full(s, b)}

\* Sources take turns from the cursor on; a source whose weight is used up
\* waits until the others' are, or they have run out.
From(nodes, s) == {r \in nodes : r.src = s}
SourceList(nodes) == {r.src : r \in nodes}
Turn(nodes, w, cursor, s, t) ==
    LET len == Cardinality(SourceList(nodes))
        index == Cardinality({u \in SourceList(nodes) : u < s})
    IN ((t \div w[s]) * 4 + (t % w[s])) * len + ((index + len - (cursor % len)) % len)
ExplorePicks(nodes, w, cursor, k) ==
    {s \in SUBSET nodes :
        /\ Cardinality(s) = Min({k, Cardinality(nodes)})
        /\ \A a, b \in SourceList(nodes) :
               From(s, a) # {} /\ From(s, b) # From(nodes, b) =>
                   Turn(nodes, w, cursor, a, Cardinality(From(s, a)) - 1)
                     < Turn(nodes, w, cursor, b, Cardinality(From(s, b)))}

\* A plan: the batch, what was due and what the batch left for exploration.
\* The batch is filled by refreshes t1, deficits t2, exploration t3 and, if
\* there is room, refreshes again.
Filled(m, el, o, t1, t2, t3, limit) ==
    LET left == (el \ o) \ t2
    IN {[batch |-> t1 \cup t2 \cup t3 \cup t4, el |-> el, due |-> o, t2 |-> t2,
         explored |-> Cardinality(t1 \cup t2) < limit /\ left # {}, left |-> left] :
           t4 \in OldestFirst(m, o \ t1, limit - Cardinality(t1 \cup t2 \cup t3))}
Explored(st, el, o, t1, t2, limit) ==
    LET left == (el \ o) \ t2
        room == limit - Cardinality(t1 \cup t2)
    IN UNION {Filled(st.cand, el, o, t1, t2, t3, limit) :
           t3 \in UNION {ExplorePicks(left, w, st.cur, room) : w \in [Sources -> Weights]}}
Served(st, el, o, t1, limit) ==
    LET rest == el \ o
        room == Max({Cardinality(t1), DeficitCeiling(limit, rest)}) - Cardinality(t1)
    IN UNION {Explored(st, el, o, t1, t2, limit) :
           t2 \in UNION {DeficitPicks(rest, d, room) : d \in Deficits(st.cand)}}
Refreshed(st, el, o, limit) ==
    UNION {Served(st, el, o, t1, limit) : t1 \in OldestFirst(st.cand, o, RefreshCeiling(limit, el, o))}
ScheduleCandidates(st, nodes, limit) ==
    LET el == Eligible(st.cand, nodes)
    IN UNION {Refreshed(st, el, o, limit) : o \in VerifiedOverdue(st.cand, el)}
\* The cursor moves only when exploration took place, and only in the first call.
Advance(st, plan) ==
    IF ~plan.explored THEN st
    ELSE LET len == Cardinality(SourceList(plan.left))
         IN Memory(st.cand, ((st.cur % len) + 1) % len)

\* --no-scheduler: a quota for each country, then countries before the rest.
StratifyCandidates(nodes, limit) ==
    LET quota == limit \div (Cardinality(Countries) + 2)
        other == {r \in nodes : r.cc \notin Countries}
    IN {s \in SUBSET nodes :
          /\ Cardinality(s) = Min({limit, Cardinality(nodes)})
          /\ \A c \in Countries : Cardinality(In(s, c)) >= Min({quota, Cardinality(In(nodes, c))})
          /\ s \cap other # {} => nodes \ other \subseteq s}
-----------------------------------------------------------------------------
\* Probing and the evidence it leaves.

\* A node that does not answer TCP is not probed and yields no evidence.
TcpAlive(batch) == {a \in SUBSET batch : {r \in batch : r.udp} \subseteq a}
ProxyProbe(target) == IF target THEN {"yes", "no"} ELSE {"none"}
Verdicts(targets) ==
    LET probed == {r.fp : r \in targets}
    IN {v \in [Fps -> {"yes", "no", "none"}] : \A n \in Fps : v[n] \in ProxyProbe(n \in probed)}

\* Twice as long after every failure, give or take a fifth, up to the maximum.
ComputeCooldown(fails) ==
    LET nominal == Min({MaxCool, BaseCool * 2 ^ Min({fails - 1, 16})})
    IN {c \in 0..MaxCool : (8 * nominal) \div 10 <= c /\ c <= (12 * nominal) \div 10}

\* The time of the last success is of no use after a failure.
Failed(meta) == LET f == Min({meta.fails + 1, FailCap})
                IN {Meta("no", f, c, OldAge) : c \in ComputeCooldown(f)}
UpdatedNoneFails(meta, v) ==
    CASE v = "yes"  -> {Meta("yes", 0, 0, 0)}
      [] v \in {"no", "none"} -> Failed(meta)
Updated(meta, v) ==
    CASE v = "yes"  -> {Meta("yes", 0, 0, 0)}
      [] v = "no"   -> Failed(meta)
      [] v = "none" -> {meta}
Prunable(m, nodes) == {n \in Fps : m[n].ok # "yes" /\ \A r \in nodes : r.fp # n}
UpdateState(st, v, pruned) ==
    {Memory(c, st.cur) :
        c \in {f \in [Fps -> UNION {Updated(st.cand[n], v[n]) : n \in Fps} \cup {Never}] :
                 \A n \in Fps : IF n \in pruned THEN f[n] = Never
                                ELSE f[n] \in Updated(st.cand[n], v[n])}}

\* A file that cannot be read is a fresh state.
LoadState(readable) == IF readable THEN file ELSE InitSchedulerState
\* What a cycle no longer knows: failures it pruned, and all of a lost file.
Forgotten(readable, m, pruned) ==
    {n \in pruned : m[n].fails > 0} \cup (IF readable THEN {} ELSE {n \in Fps : file.cand[n] # Never})

CycleBegins == cycles < MaxCycles /\ cycles' = cycles + 1
Fault(happens) ==
    /\ happens => faults < MaxFaults
    /\ faults' = IF happens THEN faults + 1 ELSE faults
Tested(v) == {n \in Fps : v[n] # "none"}
Witness(v) ==
    /\ proof' = [n \in Fps |-> IF v[n] = "yes" THEN 0 ELSE proof[n]]
    /\ ev' = [n \in Fps |-> CASE v[n] = "yes"  -> 0
                              [] v[n] = "no"   -> Min({ev[n] + 1, FailCap})
                              [] v[n] = "none" -> ev[n]]

\* Schedule, knock, schedule again among the nodes that answered: what is
\* left is the state with its cursor moved and the nodes to probe.
Chosen(st, nodes) ==
    UNION {UNION {{[st |-> x[2], targets |-> q.batch] : q \in ScheduleCandidates(x[2], alive, ProbeLimit)} :
                   alive \in TcpAlive(x[1])} :
           x \in {<<p.batch, Advance(st, p)>> : p \in ScheduleCandidates(st, nodes, Limit)}}

Collect(readable) ==
    /\ run.pc = "idle" /\ CycleBegins /\ Fault(~readable)
    /\ \E answered \in SUBSET Sources : \E nodes \in Unique(FetchAllSources(answered)) :
       \E x \in Chosen(LoadState(readable), nodes) :
       \E v \in Verdicts(x.targets), pruned \in {{}, Prunable(x.st.cand, nodes)} :
       \E new \in UpdateState(x.st, v, pruned) :
          /\ run' = Cycle("save", new, v, FALSE)
          /\ Witness(v)
          /\ lost' = lost \cup Forgotten(readable, x.st.cand, pruned)
    /\ UNCHANGED <<file, db, grp, alert, since, told>>

CollectUnscheduled ==
    /\ run.pc = "idle" /\ CycleBegins /\ Fault(TRUE)
    /\ \E answered \in SUBSET Sources : \E nodes \in Unique(FetchAllSources(answered)) :
       \E batch \in StratifyCandidates(nodes, Limit) : \E alive \in TcpAlive(batch) :
       \E targets \in SUBSET alive : \E v \in Verdicts(targets) :
          /\ Cardinality(targets) = Min({ProbeLimit, Cardinality(alive)})
          /\ run' = Cycle("upsert", InitSchedulerState, v, FALSE)
          /\ Witness(v)
          /\ lost' = lost \cup Tested(v)
    /\ UNCHANGED <<file, db, grp, alert, since, told>>

\* A failed save is reported and the cycle goes on without it.
SaveState(ok) ==
    /\ run.pc = "save" /\ Fault(~ok)
    /\ run' = Cycle("upsert", InitSchedulerState, run.ver, ok)
    /\ file' = IF ok THEN run.mem ELSE file
    /\ lost' = IF ok THEN lost ELSE lost \cup Tested(run.ver)
    /\ UNCHANGED <<db, grp, alert, since, proof, ev, cycles, told>>

\* The cycle dies, or its transaction is rolled back.
Die ==
    /\ run.pc # "idle" /\ Fault(TRUE)
    /\ lost' = IF run.pc = "alert" THEN lost ELSE lost \cup Tested(run.ver)
    /\ told' = FALSE
    /\ run' = AtRest
    /\ UNCHANGED <<file, db, grp, alert, since, proof, ev, cycles>>
-----------------------------------------------------------------------------
\* Phase 6: rows, groups and purge in one transaction.

UpsertNodeLate(r, v) ==
    CASE v = "none" -> r
      [] v = "yes"  -> Row(TRUE, TRUE, TRUE, 0, 0)
      [] v = "no" /\ ~r.row -> Row(TRUE, FALSE, TRUE, 1, OldAge)
      [] v = "no" /\ r.row  -> Row(TRUE, r.ok /\ r.fails + 1 < Threshold, r.en /\ r.fails < Threshold,
                                   Min({r.fails + 1, FailCap}), r.age)
UpsertNode(r, v) ==
    CASE v = "none" -> r
      [] v = "yes"  -> Row(TRUE, TRUE, TRUE, 0, 0)
      [] v = "no" /\ ~r.row -> Row(TRUE, FALSE, TRUE, 1, OldAge)
      [] v = "no" /\ r.row  -> Row(TRUE, r.ok /\ r.fails + 1 < Threshold, r.en /\ r.fails + 1 < Threshold,
                                   Min({r.fails + 1, FailCap}), r.age)
HealthyEver(rows) == {n \in Fps : rows[n].en /\ rows[n].ok}
Healthy(rows) == {n \in Fps : rows[n].en /\ rows[n].ok /\ rows[n].age <= HealthTTL}
Rebuilt(rows) ==
    LET may == [g \in Groups |-> {n \in Healthy(rows) : g = "all" \/ Exit[n] = g}]
    IN {x \in [Groups -> SUBSET Healthy(rows)] :
          \A g \in Groups : /\ x[g] \subseteq may[g]
                            /\ Cardinality(x[g]) = Min({GroupCap, Cardinality(may[g])})}
Purgeable(rows) == {n \in Fps : rows[n].row /\ ~rows[n].en /\ rows[n].fails >= Threshold
                                /\ rows[n].age = OldAge}

UpsertNodes ==
    /\ run.pc = "upsert"
    /\ LET rows == [n \in Fps |-> UpsertNode(db[n], run.ver[n])] IN
       \E purged \in {{}, Purgeable(rows)} :
          /\ db' = [n \in Fps |-> IF n \in purged THEN NoRow ELSE rows[n]]
          /\ grp' \in Rebuilt(rows)
          /\ lost' = (lost \ (IF run.saved THEN {n \in Fps : run.ver[n] = "yes"} ELSE {})) \cup purged
    /\ run' = Cycle("alert", InitSchedulerState, Untested, FALSE)
    /\ since' = 0
    /\ UNCHANGED <<file, alert, proof, ev, cycles, faults, told>>

\* Phase 7.  A group without a healthy node has no line in the snapshot.
GroupHealthSnapshot == {g \in Groups : grp[g] # {}}
Starved == {g \in GroupHealthSnapshot : Cardinality(grp[g]) < Floor}
SuppressedAny(current) == alert.sent < RepeatTicks
Suppressed(current) == alert.sent < RepeatTicks /\ current \subseteq alert.groups
SendGroupStarvationAlert(reached) ==
    /\ run.pc = "alert"
    /\ alert' = IF Starved = {} THEN NoAlert
                ELSE IF Suppressed(Starved) \/ ~reached THEN alert
                ELSE [sent |-> 0, groups |-> Starved]
    /\ told' = reached
    /\ run' = AtRest
    /\ UNCHANGED <<file, db, grp, since, proof, ev, lost, cycles, faults>>

Older(age) == IF age < OldAge THEN age + 1 ELSE OldAge
OlderMeta(m) == Meta(m.ok, m.fails, IF m.cool = 0 THEN 0 ELSE m.cool - 1, Older(m.age))
OlderRow(r) == Row(r.row, r.ok, r.en, r.fails, Older(r.age))
Tick ==
    /\ run.pc = "idle"
    /\ file' = Memory([n \in Fps |-> OlderMeta(file.cand[n])], file.cur)
    /\ db' = [n \in Fps |-> OlderRow(db[n])]
    /\ alert' = IF alert.sent + 1 >= RepeatTicks THEN NoAlert
                ELSE [sent |-> alert.sent + 1, groups |-> alert.groups]
    /\ since' = Min({since + 1, MaxSince})
    /\ proof' = [n \in Fps |-> Older(proof[n])]
    /\ told' = FALSE
    /\ UNCHANGED <<grp, run, ev, lost, cycles, faults>>

CollectorNext ==
    \/ \E b \in BOOLEAN : Collect(b) \/ SaveState(b) \/ SendGroupStarvationAlert(b)
    \/ CollectUnscheduled \/ UpsertNodes \/ Die \/ Tick

CollectorSpec == CollectorInit /\ [][CollectorNext]_cvars
-----------------------------------------------------------------------------
\* The rows a client's feed is made of.
DirectPoolFeed == {n \in grp["all"] : db[n].en /\ db[n].ok}

\* The variables have their types; a disabled row keeps no verified flag.
CollectorTypeOK ==
    /\ file \in [cand : [Fps -> [ok : {"yes", "no", "none"}, fails : 0..FailCap,
                                 cool : 0..MaxCool, age : 0..OldAge]], cur : Nat]
    /\ \A n \in Fps : /\ file.cand[n].fails > 0 <=> file.cand[n].ok = "no"
                      /\ file.cand[n].cool > 0 => file.cand[n].ok = "no"
                      /\ db[n].row /\ db[n].fails < Threshold => db[n].en
                      /\ db[n].en => db[n].fails < Threshold \/ db[n].fails = 1
                      /\ db[n].ok => db[n].en
    /\ grp \in [Groups -> SUBSET Fps] /\ lost \subseteq Fps
    /\ run.pc \in {"idle", "save", "upsert", "alert"}

\* Whatever was lost between the file and the database, a node in the feed
\* got its 204 within the health TTL of the last commit (upsert_nodes keeps
\* only rows with a recent last_success_at, and nothing but a 204 sets it).
ServedIsProven ==
    since < MaxSince => \A n \in DirectPoolFeed : proof[n] <= HealthTTL + since

\* As long as no result of a node was lost, pruned or purged, the scheduler's
\* failure count and the row's are the number of failures since its 204.
EvidenceAgrees ==
    run.pc = "idle" => \A n \in Fps \ lost :
        file.cand[n].fails = ev[n] /\ (db[n].row => db[n].fails = ev[n])

\* After a cycle whose alert went through, every group that has nodes but too
\* few of them is named by an alert younger than the repeat window.
StarvedIsAlerted ==
    run.pc = "idle" /\ told => Starved \subseteq alert.groups

\* Whatever the feeds bring now, the batch fills the budget, leaves discovery
\* a place beside the refreshes, refreshes at least one node that is due, and
\* gives every source a place when nothing is due and no country lacks nodes.
SelectionIsFair ==
    run.pc = "idle" => \A nodes \in Unique(FetchAllSources(Sources)) :
        LET plans == ScheduleCandidates(file, nodes, Limit) IN
        /\ plans # {}
        /\ \A p \in plans :
            /\ Cardinality(p.batch) = Min({Limit, Cardinality(p.el)})
            /\ Limit >= 2 /\ p.el # p.due => p.batch \ p.due # {}
            /\ Limit >= 1 /\ p.due # {} => p.batch \cap p.due # {}
            /\ p.due = {} /\ p.t2 = {} /\ Limit >= Cardinality(Sources) =>
                   SourceList(p.batch) = SourceList(p.el)
=============================================================================
