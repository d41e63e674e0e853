----------------------------- MODULE PoolHealth -----------------------------
(***************************************************************************)
(* The sing-box pool's configuration file and the two programs that write  *)
(* it: the health check (src/bot/mosaic_pool_health.py), which takes       *)
(* members out of the urltest groups and puts them back, and the rebuild   *)
(* (src/bot/rebuild_pool_config.py), which writes the file anew from the   *)
(* database.  Health checks exclude each other by a file lock; the rebuild *)
(* does not take it.  A group is the set of its members: the code compares *)
(* lists, so members in another order count as a change, which is why a    *)
(* change is possible although the sets are equal.  The settings that are  *)
(* harmonized are the ones the rebuild writes, so they never change.  A    *)
(* dry run writes nothing and a process that raises before it writes       *)
(* leaves no trace: both are stuttering steps.                             *)
(***************************************************************************)
EXTENDS Naturals, FiniteSets

CONSTANTS
    Tags,            \* outbounds the database may offer
    Forbidden,       \* own hosts for the health check; its list is the longer one
    Udp,             \* outbounds of a UDP protocol
    Groups, Eligible,\* Eligible[g]: the tags whose country g takes
    GroupCap,        \* the most members a rebuild gives a group
    Threshold,       \* fail_threshold
    FailCap,         \* the cap of a failure count, 100 in the code
    VerifyAll,       \* verify_http_all
    Checkers,        \* processes running a health check
    MaxFaults        \* bound: failures and deaths in one behaviour

NoOne == "none"

ASSUME PoolAssumption ==
    /\ Forbidden \subseteq Tags /\ Udp \subseteq Tags
    /\ Eligible \in [Groups -> SUBSET Tags]
    /\ Threshold \in Nat \ {0} /\ FailCap \in Nat /\ FailCap >= Threshold
    /\ IsFiniteSet(Tags) /\ NoOne \notin Checkers
    /\ GroupCap \in Nat \ {0} /\ VerifyAll \in BOOLEAN /\ MaxFaults \in Nat

VARIABLES
    cfg,       \* config.json
    svc,       \* the configuration the running service has read
    st,        \* mosaic_pool_state.json
    lock,      \* the checker that holds config.json.lock, or none
    hc,        \* hc[h]: progress of a health check
    rb,        \* progress of a rebuild
    ev,        \* ev[t]: dead verdicts on t since its last 204, up to FailCap
    unsaved,   \* tags whose last 204 is not in the state file
    forgot,    \* a state file could not be read, or a check with a new file ended before its save
    unsynced,  \* a restart failed, was skipped or did not happen, and none since succeeded
    faults     \* failures and deaths so far

hvars == <<cfg, svc, st, lock, hc, rb, ev, unsaved, forgot, unsynced, faults>>
files == <<cfg, svc, st>>
ghosts == <<ev, unsaved, forgot, unsynced>>

Absent == [ok |-> FALSE, nodes |-> {}, act |-> [g \in Groups |-> {}]]
Blank == [cand |-> [g \in Groups |-> {}], fails |-> [t \in Tags |-> 0]]
Check(pc, cf, orig, mem) == [pc |-> pc, cf |-> cf, orig |-> orig, mem |-> mem]
Asleep == Check("idle", Absent, Absent, Blank)

PoolInit ==
    /\ cfg = Absent /\ svc = Absent /\ st = Blank
    /\ lock = NoOne
    /\ hc = [h \in Checkers |-> Asleep]
    /\ rb = [pc |-> "idle", new |-> Absent]
    /\ ev = [t \in Tags |-> 0] /\ unsaved = {} /\ forgot = FALSE /\ unsynced = FALSE
    /\ faults = 0

\* Something goes wrong, or it does not.
Fault == faults < MaxFaults /\ faults' = faults + 1
Fine == UNCHANGED faults
-----------------------------------------------------------------------------
\* Probing one candidate.  A verdict is alive, dead or unknown; a failure of
\* the prober itself (infra_failure) is unknown.

ProbeTcp(wire) == IF wire = "answer" THEN "unknown" ELSE "dead"
ProbeUdp(wire) == IF wire \in {"answer", "silence"} THEN "unknown" ELSE "dead"
ProbeOutbound(t, wire) ==
    IF t \in Forbidden \/ wire = "malformed" THEN "dead"
    ELSE IF t \in Udp THEN ProbeUdp(wire) ELSE ProbeTcp(wire)
Transport(t) == {ProbeOutbound(t, w) : w \in {"answer", "silence", "refused", "malformed"}}

\* How far a probe with a sing-box of its own gets.
HttpStops == {"bad_outbound", "bad_url", "no_binary", "no_curl", "no_port", "check_failed",
              "port_taken", "not_ready", "curl_timeout", "curl_error", "status_204",
              "other_status", "exception"}
\* Failures on our side, none of which says anything about the candidate.
IsInfraFailure(stop) == stop \in {"no_binary", "no_curl", "no_port", "port_taken", "exception"}
ProbeCandidateHttp(stop) ==
    IF stop = "status_204" THEN "alive" ELSE IF IsInfraFailure(stop) THEN "unknown" ELSE "dead"

\* The verdicts on t: the second stage is for candidates that recover, if the
\* first did not find them dead, and with a sing-box binary to probe with.
Verdicts(t, recovering) ==
    Transport(t) \cup
    (IF recovering /\ "unknown" \in Transport(t)
     THEN {ProbeCandidateHttp(s) : s \in HttpStops} ELSE {})
-----------------------------------------------------------------------------
\* run_health_check

Valid(c) == c.nodes \ Forbidden

\* Candidates registered, then purged of what is forbidden or gone; counts of
\* tags that are gone are deleted.
Registered(c, s) ==
    [cand |-> [g \in Groups |-> (s.cand[g] \cup c.act[g]) \cap Valid(c)],
     fails |-> [t \in Tags |-> IF t \in Valid(c) THEN s.fails[t] ELSE 0]]

\* Takes the lock, reads the configuration and the state; a state file that
\* cannot be read counts as empty.
HcLoadUnlocked(h) ==
    /\ hc[h].pc = "idle" /\ cfg.ok
    /\ lock' = h
    /\ hc' = [hc EXCEPT ![h] = Check("probe", cfg, Absent, Registered(cfg, st))]
    /\ UNCHANGED <<files, rb, ghosts, faults>>
HcLoad(h) ==
    /\ hc[h].pc = "idle" /\ lock = NoOne /\ cfg.ok
    /\ lock' = h
    /\ \E readable \in BOOLEAN :
          /\ hc' = [hc EXCEPT ![h] = Check("probe", cfg, Absent,
                                           Registered(cfg, IF readable THEN st ELSE Blank))]
          /\ forgot' = (forgot \/ ~readable)
          /\ IF readable THEN Fine ELSE Fault
    /\ UNCHANGED <<files, rb, ev, unsaved, unsynced>>

References(m) == UNION {m.cand[g] : g \in Groups}
Active(c) == UNION {c.act[g] : g \in Groups}

\* Counts after a round of verdicts v.
CountUncapped(n, verdict) == IF verdict = "alive" THEN 0 ELSE IF verdict = "dead" THEN n + 1 ELSE n
Count(n, verdict) ==
    IF verdict = "alive" THEN 0
    ELSE IF verdict = "dead" /\ n < FailCap THEN n + 1 ELSE n

\* The members a group may get.  The lowest count decides the last resort;
\* ties and tags without a count leave it open here.
Harmonized(old, cand, valid, fails, v) ==
    LET keep == {t \in cand : fails[t] < Threshold /\ (t \in old \/ v[t] = "alive")}
        fallback == old \cap valid
    IN IF keep # {} THEN {keep}
       ELSE IF fallback # {} \/ cand = {} THEN {fallback}
       ELSE {{t} : t \in cand}

\* The counts after verdicts v, and what they add to the record of verdicts.
Recount(m, v) ==
    [cand |-> m.cand,
     fails |-> [t \in Tags |-> IF t \in References(m) THEN Count(m.fails[t], v[t]) ELSE m.fails[t]]]
Witness(refs, v) ==
    /\ ev' = [t \in Tags |-> IF t \notin refs \/ v[t] = "unknown" THEN ev[t]
                             ELSE IF v[t] = "alive" THEN 0
                             ELSE IF ev[t] < FailCap THEN ev[t] + 1 ELSE ev[t]]
    /\ unsaved' = unsaved \cup {t \in refs : v[t] = "alive"}

\* The comparison: a configuration with other members, or with the same in
\* another order, is to be written.
Compared(h, c, act, m) ==
    \/ /\ act # c.act \/ \E g \in Groups : Cardinality(act[g]) > 1
       /\ hc' = [hc EXCEPT ![h] =
                    Check("write", [ok |-> c.ok, nodes |-> c.nodes, act |-> act], Absent, m)]
    \/ /\ act = c.act
       /\ hc' = [hc EXCEPT ![h] = Check("save", Absent, Absent, m)]

\* Probing, counting and harmonizing: everything up to the comparison.
HcProbe(h) ==
    /\ hc[h].pc = "probe"
    /\ LET c == hc[h].cf
           m == hc[h].mem
           recovering(t) == VerifyAll \/ t \notin Active(c) \/ m.fails[t] > 0
       IN \E v \in [References(m) -> {"alive", "dead", "unknown"}] :
            /\ \A t \in References(m) : v[t] \in Verdicts(t, recovering(t))
            /\ \E act \in [Groups -> SUBSET References(m)] :
                 /\ \A g \in Groups : act[g] \in Harmonized(c.act[g], m.cand[g], Valid(c),
                                                            Recount(m, v).fails, v)
                 /\ Compared(h, c, act, Recount(m, v))
            /\ Witness(References(m), v)
    /\ UNCHANGED <<files, lock, rb, forgot, unsynced, faults>>

\* An exception out of run_health_check, or the end of the process: the lock
\* is released and the counts of this round are not saved.
Ends(h) == hc' = [hc EXCEPT ![h] = Asleep] /\ lock' = NoOne
Goto(h, pc, cf, orig) == hc' = [hc EXCEPT ![h] = Check(pc, cf, orig, hc[h].mem)]

\* The bytes of the present file are kept, the new text is validated.
HcValidate(h) ==
    /\ hc[h].pc = "write"
    /\ \/ Goto(h, "replace", hc[h].cf, cfg) /\ UNCHANGED lock /\ Fine
       \/ Ends(h) /\ Fault
    /\ UNCHANGED <<files, rb, ghosts>>

HcReplaceQuietly(h) ==
    /\ hc[h].pc = "replace"
    /\ cfg' = hc[h].cf
    /\ Goto(h, "save", Absent, Absent)
    /\ UNCHANGED <<svc, st, lock, rb, ghosts, faults>>
HcReplace(h) ==
    /\ hc[h].pc = "replace"
    /\ cfg' = hc[h].cf
    /\ Goto(h, "restart", Absent, hc[h].orig)
    /\ UNCHANGED <<svc, st, lock, rb, ghosts, faults>>

\* systemctl restart: the service reads the file there is; it is not called;
\* or it fails, and the service runs on or is down.
Restarted == cfg.ok /\ svc' = cfg /\ unsynced' = FALSE /\ Fine
RestartSkipped == UNCHANGED svc /\ unsynced' = TRUE /\ Fault
RestartFailed == svc' \in {svc, Absent} /\ unsynced' = TRUE /\ Fault

HcRestart(h) ==
    /\ hc[h].pc = "restart"
    /\ \/ (Restarted \/ RestartSkipped) /\ Goto(h, "save", Absent, Absent)
       \/ RestartFailed /\ Goto(h, "rollback", Absent, hc[h].orig)
    /\ UNCHANGED <<cfg, st, lock, rb, ev, unsaved, forgot>>

\* A failed write leaves the new file.  Without a former file, which is what a
\* check sees while a rebuild renames it, the file is deleted and no restart follows.
HcRollback(h) ==
    /\ hc[h].pc = "rollback"
    /\ \/ /\ hc[h].orig.ok
          /\ cfg' = hc[h].orig
          /\ Goto(h, "again", Absent, hc[h].orig)
          /\ UNCHANGED <<lock, unsynced, forgot>> /\ Fine
       \/ /\ hc[h].orig.ok
          /\ Ends(h) /\ Fault
          /\ forgot' = TRUE
          /\ UNCHANGED <<cfg, unsynced>>
       \/ /\ ~hc[h].orig.ok
          /\ cfg' = Absent
          /\ unsynced' = TRUE
          /\ Ends(h) /\ Fine
          /\ UNCHANGED forgot
    /\ UNCHANGED <<svc, st, rb, ev, unsaved>>

\* The second restart, whose failure is ignored; the check raises either way.
HcRestartAgain(h) ==
    /\ hc[h].pc = "again"
    /\ Restarted \/ RestartSkipped \/ RestartFailed
    /\ Ends(h)
    /\ UNCHANGED <<cfg, st, rb, ev, unsaved, forgot>>

\* save_pool_state replaces the file or logs a warning.
HcSaveActive(h) ==
    /\ hc[h].pc = "save"
    /\ st' = [cand |-> cfg.act, fails |-> hc[h].mem.fails]
    /\ unsaved' = {t \in unsaved : hc[h].mem.fails[t] # 0}
    /\ Ends(h)
    /\ UNCHANGED <<cfg, svc, rb, ev, forgot, unsynced, faults>>
HcSave(h) ==
    /\ hc[h].pc = "save"
    /\ \/ /\ st' = hc[h].mem
          /\ unsaved' = {t \in unsaved : hc[h].mem.fails[t] # 0}
          /\ UNCHANGED forgot /\ Fine
       \/ UNCHANGED <<st, unsaved>> /\ forgot' = TRUE /\ Fault
    /\ Ends(h)
    /\ UNCHANGED <<cfg, svc, rb, ev, unsynced>>

\* The configuration may be the check's own, and its candidates are not saved.
NewFile == {"restart", "rollback", "save"}
HcDies(h) ==
    /\ hc[h].pc # "idle"
    /\ Ends(h) /\ Fault
    /\ unsynced' = (unsynced \/ hc[h].pc \in {"restart", "rollback", "again"})
    /\ forgot' = (forgot \/ hc[h].pc \in NewFile)
    /\ UNCHANGED <<files, rb, ev, unsaved>>
-----------------------------------------------------------------------------
\* rebuild_pool_config.main

Smaller(n, k) == IF n < k THEN n ELSE k

\* The configurations of a set N of live rows: each group takes the best of
\* its eligible tags, up to its cap.
Built(N) ==
    {[ok |-> TRUE, nodes |-> N, act |-> a] : a \in
        {f \in [Groups -> SUBSET N] :
            \A g \in Groups : /\ f[g] \subseteq Eligible[g]
                              /\ Cardinality(f[g]) = Smaller(Cardinality(N \cap Eligible[g]), GroupCap)}}

\* The rows are read and the configuration is checked; with no row, or a
\* failed check, the program ends.
RbBuild ==
    /\ rb.pc = "idle"
    /\ \E N \in SUBSET Tags \ {{}} : \E c \in Built(N) : rb' = [pc |-> "compare", new |-> c]
    /\ UNCHANGED <<files, lock, hc, ghosts, faults>>

RbDone == rb' = [pc |-> "idle", new |-> Absent]

RbCompare ==
    /\ rb.pc = "compare"
    /\ \/ cfg = rb.new /\ RbDone
       \/ rb' = [rb EXCEPT !.pc = "rename"]
    /\ UNCHANGED <<files, lock, hc, ghosts, faults>>

RbRename ==
    /\ rb.pc = "rename"
    /\ cfg' = Absent
    /\ rb' = [rb EXCEPT !.pc = "move"]
    /\ UNCHANGED <<svc, st, lock, hc, ghosts, faults>>

RbMove ==
    /\ rb.pc = "move"
    /\ cfg' = rb.new
    /\ rb' = [pc |-> "restart", new |-> Absent]
    /\ UNCHANGED <<svc, st, lock, hc, ghosts, faults>>

\* check=True: a failed restart raises, and the new file stays.
RbRestart ==
    /\ rb.pc = "restart"
    /\ Restarted \/ RestartFailed
    /\ RbDone
    /\ UNCHANGED <<cfg, st, lock, hc, ev, unsaved, forgot>>

RbDies ==
    /\ rb.pc # "idle"
    /\ RbDone /\ Fault
    /\ unsynced' = (unsynced \/ rb.pc \in {"move", "restart"})
    /\ UNCHANGED <<files, lock, hc, ev, unsaved, forgot>>

PoolNext ==
    \/ \E h \in Checkers : \/ HcLoad(h) \/ HcProbe(h) \/ HcValidate(h) \/ HcReplace(h) \/ HcRestart(h)
                           \/ HcRollback(h) \/ HcRestartAgain(h) \/ HcSave(h) \/ HcDies(h)
    \/ RbBuild \/ RbCompare \/ RbRename \/ RbMove \/ RbRestart \/ RbDies

PoolSpec == PoolInit /\ [][PoolNext]_hvars
-----------------------------------------------------------------------------
Configs == [ok : BOOLEAN, nodes : SUBSET Tags, act : [Groups -> SUBSET Tags]]
States == [cand : [Groups -> SUBSET Tags], fails : [Tags -> 0..FailCap]]

\* The files, the checks and the rebuild keep their types; a failure count
\* stays within its cap (run_health_check).
PoolTypeOK ==
    /\ cfg \in Configs /\ svc \in Configs /\ st \in States
    /\ lock \in Checkers \cup {NoOne}
    /\ hc \in [Checkers -> [pc : {"idle", "probe", "write", "replace", "restart", "rollback",
                                  "again", "save"}, cf : Configs, orig : Configs, mem : States]]
    /\ rb \in [pc : {"idle", "compare", "rename", "move", "restart"}, new : Configs]
    /\ ev \in [Tags -> 0..FailCap] /\ unsaved \subseteq Tags
    /\ forgot \in BOOLEAN /\ unsynced \in BOOLEAN /\ faults \in 0..MaxFaults

\* A usable outbound that a health check took out of a group can come back:
\* it is a candidate of that group in the state file, or a check that is about
\* to write that file has it, whatever failed, was rolled back or overwritten
\* by a rebuild; unless the file could not be read, or a check had replaced the
\* configuration and ended before it saved its candidates.  (Outbounds a
\* rebuild left out of a full group were never members.)
Known(g) == st.cand[g] \cup UNION {hc[h].mem.cand[g] : h \in {k \in Checkers : hc[k].pc \in NewFile}}
CandidatesRemembered ==
    \A g \in Groups :
        cfg.ok /\ ~forgot /\ Cardinality(cfg.nodes \cap Eligible[g]) <= GroupCap
           => Valid(cfg) \cap Eligible[g] \subseteq cfg.act[g] \cup Known(g)

\* The failures that count against an outbound are consecutive: in the file
\* and in a running check they are at most the dead verdicts since its last
\* 204, unless that 204 has not been saved.
FailuresAreConsecutive ==
    \A t \in Tags \ unsaved :
        /\ st.fails[t] <= ev[t]
        /\ \A h \in Checkers : hc[h].mem.fails[t] <= ev[t]

\* Although the rebuild does not take the lock: once nobody is at work, the
\* service runs with the file on disk, unless a restart failed, was skipped
\* or was prevented by a crash, or a check that saw no former file in the
\* middle of a rebuild deleted the rebuild's.
QuietMeansInSync ==
    (rb.pc = "idle" /\ \A h \in Checkers : hc[h].pc = "idle") => svc = cfg \/ unsynced
=============================================================================
