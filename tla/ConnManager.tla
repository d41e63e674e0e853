----------------------------- MODULE ConnManager -----------------------------
(***************************************************************************)
(* The connection manager of mosaicd (internal/state/state.go, verify.go   *)
(* and route_memory.go) on top of the sing-box backend.                    *)
(*                                                                         *)
(* Any number of API requests (Threads) run Connect, Disconnect and        *)
(* HotReload at the same time: the HTTP and MCP handlers call the manager  *)
(* without a lock of their own.  The manager's mutex is held only for the  *)
(* critical sections below, each of which is one action; the backend's     *)
(* calls, the truth-check and the disk writes run outside of it.           *)
(*                                                                         *)
(* mpc[t] is where thread t stands in Connect, Disconnect or HotReload.    *)
(* owner is a history variable: the attempt that wrote the current state.  *)
(* probed is one too: the attempts whose truth-check moved real traffic,   *)
(* and so is moved: the attempts whose session HotReload has ever shown on *)
(* another server, even if a later HotReload showed the first one again.   *)
(***************************************************************************)
EXTENDS SingBoxBackend, Sequences

CONSTANTS MaxCands,         \* bound: primary plus fallbacks of one request
          VerifyAttempts,   \* VerifyPolicy.Attempts
          Catalogs,         \* what the store's server list may be
          Fingerprinted     \* the network can be told from others, so routes are remembered

ASSUME ManagerAssumption ==
    /\ MaxCands \in Nat
    /\ VerifyAttempts \in Nat \ {0}
    /\ Catalogs \subseteq SUBSET Servers
    /\ Fingerprinted \in BOOLEAN

VARIABLES
    state,      \* m.st.State
    server,     \* m.st.Server
    owner,      \* history: the attempt that wrote state
    mcancel,    \* m.cancel: the attempt whose context it cancels
    mpc,        \* control point of a thread
    rest,       \* candidates the thread has not tried yet
    addr,       \* the SOCKS port its truth-check dials
    tries,      \* probes it has sent
    watcher,    \* the watchRuntime goroutine of an attempt
    target,     \* the server of an attempt
    catalog,    \* store: servers
    lastServer, \* store: last server
    ledger,     \* route memory: last verdict on a route, on this network
    probed,     \* history: attempts whose probe got an answer
    moved,      \* history: attempts whose session HotReload showed on another server
    budget      \* bound: attempts that requests may still reserve

stVars      == <<state, server, owner>>
threadVars  == <<mpc, rest, addr, tries>>
watchVars   == <<watcher, target>>
storeVars   == <<catalog, lastServer, ledger>>
mvars == <<stVars, mcancel, threadVars, watchVars, storeVars, probed, moved, budget>>
vars  == <<bvars, mvars>>

States   == {"disconnected", "connecting", "verifying", "connected", "error"}
Points   == {"idle", "next", "enter", "begin", "starting", "verify", "probe",
             "reject", "rejecting", "verified", "announce", "persist",
             "disc", "discstop", "redisc", "rediscstop", "reload", "reloading", "reloadapply", "reloaded"}
Watchers == {"off", "watching", "sawerr", "done"}

\* The lists a connect request may carry: the resolver never repeats a server.
CandidateLists == UNION {{c \in [1..n -> Servers] : \A i, j \in 1..n : c[i] = c[j] => i = j}
                         : n \in 1..MaxCands}

-----------------------------------------------------------------------------
\* transitionLocked: the whole status is replaced.
Transition(s, sv, a) ==
    /\ state' = s
    /\ server' = sv
    /\ owner' = a

Goto(t, pt) == mpc' = [mpc EXCEPT ![t] = pt]

\* The request's goroutine ends, and its locals with it.
Finish(t) ==
    /\ Goto(t, "idle")
    /\ rest' = [rest EXCEPT ![t] = <<>>]
    /\ addr' = [addr EXCEPT ![t] = PreferredPort]
    /\ tries' = [tries EXCEPT ![t] = 0]
    /\ srv' = [srv EXCEPT ![t] = NoServer]
    /\ ctx' = [ctx EXCEPT ![t] = NoProc]

\* Enter the backend, or pick up the result of a call.
Call(t, b) == bpc' = [bpc EXCEPT ![t] = b]

\* rememberOutcome: the ledger is left alone when the network has no fingerprint.
RememberOutcome(s, verdict) ==
    ledger' = IF Fingerprinted THEN [ledger EXCEPT ![s] = verdict] ELSE ledger

\* if m.cancel != nil { m.cancel(); m.cancel = nil }
CancelCurrent ==
    /\ cancelled' = IF mcancel = NoProc THEN cancelled ELSE cancelled \cup {mcancel}
    /\ mcancel' = NoProc

-----------------------------------------------------------------------------
(* ConnectWithFallbacks and walkCandidates                                 *)

\* A connect request arrives.  applyRouteMemory only permutes the list, and
\* every order of it is a list.
ConnectRequest(t, cands) ==
    /\ mpc[t] = "idle"
    /\ budget >= Len(cands)
    /\ budget' = budget - Len(cands)
    /\ rest' = [rest EXCEPT ![t] = cands]
    /\ Goto(t, "next")
    /\ UNCHANGED <<bvars, stVars, mcancel, addr, tries, watchVars, storeVars, probed, moved>>

\* All candidates were rejected, or the client has gone away.
WalkEnds(t) ==
    /\ mpc[t] = "next"
    /\ Finish(t)
    /\ UNCHANGED <<backendVars, osVars, bpc, cap, failing, ctxVars, stVars, mcancel,
                   watchVars, storeVars, probed, moved, budget>>

NextCandidate(t) ==
    /\ mpc[t] = "next"
    /\ rest[t] # <<>>
    /\ srv' = [srv EXCEPT ![t] = Head(rest[t])]
    /\ rest' = [rest EXCEPT ![t] = Tail(rest[t])]
    /\ Goto(t, "enter")
    /\ UNCHANGED <<backendVars, osVars, bpc, ctx, cap, failing, ctxVars, stVars, mcancel,
                   addr, tries, watchVars, storeVars, probed, moved, budget>>

-----------------------------------------------------------------------------
(* Connect                                                                 *)

\* The server is not in the store, or another Connect is in "connecting":
\* an error that no other candidate can cure.
ConnectRefused(t) ==
    /\ mpc[t] = "enter"
    /\ srv[t] \notin catalog \/ state = "connecting"
    /\ Finish(t)
    /\ UNCHANGED <<backendVars, osVars, bpc, cap, failing, ctxVars, stVars, mcancel,
                   watchVars, storeVars, probed, moved, budget>>

\* A session exists: release the lock and disconnect first.
ConnectReplaces(t) ==
    /\ mpc[t] = "enter"
    /\ srv[t] \in catalog
    /\ state \in {"connected", "error"}
    /\ Goto(t, "redisc")
    /\ UNCHANGED <<bvars, stVars, mcancel, rest, addr, tries, watchVars, storeVars,
                   probed, moved, budget>>

\* The critical section that announces "connecting", with a new context.  It
\* does not look at the state again after the nested Disconnect, and it drops
\* the cancel function it replaces without calling it.
ConnectBegin(t) ==
    /\ \/ mpc[t] = "enter" /\ srv[t] \in catalog /\ state \in {"disconnected", "verifying"}
       \/ mpc[t] = "begin"
    /\ natt < MaxAttempts
    /\ natt' = natt + 1
    /\ ctx' = [ctx EXCEPT ![t] = natt + 1]
    /\ target' = [target EXCEPT ![natt + 1] = srv[t]]
    /\ mcancel' = natt + 1
    /\ Transition("connecting", srv[t], natt + 1)
    /\ Call(t, "start")
    /\ Goto(t, "starting")
    /\ UNCHANGED <<backendVars, osVars, srv, cap, failing, cancelled, rest, addr, tries,
                   watcher, storeVars, probed, moved, budget>>

\* Mutation: the failure is returned to the client and not announced.
StartFailedSilent(t) ==
    /\ mpc[t] = "starting"
    /\ bpc[t] = "err"
    /\ Call(t, "idle")
    /\ Finish(t)
    /\ UNCHANGED <<backendVars, osVars, cap, failing, ctxVars, stVars, mcancel, watchVars,
                   storeVars, probed, moved, budget>>

\* Start returned an error: the state is error, m.cancel stays.
StartFailed(t) ==
    /\ mpc[t] = "starting"
    /\ bpc[t] = "err"
    /\ Transition("error", srv[t], ctx[t])
    /\ Call(t, "idle")
    /\ Finish(t)
    /\ UNCHANGED <<backendVars, osVars, cap, failing, ctxVars, mcancel, watchVars, storeVars, probed, moved, budget>>

\* Start returned nil: announce "verifying".
EnterVerifying(t) ==
    /\ mpc[t] = "starting"
    /\ bpc[t] = "ok"
    /\ Transition("verifying", srv[t], ctx[t])
    /\ Call(t, "idle")
    /\ Goto(t, "verify")
    /\ UNCHANGED <<backendVars, osVars, ctx, srv, cap, failing, ctxVars, mcancel, rest,
                   addr, tries, watchVars, storeVars, probed, moved, budget>>

\* verifyActiveTunnel asks the backend for its SOCKS address and dials it ...
ReadProxies(t) ==
    /\ mpc[t] = "verify"
    /\ socks # NoProc
    /\ addr' = [addr EXCEPT ![t] = port[socks]]
    /\ tries' = [tries EXCEPT ![t] = 0]
    /\ Goto(t, "probe")
    /\ UNCHANGED <<bvars, stVars, mcancel, rest, watchVars, storeVars, probed, moved, budget>>

\* ... but a backend that offers none is trusted.
TrustNoProxy(t) ==
    /\ mpc[t] = "verify"
    /\ socks = NoProc
    /\ Goto(t, "verified")
    /\ UNCHANGED <<bvars, stVars, mcancel, rest, addr, tries, watchVars, storeVars, probed, moved,
                   budget>>

\* verifyTunnel gives up when the context is cancelled ...
ProbeCancelled(t) ==
    /\ mpc[t] = "probe"
    /\ ctx[t] \in cancelled
    /\ Goto(t, "reject")
    /\ UNCHANGED <<bvars, stVars, mcancel, rest, addr, tries, watchVars, storeVars, probed, moved,
                   budget>>

\* ... and succeeds when a probe is answered: by whatever listens on the port ...
ProbeAnswered(t) ==
    /\ mpc[t] = "probe"
    /\ ctx[t] \notin cancelled
    /\ Listening(addr[t])
    /\ probed' = probed \cup {ctx[t]}
    /\ Goto(t, "verified")
    /\ UNCHANGED <<bvars, stVars, mcancel, rest, addr, tries, watchVars, storeVars, moved, budget>>

\* Mutations: the last failed probe counts as a success; failed probes are not
\* counted; one probe too many.
ProbeFailsLenient(t) ==
    /\ mpc[t] = "probe"
    /\ ctx[t] \notin cancelled
    /\ tries' = [tries EXCEPT ![t] = @ + 1]
    /\ Goto(t, IF tries[t] + 1 < VerifyAttempts THEN "probe" ELSE "verified")
    /\ UNCHANGED <<bvars, stVars, mcancel, rest, addr, watchVars, storeVars, probed, moved, budget>>

ProbeFailsUncounted(t) ==
    /\ mpc[t] = "probe"
    /\ ctx[t] \notin cancelled
    /\ tries' = [tries EXCEPT ![t] = 1 - @]
    /\ UNCHANGED <<bvars, stVars, mcancel, mpc, rest, addr, watchVars, storeVars, probed, moved,
                   budget>>

ProbeFailsOffByOne(t) ==
    /\ mpc[t] = "probe"
    /\ ctx[t] \notin cancelled
    /\ tries' = [tries EXCEPT ![t] = @ + 1]
    /\ Goto(t, IF tries[t] < VerifyAttempts THEN "probe" ELSE "reject")
    /\ UNCHANGED <<bvars, stVars, mcancel, rest, addr, watchVars, storeVars, probed, moved, budget>>

\* ... or fails when none of its probes is.
ProbeFails(t) ==
    /\ mpc[t] = "probe"
    /\ ctx[t] \notin cancelled
    /\ tries' = [tries EXCEPT ![t] = @ + 1]
    /\ Goto(t, IF tries[t] + 1 < VerifyAttempts THEN "probe" ELSE "reject")
    /\ UNCHANGED <<bvars, stVars, mcancel, rest, addr, watchVars, storeVars, probed, moved, budget>>

\* Mutation: the rejected core is left running.
RejectRouteNoStop(t) ==
    /\ mpc[t] = "reject"
    /\ RememberOutcome(srv[t], "bad")
    /\ Call(t, "stopped")
    /\ Goto(t, "rejecting")
    /\ UNCHANGED <<backendVars, osVars, ctx, srv, cap, failing, ctxVars, stVars, mcancel,
                   rest, addr, tries, watchVars, catalog, lastServer, probed, moved, budget>>

\* The truth-check failed: record it, then stop the core.
RejectRoute(t) ==
    /\ mpc[t] = "reject"
    /\ RememberOutcome(srv[t], "bad")
    /\ Call(t, "stop")
    /\ Goto(t, "rejecting")
    /\ UNCHANGED <<backendVars, osVars, ctx, srv, cap, failing, ctxVars, stVars, mcancel,
                   rest, addr, tries, watchVars, catalog, lastServer, probed, moved, budget>>

\* The core is stopped: cancel, announce the error, try the next candidate.
VerifyFailed(t) ==
    /\ mpc[t] = "rejecting"
    /\ bpc[t] = "stopped"
    /\ CancelCurrent
    /\ Transition("error", srv[t], ctx[t])
    /\ Call(t, "idle")
    /\ Goto(t, "next")
    /\ UNCHANGED <<backendVars, osVars, ctx, srv, cap, failing, natt, rest, addr, tries,
                   watchVars, storeVars, probed, moved, budget>>

\* The truth-check passed: record it ...
RememberVerified(t) ==
    /\ mpc[t] = "verified"
    /\ RememberOutcome(srv[t], "good")
    /\ Goto(t, "announce")
    /\ UNCHANGED <<bvars, stVars, mcancel, rest, addr, tries, watchVars, catalog,
                   lastServer, probed, moved, budget>>

\* ... announce "connected", whatever happened since "verifying" ...
Announce(t) ==
    /\ mpc[t] = "announce"
    /\ Transition("connected", srv[t], ctx[t])
    /\ Goto(t, "persist")
    /\ UNCHANGED <<bvars, mcancel, rest, addr, tries, watchVars, storeVars, probed, moved,
                   budget>>

\* Mutation: no watcher is started.
PersistUnwatched(t) ==
    /\ mpc[t] = "persist"
    /\ lastServer' \in {srv[t], lastServer}
    /\ Finish(t)
    /\ UNCHANGED <<backendVars, osVars, bpc, cap, failing, ctxVars, stVars, mcancel,
                   watchVars, catalog, ledger, probed, moved, budget>>

\* ... and save the last server (a failed save is only logged) and start the
\* watcher.
Persist(t) ==
    /\ mpc[t] = "persist"
    /\ lastServer' \in {srv[t], lastServer}
    /\ watcher' = [watcher EXCEPT ![ctx[t]] = "watching"]
    /\ Finish(t)
    /\ UNCHANGED <<backendVars, osVars, bpc, cap, failing, ctxVars, stVars, mcancel, target,
                   catalog, ledger, probed, moved, budget>>

-----------------------------------------------------------------------------
(* watchRuntime: one goroutine per announced attempt                       *)

\* A tick finds the backend unhealthy; a healthy tick changes nothing.
WatchTick(a) ==
    /\ watcher[a] = "watching"
    /\ RuntimeHealthErr
    /\ watcher' = [watcher EXCEPT ![a] = "sawerr"]
    /\ UNCHANGED <<bvars, stVars, mcancel, threadVars, target, storeVars, probed, moved, budget>>

\* Mutation: the watcher does not check whose session it ends.
WatchFireUnchecked(a) ==
    /\ watcher[a] = "sawerr"
    /\ watcher' = [watcher EXCEPT ![a] = "done"]
    /\ IF state = "connected" THEN Transition("error", target[a], a) ELSE UNCHANGED stVars
    /\ UNCHANGED <<bvars, mcancel, threadVars, target, storeVars, probed, moved, budget>>

\* Under the lock: the session it watches still stands, so it is in error.
WatchFire(a) ==
    /\ watcher[a] = "sawerr"
    /\ watcher' = [watcher EXCEPT ![a] = "done"]
    /\ IF a \notin cancelled /\ state = "connected" /\ server = target[a]
         THEN Transition("error", target[a], a)
         ELSE UNCHANGED stVars
    /\ UNCHANGED <<bvars, mcancel, threadVars, target, storeVars, probed, moved, budget>>

WatchStop(a) ==
    /\ watcher[a] = "watching"
    /\ a \in cancelled
    /\ watcher' = [watcher EXCEPT ![a] = "done"]
    /\ UNCHANGED <<bvars, stVars, mcancel, threadVars, target, storeVars, probed, moved, budget>>

-----------------------------------------------------------------------------
(* Disconnect                                                              *)

\* Disconnect answers its own request, or returns into the Connect that it
\* makes room for.
AfterDisconnect(t) == IF mpc[t] \in {"disc", "discstop"} THEN "idle" ELSE "begin"

DisconnectRequest(t) ==
    /\ mpc[t] = "idle"
    /\ Goto(t, "disc")
    /\ UNCHANGED <<bvars, stVars, mcancel, rest, addr, tries, watchVars, storeVars,
                   probed, moved, budget>>

\* Nothing to do when disconnected ...
DisconnectNothing(t) ==
    /\ mpc[t] \in {"disc", "redisc"}
    /\ state = "disconnected"
    /\ Goto(t, AfterDisconnect(t))
    /\ UNCHANGED <<bvars, stVars, mcancel, rest, addr, tries, watchVars, storeVars, probed, moved,
                   budget>>

\* ... else cancel the context and stop the core.
DisconnectEnter(t) ==
    /\ mpc[t] \in {"disc", "redisc"}
    /\ state # "disconnected"
    /\ CancelCurrent
    /\ Call(t, "stop")
    /\ Goto(t, IF mpc[t] = "disc" THEN "discstop" ELSE "rediscstop")
    /\ UNCHANGED <<backendVars, osVars, ctx, srv, cap, failing, natt, stVars, rest, addr,
                   tries, watchVars, storeVars, probed, moved, budget>>

\* Mutation: the state is not reset.
DisconnectEndSilent(t) ==
    /\ mpc[t] \in {"discstop", "rediscstop"}
    /\ bpc[t] = "stopped"
    /\ Call(t, "idle")
    /\ Goto(t, AfterDisconnect(t))
    /\ UNCHANGED <<backendVars, osVars, ctx, srv, cap, failing, ctxVars, stVars, mcancel,
                   rest, addr, tries, watchVars, storeVars, probed, moved, budget>>

\* The core is stopped: the state is disconnected, whatever it is by now.
DisconnectEnd(t) ==
    /\ mpc[t] \in {"discstop", "rediscstop"}
    /\ bpc[t] = "stopped"
    /\ Transition("disconnected", NoServer, NoProc)
    /\ Call(t, "idle")
    /\ Goto(t, AfterDisconnect(t))
    /\ UNCHANGED <<backendVars, osVars, ctx, srv, cap, failing, ctxVars, mcancel, rest,
                   addr, tries, watchVars, storeVars, probed, moved, budget>>

-----------------------------------------------------------------------------
(* HotReload                                                               *)

ReloadRequest(t) ==
    /\ mpc[t] = "idle"
    /\ budget > 0
    /\ budget' = budget - 1
    /\ Goto(t, "reload")
    /\ UNCHANGED <<bvars, stVars, mcancel, rest, addr, tries, watchVars, storeVars,
                   probed, moved>>

\* Bound: a reload that makes no attempt of its own gives back the one it
\* reserved, so the number of reloads is not bounded.
NoAttemptNeeded == budget' = budget + 1

\* Only a connected session is reloaded: onto its server or, when the store has
\* lost that one, onto the first server the store still has.
ReloadTargets == IF server \in catalog THEN {server} ELSE catalog

ReloadSkip(t) ==
    /\ mpc[t] = "reload"
    /\ state # "connected" \/ ReloadTargets = {}
    /\ NoAttemptNeeded
    /\ Finish(t)
    /\ UNCHANGED <<backendVars, osVars, bpc, cap, failing, ctxVars, stVars, mcancel,
                   watchVars, storeVars, probed, moved>>

ReloadEnter(t) ==
    /\ mpc[t] = "reload"
    /\ state = "connected"
    /\ \E s \in ReloadTargets : srv' = [srv EXCEPT ![t] = s]
    /\ Goto(t, "reloading")
    /\ UNCHANGED <<backendVars, osVars, bpc, ctx, cap, failing, ctxVars, stVars, mcancel,
                   rest, addr, tries, watchVars, storeVars, probed, moved, budget>>

\* The backend looks for its child.  Without one, or when the configuration
\* cannot be built or written, the manager reconnects.
ReloadBackend(t) ==
    /\ mpc[t] = "reloading"
    /\ \/ Goto(t, "enter")
       \/ cmd # NoProc /\ Goto(t, "reloadapply")
    /\ UNCHANGED <<bvars, stVars, mcancel, rest, addr, tries, watchVars, storeVars,
                   probed, moved, budget>>

ReloadApply(t) ==
    /\ mpc[t] = "reloadapply"
    /\ HotReloadConfig(srv[t])
    /\ Goto(t, "reloaded")
    /\ UNCHANGED <<stVars, mcancel, rest, addr, tries, watchVars, storeVars, probed, moved,
                   budget>>

\* m.st.Server = &server, whatever the state is by now.
ReloadEnd(t) ==
    /\ mpc[t] = "reloaded"
    /\ server' = srv[t]
    /\ moved' = moved \cup {a \in Attempts : a = owner /\ srv[t] # target[a]}
    /\ NoAttemptNeeded
    /\ Finish(t)
    /\ UNCHANGED <<backendVars, osVars, bpc, cap, failing, ctxVars, state, owner,
                   mcancel, watchVars, storeVars, probed>>

-----------------------------------------------------------------------------
\* A subscription refresh or an edit replaces the store's server list.
CatalogChange ==
    /\ catalog' \in Catalogs \ {catalog}
    /\ UNCHANGED <<bvars, stVars, mcancel, threadVars, watchVars, lastServer, ledger,
                   probed, moved, budget>>

Init ==
    /\ BackendInit
    /\ state = "disconnected" /\ server = NoServer /\ owner = NoProc
    /\ mcancel = NoProc
    /\ mpc = [t \in Threads |-> "idle"]
    /\ rest = [t \in Threads |-> <<>>]
    /\ addr = [t \in Threads |-> PreferredPort]
    /\ tries = [t \in Threads |-> 0]
    /\ watcher = [a \in Attempts |-> "off"]
    /\ target = [a \in Attempts |-> NoServer]
    /\ catalog \in Catalogs
    /\ lastServer = NoServer
    /\ ledger = [s \in Servers |-> "none"]
    /\ probed = {} /\ moved = {}
    /\ budget = MaxAttempts

\* A request moves on: everything between its arrival and its answer.
ConnectStep(t) ==
    \/ WalkEnds(t) \/ NextCandidate(t)
    \/ ConnectRefused(t) \/ ConnectReplaces(t) \/ ConnectBegin(t)
    \/ StartFailed(t) \/ EnterVerifying(t) \/ ReadProxies(t) \/ TrustNoProxy(t)
    \/ ProbeCancelled(t) \/ ProbeAnswered(t) \/ ProbeFails(t)
    \/ RejectRoute(t) \/ VerifyFailed(t)
    \/ RememberVerified(t) \/ Announce(t) \/ Persist(t)

DisconnectStep(t) == DisconnectNothing(t) \/ DisconnectEnter(t) \/ DisconnectEnd(t)

ReloadStep(t) ==
    \/ ReloadSkip(t) \/ ReloadEnter(t) \/ ReloadBackend(t) \/ ReloadApply(t) \/ ReloadEnd(t)

ThreadStep(t) ==
    \/ ConnectStep(t) \/ DisconnectStep(t) \/ ReloadStep(t)
    \/ BackendStep(t) /\ UNCHANGED mvars

Request(t) ==
    \/ \E cands \in CandidateLists : ConnectRequest(t, cands)
    \/ DisconnectRequest(t)
    \/ ReloadRequest(t)

WatchStep(a) == WatchTick(a) \/ WatchFire(a) \/ WatchStop(a)

Next ==
    \/ \E t \in Threads : Request(t) \/ ThreadStep(t)
    \/ \E a \in Attempts : WatchStep(a)
    \/ \E p \in Attempts : ChildStep(p) /\ UNCHANGED mvars
    \/ CatalogChange

Spec == Init /\ [][Next]_vars

\* Goroutines are scheduled, every wait in them has a deadline, the operating
\* system carries out a kill and a dead child is waited for.  Nothing makes a
\* request arrive, a healthy child die or the store change.
Fairness ==
    /\ \A t \in Threads : WF_vars(ThreadStep(t))
    /\ \A a \in Attempts : WF_vars(WatchStep(a))
    /\ \A p \in Attempts : WF_vars(proc[p] # "running" /\ ChildStep(p) /\ UNCHANGED mvars)

FairSpec == Spec /\ Fairness

-----------------------------------------------------------------------------
ThreadTypeOK ==
    /\ mpc \in [Threads -> Points]
    /\ rest \in [Threads -> Seq(Servers)]
    /\ addr \in [Threads -> 0..MaxAttempts]
    /\ tries \in [Threads -> 0..VerifyAttempts]

StatusTypeOK ==
    /\ state \in States
    /\ server \in Servers \cup {NoServer}
    /\ owner \in 0..MaxAttempts
    /\ mcancel \in 0..MaxAttempts

WatchTypeOK ==
    /\ watcher \in [Attempts -> Watchers]
    /\ target \in [Attempts -> Servers \cup {NoServer}]

StoreTypeOK ==
    /\ catalog \in Catalogs
    /\ lastServer \in Servers \cup {NoServer}
    /\ ledger \in [Servers -> {"none", "good", "bad"}]
    /\ probed \subseteq Attempts
    /\ moved \subseteq Attempts
    /\ budget \in Nat

\* Every variable has its type.
TypeOK ==
    BackendTypeOK /\ CallTypeOK /\ ThreadTypeOK /\ StatusTypeOK /\ WatchTypeOK /\ StoreTypeOK

(* Properties of any number of concurrent requests                         *)

Verifying == {"verify", "probe", "reject", "rejecting", "verified", "announce"}

\* "connecting" and "verifying" are never left behind: some request is still
\* running the very attempt that announced the phase, so a later write will
\* end it.  A Connect that finds "connecting" refuses to run, hence a phase
\* nobody works on would lock the user out until the daemon restarts.
NoOrphanedPhase ==
    /\ state = "connecting" =>
         \E t \in Threads : ctx[t] = owner /\ mpc[t] = "starting"
    /\ state = "verifying" =>
         \E t \in Threads : ctx[t] = owner /\ mpc[t] \in Verifying

\* A proxy address is offered only while Stop can still reach its child, and the
\* manager's cancel function, when set, is that of the newest attempt and was
\* never called.
HandlesAreCurrent ==
    /\ socks # NoProc => handle = socks
    /\ cmd # NoProc /\ handle # NoProc => handle = cmd
    /\ mcancel # NoProc => mcancel = natt /\ mcancel \notin cancelled

\* Every request is answered: no wait in Connect, Disconnect or HotReload is
\* unbounded, whatever the other requests and the child do.
RequestsReturn == \A t \in Threads : mpc[t] # "idle" ~> mpc[t] = "idle"

(* Properties of requests made one at a time                               *)

\* "disconnected" and "error" mean that no core holds the system's routes: Stop
\* has killed the child on every path that leads there.
NoStrayCore ==
    state \in {"disconnected", "error"} => \A p \in Attempts : proc[p] # "running"

\* A running child never slips out of reach: the backend, or the Stop call that
\* is under way, holds its cancel function, and there is at most one.
CoreIsReachable ==
    \A p \in Attempts : proc[p] = "running" =>
        /\ handle = p \/ \E t \in Threads : cap[t] = p
        /\ \A q \in Attempts : proc[q] = "running" => q = p

\* The connection shown as established is the one whose child serves the proxy
\* and whose context Disconnect would cancel.
ConnectedIsCurrent ==
    state = "connected" =>
        /\ socks \in {NoProc, owner}
        /\ owner \notin cancelled \/ \E t \in Threads : mpc[t] \in {"discstop", "rediscstop"}

\* A session is shown as connected without a probe that got through only when
\* its core died between "verifying" and the truth-check, which then finds no
\* proxy to dial.
UnprobedOnlyAfterDeath ==
    state = "connected" /\ owner \notin probed => ~Alive(owner)

\* Only the connection being shown may put itself in error: a watcher or a
\* failed Start of an older attempt never overwrites a newer session.
OnlyOwnSessionFails ==
    [][state = "connected" /\ state' = "error" => owner' = owner]_vars

\* The death of the core of an established session is noticed, unless HotReload
\* has ever shown that session on another server.  The watcher knows its session
\* by the server it shows: while another one is shown it takes a dead core for
\* somebody else's and ends, and showing the first server again does not start
\* it again.
DeadTunnelNoticed ==
    (state = "connected" /\ owner \notin moved /\ \A p \in Attempts : proc[p] # "running")
        ~> (state # "connected" \/ owner \in moved)
=============================================================================
