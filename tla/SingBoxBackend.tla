--------------------------- MODULE SingBoxBackend ---------------------------
(***************************************************************************)
(* The sing-box backend of mosaicd (internal/state/singbox_backend.go): a  *)
(* Go object, guarded by one mutex, that spawns a sing-box child process,  *)
(* waits for its SOCKS listener, and kills it.                             *)
(*                                                                         *)
(* Every critical section of the Go code is one action; what happens       *)
(* between two critical sections can interleave with every other caller,   *)
(* with the goroutine that reaps the child, and with the child's own       *)
(* death.  A caller is a Thread (one API request).  The progress of its    *)
(* call is bpc[t]; "ok", "err" and "stopped" are the results the caller    *)
(* picks up.                                                               *)
(*                                                                         *)
(* Each Start call carries the context of one connection attempt, and an   *)
(* attempt starts at most one child, so the attempt's number names the     *)
(* context and the child alike.                                            *)
(***************************************************************************)
EXTENDS Naturals

CONSTANTS Threads,      \* concurrent API requests that drive the backend
          Servers,      \* servers a child can be configured for
          NoServer,     \* no server
          MaxAttempts   \* bound: connection attempts in a behaviour

ASSUME BackendAssumption == MaxAttempts \in Nat /\ NoServer \notin Servers

Attempts == 1..MaxAttempts
NoProc   == 0           \* nil: no command, no cancel function, no listener

\* The preferred loopback port (2080).  A child that finds it busy listens on
\* an ephemeral port of its own, named by the child's number.
PreferredPort == 0

VARIABLES
    cmd,        \* b.cmd: the child the backend believes it runs
    handle,     \* b.cancel and b.doneCh: the child that Stop would kill
    socks,      \* b.socks (and http, clashApi): the child whose proxy is offered
    proc,       \* the operating system's view of every child
    port,       \* the SOCKS port a child was told to listen on
    runs,       \* the server in a child's loaded configuration, until it is reaped
    bpc,        \* progress of a thread's call into the backend
    ctx,        \* the attempt whose context a thread's Start call carries
    srv,        \* the server a thread's Start call asks for
    cap,        \* Stop's local copy of b.cancel / b.doneCh
    failing,    \* Stop runs on the error path of Start
    cancelled,  \* contexts whose cancel function was called
    natt        \* attempts made so far

backendVars == <<cmd, handle, socks>>
osVars      == <<proc, port, runs>>
callVars    == <<bpc, ctx, srv, cap, failing>>
ctxVars     == <<cancelled, natt>>
bvars == <<backendVars, osVars, callVars, ctxVars>>

ProcStates == {"unborn", "running", "killed", "exited", "reaped"}
CallStates == {"idle", "start", "wait", "dial", "stop", "stopkill", "stopwait",
               "stopclear", "ok", "err", "stopped"}

Alive(p) == proc[p] \in {"running", "killed"}

\* Something accepts connections on loopback port a.
Listening(a) == \E p \in Attempts : Alive(p) /\ port[p] = a

-----------------------------------------------------------------------------
(* RuntimeHealth: the child is gone, or a Stop has taken its handle.  While *)
(* cmd is set, doneCh is nil or closed exactly when the handle is gone.    *)
RuntimeHealthErr == cmd = NoProc \/ handle = NoProc

\* pickPort: the preferred port unless somebody holds it.
PickPort(p) == {a \in {PreferredPort, p} : a = PreferredPort => ~Listening(a)}

\* Start fails before a child exists: no elevation for TUN, the binary or a
\* free port is missing, the configuration cannot be built, written or is
\* refused by "sing-box check", the context is already cancelled, or a child
\* is already running.
StartRefused(t) ==
    /\ bpc[t] = "start"
    /\ bpc' = [bpc EXCEPT ![t] = "err"]
    /\ UNCHANGED <<backendVars, osVars, ctx, srv, cap, failing, ctxVars>>

\* Start's critical section when everything is in order.
StartSpawn(t) ==
    /\ bpc[t] = "start"
    /\ cmd = NoProc
    /\ ctx[t] \notin cancelled
    /\ LET p == ctx[t] IN
         /\ \E a \in PickPort(p) : port' = [port EXCEPT ![p] = a]
         /\ proc' = [proc EXCEPT ![p] = "running"]
         /\ runs' = [runs EXCEPT ![p] = srv[t]]
         /\ cmd' = p
         /\ handle' = p
         /\ socks' = p
    /\ bpc' = [bpc EXCEPT ![t] = "wait"]
    /\ UNCHANGED <<ctx, srv, cap, failing, ctxVars>>

\* Start's error path after the child exists: best-effort Stop, then err.
StartCleanup(t) ==
    /\ bpc' = [bpc EXCEPT ![t] = "stop"]
    /\ failing' = [failing EXCEPT ![t] = TRUE]

\* waitForListen looks at the context, then dials; the deadline may pass at
\* either point.
WaitForListen(t) ==
    /\ bpc[t] = "wait"
    /\ \/ ctx[t] \in cancelled /\ StartCleanup(t)
       \/ /\ ctx[t] \notin cancelled
          /\ bpc' = [bpc EXCEPT ![t] = "dial"]
          /\ UNCHANGED failing
    /\ UNCHANGED <<backendVars, osVars, ctx, srv, cap, ctxVars>>

Dial(t) ==
    /\ bpc[t] = "dial"
    /\ \/ /\ Listening(port[ctx[t]])
          /\ bpc' = [bpc EXCEPT ![t] = "ok"]
          /\ UNCHANGED failing
       \/ StartCleanup(t)
    /\ UNCHANGED <<backendVars, osVars, ctx, srv, cap, ctxVars>>

-----------------------------------------------------------------------------
\* Mutation: Stop leaves the proxy address behind.
StopTakeKeepsProxy(t) ==
    /\ bpc[t] = "stop"
    /\ cap' = [cap EXCEPT ![t] = handle]
    /\ handle' = NoProc
    /\ bpc' = [bpc EXCEPT ![t] = IF handle = NoProc THEN "stopclear" ELSE "stopkill"]
    /\ UNCHANGED <<cmd, socks, osVars, ctx, srv, failing, ctxVars>>

\* Stop, first critical section: take the handle and withdraw the proxies.
StopTake(t) ==
    /\ bpc[t] = "stop"
    /\ cap' = [cap EXCEPT ![t] = handle]
    /\ handle' = NoProc
    /\ socks' = NoProc
    /\ bpc' = [bpc EXCEPT ![t] = IF handle = NoProc THEN "stopclear" ELSE "stopkill"]
    /\ UNCHANGED <<cmd, osVars, ctx, srv, failing, ctxVars>>

\* cancel(): exec kills the child, if it has not exited by itself.
StopKill(t) ==
    /\ bpc[t] = "stopkill"
    /\ proc' = [proc EXCEPT ![cap[t]] = IF @ = "running" THEN "killed" ELSE @]
    /\ bpc' = [bpc EXCEPT ![t] = "stopwait"]
    /\ UNCHANGED <<backendVars, port, runs, ctx, srv, cap, failing, ctxVars>>

\* Stop waits for doneCh, but no longer than five seconds.
StopWait(t) ==
    /\ bpc[t] = "stopwait"
    /\ bpc' = [bpc EXCEPT ![t] = "stopclear"]
    /\ UNCHANGED <<backendVars, osVars, ctx, srv, cap, failing, ctxVars>>

\* Stop, last critical section: b.cmd = nil, whatever b.cmd is by now.
StopClear(t) ==
    /\ bpc[t] = "stopclear"
    /\ cmd' = NoProc
    /\ cap' = [cap EXCEPT ![t] = NoProc]
    /\ bpc' = [bpc EXCEPT ![t] = IF failing[t] THEN "err" ELSE "stopped"]
    /\ failing' = [failing EXCEPT ![t] = FALSE]
    /\ UNCHANGED <<handle, socks, osVars, ctx, srv, ctxVars>>

-----------------------------------------------------------------------------
\* The child dies: killed, crashed, or finished.
ProcExit(p) ==
    /\ Alive(p)
    /\ proc' = [proc EXCEPT ![p] = "exited"]
    /\ UNCHANGED <<backendVars, port, runs, callVars, ctxVars>>

\* Mutation: the reaper does not check that the dead child is the current one.
ReapAny(p) ==
    /\ proc[p] = "exited"
    /\ proc' = [proc EXCEPT ![p] = "reaped"]
    /\ cmd' = NoProc /\ handle' = NoProc /\ socks' = NoProc
    /\ runs' = [runs EXCEPT ![p] = NoServer]
    /\ UNCHANGED <<port, callVars, ctxVars>>

\* The goroutine behind cmd.Wait: forget the child if it is still the current
\* one, then close doneCh.
Reap(p) ==
    /\ proc[p] = "exited"
    /\ proc' = [proc EXCEPT ![p] = "reaped"]
    /\ IF cmd = p
         THEN cmd' = NoProc /\ handle' = NoProc /\ socks' = NoProc
         ELSE UNCHANGED backendVars
    /\ runs' = [runs EXCEPT ![p] = NoServer]
    /\ UNCHANGED <<port, callVars, ctxVars>>

\* HotReload writes the configuration file and, outside the lock, asks whichever
\* child answers at the current control address to load it.  The answer is
\* ignored, so the child may well stay on its old server.
HotReloadConfig(s) ==
    /\ \/ UNCHANGED runs
       \/ socks # NoProc /\ runs' = [runs EXCEPT ![socks] = s]
    /\ UNCHANGED <<backendVars, proc, port, callVars, ctxVars>>

-----------------------------------------------------------------------------
BackendInit ==
    /\ cmd = NoProc /\ handle = NoProc /\ socks = NoProc
    /\ proc = [p \in Attempts |-> "unborn"]
    /\ port = [p \in Attempts |-> PreferredPort]
    /\ runs = [p \in Attempts |-> NoServer]
    /\ bpc = [t \in Threads |-> "idle"]
    /\ ctx = [t \in Threads |-> NoProc]
    /\ srv = [t \in Threads |-> NoServer]
    /\ cap = [t \in Threads |-> NoProc]
    /\ failing = [t \in Threads |-> FALSE]
    /\ cancelled = {}
    /\ natt = 0

\* One step of thread t's call into the backend.
BackendStep(t) ==
    \/ StartRefused(t) \/ StartSpawn(t) \/ WaitForListen(t) \/ Dial(t)
    \/ StopTake(t) \/ StopKill(t) \/ StopWait(t) \/ StopClear(t)

ChildStep(p) == ProcExit(p) \/ Reap(p)

BackendTypeOK ==
    /\ cmd \in 0..MaxAttempts /\ handle \in 0..MaxAttempts
    /\ socks \in 0..MaxAttempts
    /\ proc \in [Attempts -> ProcStates]
    /\ port \in [Attempts -> 0..MaxAttempts]
    /\ runs \in [Attempts -> Servers \cup {NoServer}]

CallTypeOK ==
    /\ bpc \in [Threads -> CallStates]
    /\ ctx \in [Threads -> 0..MaxAttempts]
    /\ srv \in [Threads -> Servers \cup {NoServer}]
    /\ cap \in [Threads -> 0..MaxAttempts]
    /\ failing \in [Threads -> BOOLEAN]
    /\ cancelled \subseteq Attempts
    /\ natt \in 0..MaxAttempts

=============================================================================
