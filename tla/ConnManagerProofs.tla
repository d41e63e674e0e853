--------------------------- MODULE ConnManagerProofs ---------------------------
(***************************************************************************)
(* Proofs about ConnManager for every set of servers, every bound and, up  *)
(* to the last section, every number of concurrent requests; the last      *)
(* section is about one caller at a time.                                  *)
(*                                                                         *)
(* Each lemma about [Next]_vars has one case per action, in the order of   *)
(* Next: requests, Connect, Disconnect and HotReload, calls into the       *)
(* backend, watchers, children, the store.                                 *)
(***************************************************************************)
EXTENDS ConnManager, TLAPS

USE BackendAssumption, ManagerAssumption
USE DEF backendVars, osVars, callVars, ctxVars, bvars, stVars, threadVars, watchVars,
        storeVars, mvars, NoProc, PreferredPort, Attempts,
        Goto, Call, Finish, Transition, CancelCurrent, RememberOutcome

-----------------------------------------------------------------------------
(* Types                                                                   *)

\* A thread that is probing has probes left.
ProbesLeft == \A t \in Threads : mpc[t] = "probe" => tries[t] < VerifyAttempts

\* A thread between "connecting" and the start of the watcher has an attempt.
AttemptNamed ==
    \A t \in Threads :
        mpc[t] \in {"starting", "persist"} \cup Verifying => ctx[t] \in Attempts

\* TypeOK is not inductive: the probe counter and the attempt added to probed
\* keep their types only because of where their thread stands.
TypeInv == TypeOK /\ ProbesLeft /\ AttemptNamed

\* The list of a connect request is a sequence of servers.
LEMMA CandidatesAreLists ==
    \A c \in CandidateLists : c \in Seq(Servers) /\ Len(c) \in Nat
BY DEF CandidateLists

\* The initial state is typed.
LEMMA TypeInit == Init => TypeInv
BY DEF Init, BackendInit, TypeInv, TypeOK, BackendTypeOK, CallTypeOK, ThreadTypeOK,
       StatusTypeOK, WatchTypeOK, StoreTypeOK, ProbesLeft, AttemptNamed, Verifying,
       States, Points, ProcStates, CallStates, Watchers

\* Every step keeps the types.
LEMMA TypeStep == TypeInv /\ [Next]_vars => TypeInv'
<1> SUFFICES ASSUME TypeInv, [Next]_vars PROVE TypeInv'
  OBVIOUS
<1> USE DEF TypeInv, TypeOK, BackendTypeOK, CallTypeOK, ThreadTypeOK, StatusTypeOK,
    WatchTypeOK, StoreTypeOK, ProbesLeft, AttemptNamed, Verifying, States, Points,
    ProcStates, CallStates, Watchers
<1>1. ASSUME NEW t \in Threads, Request(t) PROVE TypeInv'
  <2>1. ASSUME NEW cands \in CandidateLists, ConnectRequest(t, cands)
        PROVE  TypeInv'
    <3>1. (rest \in [Threads -> Seq(Servers)])'
      BY <2>1, CandidatesAreLists DEF ConnectRequest
    <3>2. (budget \in Nat)'
      BY <2>1, CandidatesAreLists DEF ConnectRequest
    <3>3. (mpc \in [Threads -> Points] /\ ProbesLeft /\ AttemptNamed)'
      BY <2>1, CandidatesAreLists DEF ConnectRequest
    <3> QED BY <2>1, <3>1, <3>2, <3>3 DEF ConnectRequest
  <2>2. CASE DisconnectRequest(t)
    BY ZenonT(60), <2>2 DEF DisconnectRequest
  <2>3. CASE ReloadRequest(t)
    <3>1. ThreadTypeOK' /\ ProbesLeft' /\ AttemptNamed'
      BY <2>3 DEF ReloadRequest
    <3>2. StoreTypeOK'
      BY <2>3 DEF ReloadRequest
    <3> QED BY <2>3, <3>1, <3>2 DEF ReloadRequest
  <2> QED BY <1>1, <2>1, <2>2, <2>3 DEF Request
<1>2. ASSUME NEW t \in Threads, ConnectStep(t) PROVE TypeInv'
  <2>1. CASE WalkEnds(t)
    <3>1. CallTypeOK' /\ ThreadTypeOK'
      BY <2>1 DEF WalkEnds
    <3>2. ProbesLeft' /\ AttemptNamed'
      BY <2>1 DEF WalkEnds
    <3> QED BY <2>1, <3>1, <3>2 DEF WalkEnds
  <2>2. CASE NextCandidate(t)
    <3>1. CallTypeOK'
      BY SMTT(30), <2>2 DEF NextCandidate
    <3>2. ThreadTypeOK'
      BY <2>2 DEF NextCandidate
    <3>3. ProbesLeft' /\ AttemptNamed'
      BY <2>2 DEF NextCandidate
    <3> QED BY <2>2, <3>1, <3>2, <3>3 DEF NextCandidate
  <2>3. CASE ConnectRefused(t)
    BY SMTT(30), <2>3 DEF ConnectRefused
  <2>4. CASE ConnectReplaces(t)
    BY SMTT(30), <2>4 DEF ConnectReplaces
  <2>5. CASE ConnectBegin(t)
    <3>1. (state \in States /\ server \in Servers \cup {NoServer})'
      BY <2>5 DEF ConnectBegin
    <3>2. (owner \in 0..MaxAttempts)'
      BY <2>5 DEF ConnectBegin
    <3>3. (mcancel \in 0..MaxAttempts)'
      BY <2>5 DEF ConnectBegin
    <3>4. ThreadTypeOK' /\ ProbesLeft' /\ AttemptNamed'
      BY <2>5 DEF ConnectBegin
    <3>5. CallTypeOK' /\ WatchTypeOK'
      BY SMTT(30), <2>5 DEF ConnectBegin
    <3> QED BY <2>5, <3>1, <3>2, <3>3, <3>4, <3>5 DEF ConnectBegin
  <2>6. CASE StartFailed(t)
    <3>1. (state \in States /\ server \in Servers \cup {NoServer})'
      BY <2>6 DEF StartFailed
    <3>2. (owner \in 0..MaxAttempts)'
      BY <2>6 DEF StartFailed
    <3>3. (mcancel \in 0..MaxAttempts)'
      BY <2>6 DEF StartFailed
    <3>4. CallTypeOK' /\ ThreadTypeOK'
      BY SMTT(30), <2>6 DEF StartFailed
    <3>5. ProbesLeft' /\ AttemptNamed'
      BY ZenonT(60), <2>6 DEF StartFailed
    <3> QED BY <2>6, <3>1, <3>2, <3>3, <3>4, <3>5 DEF StartFailed
  <2>7. CASE EnterVerifying(t)
    <3>1. (state \in States /\ server \in Servers \cup {NoServer})'
      BY <2>7 DEF EnterVerifying
    <3>2. (owner \in 0..MaxAttempts)'
      BY <2>7 DEF EnterVerifying
    <3>3. (mcancel \in 0..MaxAttempts)'
      BY <2>7 DEF EnterVerifying
    <3>4. CallTypeOK' /\ ThreadTypeOK'
      BY <2>7 DEF EnterVerifying
    <3>5. ProbesLeft' /\ AttemptNamed'
      BY SMTT(30), <2>7 DEF EnterVerifying
    <3> QED BY <2>7, <3>1, <3>2, <3>3, <3>4, <3>5 DEF EnterVerifying
  <2>8. CASE ReadProxies(t)
    <3>1. ThreadTypeOK'
      BY <2>8 DEF ReadProxies
    <3>2. ProbesLeft'
      BY <2>8 DEF ReadProxies
    <3>3. AttemptNamed'
      BY <2>8 DEF ReadProxies
    <3> QED BY <2>8, <3>1, <3>2, <3>3 DEF ReadProxies
  <2>9. CASE TrustNoProxy(t)
    BY ZenonT(60), <2>9 DEF TrustNoProxy
  <2>10. CASE ProbeCancelled(t)
    BY ZenonT(60), <2>10 DEF ProbeCancelled
  <2>11. CASE ProbeAnswered(t)
    <3>1. ctx[t] \in Attempts
      BY <2>11 DEF ProbeAnswered, Listening, Alive
    <3>2. StoreTypeOK'
      BY <2>11, <3>1 DEF ProbeAnswered, Listening, Alive
    <3>3. ThreadTypeOK'
      BY <2>11 DEF ProbeAnswered, Listening, Alive
    <3>4. ProbesLeft' /\ AttemptNamed'
      BY SMTT(30), <2>11 DEF ProbeAnswered, Listening, Alive
    <3> QED BY <2>11, <3>1, <3>2, <3>3, <3>4 DEF ProbeAnswered, Listening, Alive
  <2>12. CASE ProbeFails(t)
    <3>1. (tries \in [Threads -> 0..VerifyAttempts])'
      BY <2>12 DEF ProbeFails
    <3>2. (mpc \in [Threads -> Points])'
      BY <2>12 DEF ProbeFails
    <3>3. ProbesLeft'
      BY <2>12 DEF ProbeFails
    <3>4. AttemptNamed'
      BY <2>12 DEF ProbeFails
    <3> QED BY <2>12, <3>1, <3>2, <3>3, <3>4 DEF ProbeFails
  <2>13. CASE RejectRoute(t)
    BY ZenonT(60), <2>13 DEF RejectRoute
  <2>14. CASE VerifyFailed(t)
    <3>1. (state \in States /\ server \in Servers \cup {NoServer})'
      BY <2>14 DEF VerifyFailed
    <3>2. (owner \in 0..MaxAttempts)'
      BY <2>14 DEF VerifyFailed
    <3>3. (mcancel \in 0..MaxAttempts)'
      BY <2>14 DEF VerifyFailed
    <3>4. CallTypeOK'
      BY <2>14 DEF VerifyFailed
    <3>5. ThreadTypeOK'
      BY <2>14 DEF VerifyFailed
    <3>6. ProbesLeft' /\ AttemptNamed'
      BY <2>14 DEF VerifyFailed
    <3> QED BY <2>14, <3>1, <3>2, <3>3, <3>4, <3>5, <3>6 DEF VerifyFailed
  <2>15. CASE RememberVerified(t)
    BY ZenonT(60), <2>15 DEF RememberVerified
  <2>16. CASE Announce(t)
    <3>1. (state \in States /\ server \in Servers \cup {NoServer})'
      BY <2>16 DEF Announce
    <3>2. (owner \in 0..MaxAttempts)'
      BY <2>16 DEF Announce
    <3>3. (mcancel \in 0..MaxAttempts)'
      BY <2>16 DEF Announce
    <3>4. ThreadTypeOK'
      BY <2>16 DEF Announce
    <3>5. ProbesLeft' /\ AttemptNamed'
      BY SMTT(30), <2>16 DEF Announce
    <3> QED BY <2>16, <3>1, <3>2, <3>3, <3>4, <3>5 DEF Announce
  <2>17. CASE Persist(t)
    <3>1. CallTypeOK' /\ ThreadTypeOK'
      BY <2>17 DEF Persist
    <3>2. WatchTypeOK' /\ StoreTypeOK'
      BY <2>17 DEF Persist
    <3>3. ProbesLeft'
      BY <2>17 DEF Persist
    <3>4. AttemptNamed'
      BY <2>17 DEF Persist
    <3> QED BY <2>17, <3>1, <3>2, <3>3, <3>4 DEF Persist
  <2> QED BY <1>2, <2>1, <2>2, <2>3, <2>4, <2>5, <2>6, <2>7, <2>8, <2>9, <2>10, <2>11,
      <2>12, <2>13, <2>14, <2>15, <2>16, <2>17 DEF ConnectStep
<1>3. ASSUME NEW t \in Threads, DisconnectStep(t) \/ ReloadStep(t) PROVE TypeInv'
  <2>1. CASE DisconnectNothing(t)
    <3>1. AfterDisconnect(t) \in {"idle", "begin"}
      BY <2>1 DEF DisconnectNothing, AfterDisconnect
    <3>2. ThreadTypeOK'
      BY <2>1 DEF DisconnectNothing, AfterDisconnect
    <3>3. ProbesLeft' /\ AttemptNamed'
      BY <2>1 DEF DisconnectNothing, AfterDisconnect
    <3> QED BY <2>1, <3>1, <3>2, <3>3 DEF DisconnectNothing, AfterDisconnect
  <2>2. CASE DisconnectEnter(t)
    <3>1. mpc' = [mpc EXCEPT ![t] = "discstop"] \/ mpc' = [mpc EXCEPT ![t] = "rediscstop"]
      BY <2>2 DEF DisconnectEnter
    <3>2. ThreadTypeOK'
      BY <2>2, <3>1 DEF DisconnectEnter
    <3>3. CallTypeOK'
      BY <2>2 DEF DisconnectEnter
    <3>4. ProbesLeft' /\ AttemptNamed'
      BY <2>2, <3>1 DEF DisconnectEnter
    <3> QED BY SMTT(30), <2>2, <3>1, <3>2, <3>3, <3>4 DEF DisconnectEnter
  <2>3. CASE DisconnectEnd(t)
    <3>1. (state \in States /\ server \in Servers \cup {NoServer})'
      BY <2>3 DEF DisconnectEnd, AfterDisconnect
    <3>2. (owner \in 0..MaxAttempts)'
      BY <2>3 DEF DisconnectEnd, AfterDisconnect
    <3>3. (mcancel \in 0..MaxAttempts)'
      BY <2>3 DEF DisconnectEnd, AfterDisconnect
    <3>4. AfterDisconnect(t) \in {"idle", "begin"}
      BY <2>3 DEF DisconnectEnd, AfterDisconnect
    <3>5. CallTypeOK' /\ ThreadTypeOK'
      BY <2>3 DEF DisconnectEnd, AfterDisconnect
    <3>6. ProbesLeft' /\ AttemptNamed'
      BY <2>3 DEF DisconnectEnd, AfterDisconnect
    <3> QED BY <2>3, <3>1, <3>2, <3>3, <3>4, <3>5, <3>6 DEF DisconnectEnd, AfterDisconnect
  <2>4. CASE ReloadSkip(t)
    <3>1. CallTypeOK'
      BY <2>4 DEF ReloadSkip
    <3>2. ThreadTypeOK'
      BY <2>4 DEF ReloadSkip
    <3>3. StoreTypeOK'
      BY <2>4 DEF ReloadSkip, NoAttemptNeeded
    <3>4. ProbesLeft' /\ AttemptNamed'
      BY SMTT(30), <2>4 DEF ReloadSkip
    <3> QED BY <2>4, <3>1, <3>2, <3>3, <3>4 DEF ReloadSkip
  <2>5. CASE ReloadEnter(t)
    <3>1. CallTypeOK'
      BY <2>5 DEF ReloadEnter, ReloadTargets
    <3>2. ThreadTypeOK'
      BY <2>5 DEF ReloadEnter, ReloadTargets
    <3>3. ProbesLeft' /\ AttemptNamed'
      BY SMTT(30), <2>5 DEF ReloadEnter, ReloadTargets
    <3> QED BY <2>5, <3>1, <3>2, <3>3 DEF ReloadEnter, ReloadTargets
  <2>6. CASE ReloadBackend(t)
    <3>1. mpc' = [mpc EXCEPT ![t] = "enter"] \/ mpc' = [mpc EXCEPT ![t] = "reloadapply"]
      BY <2>6 DEF ReloadBackend
    <3>2. ThreadTypeOK'
      BY <2>6, <3>1 DEF ReloadBackend
    <3>3. ProbesLeft'
      BY <2>6, <3>1 DEF ReloadBackend
    <3>4. AttemptNamed'
      BY SMTT(30), <2>6, <3>1 DEF ReloadBackend
    <3> QED BY <2>6, <3>1, <3>2, <3>3, <3>4 DEF ReloadBackend
  <2>7. CASE ReloadApply(t)
    <3>1. BackendTypeOK'
      BY <2>7 DEF ReloadApply, HotReloadConfig
    <3>2. ThreadTypeOK'
      BY <2>7 DEF ReloadApply, HotReloadConfig
    <3>3. ProbesLeft' /\ AttemptNamed'
      BY <2>7 DEF ReloadApply, HotReloadConfig
    <3> QED BY <2>7, <3>1, <3>2, <3>3 DEF ReloadApply, HotReloadConfig
  <2>8. CASE ReloadEnd(t)
    <3>1. CallTypeOK'
      BY <2>8 DEF ReloadEnd
    <3>2. ThreadTypeOK'
      BY <2>8 DEF ReloadEnd
    <3>3. (moved \subseteq Attempts)'
      BY <2>8 DEF ReloadEnd
    <3>4. (budget \in Nat)'
      BY <2>8 DEF ReloadEnd, NoAttemptNeeded
    <3>5. StatusTypeOK'
      BY <2>8 DEF ReloadEnd
    <3>6. ProbesLeft'
      BY <2>8 DEF ReloadEnd
    <3>7. AttemptNamed'
      BY <2>8 DEF ReloadEnd
    <3> QED BY <2>8, <3>1, <3>2, <3>3, <3>4, <3>5, <3>6, <3>7 DEF ReloadEnd
  <2> QED BY <1>3, <2>1, <2>2, <2>3, <2>4, <2>5, <2>6, <2>7, <2>8 DEF DisconnectStep,
      ReloadStep
<1>4. ASSUME NEW t \in Threads, BackendStep(t), UNCHANGED mvars PROVE TypeInv'
  <2>1. CASE StartRefused(t)
    BY <1>4, <2>1 DEF StartRefused
  <2>2. CASE StartSpawn(t)
    <3>1. PICK a \in 0..MaxAttempts : port' = [port EXCEPT ![ctx[t]] = a]
      BY <1>4, <2>2 DEF StartSpawn, PickPort, Listening, Alive
    <3>2. (port \in [Attempts -> 0..MaxAttempts])'
      BY <3>1
    <3>3. (proc \in [Attempts -> ProcStates] /\ runs \in [Attempts -> Servers \cup
         {NoServer}])'
      BY <1>4, <2>2 DEF StartSpawn, PickPort, Listening, Alive
    <3>4. (cmd \in 0..MaxAttempts /\ handle \in 0..MaxAttempts /\ socks \in 0..MaxAttempts)'
      BY <1>4, <2>2 DEF StartSpawn, PickPort, Listening, Alive
    <3>5. CallTypeOK'
      BY <1>4, <2>2 DEF StartSpawn, PickPort, Listening, Alive
    <3> QED BY <1>4, <2>2, <3>1, <3>2, <3>3, <3>4, <3>5 DEF StartSpawn, PickPort, Listening,
        Alive
  <2>3. CASE WaitForListen(t)
    BY ZenonT(60), <1>4, <2>3 DEF WaitForListen, StartCleanup
  <2>4. CASE Dial(t)
    BY ZenonT(60), <1>4, <2>4 DEF Dial, Listening, StartCleanup, Alive
  <2>5. CASE StopTake(t)
    <3>1. CallTypeOK'
      BY <1>4, <2>5 DEF StopTake
    <3>2. BackendTypeOK'
      BY <1>4, <2>5 DEF StopTake
    <3> QED BY <1>4, <2>5, <3>1, <3>2 DEF StopTake
  <2>6. CASE StopKill(t)
    BY <1>4, <2>6 DEF StopKill
  <2>7. CASE StopWait(t)
    BY <1>4, <2>7 DEF StopWait
  <2>8. CASE StopClear(t)
    BY SMTT(30), <1>4, <2>8 DEF StopClear
  <2> QED BY <1>4, <2>1, <2>2, <2>3, <2>4, <2>5, <2>6, <2>7, <2>8 DEF BackendStep
<1>5. ASSUME NEW a \in Attempts, WatchStep(a) PROVE TypeInv'
  <2>1. CASE WatchTick(a)
    BY <2>1 DEF WatchTick, RuntimeHealthErr
  <2>2. CASE WatchFire(a)
    <3>1. (state \in States /\ server \in Servers \cup {NoServer})'
      BY <2>2 DEF WatchFire
    <3>2. (owner \in 0..MaxAttempts)'
      BY <2>2 DEF WatchFire
    <3>3. (mcancel \in 0..MaxAttempts)'
      BY <2>2 DEF WatchFire
    <3> QED BY <2>2, <3>1, <3>2, <3>3 DEF WatchFire
  <2>3. CASE WatchStop(a)
    BY <2>3 DEF WatchStop
  <2> QED BY <1>5, <2>1, <2>2, <2>3 DEF WatchStep
<1>6. ASSUME NEW p \in Attempts, ChildStep(p), UNCHANGED mvars PROVE TypeInv'
  <2>1. CASE ProcExit(p)
    BY <1>6, <2>1 DEF ProcExit, Alive
  <2>2. CASE Reap(p)
    <3>1. BackendTypeOK'
      BY <1>6, <2>2 DEF Reap
    <3>2. CallTypeOK' /\ ThreadTypeOK'
      BY <1>6, <2>2 DEF Reap
    <3>3. StatusTypeOK' /\ WatchTypeOK' /\ StoreTypeOK'
      BY <1>6, <2>2 DEF Reap
    <3>4. ProbesLeft' /\ AttemptNamed'
      BY <1>6, <2>2 DEF Reap
    <3> QED BY <3>1, <3>2, <3>3, <3>4
  <2> QED BY <1>6, <2>1, <2>2 DEF ChildStep
<1>7. CASE CatalogChange
  BY <1>7 DEF CatalogChange
<1>8. CASE UNCHANGED vars
  BY <1>8 DEF vars
<1> QED BY <1>1, <1>2, <1>3, <1>4, <1>5, <1>6, <1>7, <1>8 DEF Next, ThreadStep

\* Every reachable state is typed.
THEOREM TypeCorrect == Spec => []TypeOK
<1>1. TypeInv => TypeOK
  BY DEF TypeInv
<1> QED BY <1>1, TypeInit, TypeStep, PTL DEF Spec

-----------------------------------------------------------------------------
(* Phases and handles                                                      *)

\* Only contexts of attempts already made are cancelled, so that of a new
\* attempt is not.
CancelledAreOld == \A a \in cancelled : a <= natt

HandlesInv == HandlesAreCurrent /\ CancelledAreOld

\* A phase stays with its request until the request itself ends it.
LEMMA PhaseStep == TypeInv /\ NoOrphanedPhase /\ [Next]_vars => NoOrphanedPhase'
<1> SUFFICES ASSUME TypeInv /\ NoOrphanedPhase, [Next]_vars PROVE NoOrphanedPhase'
  OBVIOUS
<1> USE DEF NoOrphanedPhase, Verifying
<1>0. mpc \in [Threads -> Points] /\ ctx \in [Threads -> 0..MaxAttempts]
  BY DEF TypeInv, TypeOK, ThreadTypeOK, CallTypeOK
<1>1. ASSUME NEW t \in Threads, Request(t) PROVE NoOrphanedPhase'
  <2>1. ASSUME NEW cands \in CandidateLists, ConnectRequest(t, cands)
        PROVE  NoOrphanedPhase'
    BY <2>1, <1>0 DEF ConnectRequest
  <2>2. CASE DisconnectRequest(t)
    BY <2>2, <1>0 DEF DisconnectRequest
  <2>3. CASE ReloadRequest(t)
    BY <2>3, <1>0 DEF ReloadRequest
  <2> QED BY <1>1, <2>1, <2>2, <2>3 DEF Request
<1>2. ASSUME NEW t \in Threads, ConnectStep(t) PROVE NoOrphanedPhase'
  <2>1. CASE WalkEnds(t)
    BY <2>1, <1>0 DEF WalkEnds
  <2>2. CASE NextCandidate(t)
    BY <2>2, <1>0 DEF NextCandidate
  <2>3. CASE ConnectRefused(t)
    BY <2>3, <1>0 DEF ConnectRefused
  <2>4. CASE ConnectReplaces(t)
    BY <2>4, <1>0 DEF ConnectReplaces
  <2>5. CASE ConnectBegin(t)
    BY <2>5, <1>0 DEF ConnectBegin
  <2>6. CASE StartFailed(t)
    BY <2>6, <1>0 DEF StartFailed
  <2>7. CASE EnterVerifying(t)
    BY <2>7, <1>0 DEF EnterVerifying
  <2>8. CASE ReadProxies(t)
    BY <2>8, <1>0 DEF ReadProxies
  <2>9. CASE TrustNoProxy(t)
    BY <2>9, <1>0 DEF TrustNoProxy
  <2>10. CASE ProbeCancelled(t)
    BY <2>10, <1>0 DEF ProbeCancelled
  <2>11. CASE ProbeAnswered(t)
    BY <2>11, <1>0 DEF ProbeAnswered, Listening, Alive
  <2>12. CASE ProbeFails(t)
    BY <2>12, <1>0 DEF ProbeFails
  <2>13. CASE RejectRoute(t)
    BY <2>13, <1>0 DEF RejectRoute
  <2>14. CASE VerifyFailed(t)
    BY <2>14, <1>0 DEF VerifyFailed
  <2>15. CASE RememberVerified(t)
    BY <2>15, <1>0 DEF RememberVerified
  <2>16. CASE Announce(t)
    BY <2>16, <1>0 DEF Announce
  <2>17. CASE Persist(t)
    BY <2>17, <1>0 DEF Persist
  <2> QED BY <1>2, <2>1, <2>2, <2>3, <2>4, <2>5, <2>6, <2>7, <2>8, <2>9, <2>10, <2>11,
      <2>12, <2>13, <2>14, <2>15, <2>16, <2>17 DEF ConnectStep
<1>3. ASSUME NEW t \in Threads, DisconnectStep(t) \/ ReloadStep(t) PROVE NoOrphanedPhase'
  <2>1. CASE DisconnectNothing(t)
    BY <2>1, <1>0 DEF DisconnectNothing, AfterDisconnect
  <2>2. CASE DisconnectEnter(t)
    BY <2>2, <1>0 DEF DisconnectEnter
  <2>3. CASE DisconnectEnd(t)
    BY <2>3, <1>0 DEF DisconnectEnd, AfterDisconnect
  <2>4. CASE ReloadSkip(t)
    BY <2>4, <1>0 DEF ReloadSkip, ReloadTargets
  <2>5. CASE ReloadEnter(t)
    BY <2>5, <1>0 DEF ReloadEnter, ReloadTargets
  <2>6. CASE ReloadBackend(t)
    BY <2>6, <1>0 DEF ReloadBackend
  <2>7. CASE ReloadApply(t)
    BY <2>7, <1>0 DEF ReloadApply, HotReloadConfig
  <2>8. CASE ReloadEnd(t)
    BY <2>8, <1>0 DEF ReloadEnd
  <2> QED BY <1>3, <2>1, <2>2, <2>3, <2>4, <2>5, <2>6, <2>7, <2>8 DEF DisconnectStep,
      ReloadStep
<1>4. ASSUME NEW t \in Threads, BackendStep(t), UNCHANGED mvars PROVE NoOrphanedPhase'
  <2>1. CASE StartRefused(t)
    BY <1>4, <2>1, <1>0 DEF StartRefused
  <2>2. CASE StartSpawn(t)
    BY <1>4, <2>2, <1>0 DEF StartSpawn, PickPort, Listening, Alive
  <2>3. CASE WaitForListen(t)
    BY <1>4, <2>3, <1>0 DEF WaitForListen, StartCleanup
  <2>4. CASE Dial(t)
    BY <1>4, <2>4, <1>0 DEF Dial, Listening, StartCleanup, Alive
  <2>5. CASE StopTake(t)
    BY <1>4, <2>5, <1>0 DEF StopTake
  <2>6. CASE StopKill(t)
    BY <1>4, <2>6, <1>0 DEF StopKill
  <2>7. CASE StopWait(t)
    BY <1>4, <2>7, <1>0 DEF StopWait
  <2>8. CASE StopClear(t)
    BY <1>4, <2>8, <1>0 DEF StopClear
  <2> QED BY <1>4, <2>1, <2>2, <2>3, <2>4, <2>5, <2>6, <2>7, <2>8 DEF BackendStep
<1>5. ASSUME NEW a \in Attempts, WatchStep(a) PROVE NoOrphanedPhase'
  <2>1. CASE WatchTick(a)
    BY <2>1, <1>0 DEF WatchTick, RuntimeHealthErr
  <2>2. CASE WatchFire(a)
    BY <2>2, <1>0 DEF WatchFire
  <2>3. CASE WatchStop(a)
    BY <2>3, <1>0 DEF WatchStop
  <2> QED BY <1>5, <2>1, <2>2, <2>3 DEF WatchStep
<1>6. ASSUME NEW p \in Attempts, ChildStep(p), UNCHANGED mvars PROVE NoOrphanedPhase'
  <2>1. CASE ProcExit(p)
    BY <1>6, <2>1, <1>0 DEF ProcExit, Alive
  <2>2. CASE Reap(p)
    BY <1>6, <2>2, <1>0 DEF Reap
  <2> QED BY <1>6, <2>1, <2>2 DEF ChildStep
<1>7. CASE CatalogChange
  BY <1>7, <1>0 DEF CatalogChange
<1>8. CASE UNCHANGED vars
  BY <1>8, <1>0 DEF vars
<1> QED BY <1>1, <1>2, <1>3, <1>4, <1>5, <1>6, <1>7, <1>8 DEF Next, ThreadStep

\* Handles, proxies and cancel functions are replaced together.
LEMMA HandlesStep == TypeInv /\ HandlesInv /\ [Next]_vars => HandlesInv'
<1> SUFFICES ASSUME TypeInv /\ HandlesInv, [Next]_vars PROVE HandlesInv'
  OBVIOUS
<1> USE DEF HandlesInv, HandlesAreCurrent, CancelledAreOld
<1>0. natt \in Nat /\ mcancel \in Nat /\ cmd \in Nat /\ handle \in Nat /\ socks \in Nat /\
      ctx \in [Threads -> 0..MaxAttempts] /\ cancelled \subseteq Nat
  BY DEF TypeInv, TypeOK, BackendTypeOK, CallTypeOK, StatusTypeOK
<1>1. ASSUME NEW t \in Threads, Request(t) PROVE HandlesInv'
  <2>1. ASSUME NEW cands \in CandidateLists, ConnectRequest(t, cands)
        PROVE  HandlesInv'
    BY <2>1, <1>0 DEF ConnectRequest
  <2>2. CASE DisconnectRequest(t)
    BY <2>2, <1>0 DEF DisconnectRequest
  <2>3. CASE ReloadRequest(t)
    BY <2>3, <1>0 DEF ReloadRequest
  <2> QED BY <1>1, <2>1, <2>2, <2>3 DEF Request
<1>2. ASSUME NEW t \in Threads, ConnectStep(t) PROVE HandlesInv'
  <2>1. CASE WalkEnds(t)
    BY <2>1, <1>0 DEF WalkEnds
  <2>2. CASE NextCandidate(t)
    BY <2>2, <1>0 DEF NextCandidate
  <2>3. CASE ConnectRefused(t)
    BY <2>3, <1>0 DEF ConnectRefused
  <2>4. CASE ConnectReplaces(t)
    BY <2>4, <1>0 DEF ConnectReplaces
  <2>5. CASE ConnectBegin(t)
    <3>1. natt + 1 \notin cancelled
      BY <2>5, <1>0 DEF ConnectBegin
    <3>2. CancelledAreOld'
      BY <2>5, <1>0 DEF ConnectBegin
    <3>3. HandlesAreCurrent'
      BY <2>5, <1>0, <3>1 DEF ConnectBegin
    <3> QED BY <2>5, <3>1, <3>2, <3>3, <1>0 DEF ConnectBegin
  <2>6. CASE StartFailed(t)
    BY <2>6, <1>0 DEF StartFailed
  <2>7. CASE EnterVerifying(t)
    BY <2>7, <1>0 DEF EnterVerifying
  <2>8. CASE ReadProxies(t)
    BY <2>8, <1>0 DEF ReadProxies
  <2>9. CASE TrustNoProxy(t)
    BY <2>9, <1>0 DEF TrustNoProxy
  <2>10. CASE ProbeCancelled(t)
    BY <2>10, <1>0 DEF ProbeCancelled
  <2>11. CASE ProbeAnswered(t)
    BY <2>11, <1>0 DEF ProbeAnswered, Listening, Alive
  <2>12. CASE ProbeFails(t)
    BY <2>12, <1>0 DEF ProbeFails
  <2>13. CASE RejectRoute(t)
    BY <2>13, <1>0 DEF RejectRoute
  <2>14. CASE VerifyFailed(t)
    BY <2>14, <1>0 DEF VerifyFailed
  <2>15. CASE RememberVerified(t)
    BY <2>15, <1>0 DEF RememberVerified
  <2>16. CASE Announce(t)
    BY <2>16, <1>0 DEF Announce
  <2>17. CASE Persist(t)
    BY <2>17, <1>0 DEF Persist
  <2> QED BY <1>2, <2>1, <2>2, <2>3, <2>4, <2>5, <2>6, <2>7, <2>8, <2>9, <2>10, <2>11,
      <2>12, <2>13, <2>14, <2>15, <2>16, <2>17 DEF ConnectStep
<1>3. ASSUME NEW t \in Threads, DisconnectStep(t) \/ ReloadStep(t) PROVE HandlesInv'
  <2>1. CASE DisconnectNothing(t)
    BY <2>1, <1>0 DEF DisconnectNothing, AfterDisconnect
  <2>2. CASE DisconnectEnter(t)
    BY <2>2, <1>0 DEF DisconnectEnter
  <2>3. CASE DisconnectEnd(t)
    BY <2>3, <1>0 DEF DisconnectEnd, AfterDisconnect
  <2>4. CASE ReloadSkip(t)
    BY <2>4, <1>0 DEF ReloadSkip, ReloadTargets
  <2>5. CASE ReloadEnter(t)
    BY <2>5, <1>0 DEF ReloadEnter, ReloadTargets
  <2>6. CASE ReloadBackend(t)
    BY <2>6, <1>0 DEF ReloadBackend
  <2>7. CASE ReloadApply(t)
    BY <2>7, <1>0 DEF ReloadApply, HotReloadConfig
  <2>8. CASE ReloadEnd(t)
    BY <2>8, <1>0 DEF ReloadEnd
  <2> QED BY <1>3, <2>1, <2>2, <2>3, <2>4, <2>5, <2>6, <2>7, <2>8 DEF DisconnectStep,
      ReloadStep
<1>4. ASSUME NEW t \in Threads, BackendStep(t), UNCHANGED mvars PROVE HandlesInv'
  <2>1. CASE StartRefused(t)
    BY <1>4, <2>1, <1>0 DEF StartRefused
  <2>2. CASE StartSpawn(t)
    BY <1>4, <2>2, <1>0 DEF StartSpawn, PickPort, Listening, Alive
  <2>3. CASE WaitForListen(t)
    BY <1>4, <2>3, <1>0 DEF WaitForListen, StartCleanup
  <2>4. CASE Dial(t)
    BY <1>4, <2>4, <1>0 DEF Dial, Listening, StartCleanup, Alive
  <2>5. CASE StopTake(t)
    BY <1>4, <2>5, <1>0 DEF StopTake
  <2>6. CASE StopKill(t)
    BY <1>4, <2>6, <1>0 DEF StopKill
  <2>7. CASE StopWait(t)
    BY <1>4, <2>7, <1>0 DEF StopWait
  <2>8. CASE StopClear(t)
    BY <1>4, <2>8, <1>0 DEF StopClear
  <2> QED BY <1>4, <2>1, <2>2, <2>3, <2>4, <2>5, <2>6, <2>7, <2>8 DEF BackendStep
<1>5. ASSUME NEW a \in Attempts, WatchStep(a) PROVE HandlesInv'
  <2>1. CASE WatchTick(a)
    BY <2>1, <1>0 DEF WatchTick, RuntimeHealthErr
  <2>2. CASE WatchFire(a)
    BY <2>2, <1>0 DEF WatchFire
  <2>3. CASE WatchStop(a)
    BY <2>3, <1>0 DEF WatchStop
  <2> QED BY <1>5, <2>1, <2>2, <2>3 DEF WatchStep
<1>6. ASSUME NEW p \in Attempts, ChildStep(p), UNCHANGED mvars PROVE HandlesInv'
  <2>1. CASE ProcExit(p)
    BY <1>6, <2>1, <1>0 DEF ProcExit, Alive
  <2>2. CASE Reap(p)
    BY <1>6, <2>2, <1>0 DEF Reap
  <2> QED BY <1>6, <2>1, <2>2 DEF ChildStep
<1>7. CASE CatalogChange
  BY <1>7, <1>0 DEF CatalogChange
<1>8. CASE UNCHANGED vars
  BY <1>8, <1>0 DEF vars
<1> QED BY <1>1, <1>2, <1>3, <1>4, <1>5, <1>6, <1>7, <1>8 DEF Next, ThreadStep

\* The daemon is never stuck in "connecting" or "verifying": the request that
\* announced the phase is still at work on it.
THEOREM PhasesAreOwned == Spec => []NoOrphanedPhase
<1>1. Init => NoOrphanedPhase
  BY DEF Init, NoOrphanedPhase
<1> QED BY <1>1, PhaseStep, TypeInit, TypeStep, PTL DEF Spec

\* What the backend offers can be stopped, and m.cancel is that of the newest
\* attempt.
THEOREM HandlesCorrect == Spec => []HandlesAreCurrent
<1>1. Init => HandlesInv
  BY DEF Init, BackendInit, HandlesInv, HandlesAreCurrent, CancelledAreOld
<1>2. HandlesInv => HandlesAreCurrent
  BY DEF HandlesInv
<1> QED BY <1>1, <1>2, HandlesStep, TypeInit, TypeStep, PTL DEF Spec

-----------------------------------------------------------------------------
(* Requests made one at a time.  Two callers can break what follows: the   *)
(* manager's lock is free while the backend works, so a second request may *)
(* drop the cancel function, or the handle, of the first one's session.    *)

\* Where Stop is under way, where a thread runs its own attempt, and where it
\* leaves a session.
Stopping == {"stop", "stopkill", "stopwait", "stopclear"}
Own      == {"starting", "persist"} \cup Verifying
Leaving  == {"discstop", "rediscstop"}

\* The caller is in the backend exactly while its method waits for it.
CallOK(c) ==
    /\ mpc[c] = "starting" => bpc[c] \in {"start", "wait", "dial", "ok", "err"} \cup Stopping
    /\ mpc[c] \in {"rejecting"} \cup Leaving => bpc[c] \in Stopping \cup {"stopped"}
    /\ mpc[c] \notin {"starting", "rejecting"} \cup Leaving => bpc[c] = "idle"
    /\ failing[c] => mpc[c] = "starting" /\ bpc[c] \in Stopping
    /\ mpc[c] = "starting" /\ bpc[c] \in Stopping => failing[c]

\* The status fits the caller's place: nobody else has a phase of his own.
StatusOK(c) ==
    /\ mpc[c] = "starting" => state = "connecting"
    /\ mpc[c] \in Verifying => state = "verifying"
    /\ mpc[c] = "persist" => state = "connected"
    /\ mpc[c] = "begin" => state = "disconnected"
    /\ mpc[c] = "redisc" => state \in {"connected", "error"}
    /\ mpc[c] \notin Own => state \in {"disconnected", "connected", "error"}

\* The caller's attempt, and the session shown, is the newest one, and m.cancel
\* is its cancel function until a Disconnect has called it.
AttemptOK(c) ==
    /\ mpc[c] \in Own => ctx[c] = natt /\ mcancel = natt /\ watcher[natt] = "off"
    /\ mpc[c] \in Leaving => mcancel = NoProc
    /\ state = "disconnected" => handle = NoProc /\ mcancel = NoProc
    /\ state = "connected" => owner = natt /\ (mcancel = natt \/ mpc[c] \in Leaving)

\* The backend's fields belong together, and only a Stop about to kill it has
\* taken a running child from them.
HandleOK(c) ==
    /\ socks = handle
    /\ handle # NoProc => cmd = handle /\ handle = natt
    /\ bpc[c] \in {"start", "err", "stopkill", "stopwait", "stopclear", "stopped"} =>
           handle = NoProc
    /\ \A p \in Attempts : proc[p] = "running" =>
           handle = p \/ (cap[c] = p /\ bpc[c] = "stopkill")

\* A watcher whose context stands is that of the current attempt, and the
\* death it has seen is final.
WatchOK ==
    \A a \in Attempts :
        /\ watcher[a] \in {"watching", "sawerr"} /\ a \notin cancelled => a = mcancel
        /\ watcher[a] = "sawerr" /\ a \notin cancelled => handle = NoProc
        /\ a > natt => watcher[a] = "off"

\* Start left a child with a handle; it loses it by dying.  Without a probe that
\* got through, only such a death leads to "connected".
ProbeOK(c) ==
    /\ bpc[c] \in {"wait", "dial", "ok"} => handle = natt \/ ~Alive(natt)
    /\ mpc[c] \in (Verifying \ {"rejecting"}) \cup {"persist"} =>
           handle = natt \/ ~Alive(natt)
    /\ mpc[c] \in {"verified", "announce", "persist"} => natt \in probed \/ ~Alive(natt)
    /\ state = "connected" => natt \in probed \/ ~Alive(natt)

SerialInv(c) ==
    CallOK(c) /\ StatusOK(c) /\ AttemptOK(c) /\ HandleOK(c) /\ WatchOK /\ ProbeOK(c) /\ NoStrayCore

\* Every step of such a daemon keeps it.
LEMMA SerialStep ==
    ASSUME NEW c, Threads = {c}, TypeInv, HandlesInv, SerialInv(c), [Next]_vars
    PROVE  SerialInv(c)'
<1> USE DEF SerialInv, CallOK, StatusOK, AttemptOK, HandleOK, WatchOK, ProbeOK, NoStrayCore,
    Stopping, Own, Leaving, Verifying, Alive
<1>0. /\ natt \in Nat /\ mcancel \in Nat /\ cmd \in Nat /\ handle \in Nat /\ socks \in Nat
      /\ natt <= MaxAttempts /\ handle <= MaxAttempts /\ mcancel <= MaxAttempts
      /\ ctx \in [{c} -> 0..MaxAttempts] /\ mpc \in [{c} -> Points] /\ bpc \in [{c} -> CallStates]
      /\ cap \in [{c} -> 0..MaxAttempts] /\ failing \in [{c} -> BOOLEAN]
      /\ proc \in [Attempts -> ProcStates] /\ watcher \in [Attempts -> Watchers]
      /\ state \in States /\ cancelled \subseteq Attempts /\ probed \subseteq Attempts
      /\ mcancel # NoProc => mcancel = natt /\ mcancel \notin cancelled
      /\ \A a \in cancelled : a <= natt
      /\ mpc[c] \in Own => ctx[c] \in Attempts
  BY DEF TypeInv, TypeOK, BackendTypeOK, CallTypeOK, ThreadTypeOK, StatusTypeOK, WatchTypeOK,
         StoreTypeOK, HandlesInv, HandlesAreCurrent, CancelledAreOld, AttemptNamed
<1>1. ASSUME NEW t \in {c}, Request(t) PROVE SerialInv(c)'
  <2>1. ASSUME NEW cands \in CandidateLists, ConnectRequest(t, cands)
        PROVE  SerialInv(c)'
    BY <2>1, <1>0 DEF ConnectRequest
  <2>2. CASE DisconnectRequest(t)
    BY <2>2, <1>0 DEF DisconnectRequest
  <2>3. CASE ReloadRequest(t)
    BY <2>3, <1>0 DEF ReloadRequest
  <2> QED BY <1>1, <2>1, <2>2, <2>3 DEF Request
<1>2. ASSUME NEW t \in {c}, ConnectStep(t) PROVE SerialInv(c)'
  <2>1. CASE WalkEnds(t)
    BY <2>1, <1>0 DEF WalkEnds
  <2>2. CASE NextCandidate(t)
    BY <2>2, <1>0 DEF NextCandidate
  <2>3. CASE ConnectRefused(t)
    BY <2>3, <1>0 DEF ConnectRefused
  <2>4. CASE ConnectReplaces(t)
    BY <2>4, <1>0 DEF ConnectReplaces
  <2>5. CASE ConnectBegin(t)
    BY <2>5, <1>0 DEF ConnectBegin
  <2>6. CASE StartFailed(t)
    BY <2>6, <1>0 DEF StartFailed
  <2>7. CASE EnterVerifying(t)
    BY <2>7, <1>0 DEF EnterVerifying
  <2>8. CASE ReadProxies(t)
    BY <2>8, <1>0 DEF ReadProxies
  <2>9. CASE TrustNoProxy(t)
    <3>1. handle = NoProc /\ natt # NoProc
      BY <2>9, <1>0 DEF TrustNoProxy
    <3>2. ~Alive(natt)
      BY <2>9, <1>0, <3>1 DEF TrustNoProxy
    <3>3. CallOK(c)' /\ StatusOK(c)' /\ AttemptOK(c)'
      BY <2>9, <1>0 DEF TrustNoProxy
    <3>4. HandleOK(c)' /\ WatchOK' /\ NoStrayCore'
      BY <2>9, <1>0 DEF TrustNoProxy
    <3>5. ProbeOK(c)'
      BY <2>9, <1>0, <3>2 DEF TrustNoProxy
    <3> QED BY <3>3, <3>4, <3>5
  <2>10. CASE ProbeCancelled(t)
    BY <2>10, <1>0 DEF ProbeCancelled
  <2>11. CASE ProbeAnswered(t)
    BY <2>11, <1>0 DEF ProbeAnswered, Listening, Alive
  <2>12. CASE ProbeFails(t)
    BY <2>12, <1>0 DEF ProbeFails
  <2>13. CASE RejectRoute(t)
    BY <2>13, <1>0 DEF RejectRoute
  <2>14. CASE VerifyFailed(t)
    BY <2>14, <1>0 DEF VerifyFailed
  <2>15. CASE RememberVerified(t)
    BY <2>15, <1>0 DEF RememberVerified
  <2>16. CASE Announce(t)
    BY <2>16, <1>0 DEF Announce
  <2>17. CASE Persist(t)
    BY <2>17, <1>0 DEF Persist
  <2> QED BY <1>2, <2>1, <2>2, <2>3, <2>4, <2>5, <2>6, <2>7, <2>8, <2>9, <2>10, <2>11,
      <2>12, <2>13, <2>14, <2>15, <2>16, <2>17 DEF ConnectStep
<1>3. ASSUME NEW t \in {c}, DisconnectStep(t) \/ ReloadStep(t) PROVE SerialInv(c)'
  <2>1. CASE DisconnectNothing(t)
    BY <2>1, <1>0 DEF DisconnectNothing, AfterDisconnect
  <2>2. CASE DisconnectEnter(t)
    BY <2>2, <1>0 DEF DisconnectEnter
  <2>3. CASE DisconnectEnd(t)
    BY <2>3, <1>0 DEF DisconnectEnd, AfterDisconnect
  <2>4. CASE ReloadSkip(t)
    BY <2>4, <1>0 DEF ReloadSkip, ReloadTargets
  <2>5. CASE ReloadEnter(t)
    BY <2>5, <1>0 DEF ReloadEnter, ReloadTargets
  <2>6. CASE ReloadBackend(t)
    BY <2>6, <1>0 DEF ReloadBackend
  <2>7. CASE ReloadApply(t)
    BY <2>7, <1>0 DEF ReloadApply, HotReloadConfig
  <2>8. CASE ReloadEnd(t)
    BY <2>8, <1>0 DEF ReloadEnd
  <2> QED BY <1>3, <2>1, <2>2, <2>3, <2>4, <2>5, <2>6, <2>7, <2>8 DEF DisconnectStep,
      ReloadStep
<1>4. ASSUME NEW t \in {c}, BackendStep(t), UNCHANGED mvars PROVE SerialInv(c)'
  <2>1. CASE StartRefused(t)
    BY <1>4, <2>1, <1>0 DEF StartRefused
  <2>2. CASE StartSpawn(t)
    BY <1>4, <2>2, <1>0 DEF StartSpawn, PickPort, Listening, Alive
  <2>3. CASE WaitForListen(t)
    BY <1>4, <2>3, <1>0 DEF WaitForListen, StartCleanup
  <2>4. CASE Dial(t)
    BY <1>4, <2>4, <1>0 DEF Dial, Listening, StartCleanup, Alive
  <2>5. CASE StopTake(t)
    BY <1>4, <2>5, <1>0 DEF StopTake
  <2>6. CASE StopKill(t)
    BY <1>4, <2>6, <1>0 DEF StopKill
  <2>7. CASE StopWait(t)
    BY <1>4, <2>7, <1>0 DEF StopWait
  <2>8. CASE StopClear(t)
    BY <1>4, <2>8, <1>0 DEF StopClear
  <2> QED BY <1>4, <2>1, <2>2, <2>3, <2>4, <2>5, <2>6, <2>7, <2>8 DEF BackendStep
<1>5. ASSUME NEW a \in Attempts, WatchStep(a) PROVE SerialInv(c)'
  <2>1. CASE WatchTick(a)
    BY <2>1, <1>0 DEF WatchTick, RuntimeHealthErr
  <2>2. CASE WatchFire(a)
    BY <2>2, <1>0 DEF WatchFire
  <2>3. CASE WatchStop(a)
    BY <2>3, <1>0 DEF WatchStop
  <2> QED BY <1>5, <2>1, <2>2, <2>3 DEF WatchStep
<1>6. ASSUME NEW p \in Attempts, ChildStep(p), UNCHANGED mvars PROVE SerialInv(c)'
  <2>1. CASE ProcExit(p)
    BY <1>6, <2>1, <1>0 DEF ProcExit, Alive
  <2>2. CASE Reap(p)
    BY <1>6, <2>2, <1>0 DEF Reap
  <2> QED BY <1>6, <2>1, <2>2 DEF ChildStep
<1>7. CASE CatalogChange
  BY <1>7, <1>0 DEF CatalogChange
<1>8. CASE UNCHANGED vars
  BY <1>8, <1>0 DEF vars
<1> QED BY <1>1, <1>2, <1>3, <1>4, <1>5, <1>6, <1>7, <1>8 DEF Next, ThreadStep

\* A single caller is in the invariant from the start.
LEMMA SerialInit == ASSUME NEW c, Threads = {c}, Init PROVE SerialInv(c) /\ HandlesInv
BY DEF Init, BackendInit, SerialInv, CallOK, StatusOK, AttemptOK, HandleOK, WatchOK, ProbeOK,
       NoStrayCore, Stopping, Own, Leaving, Verifying, HandlesInv, HandlesAreCurrent,
       CancelledAreOld

\* The invariant of a daemon whose requests come one at a time.
THEOREM SerialInvariant ==
    ASSUME NEW c, Threads = {c} PROVE Spec => [](TypeInv /\ HandlesInv /\ SerialInv(c))
<1>1. Init => SerialInv(c) /\ HandlesInv
  BY SerialInit
<1>2. TypeInv /\ HandlesInv /\ SerialInv(c) /\ [Next]_vars => SerialInv(c)'
  BY SerialStep
<1> QED BY <1>1, <1>2, TypeInit, TypeStep, HandlesStep, PTL DEF Spec

\* Requests made one at a time never leave a core behind: "disconnected" and
\* "error" are announced only after Stop has killed the child.
THEOREM NoCoreStrays == ASSUME NEW c, Threads = {c} PROVE Spec => []NoStrayCore
<1>1. SerialInv(c) => NoStrayCore
  BY DEF SerialInv
<1> QED BY <1>1, SerialInvariant, PTL

\* With one caller the only running child is the one that the backend, or the
\* Stop under way, can kill.
THEOREM CoresReachable == ASSUME NEW c, Threads = {c} PROVE Spec => []CoreIsReachable
<1>1. SerialInv(c) => CoreIsReachable
  BY DEF SerialInv, HandleOK, CoreIsReachable
<1> QED BY <1>1, SerialInvariant, PTL

\* With one caller the session shown is the newest attempt: its child serves the
\* proxy, and its context is the one Disconnect cancels.
THEOREM SessionsCurrent == ASSUME NEW c, Threads = {c} PROVE Spec => []ConnectedIsCurrent
<1>1. TypeInv /\ HandlesInv /\ SerialInv(c) => ConnectedIsCurrent
  <2> SUFFICES ASSUME TypeInv, HandlesInv, SerialInv(c), state = "connected"
               PROVE  /\ socks \in {NoProc, owner}
                      /\ owner \notin cancelled \/ mpc[c] \in Leaving
    BY DEF ConnectedIsCurrent, Leaving
  <2>1. owner = natt /\ (mcancel = natt \/ mpc[c] \in Leaving)
    BY DEF SerialInv, AttemptOK
  <2>2. socks \in {NoProc, natt}
    BY DEF SerialInv, HandleOK
  <2>3. natt \notin cancelled \/ mcancel # natt
    BY DEF HandlesInv, HandlesAreCurrent, TypeInv, TypeOK, CallTypeOK
  <2> QED BY <2>1, <2>2, <2>3
<1> QED BY <1>1, SerialInvariant, PTL

\* With one caller a session is "connected" without a probe that got through only
\* after its core has died, in which case Connect finds no proxy to dial.
THEOREM UnprobedDied == ASSUME NEW c, Threads = {c} PROVE Spec => []UnprobedOnlyAfterDeath
<1>1. SerialInv(c) => UnprobedOnlyAfterDeath
  BY DEF SerialInv, AttemptOK, ProbeOK, UnprobedOnlyAfterDeath
<1> QED BY <1>1, SerialInvariant, PTL

\* With one caller a watcher, or a failed Start, never puts a newer session than
\* its own in error.
THEOREM OwnSessionFails == ASSUME NEW c, Threads = {c} PROVE Spec => OnlyOwnSessionFails
<1> DEFINE Overwritten == state = "connected" /\ state' = "error" /\ owner' # owner
<1>1. ASSUME TypeInv, HandlesInv, SerialInv(c), Next, Overwritten PROVE FALSE
  <2>1. ASSUME NEW t \in {c}, Request(t) \/ ThreadStep(t) PROVE FALSE
    BY <1>1, <2>1 DEF SerialInv, StatusOK, Verifying, Request, ThreadStep, ConnectStep,
       DisconnectStep, ReloadStep, ConnectRequest, DisconnectRequest, ReloadRequest,
       WalkEnds, NextCandidate, ConnectRefused, ConnectReplaces, ConnectBegin, StartFailed,
       EnterVerifying, ReadProxies, TrustNoProxy, ProbeCancelled, ProbeAnswered, ProbeFails,
       RejectRoute, VerifyFailed, RememberVerified, Announce, Persist, DisconnectNothing,
       DisconnectEnter, DisconnectEnd, ReloadSkip, ReloadEnter, ReloadBackend, ReloadApply,
       ReloadEnd
  <2>2. ASSUME NEW a \in Attempts, WatchStep(a) PROVE FALSE
    <3>1. /\ watcher[a] = "sawerr" /\ a \notin cancelled
          /\ state = "connected" /\ owner' = a /\ owner # a
      BY <1>1, <2>2 DEF WatchStep, WatchTick, WatchFire, WatchStop
    <3>2. a = mcancel /\ owner = natt
      BY <1>1, <3>1 DEF SerialInv, WatchOK, AttemptOK
    <3>3. mcancel = natt
      BY <1>1, <3>2 DEF HandlesInv, HandlesAreCurrent
    <3> QED BY <3>1, <3>2, <3>3
  <2> QED BY <1>1, <2>1, <2>2 DEF Next, CatalogChange
<1>2. TypeInv /\ HandlesInv /\ SerialInv(c) /\ [Next]_vars =>
          [state = "connected" /\ state' = "error" => owner' = owner]_vars
  BY <1>1
<1> QED BY <1>2, SerialInvariant, PTL DEF Spec, OnlyOwnSessionFails

=============================================================================
