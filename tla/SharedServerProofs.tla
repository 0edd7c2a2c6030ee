------------------------- MODULE SharedServerProofs -------------------------
(***************************************************************************)
(* Proofs about SharedServer, for any set of launchers, any timeout, any   *)
(* number of polls and any number of faults. The inductive invariant       *)
(* strengthens the properties with what ties the parts of the state        *)
(* together: which launchers can own a session, which processes can, what  *)
(* a main thread that is leaving has seen, and what a session counted too  *)
(* late is worth.                                                          *)
(***************************************************************************)
EXTENDS SharedServer, FiniteSetTheorems, TLAPS

\* A launcher that is still dialling has no session, and until it has spawned
\* its server that process does not exist.
LauncherShape ==
    \A l \in Launcher :
        /\ pc[l] \in {"start", "spawn"} => phase[l] = "none" /\ polls[l] = 0
        /\ pc[l] = "poll" => polls[l] < MaxPolls
        /\ pc[l] \in {"start", "spawn", "poll"} => session[l] = "none"

\* A session with a handler thread belongs to a process that runs.
SessionShape ==
    \A l \in Launcher :
        session[l] \in {"accepted", "serving", "closed"} =>
            peer[l] \in Process /\ Alive(peer[l])

\* A main thread leaves its loop after _stop was set or after a fault.
LeavingShape ==
    \A s \in Process :
        /\ phase[s] \in Leaving => stop[s] \/ s \in faulty
        /\ phase[s] = "accept" /\ ~Listening(s) => stop[s]
        /\ phase[s] = "listening" => Listening(s)

\* Once _stop is set, the sessions being served are late ones.
LateShape ==
    \A l \in Launcher :
        session[l] = "serving" /\ stop[peer[l]] => l \in late

\* The socket file names a process between its bind and its final unlink.
FileShape ==
    \A s \in Process :
        path = s => phase[s] \in {"bound", "published", "accept", "cleanup", "crashed"}

\* While no session is counted, the watcher's clock does not run ahead.
ClockShape ==
    \A s \in Process : Counted(s) = {} => idle[s] <= quiet[s]

\* The inductive invariant.
IInv ==
    /\ TypeOK
    /\ LauncherShape
    /\ SessionShape
    /\ LeavingShape
    /\ LateShape
    /\ FileShape
    /\ ClockShape
    /\ ActiveCountsSessions
    /\ OnlyLateSessionsKilled

-----------------------------------------------------------------------------
(* Counting *)

\* The sessions of a process are finitely many, so their number is a natural
\* number that is zero only when there are none.
LEMMA CountedFinite ==
    ASSUME NEW s
    PROVE  /\ IsFiniteSet(Counted(s))
           /\ Cardinality(Counted(s)) \in Nat
           /\ Cardinality(Counted(s)) = 0 <=> Counted(s) = {}
<1>1. Counted(s) \subseteq Launcher
  BY DEF Counted
<1>2. IsFiniteSet(Counted(s))
  BY <1>1, LauncherAssumption, FS_Subset
<1> QED
  BY <1>2, FS_CardinalityType, FS_EmptySet

\* A session that is counted adds one.
LEMMA OneMore ==
    ASSUME NEW S, NEW T, NEW x, IsFiniteSet(S), x \notin S, T = S \cup {x}
    PROVE  Cardinality(T) = Cardinality(S) + 1
BY FS_AddElement

\* A session that is no longer counted takes one away.
LEMMA OneLess ==
    ASSUME NEW S, NEW T, NEW x, IsFiniteSet(S), x \in S, T = S \ {x}
    PROVE  Cardinality(T) = Cardinality(S) - 1
BY FS_RemoveElement

\* A counter of zero is trustworthy, and a session to be uncounted keeps it up.
LEMMA IdleMeansUncounted ==
    ASSUME ActiveCountsSessions, NEW s \in Process, active[s] = 0
    PROVE  \A l \in Launcher : ~(peer[l] = s /\ session[l] \in {"serving", "closed"})
<1>1. Cardinality(Counted(s)) = 0
  BY DEF ActiveCountsSessions
<1>2. Counted(s) = {}
  BY <1>1, CountedFinite
<1> QED
  BY <1>2 DEF Counted

\* A session whose connection is closed is still to be uncounted, so the counter
\* of its process is not zero yet.
LEMMA ClosedMeansCounted ==
    ASSUME ActiveCountsSessions, NEW l \in Launcher, session[l] = "closed",
           peer[l] \in Process
    PROVE  active[peer[l]] \in Nat \ {0}
<1>1. Counted(peer[l]) # {}
  BY DEF Counted
<1>2. Cardinality(Counted(peer[l])) \in Nat \ {0}
  BY <1>1, CountedFinite
<1> QED
  BY <1>2 DEF ActiveCountsSessions

\* A step that leaves the sessions and the counters alone keeps them in accord.
LEMMA CountedSame ==
    ASSUME ActiveCountsSessions, active' = active,
           \A s \in Process : Counted(s)' = Counted(s)
    PROVE  ActiveCountsSessions'
BY DEF ActiveCountsSessions

-----------------------------------------------------------------------------
(* The steps of a server process that leave every session where it is *)

\* The steps of a server process's main thread and watcher keep the invariant.
LEMMA ProcessKeepsShape ==
    ASSUME IInv, NEW s \in Process, UNCHANGED launcherVars,
           \/ UnlinkStale(s) \/ BindUnix(s) \/ Chmod(s) \/ Listen(s)
           \/ BindTcp(s) \/ PublishToken(s)
           \/ AcceptTimeout(s) \/ AcceptClosed(s) \/ AcceptError(s)
           \/ UnlinkOnExit(s) \/ StopWhenIdle(s) \/ CloseSocket(s)
    PROVE  IInv'
<1> USE NoneAssumption, PlatformAssumption, IdleAssumption, FaultAssumption, PollAssumption
<1> USE DEF IInv, TypeOK, LauncherShape, SessionShape, LeavingShape, LateShape, FileShape,
            ClockShape, ActiveCountsSessions, OnlyLateSessionsKilled,
            Counted, Alive, Listening, Process, Phase, Binding, Leaving, Ended, Session, Gone,
            LauncherPc, fileVars, mainVars, counterVars, sessionVars, faultVars, serverVars,
            launcherVars, LoopTest
<1>1. CASE UnlinkStale(s)
  BY <1>1 DEF UnlinkStale, Advance
<1>2. CASE BindUnix(s)
  BY <1>2 DEF BindUnix, Advance
<1>3. CASE Chmod(s)
  BY <1>3 DEF Chmod, Advance
<1>4. CASE Listen(s)
  BY <1>4 DEF Listen, Advance
<1>5. CASE BindTcp(s)
  BY <1>5 DEF BindTcp, Advance
<1>6. CASE PublishToken(s)
  BY <1>6 DEF PublishToken, Advance
<1>7. CASE AcceptTimeout(s)
  BY <1>7 DEF AcceptTimeout, Advance
<1>8. CASE AcceptClosed(s)
  BY <1>8 DEF AcceptClosed, Advance
<1>9. CASE AcceptError(s)
  BY <1>9 DEF AcceptError, Advance
<1>10. CASE UnlinkOnExit(s)
  BY <1>10 DEF UnlinkOnExit, Advance
<1>11. CASE StopWhenIdle(s)
  <2>1. \A l \in Launcher : ~(peer[l] = s /\ session[l] \in {"serving", "closed"})
    BY <1>11, IdleMeansUncounted DEF StopWhenIdle
  <2> QED
    BY <1>11, <2>1 DEF StopWhenIdle
<1>12. CASE CloseSocket(s)
  BY <1>12 DEF CloseSocket, Advance
<1> QED
  BY <1>1, <1>2, <1>3, <1>4, <1>5, <1>6, <1>7, <1>8, <1>9, <1>10, <1>11, <1>12

-----------------------------------------------------------------------------
(* The steps of a launcher *)

\* So do the steps of a launcher,
LEMMA LauncherKeepsShape ==
    ASSUME IInv, NEW l \in Launcher, LauncherStep(l) \/ StdinEof(l) \/ Kill(l)
    PROVE  IInv'
<1> USE NoneAssumption, PlatformAssumption, IdleAssumption, FaultAssumption, PollAssumption
<1> USE DEF IInv, TypeOK, LauncherShape, SessionShape, LeavingShape, LateShape, FileShape,
            ClockShape, OnlyLateSessionsKilled,
            Alive, Listening, Process, Phase, Binding, Leaving, Ended, Session, Gone,
            LauncherPc, fileVars, mainVars, counterVars, sessionVars, faultVars, serverVars,
            launcherVars
<1>1. CASE ReadToken(l)
  <2>1. \A t \in Process : Counted(t)' = Counted(t)
    BY <1>1 DEF ReadToken, Dialling, Counted
  <2>2. active' = active
    BY <1>1 DEF ReadToken, Dialling
  <2>3. ActiveCountsSessions'
    BY <2>1, <2>2, CountedSame
  <2> QED
    BY <1>1, <2>1, <2>3 DEF ReadToken, Dialling
<1>2. CASE Connect(l)
  <2>1. \A t \in Process : Counted(t)' = Counted(t)
    BY <1>2 DEF Connect, Dialling, Target, Counted
  <2>2. active' = active
    BY <1>2 DEF Connect, Dialling, Target
  <2>3. ActiveCountsSessions'
    BY <2>1, <2>2, CountedSame
  <2> QED
    BY <1>2, <2>1, <2>3 DEF Connect, Dialling, Target
<1>3. CASE FirstConnectFails(l)
  <2>1. \A t \in Process : Counted(t)' = Counted(t)
    BY <1>3 DEF FirstConnectFails, Counted
  <2>2. active' = active
    BY <1>3 DEF FirstConnectFails
  <2>3. ActiveCountsSessions'
    BY <2>1, <2>2, CountedSame
  <2> QED
    BY <1>3, <2>1, <2>3 DEF FirstConnectFails
<1>4. CASE PollFails(l)
  <2>1. \A t \in Process : Counted(t)' = Counted(t)
    BY <1>4 DEF PollFails, Counted
  <2>2. active' = active
    BY <1>4 DEF PollFails
  <2>3. ActiveCountsSessions'
    BY <2>1, <2>2, CountedSame
  <2> QED
    BY <1>4, <2>1, <2>3 DEF PollFails
<1>5. CASE SpawnServer(l)
  <2>1. \A t \in Process : Counted(t)' = Counted(t)
    BY <1>5 DEF SpawnServer, Counted
  <2>2. active' = active
    BY <1>5 DEF SpawnServer
  <2>3. ActiveCountsSessions'
    BY <2>1, <2>2, CountedSame
  <2> QED
    BY <1>5, <2>1, <2>3 DEF SpawnServer
<1>6. CASE SpawnFails(l)
  <2>1. \A t \in Process : Counted(t)' = Counted(t)
    BY <1>6 DEF SpawnFails, Counted
  <2>2. active' = active
    BY <1>6 DEF SpawnFails
  <2>3. ActiveCountsSessions'
    BY <2>1, <2>2, CountedSame
  <2> QED
    BY <1>6, <2>1, <2>3 DEF SpawnFails
<1>7. CASE ProxyExit(l)
  <2>1. \A t \in Process : Counted(t)' = Counted(t)
    BY <1>7 DEF ProxyExit, Counted
  <2>2. active' = active
    BY <1>7 DEF ProxyExit
  <2>3. ActiveCountsSessions'
    BY <2>1, <2>2, CountedSame
  <2> QED
    BY <1>7, <2>1, <2>3 DEF ProxyExit
<1>8. CASE StdinEof(l)
  <2>1. \A t \in Process : Counted(t)' = Counted(t)
    BY <1>8 DEF StdinEof, Counted
  <2>2. active' = active
    BY <1>8 DEF StdinEof
  <2>3. ActiveCountsSessions'
    BY <2>1, <2>2, CountedSame
  <2> QED
    BY <1>8, <2>1, <2>3 DEF StdinEof
<1>9. CASE Kill(l)
  <2>1. \A t \in Process : Counted(t)' = Counted(t)
    BY <1>9 DEF Kill, Counted
  <2>2. active' = active
    BY <1>9 DEF Kill
  <2>3. ActiveCountsSessions'
    BY <2>1, <2>2, CountedSame
  <2> QED
    BY <1>9, <2>1, <2>3 DEF Kill
<1> QED
  BY <1>1, <1>2, <1>3, <1>4, <1>5, <1>6, <1>7, <1>8, <1>9 DEF LauncherStep

-----------------------------------------------------------------------------
(* The steps that take a session further *)

\* the accept of a connection,
LEMMA AcceptKeepsShape ==
    ASSUME IInv, NEW s \in Process, UNCHANGED launcherVars, Accept(s)
    PROVE  IInv'
<1> USE NoneAssumption, PlatformAssumption, IdleAssumption, FaultAssumption, PollAssumption
<1> USE DEF IInv, TypeOK, LauncherShape, SessionShape, LeavingShape, LateShape, FileShape,
            ClockShape, OnlyLateSessionsKilled,
            Alive, Listening, Process, Phase, Binding, Leaving, Ended, Session, Gone,
            LauncherPc, fileVars, mainVars, counterVars, sessionVars, faultVars, serverVars,
            launcherVars
<1>1. \A t \in Process : Counted(t)' = Counted(t)
  BY DEF Accept, Counted
<1>2. ActiveCountsSessions'
  BY <1>1, CountedSame DEF Accept
<1> QED
  BY <1>1, <1>2 DEF Accept, Advance, LoopTest

\* the steps of a handler thread,
LEMMA SessionKeepsShape ==
    ASSUME IInv, NEW l \in Launcher, UNCHANGED launcherVars,
           HandlerEnters(l) \/ HandlerCloses(l) \/ HandlerLeaves(l)
    PROVE  IInv'
<1> USE NoneAssumption, PlatformAssumption, IdleAssumption, FaultAssumption, PollAssumption
<1> USE DEF IInv, TypeOK, LauncherShape, SessionShape, LeavingShape, LateShape, FileShape,
            ClockShape, OnlyLateSessionsKilled,
            Alive, Listening, Process, Phase, Binding, Leaving, Ended, Session, Gone,
            LauncherPc, fileVars, mainVars, counterVars, sessionVars, faultVars, serverVars,
            launcherVars
<1>1. CASE HandlerEnters(l)
  <2>1. PICK s \in Process : s = peer[l]
    BY <1>1 DEF HandlerEnters
  <2>2. Counted(s)' = Counted(s) \cup {l} /\ l \notin Counted(s)
    BY <1>1, <2>1 DEF HandlerEnters, Counted
  <2>3. \A t \in Process : t # s => Counted(t)' = Counted(t)
    BY <1>1, <2>1 DEF HandlerEnters, Counted
  <2>4. Cardinality(Counted(s)') = Cardinality(Counted(s)) + 1
    BY <2>2, CountedFinite, OneMore
  <2>5. active' = [active EXCEPT ![s] = @ + 1]
    BY <1>1, <2>1 DEF HandlerEnters
  <2>6. ActiveCountsSessions'
    BY <2>1, <2>3, <2>4, <2>5 DEF ActiveCountsSessions
  <2> QED
    BY <1>1, <2>1, <2>2, <2>3, <2>6 DEF HandlerEnters
<1>2. CASE HandlerCloses(l)
  <2>1. \A t \in Process : Counted(t)' = Counted(t)
    BY <1>2 DEF HandlerCloses, Counted
  <2>2. active' = active
    BY <1>2 DEF HandlerCloses
  <2>3. ActiveCountsSessions'
    BY <2>1, <2>2, CountedSame
  <2> QED
    BY <1>2, <2>1, <2>3 DEF HandlerCloses
<1>3. CASE HandlerLeaves(l)
  <2>1. PICK s \in Process : s = peer[l] /\ active[s] \in Nat \ {0}
    BY <1>3, ClosedMeansCounted DEF HandlerLeaves
  <2>2. Counted(s)' = Counted(s) \ {l} /\ l \in Counted(s)
    BY <1>3, <2>1 DEF HandlerLeaves, Counted
  <2>3. \A t \in Process : t # s => Counted(t)' = Counted(t)
    BY <1>3, <2>1 DEF HandlerLeaves, Counted
  <2>4. Cardinality(Counted(s)') = Cardinality(Counted(s)) - 1
    BY <2>2, CountedFinite, OneLess
  <2>5. active' = [active EXCEPT ![s] = @ - 1]
    BY <1>3, <2>1 DEF HandlerLeaves
  <2>6. ActiveCountsSessions'
    BY <2>1, <2>3, <2>4, <2>5 DEF ActiveCountsSessions
  <2>7. ClockShape'
    BY <1>3, <2>1, <2>3 DEF HandlerLeaves
  <2>8. active' \in [Process -> Nat]
    <3>1. active[s] - 1 \in Nat
      BY <2>1
    <3> QED
      BY <2>1, <2>5, <3>1
  <2>9. peer' \in [Launcher -> Process \cup {None}] /\ idle' \in [Process -> 0..IdleTimeout]
    BY <1>3, <2>1 DEF HandlerLeaves
  <2>10. TypeOK'
    BY <1>3, <2>8, <2>9 DEF HandlerLeaves
  <2>11. SessionShape' /\ LateShape'
    BY <1>3 DEF HandlerLeaves
  <2> QED
    BY <1>3, <2>6, <2>7, <2>10, <2>11 DEF HandlerLeaves
<1> QED
  BY <1>1, <1>2, <1>3

-----------------------------------------------------------------------------
(* The end of a process, and the clock *)

\* the end of a process with its threads,
LEMMA EndKeepsShape ==
    ASSUME IInv, NEW s \in Process, UNCHANGED launcherVars, ProcessExit(s) \/ Crash(s)
    PROVE  IInv'
<1> USE NoneAssumption, PlatformAssumption, IdleAssumption, FaultAssumption, PollAssumption
<1> USE DEF IInv, TypeOK, LauncherShape, SessionShape, LeavingShape, LateShape, FileShape,
            ClockShape, OnlyLateSessionsKilled,
            Alive, Listening, Process, Phase, Binding, Leaving, Ended, Session, Gone,
            LauncherPc, fileVars, mainVars, counterVars, sessionVars, faultVars, serverVars,
            launcherVars
<1>1. PICK how \in Ended : Vanish(s, how) /\ (how = "exited" => phase[s] = "exiting")
                           /\ (how = "crashed" => faulty' = faulty \cup {s} /\ faults < MaxFaults
                                                   /\ faults' = faults + 1)
                           /\ (how = "exited" => UNCHANGED faultVars)
                           /\ phase[s] # "none"
                           /\ UNCHANGED <<platform, path, late>>
  BY DEF ProcessExit, Crash
<1>2. Counted(s)' = {}
  BY <1>1 DEF Vanish, CutOff, Counted
<1>3. \A t \in Process : t # s => Counted(t)' = Counted(t)
  BY <1>1 DEF Vanish, CutOff, Counted
<1>4. ActiveCountsSessions'
  <2>1. active' = [active EXCEPT ![s] = 0]
    BY <1>1 DEF Vanish
  <2>2. Cardinality(Counted(s)') = 0
    BY <1>2, FS_EmptySet
  <2> QED
    BY <1>3, <2>1, <2>2 DEF ActiveCountsSessions
<1>5. ClockShape'
  BY <1>1, <1>2, <1>3 DEF Vanish
<1>6. how = "exited" /\ s \notin faulty =>
           \A l \in Launcher : peer[l] = s /\ session[l] = "serving" => l \in late
  BY <1>1
<1>7. OnlyLateSessionsKilled'
  BY <1>1, <1>6 DEF Vanish, CutOff
<1>8. TypeOK'
  BY <1>1 DEF Vanish, CutOff
<1>9. LauncherShape'
  BY <1>1 DEF Vanish, CutOff
<1>10. SessionShape' /\ LateShape'
  BY <1>1 DEF Vanish, CutOff
<1>11. LeavingShape' /\ FileShape'
  BY <1>1 DEF Vanish
<1> QED
  BY <1>4, <1>5, <1>7, <1>8, <1>9, <1>10, <1>11

\* and the passing of time.
LEMMA TickKeepsShape ==
    ASSUME IInv, TimeStep
    PROVE  IInv'
<1> USE NoneAssumption, PlatformAssumption, IdleAssumption, FaultAssumption, PollAssumption
<1> USE DEF IInv, TypeOK, LauncherShape, SessionShape, LeavingShape, LateShape, FileShape,
            ClockShape, OnlyLateSessionsKilled,
            Alive, Listening, Process, Phase, Binding, Leaving, Ended, Session, Gone,
            LauncherPc, fileVars, mainVars, counterVars, sessionVars, faultVars, serverVars,
            launcherVars
<1>1. \A t \in Process : Counted(t)' = Counted(t)
  BY DEF TimeStep, Tick, Counted
<1>2. ActiveCountsSessions'
  BY <1>1, CountedSame DEF TimeStep, Tick
<1>3. ClockShape'
  BY <1>1 DEF TimeStep, Tick
<1> QED
  BY <1>2, <1>3 DEF TimeStep, Tick

-----------------------------------------------------------------------------
(* The invariant *)

\* The invariant holds before any launcher has run,
LEMMA InitShape == Init => IInv
<1> SUFFICES ASSUME Init PROVE IInv
  OBVIOUS
<1>1. \A s \in Process : Counted(s) = {}
  BY DEF Init, DaemonInit, Counted, Process
<1>2. ActiveCountsSessions
  BY <1>1, FS_EmptySet DEF Init, DaemonInit, ActiveCountsSessions
<1>3. TypeOK
  BY IdleAssumption, FaultAssumption, PollAssumption
  DEF Init, DaemonInit, TypeOK, Process, Phase, Session, LauncherPc
<1>4. FileShape
  BY NoneAssumption DEF Init, DaemonInit, FileShape, Process
<1> QED
  BY <1>2, <1>3, <1>4
  DEF Init, DaemonInit, IInv, LauncherShape, SessionShape, LeavingShape, LateShape,
      ClockShape, OnlyLateSessionsKilled, Process, Leaving, Ended

\* through a stuttering step,
LEMMA StutterShape == IInv /\ UNCHANGED vars => IInv'
BY DEF vars, serverVars, fileVars, mainVars, counterVars, sessionVars, faultVars, launcherVars,
       IInv, TypeOK, LauncherShape, SessionShape, LeavingShape, LateShape, FileShape,
       ClockShape, ActiveCountsSessions, OnlyLateSessionsKilled, Counted, Alive, Listening

\* and through every step: it is inductive.
LEMMA StepShape == IInv /\ [Next]_vars => IInv'
<1> SUFFICES ASSUME IInv, [Next]_vars PROVE IInv'
  OBVIOUS
<1>1. ASSUME NEW l \in Launcher, LauncherStep(l) PROVE IInv'
  BY <1>1, LauncherKeepsShape
<1>2. ASSUME NEW l \in Launcher, HandlerStep(l) PROVE IInv'
  BY <1>2, SessionKeepsShape DEF HandlerStep, SessionEof
<1>3. ASSUME NEW l \in Launcher, GhidraStep(l) PROVE IInv'
  BY <1>3, LauncherKeepsShape, SessionKeepsShape DEF GhidraStep, SessionDeregisters
<1>4. ASSUME NEW s \in Process, ProcessStep(s) PROVE IInv'
  BY <1>4, ProcessKeepsShape, AcceptKeepsShape, EndKeepsShape
  DEF ProcessStep, MainStep, WatcherStep
<1>5. ASSUME NEW s \in Process, FaultStep(s) PROVE IInv'
  BY <1>5, ProcessKeepsShape, EndKeepsShape DEF FaultStep
<1>6. CASE TimeStep
  BY <1>6, TickKeepsShape
<1>7. CASE UNCHANGED vars
  BY <1>7, StutterShape
<1>8. CASE Quiescent
  BY <1>8, StutterShape DEF Quiescent
<1> QED
  BY <1>1, <1>2, <1>3, <1>4, <1>5, <1>6, <1>7, <1>8 DEF Next, SystemStep

\* IInv holds in every reachable state.
THEOREM Invariance == Spec => []IInv
BY InitShape, StepShape, PTL DEF Spec

-----------------------------------------------------------------------------
(* What it is for *)

\* Every variable keeps to its type, whatever the number of launchers.
THEOREM TypeCorrect == Spec => []TypeOK
<1>1. IInv => TypeOK
  BY DEF IInv
<1> QED
  BY <1>1, Invariance, PTL

\* AngrServer._active is always the number of sessions between the two critical
\* sections of _handle.
THEOREM CounterIsExact == Spec => []ActiveCountsSessions
<1>1. IInv => ActiveCountsSessions
  BY DEF IInv
<1> QED
  BY <1>1, Invariance, PTL

\* A server without a fault cuts off no session that was counted before its
\* idle watcher decided to stop.
THEOREM CountedSessionsAreSafe == Spec => []OnlyLateSessionsKilled
<1>1. IInv => OnlyLateSessionsKilled
  BY DEF IInv
<1> QED
  BY <1>1, Invariance, PTL

\* Only a crash leaves a socket file behind that names an ended process.
THEOREM NoStaleFile == Spec => []StaleFileNeedsCrash
<1>1. IInv => StaleFileNeedsCrash
  BY DEF IInv, FileShape, StaleFileNeedsCrash, Ended
<1> QED
  BY <1>1, Invariance, PTL

\* The idle watcher stops a server only after a whole timeout without a session.
THEOREM StopsOnlyWhenQuiet == Spec => StopOnlyWhenQuiet
<1> DEFINE Quiet == \A s \in Process : ~stop[s] /\ stop'[s] => quiet[s] = IdleTimeout
<1>1. IInv /\ [Next]_vars => [Quiet]_vars
  <2> SUFFICES ASSUME IInv, [Next]_vars PROVE Quiet \/ UNCHANGED vars
    OBVIOUS
  <2>1. ASSUME NEW s \in Process, StopWhenIdle(s) PROVE Quiet
    <3>1. active[s] = 0 /\ idle[s] = IdleTimeout /\ stop' = [stop EXCEPT ![s] = TRUE]
      BY <2>1 DEF StopWhenIdle
    <3>2. Counted(s) = {}
      BY <3>1, IdleMeansUncounted DEF Counted, IInv
    <3>3. quiet[s] = IdleTimeout
      BY <3>1, <3>2, IdleAssumption DEF IInv, TypeOK, ClockShape
    <3> QED
      BY <3>1, <3>3 DEF IInv, TypeOK
  <2>2. CASE stop' = stop
    BY <2>2
  <2>3. ASSUME NEW s \in Process, stop' = [stop EXCEPT ![s] = FALSE] PROVE Quiet
    BY <2>3 DEF IInv, TypeOK
  <2>4. ASSUME NEW s \in Process, NEW how, Vanish(s, how) PROVE Quiet
    BY <2>3, <2>4 DEF Vanish
  <2> QED
    <3> USE <2>1, <2>2, <2>4
    <3> USE DEF fileVars, mainVars, counterVars, sessionVars, faultVars, serverVars, launcherVars
    <3>1. ASSUME NEW l \in Launcher, LauncherStep(l) \/ HandlerStep(l) \/ GhidraStep(l)
          PROVE  stop' = stop
      BY <3>1 DEF LauncherStep, ReadToken, Connect, FirstConnectFails, PollFails, SpawnServer,
                  SpawnFails, ProxyExit, HandlerStep, SessionEof, HandlerEnters, HandlerCloses,
                  HandlerLeaves, GhidraStep, StdinEof, Kill, SessionDeregisters
    <3>2. ASSUME NEW s \in Process, ProcessStep(s) PROVE Quiet
      BY <3>2 DEF ProcessStep, MainStep, WatcherStep, UnlinkStale, BindUnix, Chmod, Listen,
                  BindTcp, PublishToken, Accept, AcceptTimeout, AcceptClosed, UnlinkOnExit,
                  ProcessExit, CloseSocket
    <3>3. ASSUME NEW s \in Process, FaultStep(s) PROVE Quiet
      BY <3>3 DEF FaultStep, AcceptError, Crash
    <3>4. CASE TimeStep
      BY <3>4 DEF TimeStep, Tick
    <3>5. CASE Quiescent
      BY <3>5 DEF Quiescent
    <3> QED
      BY <3>1, <3>2, <3>3, <3>4, <3>5 DEF Next, SystemStep
<1> QED
  BY <1>1, Invariance, PTL DEF Spec, StopOnlyWhenQuiet
=============================================================================
