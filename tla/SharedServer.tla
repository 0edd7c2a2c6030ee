---------------------------- MODULE SharedServer ----------------------------
(***************************************************************************)
(* The launchers of launcher/src/main.rs in server mode (try_server_mode,  *)
(* connect_socket, spawn_server, proxy_and_exit), composed with the server *)
(* processes of ServerDaemon over one socket file. Ghidra starts a         *)
(* launcher whenever it wants a decompiler process, ends it by closing its *)
(* stdin, and may kill it at any moment.                                   *)
(***************************************************************************)
EXTENDS ServerDaemon

CONSTANT MaxPolls  \* connection attempts after a spawn (200 in the code)

ASSUME PollAssumption == MaxPolls \in Nat \ {0}

VARIABLES
    pc,     \* where each launcher is
    polls   \* polls made since it started a server

launcherVars == <<pc, polls>>
vars == <<serverVars, launcherVars>>

\* "eof": Ghidra has closed stdin and the write half of the socket is shut down.
\* "direct": hand_over has replaced the launcher by a core of its own.
Gone == {"direct", "exited"}
LauncherPc == {"start", "spawn", "poll", "proxy", "eof"} \cup Gone

Init ==
    /\ DaemonInit
    /\ pc = [l \in Launcher |-> "start"]
    /\ polls = [l \in Launcher |-> 0]

-----------------------------------------------------------------------------
(* try_server_mode *)

Dialling(l) == pc[l] \in {"start", "poll"}

\* connect_socket on Windows reads the port from the token file first.
ReadToken(l) ==
    /\ platform = "tcp"
    /\ Dialling(l)
    /\ peer[l] = None
    /\ path # None
    /\ peer' = [peer EXCEPT ![l] = path]
    /\ UNCHANGED <<fileVars, mainVars, counterVars, session, late, faultVars, launcherVars>>

\* The process connect() reaches for, if any.
Target(l) == IF platform = "unix" THEN path ELSE peer[l]

Connect(l) ==
    /\ Dialling(l)
    /\ Target(l) # None
    /\ Listening(Target(l))
    /\ peer' = [peer EXCEPT ![l] = Target(l)]
    /\ session' = [session EXCEPT ![l] = "queued"]
    /\ pc' = [pc EXCEPT ![l] = "proxy"]
    /\ UNCHANGED <<fileVars, mainVars, counterVars, late, faultVars, polls>>

\* connect_socket returns None: no file, or nobody listens behind it.
Unreachable(l) ==
    \/ Target(l) = None /\ path = None
    \/ Target(l) # None /\ ~Listening(Target(l))

FirstConnectFails(l) ==
    /\ pc[l] = "start"
    /\ Unreachable(l)
    /\ pc' = [pc EXCEPT ![l] = "spawn"]
    /\ peer' = [peer EXCEPT ![l] = None]
    /\ UNCHANGED <<fileVars, mainVars, counterVars, session, late, faultVars, polls>>

PollFails(l) ==
    /\ pc[l] = "poll"
    /\ Unreachable(l)
    /\ polls' = [polls EXCEPT ![l] = @ + 1]
    /\ pc' = [pc EXCEPT ![l] = IF polls[l] + 1 = MaxPolls THEN "direct" ELSE "poll"]
    /\ peer' = [peer EXCEPT ![l] = None]
    /\ UNCHANGED <<fileVars, mainVars, counterVars, session, late, faultVars>>

\* The new process is detached: it outlives this launcher.
SpawnServer(l) ==
    /\ pc[l] = "spawn"
    /\ phase' = [phase EXCEPT ![l] = "started"]
    /\ pc' = [pc EXCEPT ![l] = "poll"]
    /\ UNCHANGED <<fileVars, sock, counterVars, sessionVars, faultVars, polls>>

SpawnFails(l) ==
    /\ pc[l] = "spawn"
    /\ pc' = [pc EXCEPT ![l] = "direct"]
    /\ UNCHANGED <<serverVars, polls>>

-----------------------------------------------------------------------------
(* proxy_and_exit, hand_over, and what Ghidra does to a launcher *)

\* stdin ends: the copying thread shuts down the write half.
StdinEof(l) ==
    /\ pc[l] = "proxy"
    /\ pc' = [pc EXCEPT ![l] = "eof"]
    /\ UNCHANGED <<serverVars, polls>>

\* Mutant: copy_stream retries when the connection was reset.
ProxyExitOnCleanClose(l) ==
    /\ pc[l] \in {"proxy", "eof"}
    /\ session[l] \in {"closed", "done"}
    /\ pc' = [pc EXCEPT ![l] = "exited"]
    /\ UNCHANGED <<serverVars, polls>>

\* The server's end is closed: copy_stream returns and the launcher exits 0.
ProxyExit(l) ==
    /\ pc[l] \in {"proxy", "eof"}
    /\ session[l] \in {"closed", "done", "lost", "killed"}
    /\ pc' = [pc EXCEPT ![l] = "exited"]
    /\ UNCHANGED <<serverVars, polls>>

\* Ghidra kills a launcher while its server is starting up. (Killed before that
\* it leaves no trace; killed while it proxies it looks to the server like one
\* whose stdin has ended.)
Kill(l) ==
    /\ pc[l] = "poll"
    /\ pc' = [pc EXCEPT ![l] = "exited"]
    /\ UNCHANGED <<serverVars, polls>>

\* A session ends because its client is gone, or because Ghidra deregistered
\* the program; the second is Ghidra's choice.
ClientGone(l) == pc[l] \in {"eof", "exited"}
SessionEof(l) == ClientGone(l) /\ HandlerCloses(l) /\ UNCHANGED launcherVars
SessionDeregisters(l) == ~ClientGone(l) /\ HandlerCloses(l) /\ UNCHANGED launcherVars

-----------------------------------------------------------------------------
LauncherStep(l) ==
    \/ ReadToken(l) \/ Connect(l) \/ FirstConnectFails(l) \/ PollFails(l)
    \/ SpawnServer(l) \/ SpawnFails(l)
    \/ ProxyExit(l)

HandlerStep(l) ==
    \/ HandlerEnters(l) /\ UNCHANGED launcherVars
    \/ SessionEof(l)
    \/ HandlerLeaves(l) /\ UNCHANGED launcherVars

GhidraStep(l) == StdinEof(l) \/ Kill(l) \/ SessionDeregisters(l)

ProcessStep(s) == (MainStep(s) \/ WatcherStep(s)) /\ UNCHANGED launcherVars

FaultStep(s) == (AcceptError(s) \/ Crash(s)) /\ UNCHANGED launcherVars

TimeStep == Tick /\ UNCHANGED launcherVars

\* Every launcher has ended and so has every server: nothing is left to happen.
Quiescent ==
    /\ \A l \in Launcher : pc[l] \in Gone /\ phase[l] \in {"none"} \cup Ended
    /\ UNCHANGED vars

SystemStep ==
    \/ \E l \in Launcher : LauncherStep(l) \/ HandlerStep(l)
    \/ \E s \in Process : ProcessStep(s)
    \/ TimeStep

Next ==
    \/ SystemStep
    \/ \E l \in Launcher : GhidraStep(l)
    \/ \E s \in Process : FaultStep(s)
    \/ Quiescent

\* The machine does not stop while a thread has a step to take. No thread can
\* starve another for ever: polls are bounded, an accept() that times out goes
\* back to where it was and is no step, and the clock stops at IdleTimeout. So
\* this is all the fairness there is to ask for; nothing obliges Ghidra to end
\* a session, nor anything to fail.
Fairness == WF_vars(SystemStep)

Spec == Init /\ [][Next]_vars
FairSpec == Spec /\ Fairness
-----------------------------------------------------------------------------
(* Properties *)

TypeOK ==
    /\ platform \in Platforms
    /\ path \in Process \cup {None}
    /\ phase \in [Process -> Phase]
    /\ sock \in [Process -> {"none", "bound", "listen", "closed"}]
    /\ stop \in [Process -> BOOLEAN]
    /\ active \in [Process -> Nat]
    /\ idle \in [Process -> 0..IdleTimeout]
    /\ quiet \in [Process -> 0..IdleTimeout]
    /\ peer \in [Launcher -> Process \cup {None}]
    /\ session \in [Launcher -> Session]
    /\ late \subseteq Launcher
    /\ faults \in 0..MaxFaults
    /\ faulty \subseteq Process
    /\ pc \in [Launcher -> LauncherPc]
    /\ polls \in [Launcher -> 0..MaxPolls]

\* AngrServer._active is at every moment the number of sessions whose handler
\* is between its two critical sections, however sessions end and whatever
\* ends the process: what the idle watcher decides by is not drifting.
ActiveCountsSessions ==
    \A s \in Process : active[s] = Cardinality(Counted(s))

\* The idle watcher sets _stop only when no counted session has been there for
\* a whole timeout: neither a session that is still open nor one that has only
\* just ended is mistaken for idleness, although _last_active is not touched
\* when a session begins.
StopOnlyWhenQuiet ==
    [][\A s \in Process : ~stop[s] /\ stop'[s] => quiet[s] = IdleTimeout]_vars

\* Only a session counted after _stop was set can be cut off by a server that
\* has had no fault: whatever was counted before the watcher decided is safe.
OnlyLateSessionsKilled ==
    \A l \in Launcher : session[l] = "killed" => l \in late

\* A socket file that names an ended process was left behind by a crash: every
\* other way out of main, a failed bind or chmod included, leaves no such file,
\* even when servers replace and remove each other's files.
StaleFileNeedsCrash ==
    \A s \in Process : path = s /\ phase[s] \in Ended => phase[s] = "crashed"

\* When Ghidra closes a launcher's stdin the launcher ends, in whatever state
\* the server at the other end is: a server that is closing down, or whose
\* socket file is gone, handles or resets every connection the kernel took for
\* it and leaves no client waiting for ever.
EofEndsLauncher ==
    \A l \in Launcher : pc[l] = "eof" ~> pc[l] \in Gone

\* "It disappears shortly after Ghidra is closed and never lingers" (module
\* docstring): once every launcher is gone every server process ends, those
\* included that no launcher can reach any more.
NeverLingers ==
    \A s \in Process :
        (\A l \in Launcher : pc[l] \in Gone) ~> phase[s] \in {"none"} \cup Ended
=============================================================================
