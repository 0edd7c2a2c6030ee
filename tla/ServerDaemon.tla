---------------------------- MODULE ServerDaemon ----------------------------
(***************************************************************************)
(* The long-lived server processes of core/server_daemon.py: binding the   *)
(* socket (main, _bind_unix, _bind_tcp), the accept loop of the main       *)
(* thread (serve_forever), the idle watcher thread (_idle_watch), one      *)
(* handler thread per connection (_handle), and the end of the process.    *)
(*                                                                         *)
(* A launcher starts at most one server process, so a process carries the  *)
(* name of the launcher that started it; it owns at most one connection,   *)
(* so a session carries the name of the launcher at its client end.        *)
(* Module SharedServer composes these processes with the launchers.        *)
(***************************************************************************)
EXTENDS Naturals, FiniteSets

CONSTANTS
    Launcher,     \* the `decompile` processes Ghidra starts
    None,         \* "no process": an absent socket file, an unconnected launcher
    Platforms,    \* the transports to consider, some of {"unix", "tcp"}
    IdleTimeout,  \* --idle, in ticks of the model's clock
    MaxFaults     \* bound on server crashes and accept() failures

ASSUME LauncherAssumption == IsFiniteSet(Launcher)
ASSUME NoneAssumption     == None \notin Launcher
ASSUME PlatformAssumption == Platforms \subseteq {"unix", "tcp"}
ASSUME IdleAssumption     == IdleTimeout \in Nat
ASSUME FaultAssumption    == MaxFaults \in Nat

VARIABLES
    platform,  \* the transport of this machine, fixed
    path,      \* the process whose socket (token) the agreed file names, or None
    phase,     \* where the main thread of each server process is
    sock,      \* the listening socket of each process
    stop,      \* AngrServer._stop
    active,    \* AngrServer._active
    idle,      \* time since AngrServer._last_active, counted to IdleTimeout
    quiet,     \* history: time since a counted session was last there
    peer,      \* the server process each launcher's connection leads to
    session,   \* how far that process has taken the connection
    late,      \* history: sessions counted after _stop was set
    faults,    \* crashes and accept() failures so far
    faulty     \* processes that suffered one

fileVars    == <<platform, path>>
mainVars    == <<phase, sock>>
counterVars == <<stop, active, idle, quiet>>
sessionVars == <<peer, session, late>>
faultVars   == <<faults, faulty>>
serverVars  == <<fileVars, mainVars, counterVars, sessionVars, faultVars>>

Process == Launcher

Binding == {"started", "unlinked", "bound", "published", "listening"}
Leaving == {"cleanup", "exiting"}
Ended   == {"exited", "crashed"}
Phase   == {"none", "accept"} \cup Binding \cup Leaving \cup Ended

\* "queued": in the kernel's backlog; "accepted": its handler thread exists but
\* has not counted it; "serving": counted, AngrCore.serve is running; "closed":
\* the connection is closed and the handler has still to uncount it. The others
\* are final: "done", served to its end; "killed", cut off while it was served
\* by a process that had no fault; "lost", cut off otherwise.
Session == {"none", "queued", "accepted", "serving", "closed", "done", "lost", "killed"}

Alive(s)     == phase[s] \in {"accept"} \cup Leaving
Listening(s) == sock[s] = "listen"

\* The sessions the handler threads of s have counted and not yet uncounted.
Counted(s) == {l \in Launcher : peer[l] = s /\ session[l] \in {"serving", "closed"}}

DaemonInit ==
    /\ platform \in Platforms
    /\ path = None
    /\ phase = [s \in Process |-> "none"]
    /\ sock = [s \in Process |-> "none"]
    /\ stop = [s \in Process |-> FALSE]
    /\ active = [s \in Process |-> 0]
    /\ idle = [s \in Process |-> 0]
    /\ quiet = [s \in Process |-> 0]
    /\ peer = [l \in Launcher |-> None]
    /\ session = [l \in Launcher |-> "none"]
    /\ late = {}
    /\ faults = 0
    /\ faulty = {}

-----------------------------------------------------------------------------
(* main() up to serve_forever: bind and publish the socket. *)

Advance(s, from, to) ==
    /\ phase[s] = from
    /\ phase' = [phase EXCEPT ![s] = to]

\* os.unlink(path), whatever process the file belongs to.
UnlinkStale(s) ==
    /\ platform = "unix"
    /\ Advance(s, "started", "unlinked")
    /\ path' = None
    /\ UNCHANGED <<platform, sock, counterVars, sessionVars, faultVars>>

\* s.bind(path): creates the file, and fails when another process has bound
\* the path since it was unlinked; the exception ends the process.
BindUnix(s) ==
    /\ IF path = None
       THEN /\ Advance(s, "unlinked", "bound")
            /\ path' = s
            /\ sock' = [sock EXCEPT ![s] = "bound"]
       ELSE /\ Advance(s, "unlinked", "exited")
            /\ UNCHANGED <<path, sock>>
    /\ UNCHANGED <<platform, counterVars, sessionVars, faultVars>>

\* os.chmod(path): fails when another process has unlinked the file.
Chmod(s) ==
    /\ IF path # None
       THEN Advance(s, "bound", "published") /\ UNCHANGED sock
       ELSE /\ Advance(s, "bound", "exited")
            /\ sock' = [sock EXCEPT ![s] = "closed"]
    /\ UNCHANGED <<fileVars, counterVars, sessionVars, faultVars>>

\* s.listen(64), then AngrServer and serve_forever: _last_active is now.
Listen(s) ==
    /\ Advance(s, "published", "accept")
    /\ sock' = [sock EXCEPT ![s] = "listen"]
    /\ UNCHANGED <<fileVars, counterVars, sessionVars, faultVars>>

\* The TCP socket listens on a port of its own before the file names it.
BindTcp(s) ==
    /\ platform = "tcp"
    /\ Advance(s, "started", "listening")
    /\ sock' = [sock EXCEPT ![s] = "listen"]
    /\ UNCHANGED <<fileVars, counterVars, sessionVars, faultVars>>

\* os.replace(tmp, token_path), whatever process the file named.
PublishToken(s) ==
    /\ Advance(s, "listening", "accept")
    /\ path' = s
    /\ UNCHANGED <<platform, sock, counterVars, sessionVars, faultVars>>

-----------------------------------------------------------------------------
(* serve_forever: the main thread. *)

\* `while not self._stop`, tested as soon as accept() has returned. (A _stop set
\* between the two has the effect of one set before accept() returned.)
LoopTest(s) == IF stop[s] THEN "cleanup" ELSE "accept"

Accept(s) ==
    /\ Advance(s, "accept", LoopTest(s))
    /\ Listening(s)
    /\ \E l \in Launcher :
          /\ peer[l] = s /\ session[l] = "queued"
          /\ session' = [session EXCEPT ![l] = "accepted"]
    /\ UNCHANGED <<fileVars, sock, counterVars, peer, late, faultVars>>

\* socket.timeout after one second without a connection: worth a step only when
\* the loop then ends.
AcceptTimeout(s) ==
    /\ stop[s]
    /\ Advance(s, "accept", LoopTest(s))
    /\ Listening(s)
    /\ \A l \in Launcher : ~(peer[l] = s /\ session[l] = "queued")
    /\ UNCHANGED <<fileVars, sock, counterVars, sessionVars, faultVars>>

\* Mutant: the unlink is not in a finally clause, so this way out skips it.
AcceptClosedSkipsUnlink(s) ==
    /\ Advance(s, "accept", "exiting")
    /\ ~Listening(s)
    /\ UNCHANGED <<fileVars, sock, counterVars, sessionVars, faultVars>>

\* OSError because the idle watcher has closed the socket.
AcceptClosed(s) ==
    /\ Advance(s, "accept", "cleanup")
    /\ ~Listening(s)
    /\ UNCHANGED <<fileVars, sock, counterVars, sessionVars, faultVars>>

\* OSError for another reason (no file descriptor left): the loop ends too.
AcceptError(s) ==
    /\ faults < MaxFaults
    /\ Advance(s, "accept", "cleanup")
    /\ Listening(s)
    /\ faults' = faults + 1
    /\ faulty' = faulty \cup {s}
    /\ UNCHANGED <<fileVars, sock, counterVars, sessionVars>>

\* main's finally: os.unlink(socket_path), whatever process the file belongs to.
UnlinkOnExit(s) ==
    /\ Advance(s, "cleanup", "exiting")
    /\ path' = None
    /\ UNCHANGED <<platform, sock, counterVars, sessionVars, faultVars>>

\* What the end of process s does to its connections: the kernel closes them,
\* and the handler threads are daemon threads, so nothing waits for them.
CutOff(s, how) ==
    [l \in Launcher |->
        IF peer[l] # s \/ session[l] = "none" THEN session[l]
        ELSE CASE session[l] = "closed" -> "done"
               [] session[l] = "serving" /\ how = "exited" /\ s \notin faulty -> "killed"
               [] OTHER -> "lost"]

\* The process ends as `how`, its sockets are closed and its memory is gone.
Vanish(s, how) ==
    /\ phase' = [phase EXCEPT ![s] = how]
    /\ sock' = [sock EXCEPT ![s] = "closed"]
    /\ session' = CutOff(s, how)
    /\ peer' = [l \in Launcher |-> IF peer[l] = s /\ session[l] # "none" THEN None ELSE peer[l]]
    /\ stop' = [stop EXCEPT ![s] = FALSE]
    /\ active' = [active EXCEPT ![s] = 0]
    /\ idle' = [idle EXCEPT ![s] = 0]
    /\ quiet' = [quiet EXCEPT ![s] = 0]

ProcessExit(s) ==
    /\ phase[s] = "exiting"
    /\ Vanish(s, "exited")
    /\ UNCHANGED <<fileVars, late, faultVars>>

\* Killed, or a fault in native code: the file stays behind, stale.
Crash(s) ==
    /\ faults < MaxFaults
    /\ Alive(s) \/ phase[s] \in Binding
    /\ Vanish(s, "crashed")
    /\ faults' = faults + 1
    /\ faulty' = faulty \cup {s}
    /\ UNCHANGED <<fileVars, late>>

-----------------------------------------------------------------------------
(* _idle_watch: the idle watcher thread. *)

\* Mutant: the watcher looks at the clock alone.
StopByClock(s) ==
    /\ Alive(s)
    /\ ~stop[s]
    /\ idle[s] = IdleTimeout
    /\ stop' = [stop EXCEPT ![s] = TRUE]
    /\ UNCHANGED <<fileVars, mainVars, active, idle, quiet, sessionVars, faultVars>>

\* One pass of the loop under _cv that finds no session and no time left.
StopWhenIdle(s) ==
    /\ Alive(s)
    /\ ~stop[s]
    /\ active[s] = 0
    /\ idle[s] = IdleTimeout
    /\ stop' = [stop EXCEPT ![s] = TRUE]
    /\ UNCHANGED <<fileVars, mainVars, active, idle, quiet, sessionVars, faultVars>>

\* Outside _cv: self._sock.close().
CloseSocket(s) ==
    /\ Alive(s)
    /\ stop[s]
    /\ Listening(s)
    /\ sock' = [sock EXCEPT ![s] = "closed"]
    /\ UNCHANGED <<fileVars, phase, counterVars, sessionVars, faultVars>>

-----------------------------------------------------------------------------
(* _handle: the handler thread of the session of launcher l. *)

\* Mutant: the session is not counted.
HandlerEntersUncounted(l) ==
    /\ session[l] = "accepted"
    /\ late' = IF stop[peer[l]] THEN late \cup {l} ELSE late
    /\ quiet' = [quiet EXCEPT ![peer[l]] = 0]
    /\ session' = [session EXCEPT ![l] = "serving"]
    /\ UNCHANGED <<fileVars, mainVars, stop, active, idle, peer, faultVars>>

HandlerEnters(l) ==
    /\ session[l] = "accepted"
    /\ LET s == peer[l] IN
          /\ active' = [active EXCEPT ![s] = @ + 1]
          /\ quiet' = [quiet EXCEPT ![s] = 0]
          /\ late' = IF stop[s] THEN late \cup {l} ELSE late
    /\ session' = [session EXCEPT ![l] = "serving"]
    /\ UNCHANGED <<fileVars, mainVars, stop, idle, peer, faultVars>>

\* Mutant: without a finally clause an error leaves the session counted.
HandlerDies(l) ==
    /\ session[l] = "serving"
    /\ session' = [session EXCEPT ![l] = "done"]
    /\ peer' = [peer EXCEPT ![l] = None]
    /\ UNCHANGED <<fileVars, mainVars, counterVars, late, faultVars>>

\* AngrCore.serve returns or raises; the finally clause closes the connection.
HandlerCloses(l) ==
    /\ session[l] = "serving"
    /\ session' = [session EXCEPT ![l] = "closed"]
    /\ UNCHANGED <<fileVars, mainVars, counterVars, peer, late, faultVars>>

\* Mutant: _last_active is left as it was.
HandlerLeavesClock(l) ==
    /\ session[l] = "closed"
    /\ active' = [active EXCEPT ![peer[l]] = @ - 1]
    /\ session' = [session EXCEPT ![l] = "done"]
    /\ peer' = [peer EXCEPT ![l] = None]
    /\ UNCHANGED <<fileVars, mainVars, stop, idle, quiet, late, faultVars>>

HandlerLeaves(l) ==
    /\ session[l] = "closed"
    /\ LET s == peer[l] IN
          /\ active' = [active EXCEPT ![s] = @ - 1]
          /\ idle' = [idle EXCEPT ![s] = 0]
    /\ session' = [session EXCEPT ![l] = "done"]
    /\ peer' = [peer EXCEPT ![l] = None]
    /\ UNCHANGED <<fileVars, mainVars, stop, quiet, late, faultVars>>

-----------------------------------------------------------------------------
(* The clock the idle watcher reads. *)

Tick ==
    /\ \E s \in Process : Alive(s) /\ (idle[s] < IdleTimeout \/ quiet[s] < IdleTimeout)
    /\ idle' = [s \in Process |->
                   IF Alive(s) /\ idle[s] < IdleTimeout THEN idle[s] + 1 ELSE idle[s]]
    /\ quiet' = [s \in Process |->
                   IF Counted(s) # {} THEN 0
                   ELSE IF Alive(s) /\ quiet[s] < IdleTimeout THEN quiet[s] + 1
                   ELSE quiet[s]]
    /\ UNCHANGED <<fileVars, mainVars, stop, active, sessionVars, faultVars>>

MainStep(s) ==
    \/ UnlinkStale(s) \/ BindUnix(s) \/ Chmod(s) \/ Listen(s)
    \/ BindTcp(s) \/ PublishToken(s)
    \/ Accept(s) \/ AcceptTimeout(s) \/ AcceptClosed(s)
    \/ UnlinkOnExit(s) \/ ProcessExit(s)

WatcherStep(s) == StopWhenIdle(s) \/ CloseSocket(s)
=============================================================================
