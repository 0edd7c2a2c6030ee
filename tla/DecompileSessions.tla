------------------------- MODULE DecompileSessions --------------------------
(***************************************************************************)
(* The sessions of the server processes at work: cmd_decompileAt of        *)
(* core/angr_core.py, with the callbacks into each session's own Ghidra,   *)
(* the decompile lock the sessions of a process share, the image cache,    *)
(* the angr project of an image that sessions with the same program share, *)
(* and the scoped path with a project of its own.                          *)
(*                                                                         *)
(* Of what sessions write into a shared project the model keeps the names  *)
(* of its functions, and not the prototypes that are set with them. A      *)
(* request names the function it is about and those this one calls         *)
(* directly, and leaves the names of all others as earlier requests have   *)
(* left them.                                                              *)
(***************************************************************************)
EXTENDS ImageCache

CONSTANTS
    Function,    \* the functions of an image
    Calls,       \* of each function of each image: the constant targets of its blocks
                 \* that end in a call
    Mentions,    \* and the functions whose names angr prints in its text: called
                 \* (but for calls it drops), jumped to or pointed to
    MaxRequests, \* bound on the decompileAt commands of all sessions
    MaxCrashes   \* bound on the processes that die

ASSUME ProgramAssumption ==
    /\ Function # {}
    /\ Calls \in [Image -> [Function -> SUBSET Function]]
    /\ Mentions \in [Image -> [Function -> SUBSET Function]]

ASSUME RequestsAssumption == MaxRequests \in Nat
ASSUME CrashesAssumption  == MaxCrashes \in Nat

VARIABLES
    clientUp,      \* the sessions whose Ghidra is still there
    requests,      \* decompileAt commands so far
    decompileLock, \* AngrServer._decompile_lock of each process: its holder, or None
    func,          \* the function each session's request is about
    kbName,        \* each function's name in each process's project of each image:
                   \* the session whose Ghidra gave it, or None for a made-up one
    pending,       \* the functions each session has still to name
    private,       \* the sessions whose result is out of a scoped project
    text,          \* each function's name in the text each session has rendered
                   \* (None also where the text does not mention it)
    overtaken,     \* history: the functions that another session named in each
                   \* session's project after it had left the lock and before it rendered
    crashes        \* processes that have died

sessionVars == <<clientUp, requests, func>>
nameVars    == <<kbName, pending, overtaken>>
textVars    == <<private, text>>
workVars    == <<decompileLock, nameVars, textVars>>
vars == <<placeVars, at, cacheVars, sessionVars, workVars, crashes>>

\* The places of a session inside `with self._serialized()`.
Section == {"paramid", "probing", "entering", "found", "naming", "working", "scoped",
            "lowering"} \cup CacheSection
Place == {"new", "idle", "prelude", "waiting", "rendering", "responding", "ended"} \cup Section

Unnamed == [f \in Function |-> None]
NoFunc == CHOOSE f \in Function : TRUE   \* between requests: no function in particular

Init ==
    /\ CacheInit
    /\ at = [s \in Session |-> "new"]
    /\ clientUp = Session
    /\ requests = 0
    /\ decompileLock = [p \in Process |-> None]
    /\ func = [s \in Session |-> NoFunc]
    /\ kbName = [p \in Process |-> [i \in Image |-> Unnamed]]
    /\ pending = [s \in Session |-> {}]
    /\ private = {}
    /\ text = [s \in Session |-> Unnamed]
    /\ overtaken = [s \in Session |-> {}]
    /\ crashes = 0

-----------------------------------------------------------------------------
(* Before the lock *)

Connect(s) ==
    /\ Goes(s, "new", "idle")
    /\ UNCHANGED <<placeVars, cacheVars, sessionVars, workVars, crashes>>

Request(s) ==
    /\ s \in clientUp
    /\ requests < MaxRequests
    /\ Goes(s, "idle", "prelude")
    /\ requests' = requests + 1
    /\ \E f \in Function : func' = [func EXCEPT ![s] = f]
    /\ UNCHANGED <<placeVars, cacheVars, clientUp, workVars, crashes>>

\* The emitter's, function's, architecture's and window's callbacks: one that
\* fails fails the command.
Prelude(s) ==
    /\ \/ s \in clientUp /\ Goes(s, "prelude", "waiting")
       \/ Goes(s, "prelude", "responding")
    /\ UNCHANGED <<placeVars, cacheVars, sessionVars, workVars, crashes>>

\* Mutant: the sessions have no lock in common (AngrCore without decompile_lock).
TakeLockOfItsOwn(s) ==
    /\ \E to \in {"paramid", "probing", "scoped"} : Goes(s, "waiting", to)
    /\ decompileLock' = [decompileLock EXCEPT ![home[s]] = s]
    /\ UNCHANGED <<placeVars, cacheVars, sessionVars, nameVars, textVars, crashes>>

\* `with self._serialized()`; then the paramid action, the image cache, or (a
\* Thumb function, the cache turned off) the scoped path at once.
TakeLock(s) ==
    /\ decompileLock[home[s]] = None
    /\ \E to \in {"paramid", "probing", "scoped"} : Goes(s, "waiting", to)
    /\ decompileLock' = [decompileLock EXCEPT ![home[s]] = s]
    /\ UNCHANGED <<placeVars, cacheVars, sessionVars, nameVars, textVars, crashes>>

Release(s) == decompileLock' = [decompileLock EXCEPT ![home[s]] = None]

-----------------------------------------------------------------------------
(* Under the lock *)

\* _paramid swallows every failure and emits before the lock is released.
Paramid(s) ==
    /\ Goes(s, "paramid", "responding")
    /\ Release(s)
    /\ UNCHANGED <<placeVars, cacheVars, sessionVars, nameVars, textVars, crashes>>

\* probe_image: an exception frame reads as an unmapped page, so the image may
\* turn out to have no readable page.
Probe(s) ==
    /\ s \in clientUp
    /\ \E to \in {"entering", "scoped"} : Goes(s, "probing", to)
    /\ UNCHANGED <<placeVars, cacheVars, sessionVars, workVars, crashes>>

\* Mutant: the lock is not released when a callback raises.
ProbeHitsEofAndKeepsLock(s) ==
    /\ s \notin clientUp
    /\ Goes(s, "probing", "responding")
    /\ UNCHANGED <<placeVars, cacheVars, sessionVars, workVars, crashes>>

\* The end of the stream is no exception frame: it leaves the whole command.
ProbeHitsEof(s) ==
    /\ s \notin clientUp
    /\ Goes(s, "probing", "responding")
    /\ Release(s)
    /\ UNCHANGED <<placeVars, cacheVars, sessionVars, nameVars, textVars, crashes>>

UseCache(s) == CacheStep(s) /\ UNCHANGED <<placeVars, sessionVars, workVars, crashes>>

\* The functions a request names: its own, and the targets of its direct calls.
Named(s) == {func[s]} \cup Calls[image[s]][func[s]]

\* A name is set in the shared project, under the eyes of those who render from it.
SetName(s, f, whose) ==
    /\ kbName' = [kbName EXCEPT ![home[s]][image[s]][f] = whose]
    /\ overtaken' = [t \in Session |->
          IF home[t] = home[s] /\ image[t] = image[s] /\ at[t] = "rendering"
          THEN overtaken[t] \cup {f} ELSE overtaken[t]]

\* A clean function of the size Ghidra says gets the name Ghidra has for it, if it
\* has one (asked for before the lock); any other takes the scoped path.
Gate(s) ==
    /\ \/ Goes(s, "found", "scoped") /\ UNCHANGED nameVars
       \/ /\ Goes(s, "found", "naming")
          /\ \E whose \in {s, None} : SetName(s, func[s], whose)
          /\ pending' = [pending EXCEPT ![s] = Calls[image[s]][func[s]] \ {func[s]}]
    /\ UNCHANGED <<placeVars, cacheVars, sessionVars, decompileLock, textVars, crashes>>

\* Mutant: a function that has a name keeps it (function(name=) alone).
NameCallTargetIfNew(s) ==
    /\ at[s] = "naming"
    /\ \E f \in pending[s] :
          /\ \E whose \in {None} \cup ({s} \cap clientUp) :
                IF kbName[home[s]][image[s]][f] = None THEN SetName(s, f, whose)
                ELSE UNCHANGED <<kbName, overtaken>>
          /\ pending' = [pending EXCEPT ![s] = @ \ {f}]
    /\ UNCHANGED <<placeVars, at, cacheVars, sessionVars, decompileLock, textVars, crashes>>

\* One turn of the loop of _name_call_targets. Failed callbacks, the end of the
\* stream included, are swallowed, and a name is made up then.
NameCallTarget(s) ==
    /\ at[s] = "naming"
    /\ \E f \in pending[s] :
          /\ \E whose \in {None} \cup ({s} \cap clientUp) : SetName(s, f, whose)
          /\ pending' = [pending EXCEPT ![s] = @ \ {f}]
    /\ UNCHANGED <<placeVars, at, cacheVars, sessionVars, decompileLock, textVars, crashes>>

\* After the last target; or angr raises, and what has been named keeps its name.
NamingEnds(s) ==
    /\ \/ pending[s] = {} /\ Goes(s, "naming", "working")
       \/ Goes(s, "naming", "scoped")
    /\ pending' = [pending EXCEPT ![s] = {}]
    /\ UNCHANGED <<placeVars, cacheVars, sessionVars, decompileLock, kbName, overtaken, textVars,
                   crashes>>

\* The Decompiler runs on the shared project; one that fails, or produces no
\* code, is followed by the scoped path.
Decompile(s) ==
    /\ \E to \in {"lowering", "scoped"} : Goes(s, "working", to)
    /\ UNCHANGED <<placeVars, cacheVars, sessionVars, workVars, crashes>>

\* _decompile: a project of its own, named by its own Ghidra.
DecompileScoped(s) ==
    /\ Goes(s, "scoped", "lowering")
    /\ private' = private \cup {s}
    /\ UNCHANGED <<placeVars, cacheVars, sessionVars, decompileLock, nameVars, text, crashes>>

DecompileScopedFails(s) ==
    /\ Goes(s, "scoped", "responding")
    /\ Release(s)
    /\ UNCHANGED <<placeVars, cacheVars, sessionVars, nameVars, textVars, crashes>>

\* _build_pcode and VariableSymbolTable.build ask for registers: the first
\* swallows failures, the second does not.
Lower(s) ==
    /\ \E to \in {"rendering", "responding"} : Goes(s, "lowering", to)
    /\ Release(s)
    /\ UNCHANGED <<placeVars, cacheVars, sessionVars, nameVars, textVars, crashes>>

-----------------------------------------------------------------------------
(* After the lock *)

\* emit_doc renders the code: angr prints the name of a function other than the
\* one whose code it is as it finds it in the project. (The name in the heading is
\* the one the Decompiler was run with.)
Render(s) ==
    /\ Goes(s, "rendering", "responding")
    /\ text' = [text EXCEPT ![s] = [f \in Function |->
          IF f \notin Mentions[image[s]][func[s]] THEN None
          ELSE IF s \notin private THEN kbName[home[s]][image[s]][f]
          ELSE IF f \in Named(s) THEN s ELSE None]]
    /\ UNCHANGED <<placeVars, cacheVars, sessionVars, decompileLock, nameVars, private, crashes>>

\* end_response, and read_command again; a client that has gone ends the session
\* at the one or the other. What the request was about is forgotten.
Respond(s) ==
    /\ Goes(s, "responding", IF s \in clientUp THEN "idle" ELSE "ended")
    /\ func' = [func EXCEPT ![s] = NoFunc]
    /\ private' = private \ {s}
    /\ text' = [text EXCEPT ![s] = Unnamed]
    /\ overtaken' = [overtaken EXCEPT ![s] = {}]
    /\ UNCHANGED <<placeVars, cacheVars, clientUp, requests, decompileLock, kbName, pending,
                   crashes>>

EofEndsSession(s) ==
    /\ s \notin clientUp
    /\ Goes(s, "idle", "ended")
    /\ UNCHANGED <<placeVars, cacheVars, sessionVars, workVars, crashes>>

ClientGoes(s) ==
    /\ s \in clientUp
    /\ at[s] # "new"
    /\ clientUp' = clientUp \ {s}
    /\ UNCHANGED <<placeVars, at, cacheVars, requests, func, workVars, crashes>>

\* The process dies with the sessions it serves; a session that has still to
\* connect is served by its successor.
Crash(p) ==
    /\ crashes < MaxCrashes
    /\ crashes' = crashes + 1
    /\ at' = [s \in Session |-> IF home[s] = p /\ at[s] # "new" THEN "ended" ELSE at[s]]
    /\ CacheDies(p)
    /\ decompileLock' = [decompileLock EXCEPT ![p] = None]
    /\ kbName' = [kbName EXCEPT ![p] = [i \in Image |-> Unnamed]]
    /\ UNCHANGED <<placeVars, sessionVars, pending, overtaken, textVars>>

-----------------------------------------------------------------------------
AngrStep(s) ==
    \/ TakeLock(s)
    \/ Paramid(s) \/ UseCache(s) \/ Gate(s) \/ NamingEnds(s)
    \/ Decompile(s) \/ DecompileScoped(s) \/ DecompileScopedFails(s)
    \/ Render(s) \/ Respond(s) \/ EofEndsSession(s)

\* Steps that wait for an answer, or the end of the stream.
CallbackStep(s) ==
    \/ Prelude(s) \/ Probe(s) \/ ProbeHitsEof(s) \/ NameCallTarget(s) \/ Lower(s)

Idle == (\A s \in Session : at[s] \in {"idle", "ended"}) /\ UNCHANGED vars

Next ==
    \/ \E s \in Session :
          \/ Connect(s) \/ Request(s) \/ ClientGoes(s)
          \/ AngrStep(s) \/ CallbackStep(s)
    \/ \E p \in Process : Crash(p)
    \/ Idle

\* A thread that can run runs, angr returns from every analysis, and every
\* Ghidra answers a callback or closes its stream. (While a session that holds
\* the lock waits for a Ghidra that does neither, the others wait with it.)
\* threading.Lock promises no order: with bounded requests weak fairness is
\* enough for the lock to come round.
Fairness == \A s \in Session : WF_vars(AngrStep(s)) /\ WF_vars(CallbackStep(s))

Spec == Init /\ [][Next]_vars
FairSpec == Spec /\ Fairness

-----------------------------------------------------------------------------
(* Properties *)

TypeOK ==
    /\ home \in [Session -> Process]
    /\ image \in [Session -> Image]
    /\ at \in [Session -> Place]
    /\ cacheLock \in [Process -> Session \cup {None}]
    /\ mem \in [Process -> SUBSET Image]
    /\ built \in [Process -> [Image -> Nat]]
    /\ adb \in [Image -> {"absent", "partial", "complete"}]
    /\ img \in [Session -> Nat]
    /\ clientUp \subseteq Session
    /\ requests \in 0..MaxRequests
    /\ decompileLock \in [Process -> Session \cup {None}]
    /\ func \in [Session -> Function]
    /\ kbName \in [Process -> [Image -> [Function -> Session \cup {None}]]]
    /\ pending \in [Session -> SUBSET Function]
    /\ private \subseteq Session
    /\ text \in [Session -> [Function -> Session \cup {None}]]
    /\ overtaken \in [Session -> SUBSET Function]
    /\ crashes \in 0..MaxCrashes

\* Both locks are held by exactly the session that is inside, on every way out
\* of the critical sections: results, fallbacks, exceptions of angr, the end of
\* the client's stream in the middle of a callback, the death of the process.
LocksFollowSections ==
    \A s \in Session :
        /\ decompileLock[home[s]] = s <=> at[s] \in Section
        /\ cacheLock[home[s]] = s <=> at[s] \in CacheSection

\* "angr work is not thread-safe, so serialize it across sessions": no two
\* sessions of a process are inside at the same time.
OneAtWork ==
    \A s, t \in Session :
        s # t /\ home[s] = home[t] => ~(at[s] \in Section /\ at[t] \in Section)

\* While angr decompiles out of a shared project, the function and those it calls
\* directly have the names the session's own Ghidra gave them, or made-up ones,
\* whichever sessions have named them before and whatever their callbacks did.
NamesAtWork ==
    \A s \in Session : at[s] = "working" =>
        \A f \in Named(s) : kbName[home[s]][image[s]][f] \in {s, None}

\* In the text a session answers with they still have, but for one way: emit_doc
\* runs after the lock is released (angr_core.py:227), and in between another
\* session has named the same function of the same project. (Of functions that a
\* request does not name nothing is said: RenderedNamesAreOwn.)
OwnNamesUnlessOvertaken ==
    \A s \in Session : \A f \in Named(s) :
        text[s][f] \notin {s, None} => f \in overtaken[s]

\* "The lock also prevents redundant concurrent image builds": a process builds
\* the CFG of an image at most once, whoever asks for it and whenever.
BuiltOnce ==
    \A p \in Process : \A i \in Image : built[p][i] <= 1

\* Every decompileAt is answered, or its session ends: no session is left
\* waiting for a lock, whatever became of the sessions before it.
RequestEnds ==
    \A s \in Session : at[s] = "prelude" ~> at[s] \in {"idle", "ended"}

-----------------------------------------------------------------------------
(* What comments say and the code does not do *)

\* "Ghidra is the authority for the name (resolving PLT thunks to `strcmp`, `open`,
\* ...)", and angr work is serialized across sessions: the names in a text do not
\* depend on what other sessions, with other Ghidras, do or have done. (They do:
\* when a session is overtaken, and for functions that its request does not name,
\* the targets of tail jumps and function pointers.)
RenderedNamesAreOwn ==
    \A s \in Session : \A f \in Function : text[s][f] \in {s, None}
=============================================================================
