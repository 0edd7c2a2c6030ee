----------------------- MODULE DecompileSessionsProofs -----------------------
(***************************************************************************)
(* Proofs about DecompileSessions, for any sets of sessions, processes and *)
(* images and any bounds: the locks follow the critical sections, angr     *)
(* works for one session of a process at a time and under the names of     *)
(* that session, and no image is built twice. And about ImageProbe: the    *)
(* bytes read of an image are in their places, and a run that fits is read *)
(* whole from whichever of its pages the probe starts.                     *)
(***************************************************************************)
EXTENDS DecompileSessions, ImageProbe, TLAPS

\* What makes BuiltOnce inductive. An image that was built is in memory, unless
\* the session that built it has still to put it there; so one that is being
\* looked for in vain, loaded or built was not built before.
BuiltIsKept ==
    \A p \in Process : \A i \in Image :
        /\ built[p][i] \in {0, 1}
        /\ built[p][i] = 1 =>
              \/ i \in mem[p]
              \/ \E s \in Session : /\ home[s] = p /\ image[s] = i
                                    /\ at[s] \in {"dumping", "memoizing"}

\* A session about to build holds an image its process has not built.
NotBuiltYet ==
    \A s \in Session : at[s] \in {"loading", "building"} => built[home[s]][image[s]] = 0

\* A build has a file to unlink.
ImageInUse ==
    \A s \in Session : at[s] \in {"building", "dumping", "memoizing"} => img[s] > 0

\* What makes NamesAtWork inductive: of the functions a session is to name, those it
\* no longer has to have the names it gave them.
NamesSoFar ==
    \A s \in Session : at[s] \in {"naming", "working"} =>
        \A f \in Named(s) :
            \/ kbName[home[s]][image[s]][f] \in {s, None}
            \/ at[s] = "naming" /\ f \in pending[s]

\* The inductive invariant.
IInv == TypeOK /\ ImageInUse /\ LocksFollowSections /\ NamesSoFar /\ BuiltIsKept /\ NotBuiltYet

-----------------------------------------------------------------------------
(* The locks *)

\* A session moves from one place to another, and takes or releases a lock just
\* when it enters or leaves the section the lock guards.
Locking(lock, newLock, s, from, to, section) ==
    \/ (from \in section <=> to \in section) /\ newLock = lock
    \/ /\ from \notin section /\ to \in section
       /\ lock[home[s]] = None /\ newLock = [lock EXCEPT ![home[s]] = s]
    \/ /\ from \in section /\ to \notin section
       /\ newLock = [lock EXCEPT ![home[s]] = None]

\* Such a move keeps the correspondence of locks and sections.
LEMMA MoveKeepsLocks ==
    ASSUME TypeOK, LocksFollowSections, NEW s \in Session, NEW from, NEW to,
           Goes(s, from, to), UNCHANGED home,
           Locking(decompileLock, decompileLock', s, from, to, Section),
           Locking(cacheLock, cacheLock', s, from, to, CacheSection)
    PROVE  LocksFollowSections'
<1> SUFFICES ASSUME NEW t \in Session
             PROVE  /\ decompileLock'[home[t]] = t <=> at'[t] \in Section
                    /\ cacheLock'[home[t]] = t <=> at'[t] \in CacheSection
    BY DEF LocksFollowSections
<1>1. at'[t] = IF t = s THEN to ELSE at[t]
    BY DEF Goes, TypeOK
<1>2. at[s] = from
    BY DEF Goes
<1>3. /\ home[s] \in Process /\ home[t] \in Process /\ s # None /\ t # None
      /\ decompileLock \in [Process -> Session \cup {None}]
      /\ cacheLock \in [Process -> Session \cup {None}]
    BY NobodyAssumption DEF TypeOK
<1>4. /\ decompileLock[home[s]] = s <=> from \in Section
      /\ cacheLock[home[s]] = s <=> from \in CacheSection
      /\ decompileLock[home[t]] = t <=> at[t] \in Section
      /\ cacheLock[home[t]] = t <=> at[t] \in CacheSection
    BY <1>2 DEF LocksFollowSections
<1>5. decompileLock'[home[t]] = t <=> at'[t] \in Section
    BY <1>1, <1>3, <1>4 DEF Locking
<1>6. cacheLock'[home[t]] = t <=> at'[t] \in CacheSection
    BY <1>1, <1>3, <1>4 DEF Locking
<1> QED BY <1>5, <1>6

-----------------------------------------------------------------------------
(* The names *)

\* The functions a request names are functions of its image.
LEMMA NamedAreFunctions ==
    ASSUME TypeOK, NEW s \in Session
    PROVE  /\ func[s] \in Function /\ func[s] \in Named(s)
           /\ Calls[image[s]][func[s]] \subseteq Function
           /\ Named(s) \subseteq Function
<1>1. func[s] \in Function /\ image[s] \in Image
    BY DEF TypeOK
<1>2. Calls[image[s]][func[s]] \in SUBSET Function
    BY <1>1, ProgramAssumption
<1> QED BY <1>1, <1>2 DEF Named

\* One name changes, for those who use the same project.
LEMMA SettingAName ==
    ASSUME TypeOK, NEW s \in Session, NEW f \in Function, NEW whose \in {s, None},
           SetName(s, f, whose)
    PROVE  /\ kbName' \in [Process -> [Image -> [Function -> Session \cup {None}]]]
           /\ overtaken' \in [Session -> SUBSET Function]
           /\ \A p \in Process, i \in Image, g \in Function :
                 kbName'[p][i][g] = IF p = home[s] /\ i = image[s] /\ g = f THEN whose
                                    ELSE kbName[p][i][g]
           /\ \A t \in Session :
                 overtaken'[t] = IF home[t] = home[s] /\ image[t] = image[s] /\ at[t] = "rendering"
                                 THEN overtaken[t] \cup {f} ELSE overtaken[t]
<1>1. /\ home[s] \in Process /\ image[s] \in Image
      /\ kbName \in [Process -> [Image -> [Function -> Session \cup {None}]]]
      /\ overtaken \in [Session -> SUBSET Function]
    BY DEF TypeOK
<1> DEFINE row == [kbName[home[s]][image[s]] EXCEPT ![f] = whose]
           rows == [kbName[home[s]] EXCEPT ![image[s]] = row]
<1>2. kbName' = [kbName EXCEPT ![home[s]] = rows]
    BY DEF SetName
<1>3. /\ row \in [Function -> Session \cup {None}]
      /\ \A g \in Function : row[g] = IF g = f THEN whose ELSE kbName[home[s]][image[s]][g]
    BY <1>1
<1>4. /\ rows \in [Image -> [Function -> Session \cup {None}]]
      /\ \A i \in Image : rows[i] = IF i = image[s] THEN row ELSE kbName[home[s]][i]
    <2> HIDE DEF row
    <2> QED BY <1>1, <1>3
<1>5. /\ kbName' \in [Process -> [Image -> [Function -> Session \cup {None}]]]
      /\ \A p \in Process : kbName'[p] = IF p = home[s] THEN rows ELSE kbName[p]
    <2> HIDE DEF rows, row
    <2> QED BY <1>1, <1>2, <1>4
<1>6. \A p \in Process, i \in Image, g \in Function :
          kbName'[p][i][g] = IF p = home[s] /\ i = image[s] /\ g = f THEN whose
                             ELSE kbName[p][i][g]
    <2> HIDE DEF rows, row
    <2> QED BY <1>3, <1>4, <1>5
<1>7. /\ overtaken' \in [Session -> SUBSET Function]
      /\ \A t \in Session :
            overtaken'[t] = IF home[t] = home[s] /\ image[t] = image[s] /\ at[t] = "rendering"
                            THEN overtaken[t] \cup {f} ELSE overtaken[t]
    BY <1>1 DEF SetName
<1> QED BY <1>5, <1>6, <1>7

\* What the gate does when it lets a function through, and each turn of the loop.
LEMMA Naming ==
    ASSUME TypeOK, NEW s \in Session,
           NameCallTarget(s) \/ (Gate(s) /\ Goes(s, "found", "naming"))
    PROVE  \E f \in Function, whose \in {s, None} :
             /\ SetName(s, f, whose)
             /\ at[s] \in {"found", "naming"}
             /\ \A t \in Session : at'[t] = IF t = s THEN "naming" ELSE at[t]
             /\ pending' \in [Session -> SUBSET Function]
             /\ \A t \in Session : t # s => pending'[t] = pending[t]
             /\ \A g \in Named(s) : \/ g = f
                                    \/ g \in pending'[s]
                                    \/ at[s] = "naming" /\ g \notin pending[s]
             /\ UNCHANGED <<placeVars, cacheVars, sessionVars, decompileLock, textVars, crashes>>
<1>1. /\ pending \in [Session -> SUBSET Function] /\ at \in [Session -> Place]
      /\ func[s] \in Function /\ Calls[image[s]][func[s]] \subseteq Function
    BY NamedAreFunctions DEF TypeOK
<1>2. CASE NameCallTarget(s)
    <2>1. PICK f \in pending[s] :
              /\ \E whose \in {None} \cup ({s} \cap clientUp) : SetName(s, f, whose)
              /\ pending' = [pending EXCEPT ![s] = @ \ {f}]
        BY <1>2 DEF NameCallTarget
    <2>2. /\ at[s] = "naming" /\ at' = at
          /\ UNCHANGED <<placeVars, cacheVars, sessionVars, decompileLock, textVars, crashes>>
        BY <1>2 DEF NameCallTarget
    <2>3. PICK whose \in {s, None} : SetName(s, f, whose)
        BY <2>1
    <2>4. /\ f \in Function /\ pending' \in [Session -> SUBSET Function]
          /\ pending'[s] = pending[s] \ {f}
          /\ \A t \in Session : t # s => pending'[t] = pending[t]
        BY <1>1, <2>1
    <2> QED BY <2>2, <2>3, <2>4
<1>3. CASE Gate(s) /\ Goes(s, "found", "naming")
    <2>1. /\ at[s] = "found" /\ at' = [at EXCEPT ![s] = "naming"]
          /\ UNCHANGED <<placeVars, cacheVars, sessionVars, decompileLock, textVars, crashes>>
        BY <1>3 DEF Gate, Goes
    <2>2. at'[s] = "naming" /\ \A t \in Session : at'[t] = IF t = s THEN "naming" ELSE at[t]
        BY <1>1, <2>1
    <2>3. /\ \E whose \in {s, None} : SetName(s, func[s], whose)
          /\ pending' = [pending EXCEPT ![s] = Calls[image[s]][func[s]] \ {func[s]}]
        BY <1>3, <2>2 DEF Gate, Goes, TypeOK
    <2>4. PICK whose \in {s, None} : SetName(s, func[s], whose)
        BY <2>3
    <2>5. /\ pending' \in [Session -> SUBSET Function]
          /\ pending'[s] = Calls[image[s]][func[s]] \ {func[s]}
          /\ \A t \in Session : t # s => pending'[t] = pending[t]
        BY <1>1, <2>3
    <2>6. \A g \in Named(s) : g = func[s] \/ g \in pending'[s]
        BY <2>5 DEF Named
    <2> QED BY <1>1, <2>1, <2>2, <2>4, <2>5, <2>6
<1> QED BY <1>2, <1>3

-----------------------------------------------------------------------------
(* The steps, one by one: types *)

\* The steps of the image cache keep the types.
LEMMA CacheKeepsTypes ==
    ASSUME TypeOK, ImageInUse, NEW s \in Session, UseCache(s)
    PROVE  TypeOK'
<1> USE DEF TypeOK, Place, Section, CacheSection, placeVars, sessionVars, workVars, nameVars,
            textVars, Goes, LeaveCache, BeginBuild, UseCache
<1>1. CASE EnterCache(s)
    BY <1>1 DEF EnterCache
<1>2. CASE MemoryHit(s)
    BY <1>2 DEF MemoryHit
<1>3. CASE MemoryMiss(s)
    <2>1. UNCHANGED <<built, adb>>
        BY <1>3 DEF MemoryMiss
    <2>2. CASE BeginBuild(s, "lookup") /\ UNCHANGED <<cacheLock, mem>>
        BY <2>1, <2>2
    <2>3. CASE /\ Goes(s, "lookup", "loading") /\ UNCHANGED <<img, cacheLock, mem>>
        BY <2>1, <2>3
    <2> QED BY <1>3, <2>2, <2>3 DEF MemoryMiss
<1>4. CASE Load(s)
    <2>1. UNCHANGED <<built, adb>>
        BY <1>4 DEF Load
    <2>2. CASE BeginBuild(s, "loading") /\ UNCHANGED <<cacheLock, mem>>
        BY <2>1, <2>2
    <2>3. CASE /\ Goes(s, "loading", "found") /\ LeaveCache(s) /\ UNCHANGED img
               /\ mem' = [mem EXCEPT ![home[s]] = @ \cup {image[s]}]
        BY <2>1, <2>3
    <2> QED BY <1>4, <2>2, <2>3 DEF Load
<1>5. CASE Build(s)
    BY <1>5 DEF Build
<1>6. CASE BuildFails(s)
    BY <1>6 DEF BuildFails
<1>7. CASE Dump(s)
    <2>1. PICK file \in {"complete", "partial", adb[image[s]]} :
              adb' = [adb EXCEPT ![image[s]] = file]
        BY <1>7 DEF Dump
    <2>2. adb' \in [Image -> {"absent", "partial", "complete"}]
        BY <2>1
    <2> QED BY <1>7, <2>2 DEF Dump
<1>8. CASE Memoize(s)
    BY <1>8 DEF Memoize, ImageInUse
<1> QED BY <1>1, <1>2, <1>3, <1>4, <1>5, <1>6, <1>7, <1>8 DEF CacheStep

\* The other steps of a session keep the types.
LEMMA SessionKeepsTypes ==
    ASSUME TypeOK, NEW s \in Session,
           \/ Connect(s) \/ Request(s) \/ ClientGoes(s)
           \/ TakeLock(s) \/ Paramid(s) \/ Gate(s) \/ NamingEnds(s)
           \/ Decompile(s) \/ DecompileScoped(s) \/ DecompileScopedFails(s)
           \/ Render(s) \/ Respond(s) \/ EofEndsSession(s)
           \/ CallbackStep(s)
    PROVE  TypeOK'
<1>0. ASSUME NameCallTarget(s) \/ (Gate(s) /\ Goes(s, "found", "naming")) PROVE TypeOK'
    <2>1. PICK f \in Function, whose \in {s, None} :
             /\ SetName(s, f, whose)
             /\ pending' \in [Session -> SUBSET Function]
             /\ UNCHANGED <<placeVars, cacheVars, sessionVars, decompileLock, textVars, crashes>>
        BY <1>0, Naming
    <2>2. /\ kbName' \in [Process -> [Image -> [Function -> Session \cup {None}]]]
          /\ overtaken' \in [Session -> SUBSET Function]
        BY <2>1, SettingAName
    <2>3. at' \in [Session -> Place]
        BY <1>0 DEF TypeOK, NameCallTarget, Goes, Place, Section
    <2> QED BY <2>1, <2>2, <2>3 DEF TypeOK, placeVars, cacheVars, sessionVars, textVars
<1>a. NoFunc \in Function /\ Unnamed \in [Function -> Session \cup {None}]
    BY ProgramAssumption DEF NoFunc, Unnamed
<1> USE RequestsAssumption
<1> USE DEF TypeOK, Place, Section, CacheSection, placeVars, cacheVars, sessionVars, workVars,
            nameVars, textVars, Goes, Release
<1>1. CASE Connect(s)
    BY <1>1 DEF Connect
<1>2. CASE Request(s)
    BY <1>2 DEF Request
<1>3. CASE ClientGoes(s)
    BY <1>3 DEF ClientGoes
<1>4. CASE TakeLock(s)
    BY <1>4 DEF TakeLock
<1>5. CASE Paramid(s)
    BY <1>5 DEF Paramid
<1>6. CASE Gate(s) /\ ~Goes(s, "found", "naming")
    BY <1>6 DEF Gate
<1>7. CASE Decompile(s)
    BY <1>7 DEF Decompile
<1>8. CASE DecompileScoped(s)
    BY <1>8 DEF DecompileScoped
<1>9. CASE DecompileScopedFails(s)
    BY <1>9 DEF DecompileScopedFails
<1>10. CASE Render(s)
    <2> DEFINE names == [f \in Function |->
                            IF f \notin Mentions[image[s]][func[s]] THEN None
                            ELSE IF s \notin private THEN kbName[home[s]][image[s]][f]
                            ELSE IF f \in Named(s) THEN s ELSE None]
    <2>1. text' = [text EXCEPT ![s] = names]
        BY <1>10 DEF Render
    <2>2. names \in [Function -> Session \cup {None}]
        OBVIOUS
    <2>3. text' \in [Session -> [Function -> Session \cup {None}]]
        <3> HIDE DEF names
        <3> QED BY <2>1, <2>2
    <2> QED BY <1>10, <2>3 DEF Render
<1>11. CASE Respond(s)
    BY <1>11, <1>a DEF Respond
<1>12. CASE EofEndsSession(s)
    BY <1>12 DEF EofEndsSession
<1>13. CASE Prelude(s)
    BY <1>13 DEF Prelude
<1>14. CASE Probe(s)
    BY <1>14 DEF Probe
<1>15. CASE ProbeHitsEof(s)
    BY <1>15 DEF ProbeHitsEof
<1>16. CASE NamingEnds(s)
    BY <1>16 DEF NamingEnds
<1>17. CASE Lower(s)
    BY <1>17 DEF Lower
<1> QED BY <1>0, <1>1, <1>2, <1>3, <1>4, <1>5, <1>6, <1>7, <1>8, <1>9, <1>10, <1>11, <1>12, <1>13, <1>14, <1>15, <1>16, <1>17 DEF CallbackStep

\* The death of a process keeps the types.
LEMMA CrashKeepsTypes ==
    ASSUME TypeOK, NEW p \in Process, Crash(p)
    PROVE  TypeOK'
BY CrashesAssumption
   DEF TypeOK, Place, Section, CacheSection, placeVars, sessionVars, textVars, Unnamed, Crash,
       CacheDies

-----------------------------------------------------------------------------
(* The steps, one by one: locks *)

\* The steps of the image cache keep locks and sections together.
LEMMA CacheKeepsLocks ==
    ASSUME TypeOK, LocksFollowSections, NEW s \in Session, UseCache(s)
    PROVE  LocksFollowSections'
<1> USE DEF Locking, Section, CacheSection, placeVars, workVars, nameVars, textVars, UseCache,
            LeaveCache
<1>1. CASE EnterCache(s)
    <2>1. Goes(s, "entering", "lookup")
        BY <1>1 DEF EnterCache
    <2> QED BY <1>1, <2>1, MoveKeepsLocks DEF EnterCache
<1>2. CASE MemoryHit(s)
    <2>1. Goes(s, "lookup", "found")
        BY <1>2 DEF MemoryHit
    <2> QED BY <1>2, <2>1, MoveKeepsLocks DEF MemoryHit
<1>3. CASE Build(s)
    <2>1. Goes(s, "building", "dumping")
        BY <1>3 DEF Build
    <2> QED BY <1>3, <2>1, MoveKeepsLocks DEF Build
<1>4. CASE BuildFails(s)
    <2>1. PICK from \in {"lookup", "loading", "building"} : Goes(s, from, "scoped")
        BY <1>4 DEF BuildFails
    <2> QED BY <1>4, <2>1, MoveKeepsLocks DEF BuildFails
<1>5. CASE Dump(s)
    <2>1. Goes(s, "dumping", "memoizing")
        BY <1>5 DEF Dump
    <2> QED BY <1>5, <2>1, MoveKeepsLocks DEF Dump
<1>6. CASE Memoize(s)
    <2>1. Goes(s, "memoizing", "found")
        BY <1>6 DEF Memoize
    <2> QED BY <1>6, <2>1, MoveKeepsLocks DEF Memoize
<1>7. CASE MemoryMiss(s)
    <2>1. Goes(s, "lookup", "building") \/ Goes(s, "lookup", "loading")
        BY <1>7 DEF MemoryMiss, BeginBuild
    <2> QED BY <1>7, <2>1, MoveKeepsLocks DEF MemoryMiss
<1>8. CASE Load(s)
    <2>1. CASE Goes(s, "loading", "found") /\ LeaveCache(s)
        BY <1>8, <2>1, MoveKeepsLocks DEF Load
    <2>2. CASE Goes(s, "loading", "building") /\ UNCHANGED cacheLock
        BY <1>8, <2>2, MoveKeepsLocks DEF Load
    <2> QED BY <1>8, <2>1, <2>2 DEF Load, BeginBuild
<1> QED BY <1>1, <1>2, <1>3, <1>4, <1>5, <1>6, <1>7, <1>8 DEF CacheStep, UseCache

\* So do the other steps of a session.
LEMMA SessionKeepsLocks ==
    ASSUME TypeOK, LocksFollowSections, NEW s \in Session,
           \/ Connect(s) \/ Request(s)
           \/ TakeLock(s) \/ Paramid(s) \/ Gate(s) \/ NamingEnds(s)
           \/ Decompile(s) \/ DecompileScoped(s) \/ DecompileScopedFails(s)
           \/ Render(s) \/ Respond(s) \/ EofEndsSession(s)
           \/ CallbackStep(s)
    PROVE  LocksFollowSections'
<1> USE DEF Locking, Section, CacheSection, placeVars, cacheVars, sessionVars, workVars, nameVars,
            textVars, Release
<1>1. CASE Connect(s)
    <2>1. Goes(s, "new", "idle")
        BY <1>1 DEF Connect
    <2> QED BY <1>1, <2>1, MoveKeepsLocks DEF Connect
<1>2. CASE Request(s)
    <2>1. Goes(s, "idle", "prelude")
        BY <1>2 DEF Request
    <2> QED BY <1>2, <2>1, MoveKeepsLocks DEF Request
<1>3. CASE Paramid(s)
    <2>1. Goes(s, "paramid", "responding")
        BY <1>3 DEF Paramid
    <2> QED BY <1>3, <2>1, MoveKeepsLocks DEF Paramid
<1>4. CASE DecompileScoped(s)
    <2>1. Goes(s, "scoped", "lowering")
        BY <1>4 DEF DecompileScoped
    <2> QED BY <1>4, <2>1, MoveKeepsLocks DEF DecompileScoped
<1>5. CASE DecompileScopedFails(s)
    <2>1. Goes(s, "scoped", "responding")
        BY <1>5 DEF DecompileScopedFails
    <2> QED BY <1>5, <2>1, MoveKeepsLocks DEF DecompileScopedFails
<1>6. CASE Render(s)
    <2>1. Goes(s, "rendering", "responding")
        BY <1>6 DEF Render
    <2> QED BY <1>6, <2>1, MoveKeepsLocks DEF Render
<1>7. CASE EofEndsSession(s)
    <2>1. Goes(s, "idle", "ended")
        BY <1>7 DEF EofEndsSession
    <2> QED BY <1>7, <2>1, MoveKeepsLocks DEF EofEndsSession
<1>8. CASE ProbeHitsEof(s)
    <2>1. Goes(s, "probing", "responding")
        BY <1>8 DEF ProbeHitsEof
    <2> QED BY <1>8, <2>1, MoveKeepsLocks DEF ProbeHitsEof
<1>9. CASE NameCallTarget(s)
    BY <1>9 DEF NameCallTarget, LocksFollowSections
<1>17. CASE NamingEnds(s)
    <2>1. PICK to \in {"working", "scoped"} : Goes(s, "naming", to)
        BY <1>17 DEF NamingEnds
    <2> QED BY <1>17, <2>1, MoveKeepsLocks DEF NamingEnds
<1>10. CASE TakeLock(s)
    <2>1. PICK to \in {"paramid", "probing", "scoped"} : Goes(s, "waiting", to)
        BY <1>10 DEF TakeLock
    <2> QED BY <1>10, <2>1, MoveKeepsLocks DEF TakeLock
<1>11. CASE Gate(s)
    <2>1. PICK to \in {"naming", "scoped"} : Goes(s, "found", to)
        BY <1>11 DEF Gate
    <2> QED BY <1>11, <2>1, MoveKeepsLocks DEF Gate
<1>12. CASE Decompile(s)
    <2>1. PICK to \in {"lowering", "scoped"} : Goes(s, "working", to)
        BY <1>12 DEF Decompile
    <2> QED BY <1>12, <2>1, MoveKeepsLocks DEF Decompile
<1>13. CASE Probe(s)
    <2>1. PICK to \in {"entering", "scoped"} : Goes(s, "probing", to)
        BY <1>13 DEF Probe
    <2> QED BY <1>13, <2>1, MoveKeepsLocks DEF Probe
<1>14. CASE Lower(s)
    <2>1. PICK to \in {"rendering", "responding"} : Goes(s, "lowering", to)
        BY <1>14 DEF Lower
    <2> QED BY <1>14, <2>1, MoveKeepsLocks DEF Lower
<1>15. CASE Prelude(s)
    <2>1. PICK to \in {"waiting", "responding"} : Goes(s, "prelude", to)
        BY <1>15 DEF Prelude
    <2> QED BY <1>15, <2>1, MoveKeepsLocks DEF Prelude
<1>16. CASE Respond(s)
    <2>1. PICK to \in {"idle", "ended"} : Goes(s, "responding", to)
        BY <1>16 DEF Respond
    <2> QED BY <1>16, <2>1, MoveKeepsLocks DEF Respond
<1> QED BY <1>1, <1>2, <1>3, <1>4, <1>5, <1>6, <1>7, <1>8, <1>9, <1>10, <1>11, <1>12, <1>13, <1>14,
           <1>15, <1>16, <1>17 DEF CallbackStep

\* And the death of a process, which frees its locks.
LEMMA CrashKeepsLocks ==
    ASSUME TypeOK, LocksFollowSections, NEW p \in Process, Crash(p)
    PROVE  LocksFollowSections'
<1> SUFFICES ASSUME NEW s \in Session
             PROVE  /\ decompileLock'[home[s]] = s <=> at'[s] \in Section
                    /\ cacheLock'[home[s]] = s <=> at'[s] \in CacheSection
    BY DEF LocksFollowSections, Crash, placeVars
<1>1. /\ home[s] \in Process /\ s # None
      /\ decompileLock[home[s]] = s <=> at[s] \in Section
      /\ cacheLock[home[s]] = s <=> at[s] \in CacheSection
    BY NobodyAssumption DEF TypeOK, LocksFollowSections
<1> QED
    BY <1>1 DEF TypeOK, Crash, CacheDies, Section, CacheSection

-----------------------------------------------------------------------------
(* The steps, one by one: names and images *)

\* The lock keeps the sessions of a process apart.
LEMMA Apart ==
    ASSUME TypeOK, LocksFollowSections
    PROVE  OneAtWork
BY DEF TypeOK, LocksFollowSections, OneAtWork

\* The places at which a session works on an image of its process.
Busy == {"loading", "building", "dumping", "memoizing"}

\* What the invariant says of names and images.
Contents == NamesSoFar /\ ImageInUse /\ BuiltIsKept /\ NotBuiltYet

\* A session that moves about outside the cache and does not begin to work with
\* the shared project leaves names and images as they should be.
LEMMA MoveKeepsContents ==
    ASSUME TypeOK, Contents, NEW s \in Session, NEW from, NEW to, Goes(s, from, to),
           from \notin Busy, to \notin Busy \cup {"naming", "working"},
           UNCHANGED <<placeVars, mem, built, img, kbName>>,
           \A t \in Session : t # s => func'[t] = func[t] /\ pending'[t] = pending[t]
    PROVE  Contents'
<1> USE DEF Contents, placeVars
<1>1. \A t \in Session : at'[t] = IF t = s THEN to ELSE at[t]
    BY DEF Goes, TypeOK
<1>2. at[s] = from
    BY DEF Goes
<1>3. NamesSoFar'
    BY <1>1 DEF NamesSoFar, Named
<1>4. ImageInUse' /\ NotBuiltYet'
    BY <1>1 DEF ImageInUse, NotBuiltYet, Busy
<1>5. BuiltIsKept'
    BY <1>1, <1>2 DEF BuiltIsKept, Busy
<1> QED BY <1>3, <1>4, <1>5

\* That is what most steps of a session do.
LEMMA SessionKeepsContents ==
    ASSUME TypeOK, LocksFollowSections, Contents, NEW s \in Session,
           \/ Connect(s) \/ Request(s)
           \/ TakeLock(s) \/ Paramid(s) \/ Gate(s) \/ NamingEnds(s)
           \/ Decompile(s) \/ DecompileScoped(s) \/ DecompileScopedFails(s)
           \/ Render(s) \/ Respond(s) \/ EofEndsSession(s)
           \/ CallbackStep(s)
    PROVE  Contents'
<1> USE DEF Busy, workVars, nameVars, cacheVars, sessionVars
<1>1. CASE Connect(s)
    <2>1. Goes(s, "new", "idle")
        BY <1>1 DEF Connect
    <2> QED BY <1>1, <2>1, MoveKeepsContents DEF Connect
<1>2. CASE Request(s)
    <2>1. Goes(s, "idle", "prelude")
        BY <1>2 DEF Request
    <2> QED BY <1>2, <2>1, MoveKeepsContents DEF Request, TypeOK
<1>3. CASE Paramid(s)
    <2>1. Goes(s, "paramid", "responding")
        BY <1>3 DEF Paramid
    <2> QED BY <1>3, <2>1, MoveKeepsContents DEF Paramid
<1>4. CASE DecompileScoped(s)
    <2>1. Goes(s, "scoped", "lowering")
        BY <1>4 DEF DecompileScoped
    <2> QED BY <1>4, <2>1, MoveKeepsContents DEF DecompileScoped
<1>5. CASE DecompileScopedFails(s)
    <2>1. Goes(s, "scoped", "responding")
        BY <1>5 DEF DecompileScopedFails
    <2> QED BY <1>5, <2>1, MoveKeepsContents DEF DecompileScopedFails
<1>6. CASE Render(s)
    <2>1. Goes(s, "rendering", "responding")
        BY <1>6 DEF Render
    <2> QED BY <1>6, <2>1, MoveKeepsContents DEF Render
<1>7. CASE EofEndsSession(s)
    <2>1. Goes(s, "idle", "ended")
        BY <1>7 DEF EofEndsSession
    <2> QED BY <1>7, <2>1, MoveKeepsContents DEF EofEndsSession
<1>8. CASE ProbeHitsEof(s)
    <2>1. Goes(s, "probing", "responding")
        BY <1>8 DEF ProbeHitsEof
    <2> QED BY <1>8, <2>1, MoveKeepsContents DEF ProbeHitsEof
<1>9. CASE TakeLock(s)
    <2>1. PICK to \in {"paramid", "probing", "scoped"} : Goes(s, "waiting", to)
        BY <1>9 DEF TakeLock
    <2> QED BY <1>9, <2>1, MoveKeepsContents DEF TakeLock
<1>10. CASE Gate(s) /\ ~Goes(s, "found", "naming")
    <2>1. Goes(s, "found", "scoped")
        BY <1>10 DEF Gate
    <2> QED BY <1>10, <2>1, MoveKeepsContents DEF Gate
<1>11. CASE Decompile(s)
    <2>1. PICK to \in {"lowering", "scoped"} : Goes(s, "working", to)
        BY <1>11 DEF Decompile
    <2> QED BY <1>11, <2>1, MoveKeepsContents DEF Decompile
<1>12. CASE Probe(s)
    <2>1. PICK to \in {"entering", "scoped"} : Goes(s, "probing", to)
        BY <1>12 DEF Probe
    <2> QED BY <1>12, <2>1, MoveKeepsContents DEF Probe
<1>13. CASE Lower(s)
    <2>1. PICK to \in {"rendering", "responding"} : Goes(s, "lowering", to)
        BY <1>13 DEF Lower
    <2> QED BY <1>13, <2>1, MoveKeepsContents DEF Lower
<1>14. CASE Prelude(s)
    <2>1. PICK to \in {"waiting", "responding"} : Goes(s, "prelude", to)
        BY <1>14 DEF Prelude
    <2> QED BY <1>14, <2>1, MoveKeepsContents DEF Prelude
<1>15. CASE Respond(s)
    <2>1. PICK to \in {"idle", "ended"} : Goes(s, "responding", to)
        BY <1>15 DEF Respond
    <2> QED BY <1>15, <2>1, MoveKeepsContents DEF Respond, TypeOK
<1>16. CASE NameCallTarget(s) \/ (Gate(s) /\ Goes(s, "found", "naming"))
    <2>1. PICK f \in Function, whose \in {s, None} :
              /\ SetName(s, f, whose)
              /\ at[s] \in {"found", "naming"}
              /\ \A t \in Session : at'[t] = IF t = s THEN "naming" ELSE at[t]
              /\ \A t \in Session : t # s => pending'[t] = pending[t]
              /\ \A g \in Named(s) : \/ g = f
                                     \/ g \in pending'[s]
                                     \/ at[s] = "naming" /\ g \notin pending[s]
              /\ UNCHANGED <<placeVars, cacheVars, sessionVars>>
        BY <1>16, Naming
    <2>2. /\ home \in [Session -> Process] /\ image \in [Session -> Image]
          /\ UNCHANGED <<home, image, func, mem, built, img>>
        BY <2>1 DEF TypeOK, placeVars
    <2>3. \A p \in Process, i \in Image, g \in Function :
              kbName'[p][i][g] = IF p = home[s] /\ i = image[s] /\ g = f THEN whose
                                 ELSE kbName[p][i][g]
        BY <2>1, SettingAName
    <2>4. NamesSoFar'
        <3> SUFFICES ASSUME NEW t \in Session, at'[t] \in {"naming", "working"},
                            NEW g \in Named(t)
                     PROVE  \/ kbName'[home[t]][image[t]][g] \in {t, None}
                            \/ at'[t] = "naming" /\ g \in pending'[t]
            BY <2>2 DEF NamesSoFar, Named
        <3>1. g \in Function /\ home[t] \in Process /\ image[t] \in Image
            BY <2>2, NamedAreFunctions
        <3>2. CASE t = s
            <4>1. CASE g = f
                BY <2>3, <3>1, <3>2, <4>1
            <4>2. CASE g # f /\ g \notin pending'[s]
                <5>1. at[s] = "naming" /\ g \notin pending[s]
                    BY <2>1, <3>2, <4>2
                <5>2. kbName[home[s]][image[s]][g] \in {s, None}
                    BY <3>2, <5>1 DEF Contents, NamesSoFar
                <5> QED BY <2>3, <3>1, <3>2, <4>2, <5>2
            <4> QED BY <2>1, <3>2, <4>1, <4>2
        <3>3. CASE t # s
            <4>1. at'[t] = at[t] /\ pending'[t] = pending[t]
                BY <2>1, <3>3
            <4>2. home[t] # home[s]
                BY <2>1, <3>3, <4>1, Apart DEF OneAtWork, Section
            <4>3. kbName'[home[t]][image[t]][g] = kbName[home[t]][image[t]][g]
                BY <2>3, <3>1, <4>2
            <4> QED BY <4>1, <4>3 DEF Contents, NamesSoFar
        <3> QED BY <3>2, <3>3
    <2>5. ImageInUse' /\ NotBuiltYet'
        BY <2>1, <2>2 DEF Contents, ImageInUse, NotBuiltYet
    <2>6. BuiltIsKept'
        BY <2>1, <2>2 DEF Contents, BuiltIsKept
    <2> QED BY <2>4, <2>5, <2>6 DEF Contents
<1>17. CASE NamingEnds(s)
    <2>1. PICK to \in {"working", "scoped"} :
              Goes(s, "naming", to) /\ (to = "working" => pending[s] = {})
        BY <1>17 DEF NamingEnds
    <2>2. /\ \A t \in Session : at'[t] = IF t = s THEN to ELSE at[t]
          /\ \A t \in Session : t # s => pending'[t] = pending[t]
          /\ at[s] = "naming"
          /\ UNCHANGED <<home, image, func, mem, built, img, kbName>>
        BY <1>17, <2>1 DEF NamingEnds, Goes, TypeOK, placeVars
    <2>3. NamesSoFar'
        <3> SUFFICES ASSUME NEW t \in Session, at'[t] \in {"naming", "working"},
                            NEW g \in Named(t)
                     PROVE  \/ kbName[home[t]][image[t]][g] \in {t, None}
                            \/ at'[t] = "naming" /\ g \in pending'[t]
            BY <2>2 DEF NamesSoFar, Named
        <3> QED BY <2>1, <2>2 DEF Contents, NamesSoFar
    <2>4. ImageInUse' /\ NotBuiltYet'
        BY <2>2 DEF Contents, ImageInUse, NotBuiltYet
    <2>5. BuiltIsKept'
        BY <2>2 DEF Contents, BuiltIsKept
    <2> QED BY <2>3, <2>4, <2>5 DEF Contents
<1> QED BY <1>1, <1>2, <1>3, <1>4, <1>5, <1>6, <1>7, <1>8, <1>9, <1>10, <1>11, <1>12, <1>13, <1>14,
           <1>15, <1>16, <1>17 DEF CallbackStep

\* In the cache, names and files: a session there has the project to itself.
LEMMA CacheKeepsNames ==
    ASSUME TypeOK, Contents, NEW s \in Session, UseCache(s)
    PROVE  NamesSoFar' /\ ImageInUse'
<1>1. PICK to \in {"lookup", "found", "loading", "building", "dumping", "memoizing", "scoped"} :
          /\ at' = [at EXCEPT ![s] = to]
          /\ to \in {"dumping", "memoizing"} => at[s] \in {"building", "dumping"} /\ img' = img
    BY DEF UseCache, CacheStep, EnterCache, MemoryHit, MemoryMiss, BeginBuild, Load, Build,
           BuildFails, Dump, Memoize, Goes
<1>2. \A t \in Session : at'[t] = IF t = s THEN to ELSE at[t]
    BY <1>1 DEF TypeOK
<1>3. NamesSoFar'
    BY <1>2 DEF Contents, NamesSoFar, Named, UseCache, placeVars, sessionVars, workVars, nameVars
<1>4. /\ to = "building" => img'[s] = img[s] + 1
      /\ \A t \in Session : t # s => img'[t] = img[t]
    BY <1>1, <1>2 DEF UseCache, CacheStep, EnterCache, MemoryHit, MemoryMiss, BeginBuild, Load,
           Build, BuildFails, Dump, Memoize, Goes, TypeOK
<1>5. ImageInUse'
    BY <1>1, <1>2, <1>4 DEF Contents, ImageInUse, TypeOK
<1> QED BY <1>3, <1>5

\* And what was built: a session in the cache keeps the others of its process out.
LEMMA CacheKeepsBuilt ==
    ASSUME TypeOK, LocksFollowSections, Contents, NEW s \in Session, UseCache(s)
    PROVE  BuiltIsKept' /\ NotBuiltYet'
<1> USE DEF Contents, placeVars, UseCache
<1> DEFINE p == home[s]
           i == image[s]
<1>1. p \in Process /\ i \in Image /\ UNCHANGED placeVars
    BY DEF TypeOK
<1>2. ASSUME at[s] \in CacheSection, NEW t \in Session, t # s, home[t] = p
      PROVE  at[t] \notin Busy
    BY <1>2, Apart DEF OneAtWork, Section, CacheSection, Busy
<1>3. ASSUME at[s] \in {"lookup", "loading", "building"},
             at[s] = "lookup" => i \notin mem[p]
      PROVE  built[p][i] = 0
    <2>1. CASE at[s] = "lookup"
        BY <1>1, <1>2, <1>3, <2>1 DEF BuiltIsKept, Busy, CacheSection
    <2> QED BY <1>3, <2>1 DEF NotBuiltYet
<1>4. CASE EnterCache(s) \/ MemoryHit(s)
    <2>1. Goes(s, "entering", "lookup") \/ Goes(s, "lookup", "found")
        BY <1>4 DEF EnterCache, MemoryHit
    <2> QED BY <1>4, <2>1, MoveKeepsContents DEF EnterCache, MemoryHit, Busy, workVars, nameVars,
                                                 sessionVars
<1>5. CASE \/ MemoryMiss(s) \/ BuildFails(s) \/ Dump(s)
           \/ Load(s) /\ Goes(s, "loading", "building")
    <2>1. /\ \A t \in Session : t # s => at'[t] = at[t]
          /\ at[s] \in {"lookup", "loading", "building", "dumping"}
          /\ at[s] = "dumping" <=> at'[s] = "memoizing"
          /\ at'[s] \in {"loading", "building"} => at[s] \in {"lookup", "loading"}
          /\ at[s] = "lookup" => i \notin mem[p]
          /\ built' = built /\ mem' = mem
        BY <1>5 DEF MemoryMiss, Load, BeginBuild, BuildFails, Dump, Goes, TypeOK
    <2>2. NotBuiltYet'
        BY <1>1, <1>3, <2>1 DEF NotBuiltYet
    <2>3. BuiltIsKept'
        BY <1>1, <2>1 DEF BuiltIsKept
    <2> QED BY <2>2, <2>3
<1>6. CASE Memoize(s) \/ (Load(s) /\ Goes(s, "loading", "found"))
    <2>1. /\ \A t \in Session : t # s => at'[t] = at[t]
          /\ at'[s] = "found" /\ built' = built
          /\ mem' = [mem EXCEPT ![p] = @ \cup {i}]
        BY <1>6 DEF Memoize, Load, BeginBuild, Goes, TypeOK
    <2>2. NotBuiltYet'
        BY <1>1, <2>1 DEF NotBuiltYet
    <2>3. i \in mem'[p] /\ \A q \in Process : mem[q] \subseteq mem'[q]
        BY <1>1, <2>1 DEF TypeOK
    <2>4. BuiltIsKept'
        BY <1>1, <2>1, <2>3 DEF BuiltIsKept
    <2> QED BY <2>2, <2>4
<1>7. CASE Build(s)
    <2>1. /\ \A t \in Session : at'[t] = IF t = s THEN "dumping" ELSE at[t]
          /\ at[s] = "building" /\ mem' = mem
          /\ built' = [built EXCEPT ![p][i] = @ + 1]
        BY <1>7 DEF Build, Goes, TypeOK
    <2>2. built[p][i] = 0
        BY <1>3, <2>1
    <2>3. \A q \in Process, j \in Image :
              built'[q][j] = IF q = p /\ j = i THEN 1 ELSE built[q][j]
        BY <1>1, <2>1, <2>2 DEF TypeOK
    <2>4. NotBuiltYet'
        <3> SUFFICES ASSUME NEW t \in Session, at'[t] \in {"loading", "building"}
                     PROVE  built'[home[t]][image[t]] = 0
            BY <1>1 DEF NotBuiltYet
        <3>1. t # s /\ at[t] \in {"loading", "building"}
            BY <2>1
        <3>2. home[t] # p
            BY <1>2, <2>1, <3>1 DEF CacheSection, Busy
        <3> QED BY <2>3, <3>1, <3>2 DEF NotBuiltYet, TypeOK
    <2>5. BuiltIsKept'
        <3> SUFFICES ASSUME NEW q \in Process, NEW j \in Image
                     PROVE  /\ built'[q][j] \in {0, 1}
                            /\ built'[q][j] = 1 =>
                                  \/ j \in mem[q]
                                  \/ \E t \in Session : /\ home[t] = q /\ image[t] = j
                                                        /\ at'[t] \in {"dumping", "memoizing"}
            BY <1>1, <2>1 DEF BuiltIsKept
        <3>1. CASE q = p /\ j = i
            BY <2>1, <2>3, <3>1
        <3>2. CASE ~(q = p /\ j = i)
            BY <2>1, <2>3, <3>2 DEF BuiltIsKept
        <3> QED BY <3>1, <3>2
    <2> QED BY <2>4, <2>5
<1> QED BY <1>4, <1>5, <1>6, <1>7 DEF CacheStep, Load, BeginBuild

\* The death of a process clears the way for new ones.
LEMMA CrashKeepsContents ==
    ASSUME TypeOK, Contents, NEW p \in Process, Crash(p)
    PROVE  Contents'
<1>1. /\ \A t \in Session : at'[t] = IF home[t] = p /\ at[t] # "new" THEN "ended" ELSE at[t]
      /\ \A q \in Process : q # p => /\ mem'[q] = mem[q] /\ built'[q] = built[q]
                                    /\ kbName'[q] = kbName[q]
      /\ built'[p] = [i \in Image |-> 0]
      /\ img' = img /\ UNCHANGED <<placeVars, func, pending>>
    BY DEF Crash, CacheDies, TypeOK, sessionVars
<1> USE DEF Contents, placeVars, TypeOK
<1>2. NamesSoFar'
    BY <1>1 DEF NamesSoFar, Named
<1>3. ImageInUse'
    BY <1>1 DEF ImageInUse
<1>4. NotBuiltYet'
    <2> SUFFICES ASSUME NEW t \in Session, at'[t] \in {"loading", "building"}
                 PROVE  built'[home[t]][image[t]] = 0
        BY <1>1 DEF NotBuiltYet
    <2>1. home[t] # p /\ at'[t] = at[t]
        BY <1>1
    <2> QED BY <1>1, <2>1 DEF NotBuiltYet
<1>5. BuiltIsKept'
    <2> SUFFICES ASSUME NEW q \in Process, NEW i \in Image
                 PROVE  /\ built'[q][i] \in {0, 1}
                        /\ built'[q][i] = 1 =>
                              \/ i \in mem'[q]
                              \/ \E s \in Session : /\ home[s] = q /\ image[s] = i
                                                    /\ at'[s] \in {"dumping", "memoizing"}
        BY <1>1 DEF BuiltIsKept
    <2>1. CASE q = p
        BY <1>1, <2>1
    <2>2. CASE q # p
        <3> HIDE DEF TypeOK
        <3> QED BY <1>1, <2>2 DEF BuiltIsKept
    <2> QED BY <2>1, <2>2
<1> QED BY <1>2, <1>3, <1>5, <1>4

-----------------------------------------------------------------------------
(* The theorems *)

\* The invariant holds when no session has connected yet.
LEMMA InitInv == Init => IInv
<1> SUFFICES ASSUME Init PROVE IInv
    OBVIOUS
<1> USE DEF Init, CacheInit
<1>1. TypeOK
    BY RequestsAssumption, CrashesAssumption, ProgramAssumption
       DEF TypeOK, Place, NoFunc, Unnamed
<1>2. LocksFollowSections
    BY NobodyAssumption DEF LocksFollowSections, Section, CacheSection
<1>3. NamesSoFar /\ ImageInUse /\ NotBuiltYet
    BY DEF NamesSoFar, ImageInUse, NotBuiltYet
<1>4. BuiltIsKept
    BY DEF BuiltIsKept
<1> QED BY <1>1, <1>2, <1>3, <1>4 DEF IInv

\* A step that leaves the places and what the invariant speaks of alone.
LEMMA ClientGoesInv ==
    ASSUME IInv, NEW s \in Session, ClientGoes(s)
    PROVE  IInv'
<1> USE DEF IInv, ClientGoes, placeVars, cacheVars, workVars, nameVars
<1>1. TypeOK'
    BY SessionKeepsTypes
<1>2. LocksFollowSections'
    BY DEF LocksFollowSections
<1>3. NamesSoFar' /\ ImageInUse' /\ NotBuiltYet'
    BY DEF NamesSoFar, Named, ImageInUse, NotBuiltYet
<1>4. BuiltIsKept'
    BY DEF BuiltIsKept
<1> QED BY <1>1, <1>2, <1>3, <1>4

\* The invariant is inductive.
LEMMA StepInv == IInv /\ [Next]_vars => IInv'
<1> SUFFICES ASSUME IInv, [Next]_vars PROVE IInv'
    OBVIOUS
<1> USE DEF IInv, Contents
<1>1. ASSUME NEW s \in Session, UseCache(s) PROVE IInv'
    BY <1>1, CacheKeepsTypes, CacheKeepsLocks, CacheKeepsNames, CacheKeepsBuilt
<1>2. ASSUME NEW s \in Session,
             Connect(s) \/ Request(s) \/ CallbackStep(s) \/ (AngrStep(s) /\ ~UseCache(s))
      PROVE  IInv'
    BY <1>2, SessionKeepsTypes, SessionKeepsLocks, SessionKeepsContents DEF AngrStep
<1>3. ASSUME NEW p \in Process, Crash(p) PROVE IInv'
    BY <1>3, CrashKeepsTypes, CrashKeepsLocks, CrashKeepsContents
<1>4. CASE UNCHANGED vars
    <2> USE <1>4 DEF vars, placeVars, cacheVars, sessionVars, workVars, nameVars, textVars
    <2>1. TypeOK'
        BY DEF TypeOK
    <2>2. LocksFollowSections' /\ NamesSoFar' /\ ImageInUse' /\ NotBuiltYet'
        BY DEF LocksFollowSections, NamesSoFar, Named, ImageInUse, NotBuiltYet
    <2>3. BuiltIsKept'
        BY DEF BuiltIsKept
    <2> QED BY <2>1, <2>2, <2>3
<1> QED BY <1>1, <1>2, <1>3, <1>4, ClientGoesInv DEF Next, Idle

\* IInv holds in every reachable state.
THEOREM SessionsInvariance == Spec => []IInv
BY InitInv, StepInv, PTL DEF Spec

\* Type correctness.
THEOREM SessionsTypeCorrect == Spec => []TypeOK
<1>1. IInv => TypeOK
    BY DEF IInv
<1> QED BY <1>1, SessionsInvariance, PTL

\* The decompile lock and the cache lock are held by exactly the session inside
\* the sections they guard, on every way out of them.
THEOREM LocksAlwaysFollow == Spec => []LocksFollowSections
<1>1. IInv => LocksFollowSections
    BY DEF IInv
<1> QED BY <1>1, SessionsInvariance, PTL

\* angr works for one session of a process at a time.
THEOREM AngrIsSerialized == Spec => []OneAtWork
<1>1. IInv => OneAtWork
    BY Apart DEF IInv
<1> QED BY <1>1, SessionsInvariance, PTL

\* While it decompiles, a session finds the names its own Ghidra gave the function and
\* those it calls, in a project that others name functions in, too.
THEOREM NamesAreOwnAtWork == Spec => []NamesAtWork
<1>1. IInv => NamesAtWork
    BY DEF IInv, NamesSoFar, NamesAtWork
<1> QED BY <1>1, SessionsInvariance, PTL

\* A process builds no image twice.
THEOREM NothingBuiltTwice == Spec => []BuiltOnce
<1>1. IInv => BuiltOnce
    BY DEF IInv, BuiltIsKept, BuiltOnce
<1> QED BY <1>1, SessionsInvariance, PTL

-----------------------------------------------------------------------------
(* After the lock *)

\* What makes OwnNamesUnlessOvertaken inductive: from the end of its work until
\* it renders, a session finds the names that were not overtaken as it left them.
NamesKept ==
    \A s \in Session :
        at[s] \in {"lowering", "rendering"} /\ s \notin private =>
            \A f \in Named(s) :
                f \in overtaken[s] \/ kbName[home[s]][image[s]][f] \in {s, None}

\* No session is overtaken before it has left the lock.
NotYetOvertaken ==
    \A s \in Session : at[s] \notin {"rendering", "responding", "ended"} => overtaken[s] = {}

\* And none has a text before it has rendered.
NotYetRendered ==
    \A s \in Session : at[s] \notin {"responding", "ended"} => text[s] = Unnamed

AfterLock == NamesKept /\ OwnNamesUnlessOvertaken /\ NotYetOvertaken /\ NotYetRendered

\* A step that names nothing, of a session that has not come to render, keeps
\* this if it ends the session's work only with names of its own.
LEMMA MoveKeepsAfterLock ==
    ASSUME TypeOK, AfterLock, NEW s \in Session, NEW from, NEW to, Goes(s, from, to),
           from \notin {"rendering", "responding", "ended"},
           UNCHANGED <<placeVars, kbName, private, text, overtaken>>,
           func' \in [Session -> Function], \A t \in Session : t # s => func'[t] = func[t],
           to \in {"lowering", "rendering"} =>
               /\ func'[s] = func[s]
               /\ \/ from \in {"lowering", "rendering"}
                  \/ \A f \in Named(s) : kbName[home[s]][image[s]][f] \in {s, None}
    PROVE  AfterLock'
<1> USE DEF AfterLock, placeVars
<1>1. \A t \in Session : at'[t] = IF t = s THEN to ELSE at[t]
    BY DEF Goes, TypeOK
<1>2. at[s] = from
    BY DEF Goes
<1>3. text[s] = Unnamed /\ overtaken[s] = {}
    BY <1>2 DEF NotYetOvertaken, NotYetRendered
<1>4. NamesKept'
    BY <1>1, <1>2 DEF NamesKept, Named
<1>5. OwnNamesUnlessOvertaken'
    <2> SUFFICES ASSUME NEW t \in Session, NEW f \in Named(t)', text[t][f] \notin {t, None}
                 PROVE  f \in overtaken[t]
        BY DEF OwnNamesUnlessOvertaken
    <2>1. CASE t = s
        <3>1. func'[s] \in Function /\ image[s] \in Image
            BY DEF TypeOK
        <3>2. Calls[image[s]][func'[s]] \in SUBSET Function
            BY <3>1, ProgramAssumption
        <3>3. f \in Function
            BY <2>1, <3>1, <3>2 DEF Named
        <3> QED BY <1>3, <2>1, <3>3 DEF Unnamed
    <2>2. CASE t # s
        BY <2>2 DEF OwnNamesUnlessOvertaken, Named
    <2> QED BY <2>1, <2>2
<1>6. NotYetOvertaken' /\ NotYetRendered'
    BY <1>1, <1>3 DEF NotYetOvertaken, NotYetRendered
<1> QED BY <1>4, <1>5, <1>6

\* A session names a function: of the others of its project only those that
\* render are past their work, and they are overtaken.
LEMMA NamingKeepsAfterLock ==
    ASSUME IInv, AfterLock, NEW s \in Session,
           NameCallTarget(s) \/ (Gate(s) /\ Goes(s, "found", "naming"))
    PROVE  AfterLock'
<1>a. TypeOK
    BY DEF IInv
<1>0. TypeOK /\ LocksFollowSections
    BY DEF IInv
<1>1. PICK f \in Function, whose \in {s, None} :
          /\ SetName(s, f, whose)
          /\ at[s] \in {"found", "naming"}
          /\ \A t \in Session : at'[t] = IF t = s THEN "naming" ELSE at[t]
          /\ UNCHANGED <<placeVars, sessionVars, textVars>>
    BY <1>0, Naming
<1>2. \A p \in Process, i \in Image, g \in Function :
          kbName'[p][i][g] = IF p = home[s] /\ i = image[s] /\ g = f THEN whose
                             ELSE kbName[p][i][g]
    BY <1>a, <1>1, SettingAName
<1>8. \A t \in Session :
          overtaken'[t] = IF home[t] = home[s] /\ image[t] = image[s] /\ at[t] = "rendering"
                          THEN overtaken[t] \cup {f} ELSE overtaken[t]
    BY <1>1 DEF SetName
<1>3. UNCHANGED <<home, image, func, private, text>>
    BY <1>1 DEF placeVars, sessionVars, textVars
<1>4. \A t \in Session : t # s /\ home[t] = home[s] => at[t] # "lowering"
    BY <1>0, <1>1, Apart DEF OneAtWork, Section
<1>5. NamesKept'
    <2> SUFFICES ASSUME NEW t \in Session, at'[t] \in {"lowering", "rendering"},
                        t \notin private, NEW g \in Named(t)
                 PROVE  g \in overtaken'[t] \/ kbName'[home[t]][image[t]][g] \in {t, None}
        BY <1>3 DEF NamesKept, Named
    <2>1. t # s /\ at[t] \in {"lowering", "rendering"}
        BY <1>1
    <2>2. g \in overtaken[t] \/ kbName[home[t]][image[t]][g] \in {t, None}
        BY <2>1 DEF AfterLock, NamesKept
    <2>3. g \in Function /\ home[t] \in Process /\ image[t] \in Image
        BY <1>0, NamedAreFunctions DEF TypeOK
    <2>4. CASE home[t] = home[s] /\ image[t] = image[s] /\ g = f
        BY <1>2, <1>8, <1>4, <2>1, <2>4
    <2>5. CASE ~(home[t] = home[s] /\ image[t] = image[s] /\ g = f)
        BY <1>2, <1>8, <2>2, <2>3, <2>5
    <2> QED BY <2>4, <2>5
<1>6. OwnNamesUnlessOvertaken'
    BY <1>8, <1>3 DEF AfterLock, OwnNamesUnlessOvertaken, Named
<1>7. NotYetOvertaken' /\ NotYetRendered'
    BY <1>1, <1>8, <1>3 DEF AfterLock, NotYetOvertaken, NotYetRendered
<1> QED BY <1>5, <1>6, <1>7 DEF AfterLock

\* A session renders: what it names it finds as it left it, or overtaken.
LEMMA RenderKeepsAfterLock ==
    ASSUME IInv, AfterLock, NEW s \in Session, Render(s)
    PROVE  AfterLock'
<1>0. TypeOK
    BY DEF IInv
<1>1. /\ at[s] = "rendering"
      /\ \A t \in Session : at'[t] = IF t = s THEN "responding" ELSE at[t]
      /\ UNCHANGED <<home, image, func, kbName, private, overtaken>>
      /\ \A t \in Session : t # s => text'[t] = text[t]
      /\ text'[s] = [f \in Function |->
             IF f \notin Mentions[image[s]][func[s]] THEN None
             ELSE IF s \notin private THEN kbName[home[s]][image[s]][f]
             ELSE IF f \in Named(s) THEN s ELSE None]
    BY <1>0 DEF Render, Goes, TypeOK, placeVars, sessionVars, nameVars
<1>2. NamesKept'
    BY <1>1 DEF AfterLock, NamesKept, Named
<1>3. OwnNamesUnlessOvertaken'
    <2> SUFFICES ASSUME NEW t \in Session, NEW f \in Named(t), text'[t][f] \notin {t, None}
                 PROVE  f \in overtaken[t]
        BY <1>1 DEF OwnNamesUnlessOvertaken, Named
    <2>1. CASE t = s
        <3>1. f \in Function
            BY <1>0, NamedAreFunctions
        <3>2. s \notin private /\ kbName[home[s]][image[s]][f] \notin {s, None}
            BY <1>1, <2>1, <3>1
        <3> QED BY <1>1, <2>1, <3>2 DEF AfterLock, NamesKept
    <2>2. CASE t # s
        BY <1>1, <2>2 DEF AfterLock, OwnNamesUnlessOvertaken
    <2> QED BY <2>1, <2>2
<1>4. NotYetOvertaken' /\ NotYetRendered'
    BY <1>1 DEF AfterLock, NotYetOvertaken, NotYetRendered
<1> QED BY <1>2, <1>3, <1>4 DEF AfterLock

\* The answer is out, and the request forgotten.
LEMMA RespondKeepsAfterLock ==
    ASSUME IInv, AfterLock, NEW s \in Session, Respond(s)
    PROVE  AfterLock'
<1>0. TypeOK
    BY DEF IInv
<1>1. PICK to \in {"idle", "ended"} :
          \A t \in Session : at'[t] = IF t = s THEN to ELSE at[t]
    BY <1>0 DEF Respond, Goes, TypeOK
<1>2. /\ UNCHANGED <<home, image, kbName>>
      /\ \A t \in Session : t # s => func'[t] = func[t]
      /\ \A t \in Session : t # s => text'[t] = text[t]
      /\ \A t \in Session : t # s => overtaken'[t] = overtaken[t]
      /\ \A t \in Session : t # s => (t \in private' <=> t \in private)
      /\ func'[s] = NoFunc /\ text'[s] = Unnamed /\ overtaken'[s] = {}
    BY <1>0 DEF Respond, TypeOK, placeVars
<1>3. NamesKept'
    BY <1>1, <1>2 DEF AfterLock, NamesKept, Named
<1>4. OwnNamesUnlessOvertaken'
    <2> SUFFICES ASSUME NEW t \in Session, NEW f \in Named(t)', text'[t][f] \notin {t, None}
                 PROVE  f \in overtaken'[t]
        BY DEF OwnNamesUnlessOvertaken
    <2>1. CASE t = s
        <3>1. NoFunc \in Function /\ image[s] \in Image
            BY <1>0, ProgramAssumption DEF NoFunc, TypeOK
        <3>2. Calls[image[s]][NoFunc] \in SUBSET Function
            BY <3>1, ProgramAssumption
        <3>3. f \in Function
            BY <1>2, <2>1, <3>1, <3>2 DEF Named
        <3> QED BY <1>2, <2>1, <3>3 DEF Unnamed
    <2>2. CASE t # s
        BY <1>2, <2>2 DEF AfterLock, OwnNamesUnlessOvertaken, Named
    <2> QED BY <2>1, <2>2
<1>5. NotYetOvertaken' /\ NotYetRendered'
    BY <1>1, <1>2 DEF AfterLock, NotYetOvertaken, NotYetRendered
<1> QED BY <1>3, <1>4, <1>5 DEF AfterLock

\* The steps of a session in the order they come.
LEMMA SessionKeepsAfterLock ==
    ASSUME IInv, AfterLock, NEW s \in Session,
           \/ Connect(s) \/ Request(s) \/ ClientGoes(s) \/ AngrStep(s) \/ CallbackStep(s)
    PROVE  AfterLock'
<1>0. TypeOK /\ LocksFollowSections /\ NamesSoFar
    BY DEF IInv
<1>a. func \in [Session -> Function]
    BY <1>0 DEF TypeOK
<1> USE DEF workVars, nameVars, textVars, sessionVars
<1>2. CASE Connect(s)
    <2>1. Goes(s, "new", "idle")
        BY <1>2 DEF Connect
    <2> QED BY <1>0, <1>a, <1>2, <2>1, MoveKeepsAfterLock DEF Connect
<1>3. CASE Request(s)
    <2>1. Goes(s, "idle", "prelude") /\ UNCHANGED <<placeVars, kbName, private, text, overtaken>>
        BY <1>3 DEF Request
    <2>2. /\ func' \in [Session -> Function]
          /\ \A t \in Session : t # s => func'[t] = func[t]
        BY <1>a, <1>3 DEF Request
    <2> QED BY <1>0, <2>1, <2>2, MoveKeepsAfterLock
<1>4. CASE ClientGoes(s)
    BY <1>4 DEF ClientGoes, AfterLock, NamesKept, OwnNamesUnlessOvertaken, NotYetOvertaken,
                NotYetRendered, Named, placeVars
<1>5. CASE Prelude(s)
    <2>1. PICK to \in {"waiting", "responding"} : Goes(s, "prelude", to)
        BY <1>5 DEF Prelude
    <2> QED BY <1>0, <1>a, <1>5, <2>1, MoveKeepsAfterLock DEF Prelude
<1>6. CASE TakeLock(s)
    <2>1. PICK to \in {"paramid", "probing", "scoped"} : Goes(s, "waiting", to)
        BY <1>6 DEF TakeLock
    <2> QED BY <1>0, <1>a, <1>6, <2>1, MoveKeepsAfterLock DEF TakeLock
<1>7. CASE Paramid(s)
    <2>1. Goes(s, "paramid", "responding")
        BY <1>7 DEF Paramid
    <2> QED BY <1>0, <1>a, <1>7, <2>1, MoveKeepsAfterLock DEF Paramid
<1>8. CASE Probe(s)
    <2>1. PICK to \in {"entering", "scoped"} : Goes(s, "probing", to)
        BY <1>8 DEF Probe
    <2> QED BY <1>0, <1>a, <1>8, <2>1, MoveKeepsAfterLock DEF Probe
<1>9. CASE ProbeHitsEof(s)
    <2>1. Goes(s, "probing", "responding")
        BY <1>9 DEF ProbeHitsEof
    <2> QED BY <1>0, <1>a, <1>9, <2>1, MoveKeepsAfterLock DEF ProbeHitsEof
<1>10. CASE UseCache(s)
    <2>1. PICK from \in CacheSection \cup {"entering"},
               to \in CacheSection \cup {"found", "scoped"} : Goes(s, from, to)
        BY <1>10 DEF UseCache, CacheStep, EnterCache, MemoryHit, MemoryMiss, BeginBuild, Load,
                     Build, BuildFails, Dump, Memoize, CacheSection
    <2> QED BY <1>0, <1>a, <1>10, <2>1, MoveKeepsAfterLock DEF UseCache, CacheSection
<1>11. CASE Gate(s) /\ ~Goes(s, "found", "naming")
    <2>1. Goes(s, "found", "scoped")
        BY <1>11 DEF Gate
    <2> QED BY <1>0, <1>a, <1>11, <2>1, MoveKeepsAfterLock DEF Gate
<1>12. CASE Decompile(s)
    <2>1. PICK to \in {"lowering", "scoped"} : Goes(s, "working", to)
        BY <1>12 DEF Decompile
    <2>2. \A f \in Named(s) : kbName[home[s]][image[s]][f] \in {s, None}
        BY <1>0, <2>1 DEF NamesSoFar, Goes
    <2> QED BY <1>0, <1>a, <1>12, <2>1, <2>2, MoveKeepsAfterLock DEF Decompile
<1>13. CASE DecompileScoped(s)
    <2> USE DEF AfterLock
    <2>1. /\ at[s] = "scoped"
          /\ \A t \in Session : at'[t] = IF t = s THEN "lowering" ELSE at[t]
          /\ UNCHANGED <<home, image, func, kbName, text, overtaken>>
          /\ private' = private \cup {s}
        BY <1>0, <1>13 DEF DecompileScoped, Goes, TypeOK, placeVars
    <2>2. NamesKept'
        BY <2>1 DEF NamesKept, Named
    <2>3. OwnNamesUnlessOvertaken'
        BY <2>1 DEF OwnNamesUnlessOvertaken, Named
    <2>4. NotYetOvertaken' /\ NotYetRendered'
        BY <2>1 DEF NotYetOvertaken, NotYetRendered
    <2> QED BY <2>2, <2>3, <2>4
<1>14. CASE DecompileScopedFails(s)
    <2>1. Goes(s, "scoped", "responding")
        BY <1>14 DEF DecompileScopedFails
    <2> QED BY <1>0, <1>a, <1>14, <2>1, MoveKeepsAfterLock DEF DecompileScopedFails
<1>15. CASE Lower(s)
    <2>1. PICK to \in {"rendering", "responding"} : Goes(s, "lowering", to)
        BY <1>15 DEF Lower
    <2> QED BY <1>0, <1>a, <1>15, <2>1, MoveKeepsAfterLock DEF Lower
<1>16. CASE Render(s)
    BY <1>16, RenderKeepsAfterLock
<1>17. CASE Respond(s)
    BY <1>17, RespondKeepsAfterLock
<1>18. CASE EofEndsSession(s)
    <2>1. Goes(s, "idle", "ended")
        BY <1>18 DEF EofEndsSession
    <2> QED BY <1>0, <1>a, <1>18, <2>1, MoveKeepsAfterLock DEF EofEndsSession
<1>19. CASE NameCallTarget(s) \/ (Gate(s) /\ Goes(s, "found", "naming"))
    BY <1>19, NamingKeepsAfterLock
<1>20. CASE NamingEnds(s)
    <2>1. PICK to \in {"working", "scoped"} : Goes(s, "naming", to)
        BY <1>20 DEF NamingEnds
    <2> QED BY <1>0, <1>a, <1>20, <2>1, MoveKeepsAfterLock DEF NamingEnds
<1> QED BY <1>2, <1>3, <1>4, <1>5, <1>6, <1>7, <1>8, <1>9, <1>10, <1>11, <1>12, <1>13, <1>14,
           <1>15, <1>16, <1>17, <1>18, <1>19, <1>20 DEF AngrStep, CallbackStep

\* In the text a session answers with, the function and those it calls have the names
\* its own Ghidra gave, but for those that another session has named in the same
\* project between this one's lock and its rendering.
THEOREM NamesAreOwnUnlessOvertaken == Spec => []OwnNamesUnlessOvertaken
<1>1. Init => AfterLock
    <2> SUFFICES ASSUME Init PROVE AfterLock
        OBVIOUS
    <2>1. TypeOK
        BY InitInv DEF IInv
    <2>2. OwnNamesUnlessOvertaken
        BY <2>1, NamedAreFunctions DEF Init, OwnNamesUnlessOvertaken, Unnamed
    <2> QED BY <2>2 DEF Init, AfterLock, NamesKept, NotYetOvertaken, NotYetRendered
<1>2. IInv /\ AfterLock /\ [Next]_vars => AfterLock'
    <2> SUFFICES ASSUME IInv, AfterLock, [Next]_vars PROVE AfterLock'
        OBVIOUS
    <2>1. ASSUME NEW p \in Process, Crash(p) PROVE AfterLock'
        <3>1. /\ \A t \in Session : at'[t] = IF home[t] = p /\ at[t] # "new" THEN "ended" ELSE at[t]
              /\ \A q \in Process : q # p => kbName'[q] = kbName[q]
              /\ UNCHANGED <<home, image, func, private, text, overtaken>>
              /\ home \in [Session -> Process]
            BY <2>1 DEF IInv, TypeOK, Crash, placeVars, sessionVars, textVars
        <3> USE DEF AfterLock
        <3>2. NamesKept'
            BY <3>1 DEF NamesKept, Named
        <3>3. OwnNamesUnlessOvertaken'
            BY <3>1 DEF OwnNamesUnlessOvertaken, Named
        <3>4. NotYetOvertaken' /\ NotYetRendered'
            BY <3>1 DEF NotYetOvertaken, NotYetRendered
        <3> QED BY <3>2, <3>3, <3>4
    <2>2. CASE UNCHANGED vars
        BY <2>2 DEF vars, placeVars, sessionVars, workVars, nameVars, textVars, AfterLock, NamesKept,
                    OwnNamesUnlessOvertaken, NotYetOvertaken, NotYetRendered, Named
    <2> QED BY <2>1, <2>2, SessionKeepsAfterLock DEF Next, Idle
<1>3. AfterLock => OwnNamesUnlessOvertaken
    BY DEF AfterLock
<1> QED BY <1>1, <1>2, <1>3, SessionsInvariance, PTL DEF Spec

-----------------------------------------------------------------------------
(* ImageProbe: what the probe reads of an image, for any page size, limit and *)
(* memory                                                                     *)

\* The pages read surround the entry, and all but the entry and the last are full.
PagesShape ==
    /\ low <= entry /\ entry <= high
    /\ \A p \in low..high : p # entry /\ p # high => Full(p)
    /\ stage # "first" => Bytes(high) > 0 \/ stage = "none"
    /\ stage \in {"first", "down"} => high = entry
    /\ stage = "up" => high = entry \/ Full(high)

\* Their number gives what has been read.
TotalShape ==
    /\ stage = "first" => low = entry /\ total = 0
    /\ stage # "first" /\ Full(entry) /\ stage # "none" =>
           total = (high - low) * PageSize + Bytes(high)

\* The walk down ended at a gap, at page zero or at the limit.
LowerEnd ==
    stage \in {"up", "check", "done"} =>
        low = 0 \/ Bytes(low - 1) # PageSize \/ total + PageSize > MaxSize

\* The walk up ended at a gap, behind a short page or at the limit.
UpperEnd ==
    /\ stage \in {"check", "done"} =>
          Bytes(high + 1) = 0 \/ ~Full(high) \/ total + PageSize > MaxSize
    /\ stage = "done" => total <= MaxSize

ProbeIInv == ProbeTypeOK /\ PagesShape /\ TotalShape /\ LowerEnd /\ UpperEnd

-----------------------------------------------------------------------------
(* Arithmetic of pages *)

\* One more page is PageSize more bytes.
LEMMA OneMorePage ==
    ASSUME NEW n \in Int
    PROVE  (n + 1) * PageSize = n * PageSize + PageSize
BY PageSizeAssumption

\* More pages are more bytes.
LEMMA MorePages ==
    ASSUME NEW m \in Int, NEW n \in Int, m <= n
    PROVE  m * PageSize <= n * PageSize
<1>1. PICK d \in Nat : n = m + d
    BY n - m \in Nat
<1>2. (m + d) * PageSize = m * PageSize + d * PageSize
    BY PageSizeAssumption
<1>3. d * PageSize \in Nat /\ m * PageSize \in Int
    BY PageSizeAssumption
<1> QED BY <1>1, <1>2, <1>3

\* A page holds what get_bytes may return of it.
LEMMA BytesOfPage ==
    ASSUME ProbeTypeOK, NEW p \in Int
    PROVE  Bytes(p) \in 0..PageSize
<1>1. CASE p \in Page
    <2>1. memory[p] \in Readable
        BY <1>1 DEF ProbeTypeOK
    <2> QED BY <1>1, <2>1, ReadableAssumption DEF Bytes
<1>2. CASE p \notin Page
    BY <1>2, PageSizeAssumption DEF Bytes
<1> QED BY <1>1, <1>2

-----------------------------------------------------------------------------
(* The invariant is inductive *)

\* It holds before the probe has begun.
LEMMA ProbeInitInv == ProbeInit => ProbeIInv
BY PageSizeAssumption, LastPageAssumption, MaxSizeAssumption
   DEF ProbeInit, ProbeIInv, ProbeTypeOK, PagesShape, TotalShape, LowerEnd, UpperEnd, Page

\* And after every step.
LEMMA ProbeStepInv == ProbeIInv /\ [ProbeNext]_probeVars => ProbeIInv'
<1> SUFFICES ASSUME ProbeIInv, [ProbeNext]_probeVars PROVE ProbeIInv'
    OBVIOUS
<1> USE PageSizeAssumption, MaxSizeAssumption, LastPageAssumption DEF ProbeIInv
<1>0. \A p \in Int : Bytes(p) \in 0..PageSize
    BY BytesOfPage
<1>1. CASE ReadFirst
    <2>1. memory[entry] = Bytes(entry) /\ memory[entry] \in 0..PageSize
        BY <1>0 DEF ProbeTypeOK, Bytes, Page
    <2>2. (entry - entry) * PageSize = 0
        BY DEF ProbeTypeOK, Page
    <2> QED BY <1>1, <2>1, <2>2
            DEF ReadFirst, ProbeTypeOK, PagesShape, TotalShape, LowerEnd, UpperEnd, Bytes, Full, Page
<1>2. CASE ReadDown
    <2>0. Bytes(low - 1) = PageSize /\ low - 1 \in Page
        BY <1>2 DEF ReadDown, FitsDown, ProbeTypeOK, Page
    <2>1. ProbeTypeOK'
        BY <1>2, <2>0 DEF ReadDown, FitsDown, ProbeTypeOK
    <2>2. PagesShape'
        BY <1>2 DEF ReadDown, FitsDown, ProbeTypeOK, PagesShape, Full, Bytes, Page
    <2>3. Full(entry) => total' = ((high - low) + 1) * PageSize + Bytes(high)
        <3>1. high - low \in Int
            BY DEF ProbeTypeOK, Page
        <3>2. Bytes(high) \in Int /\ (high - low) * PageSize \in Int
            BY <1>0, <3>1 DEF ProbeTypeOK, Page
        <3>3. ((high - low) + 1) * PageSize = (high - low) * PageSize + PageSize
            BY <3>1, OneMorePage
        <3> QED BY <1>2, <2>0, <3>2, <3>3 DEF ReadDown, TotalShape
    <2>4. TotalShape'
        <3>1. high' - low' = (high - low) + 1
            BY <1>2 DEF ReadDown, ProbeTypeOK, Page
        <3> QED BY <1>2, <2>3, <3>1 DEF ReadDown, TotalShape, Full, Bytes
    <2>5. LowerEnd' /\ UpperEnd'
        BY <1>2 DEF ReadDown, LowerEnd, UpperEnd
    <2> QED BY <2>1, <2>2, <2>4, <2>5
<1>3. CASE TurnRound
    BY <1>0, <1>3 DEF TurnRound, FitsDown, ProbeTypeOK, PagesShape, TotalShape, LowerEnd, UpperEnd,
                      Bytes, Full, Page
<1>4. CASE ReadUp
    <2>0. high + 1 \in Page /\ Bytes(high + 1) \in 1..PageSize
        <3>1. high + 1 \in Page
            BY <1>4 DEF ReadUp, FitsUp, Bytes
        <3>2. Bytes(high + 1) \in 0..PageSize /\ Bytes(high + 1) > 0
            BY <1>0, <1>4, <3>1 DEF ReadUp, FitsUp, Page
        <3> QED BY <3>1, <3>2
    <2>1. ProbeTypeOK'
        BY <1>4, <2>0 DEF ReadUp, FitsUp, ProbeTypeOK
    <2>2. PagesShape'
        <3>1. \A p \in low..(high + 1) : p # entry /\ p # high + 1 => Full(p)
            BY <1>4 DEF ReadUp, PagesShape, ProbeTypeOK, Page
        <3>2. stage' = "up" => Full(high + 1)
            BY <1>4, <2>0 DEF ReadUp, Full
        <3> QED BY <1>4, <2>0, <3>1, <3>2 DEF ReadUp, ProbeTypeOK, PagesShape, Full, Bytes, Page
    <2>3. Full(entry) => total' = ((high - low) + 1) * PageSize + Bytes(high + 1)
        <3>1. high - low \in Int
            BY DEF ProbeTypeOK, Page
        <3>2. Full(entry) => Full(high)
            BY <1>4 DEF ReadUp, PagesShape
        <3> QED BY <1>0, <1>4, <3>1, <3>2, OneMorePage
                DEF ReadUp, TotalShape, Full, ProbeTypeOK, Page
    <2>4. TotalShape'
        <3>1. high' - low' = (high - low) + 1
            BY <1>4 DEF ReadUp, ProbeTypeOK, Page
        <3> QED BY <1>4, <2>3, <3>1 DEF ReadUp, TotalShape, Full, Bytes
    <2>5. LowerEnd'
        <3>1. total' >= total
            BY <1>0, <1>4, <2>0 DEF ReadUp, ProbeTypeOK, Page
        <3> QED BY <1>4, <3>1, <2>1 DEF ReadUp, LowerEnd, Bytes, ProbeTypeOK
    <2>6. UpperEnd'
        BY <1>0, <1>4, <2>0 DEF ReadUp, UpperEnd, Full, Bytes, Page
    <2> QED BY <2>1, <2>2, <2>4, <2>5, <2>6
<1>5. CASE StopUp
    <2>1. Bytes(high + 1) = 0 \/ total + PageSize > MaxSize
        BY <1>0, <1>5 DEF StopUp, FitsUp, ProbeTypeOK, Page
    <2> QED BY <1>5, <2>1 DEF StopUp, ProbeTypeOK, PagesShape, TotalShape, LowerEnd, UpperEnd,
                              Bytes, Full
<1>6. CASE Check
    BY <1>6 DEF Check, ProbeTypeOK, PagesShape, TotalShape, LowerEnd, UpperEnd, Bytes, Full
<1>7. CASE UNCHANGED probeVars
    BY <1>7 DEF probeVars, ProbeTypeOK, PagesShape, TotalShape, LowerEnd, UpperEnd, Bytes, Full
<1> QED BY <1>1, <1>2, <1>3, <1>4, <1>5, <1>6, <1>7 DEF ProbeNext, Returned

\* IInv holds in every reachable state.
THEOREM ProbeInvariance == ProbeSpec => []ProbeIInv
BY ProbeInitInv, ProbeStepInv, PTL DEF ProbeSpec

-----------------------------------------------------------------------------
(* What the probe has read when it is done *)

\* What has been read, when the probe is done: no page more would fit, or there is
\* nothing more to read.
LEMMA PagesCount ==
    ASSUME ProbeIInv, stage = "done", Full(entry)
    PROVE  /\ total = (high - low) * PageSize + Bytes(high)
           /\ Bytes(high) \in 1..PageSize
           /\ total + PageSize > (high - low + 1) * PageSize
           /\ total + PageSize <= (high - low + 2) * PageSize
<1> USE PageSizeAssumption DEF ProbeIInv
<1>1. total = (high - low) * PageSize + Bytes(high)
    BY DEF TotalShape
<1>2. Bytes(high) \in 1..PageSize
    BY BytesOfPage DEF PagesShape, ProbeTypeOK, Page
<1>3. high - low \in Int /\ high - low + 1 \in Int /\ (high - low) * PageSize \in Int
    BY DEF ProbeTypeOK, Page
<1>4. (high - low + 1) * PageSize = (high - low) * PageSize + PageSize
    BY <1>3, OneMorePage
<1>5. ((high - low + 1) + 1) * PageSize = (high - low + 1) * PageSize + PageSize
    BY <1>3, OneMorePage
<1>6. (high - low + 1) + 1 = high - low + 2
    BY <1>3
<1> QED BY <1>1, <1>2, <1>3, <1>4, <1>5, <1>6

\* The run around the entry reaches at least as far as the pages read.
LEMMA ReadIsInRun ==
    ASSUME ProbeIInv, stage = "done", Full(entry)
    PROVE  low..high \subseteq Run(entry)
<1>1. Bytes(high) > 0
    BY DEF ProbeIInv, PagesShape
<1>2. \A p \in low..high : p # high => Full(p)
    BY DEF ProbeIInv, PagesShape
<1>3. \A p \in Page : Full(p) => Bytes(p) > 0
    BY PageSizeAssumption DEF Full
<1>4. ASSUME NEW p \in low..high PROVE p \in Run(entry)
    <2>1. p \in Page /\ low \in Int /\ high \in Int /\ entry \in Int
        BY LastPageAssumption DEF ProbeIInv, ProbeTypeOK, Page
    <2>2. CASE p <= entry
        BY <1>2, <2>1, <2>2 DEF Run, ProbeIInv, PagesShape, Page
    <2>3. CASE p > entry
        BY <1>1, <1>2, <1>3, <2>1, <2>3 DEF Run, ProbeIInv, PagesShape, Page
    <2> QED BY <2>1, <2>2, <2>3 DEF Page
<1> QED BY <1>4

\* Unless the limit was reached, the pages read are the run.
LEMMA RunIsRead ==
    ASSUME ProbeIInv, stage = "done", Full(entry), total + PageSize <= MaxSize
    PROVE  Run(entry) \subseteq low..high
<1>1. ASSUME NEW p \in Run(entry) PROVE p \in low..high
    <2>0. p \in Page /\ low \in Page /\ high \in Page /\ entry \in Page
        BY DEF Run, ProbeIInv, ProbeTypeOK
    <2>1. low = 0 \/ ~Full(low - 1)
        BY PageSizeAssumption, MaxSizeAssumption DEF ProbeIInv, LowerEnd, Full, ProbeTypeOK
    <2>2. Bytes(high + 1) = 0 \/ ~Full(high)
        BY PageSizeAssumption, MaxSizeAssumption DEF ProbeIInv, UpperEnd, ProbeTypeOK
    <2>3. p >= low
        <3> SUFFICES ASSUME p < low PROVE FALSE
            BY <2>0 DEF Page
        <3>1. low <= entry /\ low - 1 \in p..entry
            BY <2>0 DEF ProbeIInv, PagesShape, Page
        <3>2. Full(low - 1)
            BY <2>0, <3>1 DEF Run, Page
        <3> QED BY <2>0, <2>1, <3>1, <3>2 DEF Page
    <2>4. p <= high
        <3> SUFFICES ASSUME p > high PROVE FALSE
            BY <2>0 DEF Page
        <3>1. entry <= high /\ high \in entry..(p - 1)
            BY <2>0 DEF ProbeIInv, PagesShape, Page
        <3>2. Full(high)
            BY <2>0, <3>1 DEF Run, Page
        <3>3. Bytes(high + 1) = 0
            BY <2>2, <3>2
        <3>4. CASE p = high + 1
            BY <2>0, <3>1, <3>3, <3>4 DEF Run, Page
        <3>5. CASE p # high + 1
            <4>1. high + 1 \in entry..(p - 1)
                BY <2>0, <3>1, <3>5 DEF Page
            <4>2. Full(high + 1)
                BY <2>0, <3>1, <4>1 DEF Run, Page
            <4> QED BY <3>3, <4>2, PageSizeAssumption DEF Full
        <3> QED BY <3>4, <3>5
    <2> QED BY <2>0, <2>3, <2>4 DEF Page
<1> QED BY <1>1

-----------------------------------------------------------------------------
(* The theorems *)

\* Types, and the memory the probe holds.
THEOREM ProbeTypeCorrect == ProbeSpec => []ProbeTypeOK
<1>1. ProbeIInv => ProbeTypeOK
    BY DEF ProbeIInv
<1> QED BY <1>1, ProbeInvariance, PTL

\* The k-th byte of what probe_image returns is the byte at the base plus k.
THEOREM BytesStayInPlace == ProbeSpec => []BytesInPlace
<1>1. ProbeIInv => BytesInPlace
    BY DEF ProbeIInv, ProbeTypeOK, PagesShape, BytesInPlace, Page
<1> QED BY <1>1, ProbeInvariance, PTL

\* Two functions of one program whose code fits get the same image, whichever of
\* its pages they begin in.
THEOREM FunctionsShareTheirImage == ProbeSpec => []RunIsReadWhole
<1>1. ProbeIInv => RunIsReadWhole
    <2> SUFFICES ASSUME ProbeIInv, stage = "done", Full(entry), ~TooLarge(Run(entry))
                 PROVE  low..high = Run(entry)
        BY DEF RunIsReadWhole
    <2> USE PageSizeAssumption, MaxSizeAssumption, LastPageAssumption
    <2>0. low \in Nat /\ high \in Nat /\ entry \in Nat /\ total \in Nat /\ low <= high
        BY DEF ProbeIInv, ProbeTypeOK, Page, PagesShape
    <2>1. CASE total + PageSize <= MaxSize
        BY <2>1, ReadIsInRun, RunIsRead
    <2>2. CASE total + PageSize > MaxSize
        <3>1. \A p, q \in Run(entry) : (q - p + 1) * PageSize <= MaxSize
            <4> TAKE p \in Run(entry), q \in Run(entry)
            <4>1. q - p + 1 \in Int
                BY DEF Run, Page
            <4>2. (q - p + 1) * PageSize \in Int
                BY <4>1
            <4> QED BY <4>2 DEF TooLarge
        <3>2. \A p, q \in Run(entry) : q - p + 1 < high - low + 2
            <4> TAKE p \in Run(entry), q \in Run(entry)
            <4>1. q - p + 1 \in Int /\ high - low + 2 \in Int
                BY <2>0 DEF Run, Page
            <4>2. (high - low + 2) * PageSize \in Int /\ (q - p + 1) * PageSize \in Int
                BY <4>1
            <4>3. (q - p + 1) * PageSize < (high - low + 2) * PageSize
                BY <2>0, <2>2, <3>1, <4>2, PagesCount
            <4>4. high - low + 2 <= q - p + 1 =>
                     (high - low + 2) * PageSize <= (q - p + 1) * PageSize
                BY <4>1, MorePages
            <4> QED BY <4>1, <4>2, <4>3, <4>4
        <3>3. low \in Run(entry) /\ high \in Run(entry)
            BY <2>0, ReadIsInRun
        <3>4. \A p \in Run(entry) : p \in low..high
            <4> TAKE p \in Run(entry)
            <4>1. p \in Int
                BY DEF Run, Page
            <4>2. high - p + 1 < high - low + 2 /\ p - low + 1 < high - low + 2
                BY <3>2, <3>3
            <4> QED BY <2>0, <4>1, <4>2
        <3> QED BY <3>4, ReadIsInRun
    <2> QED BY <2>0, <2>1, <2>2
<1> QED BY <1>1, ProbeInvariance, PTL
=============================================================================
