----------------------------- MODULE ImageCache -----------------------------
(***************************************************************************)
(* The whole-image CFG cache of core/imagecache.py: one ImageCache per     *)
(* process, shared by its sessions and guarded by a lock (get), which      *)
(* memoizes images in memory and persists them as angrdb files in a        *)
(* directory that every process of the user shares (_load_or_build), and   *)
(* builds them from a temporary file (_build). Module DecompileSessions    *)
(* composes it with the sessions that call it.                             *)
(*                                                                         *)
(* An image stands for the hash of its content: probe_image and image_hash *)
(* are the business of module ImageProbe.                                  *)
(***************************************************************************)
EXTENDS Naturals

CONSTANTS
    Session,  \* connections, each with a handler thread of its own
    Process,  \* core processes
    Image,    \* whole-image contents, by hash
    None      \* "nobody"

ASSUME NobodyAssumption == None \notin Session

VARIABLES
    home,       \* the process that serves each session, fixed
    image,      \* the image of each session's program, fixed
    at,         \* where each session is
    cacheLock,  \* ImageCache._lock of each process: its holder, or None
    mem,        \* ImageCache._mem: the images each process has in memory
    built,      \* history: CFGs each process has built of each image
    adb,        \* the angrdb file of each image
    img         \* the temporary .img files each session has left in the directory

placeVars == <<home, image>>
cacheVars == <<cacheLock, mem, built, adb, img>>

\* The places of a session inside get, once it has probed the image.
CacheSection == {"lookup", "loading", "building", "dumping", "memoizing"}

CacheInit ==
    /\ home \in [Session -> Process]
    /\ image \in [Session -> Image]
    /\ cacheLock = [p \in Process |-> None]
    /\ mem = [p \in Process |-> {}]
    /\ built = [p \in Process |-> [i \in Image |-> 0]]
    /\ adb = [i \in Image |-> "absent"]
    /\ img = [s \in Session |-> 0]

-----------------------------------------------------------------------------
Goes(s, from, to) ==
    /\ at[s] = from
    /\ at' = [at EXCEPT ![s] = to]

LeaveCache(s) == cacheLock' = [cacheLock EXCEPT ![home[s]] = None]

\* `with self._lock`
EnterCache(s) ==
    /\ cacheLock[home[s]] = None
    /\ Goes(s, "entering", "lookup")
    /\ cacheLock' = [cacheLock EXCEPT ![home[s]] = s]
    /\ UNCHANGED <<mem, built, adb, img>>

\* _build begins: mkstemp, and the content is written.
BeginBuild(s, from) ==
    /\ Goes(s, from, "building")
    /\ img' = [img EXCEPT ![s] = @ + 1]

MemoryHit(s) ==
    /\ image[s] \in mem[home[s]]
    /\ Goes(s, "lookup", "found")
    /\ LeaveCache(s)
    /\ UNCHANGED <<mem, built, adb, img>>

\* Not in memory: os.path.exists decides between loading and building.
MemoryMiss(s) ==
    /\ image[s] \notin mem[home[s]]
    /\ IF adb[image[s]] = "absent" THEN BeginBuild(s, "lookup")
       ELSE Goes(s, "lookup", "loading") /\ UNCHANGED img
    /\ UNCHANGED <<cacheLock, mem, built, adb>>

\* A complete file may load, and then the image is memoized; a load that raises
\* or finds no CFG model is followed by a build.
Load(s) ==
    /\ \/ /\ adb[image[s]] = "complete"
          /\ Goes(s, "loading", "found")
          /\ mem' = [mem EXCEPT ![home[s]] = @ \cup {image[s]}]
          /\ LeaveCache(s)
          /\ UNCHANGED img
       \/ BeginBuild(s, "loading") /\ UNCHANGED <<cacheLock, mem>>
    /\ UNCHANGED <<built, adb>>

Build(s) ==
    /\ Goes(s, "building", "dumping")
    /\ built' = [built EXCEPT ![home[s]][image[s]] = @ + 1]
    /\ UNCHANGED <<cacheLock, mem, adb, img>>

\* makedirs or mkstemp raises, or, once there is an .img, angr.Project or CFGFast
\* does: get returns None. Nothing unlinks the .img.
BuildFails(s) ==
    /\ \/ Goes(s, "lookup", "scoped") /\ image[s] \notin mem[home[s]]
       \/ Goes(s, "loading", "scoped")
       \/ Goes(s, "building", "scoped")
    /\ LeaveCache(s)
    /\ UNCHANGED <<mem, built, adb, img>>

\* A dump that raises leaves whatever it has written.
Dump(s) ==
    /\ Goes(s, "dumping", "memoizing")
    /\ \E file \in {"complete", "partial", adb[image[s]]} : adb' = [adb EXCEPT ![image[s]] = file]
    /\ UNCHANGED <<cacheLock, mem, built, img>>

\* Mutant: the result is returned and not kept.
MemoizeForgets(s) ==
    /\ Goes(s, "memoizing", "found")
    /\ img' = [img EXCEPT ![s] = @ - 1]
    /\ LeaveCache(s)
    /\ UNCHANGED <<mem, built, adb>>

\* The finally clause unlinks the .img; get memoizes the result.
Memoize(s) ==
    /\ Goes(s, "memoizing", "found")
    /\ img' = [img EXCEPT ![s] = @ - 1]
    /\ mem' = [mem EXCEPT ![home[s]] = @ \cup {image[s]}]
    /\ LeaveCache(s)
    /\ UNCHANGED <<built, adb>>

CacheStep(s) ==
    \/ EnterCache(s) \/ MemoryHit(s) \/ MemoryMiss(s) \/ Load(s)
    \/ Build(s) \/ BuildFails(s) \/ Dump(s) \/ Memoize(s)

\* Process p dies: what it had in memory is gone, a dump stops half way, and the
\* .img files stay.
CacheDies(p) ==
    /\ cacheLock' = [cacheLock EXCEPT ![p] = None]
    /\ mem' = [mem EXCEPT ![p] = {}]
    /\ built' = [built EXCEPT ![p] = [i \in Image |-> 0]]
    /\ adb' \in {adb, [i \in Image |-> IF \E s \in Session : home[s] = p /\ image[s] = i
                                                             /\ at[s] = "dumping"
                                       THEN "partial" ELSE adb[i]]}
    /\ UNCHANGED img
=============================================================================
