# Models and proofs of angr-ghidra-core

TLA+ specifications of the parts of angr-ghidra-core that are hard to test:
the shared decompile server and the launchers that start it, the protocol
between Ghidra and a core, the sessions of a server at work under its locks, the
image cache, the graph, the variables and the text that are made into a response,
the encoding it is written in, the way back of a user's edits, and the scripts
that put the launcher in the place of Ghidra's decompiler. TLC checks
them on small instances (`*.cfg`); TLAPS checks proofs of their safety properties
for every instance (`*Proofs.tla`).
`PROJECT.json` lists runs, theorems, the lines of source every definition
stands for, the hazards of the code and what was found.

    tlc -config SharedServerSafety.cfg MCSharedServer
    tlapm SharedServerProofs.tla

## 1. The system

Ghidra talks to a decompiler *process* over stdin and stdout. The launcher
(`launcher/src/main.rs`) takes the place of that process. It runs the core
(`core/angr_core.py`) in its own place, or, in server mode, proxies the streams
to a long-lived server (`core/server_daemon.py`) that it starts when it finds
none. The core parses Ghidra's commands, asks Ghidra for bytes, symbols and
registers while it runs one (callbacks), and lets angr decompile.

| component | state it keeps | operations | interacts with |
|---|---|---|---|
| server daemon, `core/server_daemon.py` | socket, `_stop`, `_active`, `_last_active`; the socket (token) file | bind, accept, `_idle_watch`, `_handle`, exit | launchers by file and connection; one `AngrCore` per connection |
| launcher, server mode, `main.rs` | position in `try_server_mode`, the connection | connect, spawn, poll, proxy, hand over | Ghidra (stdin, kill), the file, server processes |
| launcher, configuration and direct mode | the settings it has read | choice of mode, environment, log, hand over | config file, backup binary |
| installation scripts | `decompile`, `decompile.orig`, `angr-decompile.conf` | back up, install, configure, restore | the launches Ghidra goes on making |
| wire protocol, `ghidra_wire/framing.py`, `server.py`, `client.py` | two byte streams, positions of two readers | commands, responses, queries, answers, exceptions | the other end |
| core, `core/angr_core.py` | emitter, action, project, prototype, Thumb and arch caches | `registerProgram`, `setAction`, `flushNative`, `decompileAt`, `deregisterProgram` | callbacks; image cache; decompile lock; angr |
| image cache, `core/imagecache.py` | `_mem`, `_lock`, angrdb files, temporary `.img` files | `get`, `_load_or_build`, `_build` | sessions of one process by memory, other processes by files |
| image probe, `probe_image` | the pages read | walk down, walk up | `getBytes` callbacks |
| packed codec, `packed.py`, `dump.py` | encoder buffer; decoder position and stack | write, open, close, skip, read, `parse_tree` | everything that writes or reads a payload |
| p-code lowering, `pcode.py` | varnodes, ops, blocks, registries by value and storage | `translate`, `op_time_at`, representatives | angr's AIL, `getRegister` callbacks |
| variables, `variables.py` | symbols, claimed varnodes | `build` | codegen, lowering |
| emitter, `emit.py` | encoder | `emit_doc`, `emit_parammeasures` | codegen, variables, lowering; the codec |
| edits and hashes, `edits.py`, `dynahash.py` | the edits of one command | parse, resolve, apply | p-code, codegen |
| prototypes, `prototypes.py`; specs, `spec.py` | none | convert, parse | angr types, Ghidra XML |
| decoders, harness, validation scripts | none that lasts | read responses, answer queries | tests only |

What is hard here:

* **Processes without a coordinator.** Launchers and servers share one path.
  Every server unlinks what it finds there before it binds and what it finds
  there when it exits, its own file or not.
* **Three kinds of threads in a server**: the main thread in `accept`, the idle
  watcher, a handler per session. They share `_stop` (not under the condition
  variable where the main thread reads it), `_active` and `_last_active`.
* **Calls within calls.** A callback is a call from core to Ghidra inside a call
  from Ghidra to core, on one pair of streams; either may fail, be answered by
  an exception, or be cut off.
* **Callbacks under a lock.** Both the decompile lock and what it guards are
  held while a client of the session is asked for bytes and names.
* **A project shared by sessions** with different Ghidras at their ends.
* **Files shared by processes**, written without a lock between them.
* **Files replaced while they are used.** The installation is three files
  changed one after the other by scripts that may be stopped, while Ghidra
  starts what is there.
* **References within a response.** Symbols, varnodes, operations, variables and
  tokens refer to one another by number, from three sources (the AIL graph, the
  text, the variables), and are read once from front to back.
* **A format without lengths.** Elements are delimited by their ends only, ids
  and integers take a varying number of bytes, and a string is any bytes.
* **Names of things across decompilations.** A variable is known to Ghidra by
  its storage, which others may share, or by a hash of its surroundings, which
  others may have too.

## 2. What is modelled

### Servers and launchers: `ServerDaemon`, `SharedServer`

`ServerDaemon` has a process per launcher that may start one (a launcher starts
at most one) and a session per launcher that may connect (it connects at most
once). `phase` is where the main thread is, one action per system call that
another process can notice: `UnlinkStale`, `BindUnix`, `Chmod`, `Listen` (or
`BindTcp`, `PublishToken`), `Accept` and its three failures, `UnlinkOnExit`,
`ProcessExit`. The watcher is `StopWhenIdle` (its pass under `_cv`) and
`CloseSocket`; a handler is `HandlerEnters`, `HandlerCloses`, `HandlerLeaves`,
the two critical sections and what is between them. `Crash` may come anywhere.
`idle` is `time.monotonic() - _last_active`, cut off at `IdleTimeout`; `quiet`,
`late` and `faulty` are history variables that only the properties read.

`SharedServer` adds the launchers: `Connect`, `FirstConnectFails`, `PollFails`,
`SpawnServer`, `SpawnFails`, `StdinEof`, `ProxyExit`, and `Kill` by Ghidra. On
Windows reading the token file and connecting are two steps (`ReadToken`,
`Connect`), because the file may be replaced between them. A launcher killed
while it proxies is one whose stdin has ended, as far as the server can see.

### The protocol: `RemoteCall`, `WireSession`

`RemoteCall` is the abstract specification: a command is a call, a query is a
call back inside it, each is run once and gets its own outcome; there are no
messages. `WireSession` has the two streams as sequences of tokens, a token
being a burst marker with the payload behind it. Each reader of the code is a
table of (place, marker, next place): `ReadCommand`, `ReadAnswer`,
`ReadException` for the core, `ReadToResponse`, `ReadResponse`, `ReadQuery` for
the client; any other marker leads to `Misaligned`, the `ProtocolError` of the
code. A token carries the number of the call or query it was written for, which
is not on the wire and which only properties look at. `MayFail` and `MayPass`
say which commands can fail: a `decompileAt` before `registerProgram` must.
`ClientGoes` and `CoreGoes` drop one stream and cut the other anywhere.
`Calls == INSTANCE RemoteCall WITH line <- Line` is the refinement mapping.
The writes of a frame are one step: the streams are first in, first out, so a
reader cannot tell frames written at once from frames written in pieces, except
at the end of a stream, which is what cutting covers.

### Sessions at work: `ImageCache`, `DecompileSessions`

`ImageCache` is `ImageCache.get` step by step: the lock, memory, the angrdb file
(`absent`, `partial`, `complete`), building from a temporary `.img`, and every
failure. `DecompileSessions` composes it with `cmd_decompileAt`: callbacks
before the lock (`Prelude`), `TakeLock`, the paramid action, the probe of the
image, the gate on Ghidra's size, the naming of functions, `Decompile`, the scoped
path, `Lower`, and after the lock `Render` and `Respond`. A callback can be
refused or meet the end of the stream; which of the two a step survives is read
off the `except` clauses.

Of a shared project the model keeps the names of its functions (`kbName`): for each,
whose Ghidra gave it. A program is which functions a function calls directly
(`Calls`) and which its text mentions (`Mentions`), so that tail jumps and pointers are
functions that are mentioned and not called. A request names its own function in
`Gate` (`func.name = name`) and then, a turn of the loop at a time, the targets of its
direct calls (`NameCallTarget`); all others keep the names earlier requests gave
them. An exception in between (`NamingEnds`) leaves what has been named. The
prototypes that are set with the names are not kept. `overtaken` is history: which
functions another session named after a session had left the lock and before it
rendered.

angr is external. Two facts about it are used: the decompiler and the renderer
print a called function's name as it is in the project's knowledge base at that
moment (which is why `_apply_edits` can speak of "a name swap + re-render",
angr_core.py:552), and any of its analyses may raise.

### The image probe: `ImageProbe`

`probe_image` page by page over a memory that says how much `get_bytes` returns
of each page: nothing, a full page, or less. `Run` is the reference: the pages
around the entry with nothing missing in between.

### Encoding: `ElementStream`, `PackedFormat`, `PackedCodec`

`ElementStream` is what the encoding promises, without bytes: the document is a
sequence of starts, attributes and ends, and a reader is a place in it and the
elements it is in. `PackedFormat` has the bytes, as pure functions: `Header`,
`Integer` and the writes of `PackedEncoder`; `ReadId`, `ReadInteger`,
`SkipAttrValue`, `AttrValue` of `PackedDecoder`; `Run` and `EndBehind`, the loops
of `attributes` and `close_element_skipping`. `PackedCodec` has an action per call
of the encoder, of the decoder and per kind of header in `parse_tree`.
`marks`, where each item of the document starts in the buffer, is history, and
gives the refinement mapping `Stream == INSTANCE ElementStream WITH at <- At`:
a position that is no mark, or a call that raises where it should not, is no
step of the abstraction. `Close` is as strict as the code: it raises at an unread
child, which the docstring of the class says it skips (finding 13).

### Graph and response: `Lowering`, `ResponseDoc`

`Lowering` is `PcodeTranslator`. An AIL graph is what `_expr` and `_stmt` tell
apart: expressions and statements by their forms, blocks, edges. Expressions are
numbered, operands before what they are operands of, so that `Expr`, which is
`_expr`, is a recursive function over those numbers; `LowerOne` is its body. It and
`Statement` pass a growing graph along, as the code appends to `varnodes` and
`ops`. `OpenBlock` begins a turn of the first loop of `translate`, `LowerStatement`
is a turn of the loop in it, and `AddEdge` one of the second.
`TranslationFails` may come at any point: `_build_pcode` swallows it and
the response has no graph.

`ResponseDoc` has it followed by `VariableSymbolTable.build`, which is that of
`HighVariables` (`Table == INSTANCE HighVariables`, whose varnodes are the
translator's), and then by `EmitDoc`. The response is the sequence of its
elements: `Model` (symbols, `Ast`, `HighList`) and `Markup`, the chunks of the
text cut into breaks and tokens. `Shown` reads it as `render_c` does, but for the
underscores Ghidra puts for characters a type name must not have.

### Variables and edits: `HighVariables`, `UserEdits`

`HighVariables` is `VariableSymbolTable.build` over the varnodes of
`PcodeTranslator`. The text is a sequence of occurrences (`chunks`), each a
variable and the SSA value it renders; storage is an offset and a size, and
lookups go by the offset, as those of the code do. The first pass claims values
for variables (`Claim`, `Pass`, `Skip`), the second finds every symbol a
representative (`RepresentByMember`, `RepresentByStorage`, `RepresentByNew`).
`VarRef` is the reference the emitter gives a token.

`UserEdits` is the way of a rename: the user picks a token, Ghidra keeps the
name with the variable's storage or with what identifies the varnode
(`Rename`), and the next decompilation matches what was kept with the unified
variables of the text (`LookUp`, `Means`, `Redecompile`). What is kept is Ghidra's
storage, what is matched is angr's (`storage`). A stack offset is the same in both.
The way from a register of angr's to one of Ghidra's and back is by name, through
a callback (`StorageOf`, `WaysBack`): it may fail, or lead to another register, and
each decompilation takes it anew (`led`). angr and the lowering
are taken to give the same text and varnodes every time, as `_apply_edits` does
(angr_core.py:541-544). Retypes are matched in the same way and left out.

### Hashes: `DynamicHash`

`DynamicHash` emits an op graph operation by operation, hashes a varnode of it
as `unique_hash` does, and looks it up as `find_varnode` does. The hash is the
sequence the code feeds to its CRC, so collisions of the CRC are left out, as
are constants (whose value is fed too) and skipped operations (the lowering
emits none). `Edges` is `calc_hash`, `FirstLevel` is `_gather_first_level`. Only
`NumSlots` slots are told apart, 32 in the code, which has 5 bits for one: beyond
them a slot is read back as another, and `Fits` is the premise that it is not.

### Installation and launches: `Installer`, `Launcher`

`Installer` is both scripts: `run.at` is where a run is, and every change of a
file is an action. A copy takes two (`StartBackup`, `FinishBackup`; likewise for
the launcher), between which the file is `partial`; CONF is truncated and then
written line by line; `mv` is one. `BackupFails`, `InstallFails`, `LineFails` and
`RestoreFails` end the run of `install.sh` (`set -e`) and let `install.bat` go on
(`FailAndGo`); `Stop` ends any run anywhere. Finding Ghidra, an interpreter and a
launcher binary is `Prepare`, which changes nothing if it fails.

`Launcher` adds what Ghidra starts meanwhile: `Start` runs what `decompile` is at
the moment, `Load` reads CONF under the environment, and `ServerMode`, `HandOver`
and `RunCore` are the branches of `main`. The fallback is read from CONF and run
later, when the file may be another. `last`, `backupHurt` and `proc.clear` are
history: how the last run ended, whether a copy to the backup ever failed, and
whether a launch has seen no run under way.

## 3. The runs

| run | instance | distinct states | shows |
|---|---|---|---|
| `SharedServerSafety` | 2 launchers, Unix and TCP, timeout 1, 1 fault, 1 poll, symmetry | 535 000 | counter exact, counted sessions safe, stale files only from crashes, stops only when quiet |
| `SharedServerLiveness` | 2 launchers, Unix, no faults | 189 000 | stdin EOF ends the launcher; servers end once launchers have gone |
| `WireSession` | 3 commands, 2 queries each, breaks | 14 000 | alignment, outcomes, refinement of `RemoteCall`, termination |
| `DecompileSessions` | 2 sessions, 2 processes, 1 image of 2 functions, 3 requests, 1 crash, symmetry | 1 889 000 | locks, names at work and in the text, no second build |
| `DecompileLiveness` | 2 sessions, 1 process, 2 requests, 1 crash | 280 000 | every request ends |
| `ImageProbe` | 6 pages of 0, 1 or 2 bytes, limit 6 | 19 000 | probe correct for every memory and entry |
| `UserEdits` | 2 variables, 2 values, 3 occurrences, a stack slot and 2 registers, 2 renames, symmetry | 1 088 000 | instances disjoint, tokens resolve, renames that lead back stay |
| `DynamicHash` | 3 operations of 3 kinds at one address, lists of 2, 2 slots | 75 000 | what is refused, what is found again |
| `PackedCodec` | 7 items, 2 of them attributes, ids of 1 and 2 bytes, 16 bits | 433 000 | the decoder implements the element stream, `parse_tree` inverts the encoder, no byte is zero |
| `ResponseDoc` | 2 blocks, 3 statements, 3 SSA values, 2 variables, 2 chunks | 1 048 000 | the operations are those of the statements, references resolve, the text and the graph are read back |
| `Launcher` | 3 runs, 2 faults, 1 edit, both scripts, 2 environments | 1 430 000 | the original survives, runs are repeatable, launches work and end |
| `InstalledAngr` | 1 run of `install.sh`, no fault | violation | after an ordinary installation the stock decompiler runs |

Why the bounds are enough. Two launchers give every race over the file: one
replacing, one replaced. One fault separates what a crash may break from what
it may not; one poll is a poll that fails and a poll that succeeds, and the end
of polling. A timeout of one tick tells "a whole timeout" from "no time". Three
commands make every pair of consecutive commands, with a session that has
registered before it; two queries make every pair of answers. Two sessions
of one process contend, of two processes share files; with one image they
always share it (sessions of different images share no more than the locks);
three requests make a request of each session, and one after every kind of
ending. Two functions, one of
which calls the other, which mentions both, give every difference between what a
request names and what its text mentions. That a request ends depends on
the one before it, of the same session or of another, which holds or has left either
lock: for that two are enough. Limit 6 with pages of
two bytes is a limit that is a multiple of the page, as 500 KiB is; six pages
leave room for runs below, at and above it on either side. Two variables with a
stack slot and a register that may be two of angr's share everything or nothing of
a storage, and leave a register that a lookup can lead astray to;
three occurrences of two values show each value as two variables, in either
order, and leave one to spare. A list of candidates only ever holds varnodes of
one address; three operations with lists of two are the smallest graph in which
a hash is refused. With two slots the second input of an operation is the first
that does not fit. Seven items
make an element with two children, or a child with a child, with an attribute
before and inside; ids 31 and 32 are the last of one byte and the first of two,
155 sets the bit next to the header's own, 16 bits give integers of none to three
raw bytes as 64 give none to ten, and the strings are made of bytes that look like
headers, one so long that its length takes two. Two blocks have every edge there
is, so one source has two and one target two; three statements write a value,
read it in the same and in another block, and nest operations two deep; two
chunks put every kind of token, line feeds and spaces in them, before and behind
another. Three runs of
the scripts install, install again or uninstall, and put right what two faults
left; one edit takes out or puts in any setting. TLC needs the bounds, the
proofs do not.

**Fairness.** `SharedServer`: weak fairness of the system's steps together; no
thread can starve another for ever, because polls are bounded, a timed-out
`accept` is no step, and the clock stops. Ghidra's actions and faults are never
obliged to happen. `WireSession`: weak fairness of each end's own steps; sending
a command or closing is up to Ghidra. `DecompileSessions`: weak fairness of each
session's steps, which says that angr returns, that a Ghidra which is asked
answers or closes its stream, and, with requests bounded, that the lock comes
round. The code has no timeout on a query, so a Ghidra that does neither stops
every session of the process. `ImageProbe`: weak fairness of the loop. `Launcher`: weak fairness of the
launcher's own steps; nobody has to install, uninstall or start anything.

**Mutants.** Each property is checked against a changed definition that it must
refute: a session that is not counted, an unlink outside `finally`, an exception
whose terminator stays in the stream, a lock kept when a callback raises, a child's
end taken for the element's, variables written before their varnodes, a
comparison off by one. They stand next to the definitions they replace.

## 4. What the runs found

1. *An ordinary installation never runs angr* (`InstalledAngr`). The scripts
   write `fallback` whenever there is a backup, and `main` takes a fallback
   before a server or a core of its own.
2. *Text rendered outside the lock* (`RenderedNames.cfg`). `emit_doc` reads names
   another session may have replaced. `NamesAtWork` shows that the decompilation
   itself always runs under the session's own, `OwnNamesUnlessOvertaken`
   that they can change afterwards only while the session has left the lock and not
   rendered yet. Both are about the functions a request names. The names of others
   in its text, which it reaches by tail jumps or pointers, are those any earlier
   session gave them, and nobody has to be overtaken for that.
3. *A rename reaches the wrong variable* (`RenamedVariables.cfg`). Edits come back by
   storage, and of the variables that share one the first in the text gets the
   name. `AloneIsRenamed` shows that a variable that shares nothing shows the last of
   its names that led back to it.
4. *An idle exit can cut off a session*. `_handle` counts the session in its own
   thread; between `accept` and that, the watcher still sees none: in the model,
   `StopWhenIdle` between `Accept` and `HandlerEnters`. `OnlyLateSessionsKilled`
   bounds the damage: only such sessions.
5. *More than one server*. Two launchers that find no server start two; the
   second unlinks the first one's socket (`UnlinkStale`). Nothing is lost but
   sharing: `NeverLingers` shows that the replaced server ends.
6. *Limit of the probe* (`ImageProbeLimit.cfg`). A run over the limit is cut to a window
   around the entry, against the docstring of `probe_image` and the README, so each
   function of a large program hashes to an image of its own.
7. *Temporary images*. A build that raises leaves its file: after `BuildFails`
   nothing lowers `img`.
8. *Hashes that are not found again* (`StoredHashes.cfg`). `unique_hash` may pack the place in an
   earlier method's list with the last method's hash; the module documents the
   quirk, the test promises that every hash is found. `UniqueIsFound` says that a
   varnode which some method singles out is.
9. A short first page is glued to the page above it (why `BytesInPlace` assumes
   a full one), and the client's `deregister_program` expects a result the core
   never sends (why `ReturnsOwnOutcome` has a third case).
10. *A backup cut short is taken for a backup*. A copy stopped half way leaves a
   partial `decompile.orig` that the next run does not replace, and `install.bat`
   overwrites the original even after the copy failed: why `OriginalKept`
   assumes that the backup has not been hurt.
11. *Operations that are not there* (`UnresolvedOps.cfg`). Tokens get an `opref`
    whenever there is a translator, but the `<ast>` with the operations is written
    only for a function that has a variable. `ReferencesResolve` and
    `GraphIsReadBack` are about the others.
12. *Stores without a trace*. A store of a plain variable through a plain variable
    is lowered to no operation, so the graph has no use of either, against the
    comment at the place: why `DataFlowIsKept` asks only for operands that compute.
13. *Closing is not skipping* (`ClosedElements.cfg`). The docstring of `PackedDecoder` says
    that `close_element` skips what has not been read; it raises, and
    `close_element_skipping` skips.
14. *Renames that lead nowhere*. The rename of a variable in a register is matched by
    way of the register's name; if the callback fails or archinfo does not know
    the name, it is dropped without a word: why `AloneIsRenamed` speaks of the
    names that led back (`LedBack`).

`InstalledAngr` is among the runs. The other configurations show what the code does
against its documentation when they are run by hand; each checks one property that
does not hold. The lines of all findings are in `PROJECT.json`.

| configuration | module | instance | violated |
|---|---|---|---|
| `RenderedNames.cfg` | `MCDecompileSessions` | 2 sessions of 1 process, 2 requests | `RenderedNamesAreOwn` |
| `RenamedVariables.cfg` | `MCUserEdits` | as `UserEdits`, 1 rename | `RenameIsShown` |
| `ImageProbeLimit.cfg` | `ImageProbe` | as `ImageProbe` | `TooLargeGivesNone` |
| `StoredHashes.cfg` | `MCDynamicHash` | 4 assignments at one address, the code's bounds | `StoredIsFound` |
| `ClosedElements.cfg` | `MCPackedCodec` | as `PackedCodec` | `CloseSkipsUnread` |
| `UnresolvedOps.cfg` | `MCResponseDoc` | as `ResponseDoc` | `OpRefsResolve` |

## 5. What is proved

Every theorem is for arbitrary constants under the assumptions named in the
modules: finitely many launchers, `None` none of them, natural bounds, integers of
at most the 105 bits a length code can count (the code has 64), ids of twelve bits,
strings without the character NUL, operations that name what they write, and AIL
expressions whose operands come before them.

`SharedServerProofs`. Inductive invariant `IInv`: the types, the counter
(`ActiveCountsSessions`), `OnlyLateSessionsKilled`, and what they lean on: a
session with a handler belongs to a process that runs (`SessionShape`), a main
thread leaves its loop only after `_stop` or a fault (`LeavingShape`), sessions
served after `_stop` are late (`LateShape`), the file names a process between
its bind and its last unlink (`FileShape`), the watcher's clock does not run
ahead of the quiet time while nobody is counted (`ClockShape`), and a launcher
without a server has no process (`LauncherShape`). `ActiveCountsSessions` alone
is not inductive: a handler that uncounts must know that its process lives and
that it was counted. Cardinalities are handled by `OneMore`, `OneLess` and
`CountedFinite`. `StopsOnlyWhenQuiet` is an action property from `ClockShape`.

`WireSessionProofs`. What is in a stream is described by what reading it does:
`Path(end, state, stream, goal)` says that the end, from its state, reads all of
the stream and is then in the goal. Writing a message prolongs the path of its
reader (`PathAppend`; `CommandIsRead`, `QueryIsRead`, `AnswerIsRead`,
`OutcomeIsRead` say where each message leads, by the tables), reading a token
shortens it (`PathRead`), and a stream cut off has an initial part of it
(`PathCut`). None of the four properties is inductive: `IInv` gives each stage of
a call, `Sent`, `Body`, `Asking`, `Answering` and `Finished`, the paths of both
ends, and says what an end left alone can still read (`ClientAlone`,
`CoreAlone`). The stages are the phases of `RemoteCall` (`LineIsStage`), so each
step between them is one of its calls, and a step within one is none
(`NextImplements`); an end that goes breaks the line.

`DecompileSessionsProofs`. `LocksFollowSections` is carried through every step by
`MoveKeepsLocks`: a step moves one session and takes or releases a lock exactly
when it enters or leaves the section. `Apart` then gives `OneAtWork`, which in
turn carries `NamesAtWork` and `BuiltOnce`; the latter needs that an image once
built is in memory or about to be (`BuiltIsKept`) and that a session about to
build has looked (`NotBuiltYet`). For the names, `NamesSoFar` says that of a session at
naming all functions it names but the `pending` ones have its own names, so that all
have them when it goes to work. `NamesAreOwnUnlessOvertaken` follows it out of the
lock: each function it names keeps that name until it has rendered, or been
overtaken for this function (`NamesKept`), nobody is overtaken before it has left the
lock (`NotYetOvertaken`), and no text is there before it is rendered
(`NotYetRendered`). The steps that could break it are `SetName`s of another session
(`SettingAName`), which holds the lock: a session in the section is excluded by
`Apart`, one that renders is overtaken by it.

The same module has the image probe. The pages read are full but for the entry and
the last (`PagesShape`), their number gives the bytes (`TotalShape`), and each walk
ended for a reason (`LowerEnd`, `UpperEnd`). The products of page numbers and page
size are kept in `OneMorePage` and `MorePages`.

`HighVariablesProofs`. `IInv` has the types, the disjointness, and what makes
them inductive: what is claimed is what is somebody's instance
(`ClaimedAreMembers`), instances are at the storage of their variable
(`MembersInPlace`), in the first pass they are values of occurrences already
seen (`MembersOccur`), and a value that is not its own variable's was found taken
(`OwnUnlessTaken`). `MembersStep` reduces the eight actions to two cases: nothing
grows, or one list by a varnode that was nobody's. `FirstIsThere` needs a least
element, which `LeastElement` takes from the well-foundedness of the naturals.
`EditsLeaveVariables` shows that the steps of `UserEdits` are stutters to
`build()`, and carries the four theorems over to it. `LoneVariablesKeepNames` is
about the renames themselves: once a text shows the edits, each unified variable has
the name the edits give it by the storage each was led to (`EditsInv`), and one that
was led back to a variable that shares nothing means that one (`MeansItsOwn`): the
first occurrence in the text that is at its storage is its own.

`PackedCodecProofs`. In three layers. *Numbers and values*: `HeaderIsReadBack` is
by cases on the length of the id; `IntegerIsReadBack` follows the decoder's loop,
which after `n` raw bytes holds the value without its last digits (`NextDigit`);
`ValueIsReadBack` says of each kind of value that it is returned, and skipped,
wherever its bytes stand in a buffer (`Stands`). *Documents*: the invariant
`WrittenWell` says that each item's bytes stand at its mark, one behind the other
(`Layout`), and how the open elements follow from the items (`Nesting`); it
gives `PayloadHasNoZero`. With it, `ParsedWell` says that the parser is at a mark and
has in its tree the items before it, and `TreeIsWhatWasWritten` follows.
*The reader*: the decoder's loops are solved from the back of the document.
`RunIsReadBack` says that an attribute run read in the bytes is the one of the
items, `EndIsReadBack` that `close_element_skipping` stops at the end that closes
the element it left, by counting starts and ends (`DepthsCount`). `ReadWell` adds
that an unbroken reader is at a mark, and that its remembered places are behind
starts. `ReaderImplementsStream` is then the refinement, call by call: every
call is the call of `ElementStream` at the item the position marks.

`DynamicHashProofs`. A varnode is in the first-level list of its own hash, because
the first edge of its neighbourhood is one of its own whatever the method
(`FirstEdge`, `FirstLevelHasRoot`), so it is in the list the search compares
(`ListHasRoot`), provided that the slot of that edge comes back as it was packed
(`Fits`). `HashInv` carries, for such a varnode, that the champion is one of the lists
tried so far and none of these had one candidate, or that all were too long: refused
means that all four were (`OnlyCrowdedIsRefused`), and a list of one ends the search
with it (`UniqueIsAlwaysFound`). `EmitKeepsGraph` keeps the op graph well formed.

`ResponseDocProofs`. The invariant `DocInv` follows a response through its phases.
While the lowering runs, `LowTypes` says that every operation refers to varnodes
there are (each of `Vvar`, `New`, `Emit`, `Operands`, `Expr` and `Statement` only adds
to a graph that does: `Grown`), `BlocksShape` that the times of the blocks follow
each other without a gap, and `EdgesShape` that the in-edges so far are the edges of
the graph so far, each once. When it has ended, the table of variables is that of
`HighVariablesProofs`, whose module is instantiated with the translator's
varnodes: its `IInv` holds at the start (`FreshHasInv`), is kept by its steps, and
says what the emitter needs (`BuiltIfDone`). Without a translator
`AloneIfNotLowered` says that a variable has no instance but its representative.
`Sent` then says of the response what its reader finds. None of the three
properties is inductive: each speaks of the response alone, which one step writes.

That step is proved part by part. What a sequence becomes element by element
(`Each`: what it shows, what it has of one kind) is what its parts become, one after
the other (`EachConcat`, `EachFlatten`). For the text: `SegmentsJoin`, `RunsJoin` and
`IndentSplits` say that nothing is lost between lines, words and indentation, and
`SegmentIsShown` to `MarkupIsShown` follow the emitter's loops
(`TextIsAlwaysShown`). For the references, `Linked` says of a sequence that each
element refers to what is before it; it is kept when a part is appended whose
elements refer to what is in the parts before (`SymbolsLinked`, `GraphLinked`,
`RepsLinked`, `ModelLinked`, `MarkupFine`), and `FineResolves` leads from it to
`ReferencesAlwaysResolve`. For the graph, the elements of a kind are picked part by
part: the operations of the blocks are all operations (`OpsOfAll`), the edges are the
edges of the graph (`EdgesAre`), and the places of those that leave a block are
0, 1, ... because each is its rank among them (`RanksBelow`)
(`GraphIsAlwaysReadBack`).

`DataFlowIsAlwaysKept` has an invariant of its own, `FlowInv`. The property follows
what is read back through chains of temporaries, in the finished graph only. The
invariant turns this around: while the lowering runs, each varnode can be given the
SSA values it carries (`Flows`: the varnode of a value that value, a temporary what
the operations that write it read, all of which are before its readers), so that the
statements done so far have their operations, in their order, and there is no other
that writes no temporary (`Told`). Each step extends what has been given out and
changes none of it (`Continues`): a value met for the first time gets a varnode that
nothing has read (`FlowVvar`), a new operation writes a temporary nobody has read yet
(`FlowTemp`). `ExprTraces` says by induction over the expressions that the reference
to an expression carries what `Reads` says of it, `StatementTells` that each form
of statement becomes what is told of it, and `FromIsCarried`, by induction over the
times, that the chains the property follows end at what the varnodes carry. That the
invariant holds of the empty graph and is kept by the five steps of the lowering gives
the theorem; what comes after it changes neither the operations nor the varnodes of
values (`FlowStays`).

These three modules need induction over data, for which the library's theorems cannot
be used. It is done with what can: `LeastElement` says that a nonempty set of numbers
has a least element (from the well-foundedness of the naturals), `Induction`,
`StrongInduction` and `Descent` are its consequences for sets of numbers, and
`Recursion`, `RecursionOnNat` and `Stepwise` show from them that a recursive function
equals its defining equation. So the models compute with recursive functions over
numbers.

`LauncherProofs`. `IInv` says where the original is at each point of a run
(`Kept`), what a run without a failed command has written so far (`Written`), and
what the last run left until the next one begins to change it (`Left`): none of
the properties is inductive, because each speaks of the end of a run. `ReadWhole`
carries a launch from a whole CONF to its choice. The scripts' actions are taken
one by one; a launch never touches what they are about.

Only model-checked: the liveness properties (`EofEndsLauncher`, `NeverLingers`,
`EveryCallEnds`, `CoreEndsWithClient`, `RequestEnds`, `Returns`, `LaunchEnds`).
Liveness under fairness and ENABLED are beyond the prover. Every invariant and every
action property of a passing run has its theorem. `FlowInv` is proved and not given
to TLC, which would have to enumerate what it says exists; the property it implies
is checked.

`tlapm` needs about a quarter of an hour for `ResponseDocProofs` and less than five
minutes for any other module. One form of definition is avoided because it expands
it wrongly: a recursive function whose first CASE arm does not recur (`Reads` is
written with IF).

## 6. What is not modelled

* angr's analyses: they return, fail, or say anything of the right form.
* Opcodes, sizes and values of constants in the lowering, names and colours in
  the response, `emit_parammeasures` (a flat list that refers to nothing).
* Ghidra's XML (`spec.py`), conversion of types (`prototypes.py`), addresses and
  the table of ids: stateless, and wrong results show in any decompilation.
* The caches of one session (prototypes, Thumb, architecture), the windows of the
  scoped path, and retypes: what they should hold after a change, or give back
  when a read fails, is nowhere said; the hazards list them without a property.
* The prototypes sessions set in a shared project: what one changes in a
  decompilation is up to angr.
* The launcher's log and arguments, test tools, the scripts run inside Ghidra.

Each component is listed with its reason in `PROJECT.json`.

## 7. Plan

In order of weight; the first ten are done.

1. `ServerDaemon`, `SharedServer`: the processes; runs, proofs.
2. `RemoteCall`, `WireSession`: the protocol and its abstraction; run, proofs.
3. `ImageCache`, `DecompileSessions`: sessions under the locks; runs, proofs.
4. `ImageProbe`: a pure reader against a reference; run, proofs.
5. `HighVariables`, `UserEdits`: from tokens to variables and back; runs, proofs.
6. `DynamicHash`: hashes of varnodes; run, proofs.
7. `Installer`, `Launcher`: the installation and the choice of mode; runs, proofs.
8. `ElementStream`, `PackedFormat`, `PackedCodec`: the encoding; run, proofs.
9. `Lowering`, `ResponseDoc`: what a response is made of; run, proofs.
10. `DataFlowIsKept`: an invariant that relates each lowered statement to its
    operation, and its proof.
11. The caches of one session, should the code come to say when they are stale.
