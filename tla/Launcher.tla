------------------------------ MODULE Launcher ------------------------------
(***************************************************************************)
(* main of launcher/src/main.rs beside the installation scripts: Ghidra    *)
(* may start `decompile` at any moment of a run. The launcher reads CONF   *)
(* once, chooses between the fallback binary, the shared server and a core *)
(* of its own, and runs its choice, while the files go on changing.        *)
(*                                                                         *)
(* One launch at a time is enough: launches only read the files. A         *)
(* fallback is the backup the scripts name. What try_server_mode does is   *)
(* in SharedServer; here it succeeds or returns.                           *)
(***************************************************************************)
EXTENDS Installer

CONSTANT Environments   \* the sets of settings that ANGR_GHIDRA_* variables may make

ASSUME EnvironmentsAssumption == Environments \subseteq SUBSET Settings

VARIABLES
    env,        \* the settings made by environment variables
    proc        \* the last launch: what it is doing, the settings it has read, and
                \* whether no run has been under way since it began, the last complete

vars == <<installerVars, env, proc>>

Over == {"none", "failed", "stock", "server", "angr"}

Init ==
    /\ InstallerInit
    /\ env \in Environments
    /\ proc = [at |-> "none", settings |-> {}, clear |-> FALSE]

\* What running a binary with this content comes to.
Exec(content) ==
    CASE content = "original" -> "stock"
      [] content = "launcher" -> "load"
      [] content \in {"partial", "absent"} -> "failed"

\* Ghidra spawns TARGET.
Start ==
    /\ proc.at \in Over
    /\ proc' = [at |-> Exec(target), settings |-> {},
                clear |-> run.at = "idle" /\ last = "installed"]
    /\ UNCHANGED <<installerVars, env>>

\* Config::load and Logging::from_config: no CONF is an empty one, an
\* environment variable wins, and a log that cannot be opened is no log.
Load ==
    /\ proc.at = "load"
    /\ LET loaded == env \cup IF conf = NoFile THEN {} ELSE conf
       IN \E settings \in {loaded, loaded \ {"log"}} :
              proc' = [proc EXCEPT !.at = "choose", !.settings = settings]
    /\ UNCHANGED <<installerVars, env>>

TriesServer ==
    /\ proc.at = "choose"
    /\ "server" \in proc.settings
    /\ {"log", "fallback"} \cap proc.settings = {}

ServerMode ==
    /\ TriesServer
    /\ \E outcome \in {"server", "direct"} : proc' = [proc EXCEPT !.at = outcome]
    /\ UNCHANGED <<installerVars, env>>

\* Mutant: the fallback is looked for under the name Ghidra spawns.
HandOverToSelf ==
    /\ proc.at = "choose" /\ "fallback" \in proc.settings
    /\ proc' = [proc EXCEPT !.at = Exec(target)]
    /\ UNCHANGED <<installerVars, env>>

\* hand_over, or run_logged, of the fallback binary.
HandOver ==
    /\ proc.at = "choose" /\ "fallback" \in proc.settings
    /\ proc' = [proc EXCEPT !.at = Exec(backup)]
    /\ UNCHANGED <<installerVars, env>>

\* hand_over, or run_logged, of a core in Python. Without all settings it may
\* yet be found: an interpreter in PATH, the core beside the executable.
RunCore ==
    /\ proc.at \in {"choose", "direct"}
    /\ ~TriesServer /\ "fallback" \notin proc.settings
    /\ \E outcome \in {"angr"} \cup (IF Required \subseteq proc.settings THEN {} ELSE {"failed"}) :
           proc' = [proc EXCEPT !.at = outcome]
    /\ UNCHANGED <<installerVars, env>>

LauncherStep == Load \/ ServerMode \/ HandOver \/ RunCore

\* A run that begins, goes on or ends during a launch is noted.
ScriptStep ==
    /\ InstallerStep
    /\ proc' = [proc EXCEPT !.clear = proc.clear /\ run'.at = "idle"]
    /\ UNCHANGED env

Next == ScriptStep \/ Start \/ LauncherStep

\* The operating system runs the launcher.
Spec == Init /\ [][Next]_vars /\ WF_vars(LauncherStep)

-----------------------------------------------------------------------------
(* Properties *)

Run == [at : {"idle", "prepare", "backup", "copying", "install", "installing",
              "conf", "lines", "restore", "dropconf"},
        server : BOOLEAN, line : 1..Len(Lines), ok : BOOLEAN]
Outcome == {"none", "cut", "installed", "uninstalled"}
Launch == [at : Over \cup {"load", "choose", "direct"},
           settings : SUBSET Settings, clear : BOOLEAN]

TypeOK ==
    /\ platform \in Platforms
    /\ target \in Content /\ backup \in Content
    /\ conf = NoFile \/ conf \in SUBSET Settings
    /\ run \in Run /\ last \in Outcome
    /\ stock \in BOOLEAN /\ backupHurt \in BOOLEAN
    /\ runs \in 0..MaxRuns /\ faults \in 0..MaxFaults /\ edits \in 0..MaxEdits
    /\ env \in SUBSET Settings
    /\ proc \in Launch

\* "Reversible": unless the copy to BACKUP itself went wrong, no order of runs,
\* failures and stops, on either platform, loses Ghidra's own decompiler.
OriginalKept ==
    stock /\ ~backupHurt => "original" \in {target, backup}

\* "Re-runnable": whatever runs went before and wherever they ended, a run that
\* completes leaves all of an installation, or nothing of it.
RunsAreRepeatable ==
    run.at = "idle" =>
        /\ last = "installed" =>
              /\ target = "launcher"
              /\ conf # NoFile /\ Required \subseteq conf
              /\ edits = 0 => ("fallback" \in conf <=> backup # "absent")
        /\ last = "uninstalled" /\ stock /\ ~backupHurt =>
              target = "original" /\ backup = "absent" /\ conf = NoFile

\* A launch that no run overlaps, after an installation that completed, does
\* not fail, whatever the environment and the edits of CONF make it run.
ClearLaunchWorks ==
    proc.clear /\ stock /\ ~backupHurt => proc.at # "failed"

\* A launcher comes to an end of its choices, and does not hand over to
\* launchers for ever, even while runs replace the files it hands over to.
LaunchEnds ==
    proc.at = "load" ~> (proc.at \in Over \/ backupHurt \/ ~stock)

-----------------------------------------------------------------------------
(* What the documentation says and the code does not do *)

\* "leave unset for normal use": a launcher runs the stock decompiler instead
\* of angr only for someone who has set `fallback`.
StockOnlyIfAsked ==
    proc.at = "stock" /\ "fallback" \in proc.settings =>
        "fallback" \in env \/ edits > 0

=============================================================================
