----------------------------- MODULE Installer -----------------------------
(***************************************************************************)
(* install.sh and install.bat: Ghidra's decompiler (TARGET) is copied to   *)
(* BACKUP unless there is a backup already, the launcher takes its place,  *)
(* and CONF is written line by line; --uninstall moves the backup back and *)
(* deletes CONF. A copy is not atomic: while it is made, and if it stops   *)
(* half way, the file is "partial". A rename is.                           *)
(*                                                                         *)
(* On "unix" (set -e) a run ends at the first command that fails. On       *)
(* "windows" no copy, move or echo is looked at and the run goes on.       *)
(* A run may be stopped anywhere (the terminal closes). Options that only  *)
(* choose the interpreter and the launcher binary are part of Prepare.     *)
(***************************************************************************)
EXTENDS Integers, Sequences

CONSTANTS
    Platforms,  \* the scripts that are modelled, of "unix" and "windows"
    NoFile,     \* stands for CONF when there is none
    MaxRuns,    \* bound on the runs of the scripts
    MaxFaults,  \* bound on the commands that fail and the runs that are stopped
    MaxEdits    \* bound on the edits of CONF by its owner

Content == {"absent", "original", "launcher", "partial"}

\* The settings of CONF that decide what the launcher runs.
Required == {"python", "core", "pythonpath"}
Settings == Required \cup {"fallback", "server", "log"}

ASSUME PlatformsAssumption == Platforms \subseteq {"unix", "windows"}
ASSUME NoFileAssumption == \A S \in SUBSET Settings : S # NoFile
ASSUME BoundsAssumption == MaxRuns \in Nat /\ MaxFaults \in Nat /\ MaxEdits \in Nat

VARIABLES
    platform,
    target,     \* what `decompile` is
    backup,     \* what `decompile.orig` is
    conf,       \* the settings in angr-decompile.conf, or NoFile
    run,        \* the run under way: where it is, --server, the next line of CONF,
                \* and whether all commands so far have succeeded
    last,       \* how the last run ended that had begun to change anything
    stock,      \* Ghidra came with a decompiler
    backupHurt, \* a copy to BACKUP has failed or was stopped
    runs, faults, edits

files == <<target, backup, conf>>
history == <<platform, stock, runs, edits>>
installerVars == <<platform, target, backup, conf, run, last, stock, backupHurt,
                   runs, faults, edits>>

NoRun == [at |-> "idle", server |-> FALSE, line |-> 1, ok |-> TRUE]

InstallerInit ==
    /\ platform \in Platforms
    /\ stock \in BOOLEAN
    /\ target = IF stock THEN "original" ELSE "absent"
    /\ backup = "absent"
    /\ conf = NoFile
    /\ run = NoRun
    /\ last = "none"
    /\ backupHurt = FALSE
    /\ runs = 0 /\ faults = 0 /\ edits = 0

Goto(place) == run' = [run EXCEPT !.at = place]

\* The run is over; how it ended.
End(outcome) == run' = NoRun /\ last' = outcome

\* A command fails. `set -e` ends the run, install.bat goes on to the next one.
Fault == faults < MaxFaults /\ faults' = faults + 1
FailAndGo(place) ==
    IF platform = "unix"
    THEN End("cut")
    ELSE run' = [run EXCEPT !.at = place, !.ok = FALSE] /\ UNCHANGED last

-----------------------------------------------------------------------------
(* Installing *)

Begin(place, server) ==
    /\ run.at = "idle" /\ runs < MaxRuns
    /\ runs' = runs + 1
    /\ run' = [NoRun EXCEPT !.at = place, !.server = server]
    /\ UNCHANGED <<files, platform, stock, edits, last, backupHurt, faults>>

\* An interpreter that imports angr and a launcher binary have been found.
Prepare ==
    /\ run.at = "prepare"
    /\ Goto("backup")
    /\ UNCHANGED <<files, history, last, backupHurt, faults>>

\* One of them has not, and nothing has changed.
PrepareFails ==
    /\ run.at = "prepare"
    /\ run' = NoRun
    /\ UNCHANGED <<files, history, last, backupHurt, faults>>

KeepBackup ==
    /\ run.at = "backup"
    /\ backup # "absent" \/ target = "absent"
    /\ Goto("install")
    /\ UNCHANGED <<files, history, last, backupHurt, faults>>

\* Mutant: every installation makes a backup.
StartBackupAnew ==
    /\ run.at = "backup"
    /\ target # "absent"
    /\ backup' = "partial"
    /\ Goto("copying")
    /\ UNCHANGED <<target, conf, history, last, backupHurt, faults>>

StartBackup ==
    /\ run.at = "backup"
    /\ backup = "absent" /\ target # "absent"
    /\ backup' = "partial"
    /\ Goto("copying")
    /\ UNCHANGED <<target, conf, history, last, backupHurt, faults>>

FinishBackup ==
    /\ run.at = "copying"
    /\ backup' = target
    /\ Goto("install")
    /\ UNCHANGED <<target, conf, history, last, backupHurt, faults>>

\* Windows' copy may delete what it could not finish.
BackupFails ==
    /\ run.at = "copying" /\ Fault
    /\ backup' \in IF platform = "unix" THEN {"partial"} ELSE {"partial", "absent"}
    /\ backupHurt' = TRUE
    /\ FailAndGo("install")
    /\ UNCHANGED <<target, conf, history>>

StartInstall ==
    /\ run.at = "install"
    /\ target' = "partial"
    /\ Goto("installing")
    /\ UNCHANGED <<backup, conf, history, last, backupHurt, faults>>

FinishInstall ==
    /\ run.at = "installing"
    /\ target' = "launcher"
    /\ Goto("conf")
    /\ UNCHANGED <<backup, conf, history, last, backupHurt, faults>>

\* The disk is full, or (on Windows) decompile.exe is in use and cannot be replaced.
InstallFails ==
    /\ \/ run.at = "installing"
       \/ run.at = "install" /\ platform = "windows"
    /\ Fault
    /\ FailAndGo("conf")
    /\ UNCHANGED <<files, history, backupHurt>>

TruncateConf ==
    /\ run.at = "conf"
    /\ conf' = {}
    /\ run' = [run EXCEPT !.at = "lines", !.line = 1]
    /\ UNCHANGED <<target, backup, history, last, backupHurt, faults>>

\* Mutant: the core's package is not made importable.
LinesNoPath == <<"python", "core", "fallback", "server">>

Lines == <<"python", "core", "pythonpath", "fallback", "server">>

\* A line that would be a comment, or is left out, sets nothing.
Sets(key) ==
    /\ key = "fallback" => backup # "absent"
    /\ key = "server" => run.server

NextLine(ok) ==
    IF run.line = Len(Lines)
    THEN End(IF ok THEN "installed" ELSE "cut")
    ELSE run' = [run EXCEPT !.line = @ + 1, !.ok = ok] /\ UNCHANGED last

WriteLine ==
    /\ run.at = "lines"
    /\ conf' = conf \cup {key \in {Lines[run.line]} : Sets(key)}
    /\ NextLine(run.ok)
    /\ UNCHANGED <<target, backup, history, backupHurt, faults>>

\* (On unix this is a run that stops here: Stop.)
LineFails ==
    /\ run.at = "lines" /\ platform = "windows" /\ Fault
    /\ NextLine(FALSE)
    /\ UNCHANGED <<files, history, backupHurt>>

-----------------------------------------------------------------------------
(* Uninstalling *)

Restore ==
    /\ run.at = "restore"
    /\ backup # "absent"
    /\ target' = backup /\ backup' = "absent"
    /\ Goto("dropconf")
    /\ UNCHANGED <<conf, history, last, backupHurt, faults>>

\* Mutant: without a backup there is nothing to uninstall.
NothingToRestoreStops ==
    /\ run.at = "restore"
    /\ backup = "absent"
    /\ End("uninstalled")
    /\ UNCHANGED <<files, history, backupHurt, faults>>

NothingToRestore ==
    /\ run.at = "restore"
    /\ backup = "absent"
    /\ Goto("dropconf")
    /\ UNCHANGED <<files, history, last, backupHurt, faults>>

RestoreFails ==
    /\ run.at = "restore" /\ backup # "absent" /\ Fault
    /\ FailAndGo("dropconf")
    /\ UNCHANGED <<files, history, backupHurt>>

DropConf ==
    /\ run.at = "dropconf"
    /\ conf' = NoFile
    /\ End(IF run.ok THEN "uninstalled" ELSE "cut")
    /\ UNCHANGED <<target, backup, history, backupHurt, faults>>

-----------------------------------------------------------------------------
(* What happens to the scripts and their files from outside *)

Stop ==
    /\ run.at # "idle" /\ Fault
    /\ End("cut")
    /\ backupHurt' = (backupHurt \/ run.at = "copying")
    /\ UNCHANGED <<files, history>>

\* "Edit as needed": a setting is commented out or in.
EditConf(key) ==
    /\ run.at = "idle" /\ conf # NoFile
    /\ edits < MaxEdits /\ edits' = edits + 1
    /\ conf' = IF key \in conf THEN conf \ {key} ELSE conf \cup {key}
    /\ UNCHANGED <<target, backup, platform, stock, runs, run, last, backupHurt, faults>>

InstallStep ==
    \/ \E server \in BOOLEAN : Begin("prepare", server)
    \/ Prepare \/ PrepareFails
    \/ KeepBackup \/ StartBackup \/ FinishBackup \/ BackupFails
    \/ StartInstall \/ FinishInstall \/ InstallFails
    \/ TruncateConf \/ WriteLine \/ LineFails

UninstallStep ==
    \/ Begin("restore", FALSE)
    \/ Restore \/ NothingToRestore \/ RestoreFails
    \/ DropConf

InstallerStep ==
    \/ InstallStep \/ UninstallStep \/ Stop
    \/ \E key \in Settings \ Required : EditConf(key)
=============================================================================
