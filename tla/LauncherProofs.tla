-------------------------- MODULE LauncherProofs --------------------------
(***************************************************************************)
(* Proofs about the installation scripts and the launcher, for any numbers *)
(* of runs, faults and edits and any environments.                         *)
(***************************************************************************)
EXTENDS Launcher, TLAPS

-----------------------------------------------------------------------------
(* The invariant of the proofs *)

\* Where the original is at each point of a run.
Kept ==
    stock /\ ~backupHurt =>
        /\ backup \in {"absent", "original", "partial"}
        /\ backup = "absent" => target = "original"
        /\ backup = "partial" => run.at = "copying"
        /\ run.at = "copying" => target = "original"
        /\ run.at \in {"install", "installing", "conf", "lines"} => backup = "original"

\* The files of a run whose commands have all succeeded so far.
Written ==
    /\ run.at \in {"conf", "lines"} /\ run.ok => target = "launcher"
    /\ run.at = "lines" /\ run.ok =>
          /\ conf # NoFile
          /\ run.line > 1 => "python" \in conf
          /\ run.line > 2 => "core" \in conf
          /\ run.line > 3 => "pythonpath" \in conf
          /\ run.line <= 4 => "fallback" \notin conf
          /\ run.line > 4 => ("fallback" \in conf <=> backup # "absent")
    /\ run.at = "lines" => conf # NoFile
    /\ run.at = "dropconf" /\ run.ok => backup = "absent"

\* What the last run left; a run that has only looked has not touched it.
Left ==
    run.at \in {"idle", "prepare"} =>
        /\ last = "installed" =>
              /\ target = "launcher"
              /\ conf # NoFile /\ Required \subseteq conf
              /\ edits = 0 => ("fallback" \in conf <=> backup # "absent")
        /\ last = "uninstalled" /\ stock /\ ~backupHurt =>
              target = "original" /\ backup = "absent" /\ conf = NoFile

\* A clear launch has read a whole CONF.
ReadWhole ==
    proc.clear =>
        /\ run.at = "idle" /\ last = "installed"
        /\ proc.at \in {"choose", "direct"} => Required \subseteq proc.settings

LEMMA LineNames ==
  /\ Lines[1] = "python" /\ Lines[2] = "core" /\ Lines[3] = "pythonpath"
  /\ Lines[4] = "fallback" /\ Lines[5] = "server" /\ Len(Lines) = 5
  BY DEF Lines

-----------------------------------------------------------------------------
(* Type correctness *)

\* CONF is there while its lines are written.
TypeInv == TypeOK /\ (run.at = "lines" => conf # NoFile)

LEMMA NoRunType == NoRun \in Run
  BY LineNames DEF NoRun, Run

LEMMA GotoType ==
  ASSUME NEW place \in {"backup", "copying", "install", "installing", "conf", "dropconf"},
         run \in Run, Goto(place)
  PROVE  run' \in Run /\ run'.at = place /\ run'.ok = run.ok
  BY DEF Goto, Run

\* A command that fails: the run ends, or goes on at a place there is.
LEMMA FailType ==
  ASSUME NEW place \in {"install", "conf", "dropconf"},
         run \in Run, last \in Outcome, FailAndGo(place)
  PROVE  run' \in Run /\ last' \in Outcome /\ run'.at # "lines"
<1>1. CASE platform = "unix"
  <2>1. run' = NoRun /\ last' = "cut"
    BY <1>1 DEF FailAndGo, End
  <2>2. NoRun.at = "idle"
    BY DEF NoRun
  <2> QED BY <2>1, <2>2, NoRunType DEF Outcome
<1>2. CASE platform # "unix"
  BY <1>2 DEF FailAndGo, Run
<1> QED BY <1>1, <1>2

LEMMA LineType ==
  ASSUME NEW ok \in BOOLEAN, run \in Run, last \in Outcome, NextLine(ok)
  PROVE  run' \in Run /\ last' \in Outcome
<1>1. CASE run.line = Len(Lines)
  BY <1>1, NoRunType DEF NextLine, End, Outcome
<1>2. CASE run.line # Len(Lines)
  <2>1. run.line + 1 \in 1..Len(Lines)
    BY <1>2, LineNames DEF Run
  <2> QED BY <1>2, <2>1 DEF NextLine, Run
<1> QED BY <1>1, <1>2

LEMMA FaultType == faults \in 0..MaxFaults /\ Fault => faults' \in 0..MaxFaults
  BY BoundsAssumption DEF Fault

LEMMA InitType == Init => TypeInv
<1> SUFFICES ASSUME Init PROVE TypeInv
  OBVIOUS
<1>1. proc \in Launch /\ env \in SUBSET Settings
  BY EnvironmentsAssumption DEF Init, Launch, Over
<1>2. run \in Run /\ run.at # "lines"
  BY NoRunType DEF Init, InstallerInit, NoRun
<1>3. stock \in BOOLEAN /\ backupHurt \in BOOLEAN /\ conf = NoFile
  BY DEF Init, InstallerInit
<1>4. target \in Content /\ backup \in Content /\ last \in Outcome /\ platform \in Platforms
  BY DEF Init, InstallerInit, Content, Outcome
<1>5. runs \in 0..MaxRuns /\ faults \in 0..MaxFaults /\ edits \in 0..MaxEdits
  BY BoundsAssumption DEF Init, InstallerInit
<1> QED BY <1>1, <1>2, <1>3, <1>4, <1>5 DEF TypeInv, TypeOK

LEMMA ScriptType == TypeInv /\ ScriptStep => TypeInv'
<1> SUFFICES ASSUME TypeInv, ScriptStep PROVE TypeInv'
  OBVIOUS
<1> USE DEF TypeInv, TypeOK, files, history
<1>p. proc' \in Launch /\ env' \in SUBSET Settings
  BY DEF ScriptStep, Launch
<1>0. ASSUME NEW place \in {"prepare", "restore"}, NEW server \in BOOLEAN, Begin(place, server)
      PROVE  TypeInv'
  <2>1. run' \in Run /\ run'.at # "lines"
    BY <1>0, NoRunType DEF Begin, Run, NoRun
  <2>2. runs' \in 0..MaxRuns
    BY <1>0, BoundsAssumption DEF Begin
  <2> QED BY <1>0, <1>p, <2>1, <2>2 DEF Begin
<1>1. CASE Prepare
  BY <1>1, <1>p, GotoType DEF Prepare, Content
<1>2. CASE PrepareFails
  BY <1>2, <1>p, NoRunType DEF PrepareFails, NoRun
<1>3. CASE KeepBackup
  BY <1>3, <1>p, GotoType DEF KeepBackup, Content
<1>4. CASE StartBackup
  BY <1>4, <1>p, GotoType DEF StartBackup, Content
<1>5. CASE FinishBackup
  BY <1>5, <1>p, GotoType DEF FinishBackup, Content
<1>6. CASE BackupFails
  <2>1. faults' \in 0..MaxFaults
    BY <1>6, FaultType DEF BackupFails
  <2>2. run' \in Run /\ last' \in Outcome /\ run'.at # "lines"
    BY <1>6, FailType DEF BackupFails
  <2> QED BY <1>6, <1>p, <2>1, <2>2 DEF BackupFails, Content
<1>7. CASE StartInstall
  BY <1>7, <1>p, GotoType DEF StartInstall, Content
<1>8. CASE FinishInstall
  BY <1>8, <1>p, GotoType DEF FinishInstall, Content
<1>9. CASE InstallFails
  <2>1. faults' \in 0..MaxFaults
    BY <1>9, FaultType DEF InstallFails
  <2>2. run' \in Run /\ last' \in Outcome /\ run'.at # "lines"
    BY <1>9, FailType DEF InstallFails
  <2> QED BY <1>9, <1>p, <2>1, <2>2 DEF InstallFails, Content
<1>10. CASE TruncateConf
  <2>1. run' \in Run
    <3>1. 1 \in 1..Len(Lines)
      BY LineNames
    <3> QED BY <1>10, <3>1 DEF TruncateConf, Run
  <2>2. conf' # NoFile /\ conf' \in SUBSET Settings
    BY <1>10, NoFileAssumption DEF TruncateConf
  <2> QED BY <1>10, <1>p, <2>1, <2>2 DEF TruncateConf
<1>11. CASE WriteLine
  <2>1. run' \in Run /\ last' \in Outcome
    BY <1>11, LineType DEF WriteLine, Run
  <2>2. Lines[run.line] \in Settings
    <3>1. run.line \in 1..5
      BY LineNames DEF Run
    <3> QED BY <3>1, LineNames DEF Settings, Required
  <2>3. conf' \in SUBSET Settings
    BY <1>11, <2>2 DEF WriteLine
  <2> QED BY <1>11, <1>p, <2>1, <2>3, NoFileAssumption DEF WriteLine
<1>12. CASE LineFails
  <2>1. faults' \in 0..MaxFaults
    BY <1>12, FaultType DEF LineFails
  <2>2. run' \in Run /\ last' \in Outcome
    BY <1>12, LineType DEF LineFails
  <2> QED BY <1>12, <1>p, <2>1, <2>2 DEF LineFails
<1>13. CASE Restore
  BY <1>13, <1>p, GotoType DEF Restore, Content
<1>14. CASE NothingToRestore
  BY <1>14, <1>p, GotoType DEF NothingToRestore, Content
<1>15. CASE RestoreFails
  <2>1. faults' \in 0..MaxFaults
    BY <1>15, FaultType DEF RestoreFails
  <2>2. run' \in Run /\ last' \in Outcome /\ run'.at # "lines"
    BY <1>15, FailType DEF RestoreFails
  <2> QED BY <1>15, <1>p, <2>1, <2>2 DEF RestoreFails, Content
<1>16. CASE DropConf
  BY <1>16, <1>p, NoRunType DEF DropConf, End, NoRun, Outcome
<1>17. CASE Stop
  <2>1. run' \in Run /\ run'.at # "lines" /\ last' \in Outcome
    BY <1>17, NoRunType DEF Stop, End, NoRun, Outcome
  <2>2. faults' \in 0..MaxFaults /\ backupHurt' \in BOOLEAN
    BY <1>17, FaultType DEF Stop
  <2> QED BY <1>17, <1>p, <2>1, <2>2 DEF Stop
<1>18. ASSUME NEW key \in Settings \ Required, EditConf(key) PROVE TypeInv'
  <2>1. edits' \in 0..MaxEdits
    BY <1>18, BoundsAssumption DEF EditConf
  <2>2. conf' \in SUBSET Settings
    BY <1>18 DEF EditConf
  <2> QED BY <1>18, <1>p, <2>1, <2>2, NoFileAssumption DEF EditConf
<1> QED
  BY <1>0, <1>1, <1>2, <1>3, <1>4, <1>5, <1>6, <1>7, <1>8, <1>9, <1>10, <1>11, <1>12, <1>13, <1>14, <1>15, <1>16, <1>17, <1>18
     DEF ScriptStep, InstallerStep, InstallStep, UninstallStep

LEMMA LaunchType == TypeInv /\ (Start \/ LauncherStep) => TypeInv'
<1> SUFFICES ASSUME TypeInv, Start \/ LauncherStep PROVE TypeInv'
  OBVIOUS
<1> USE DEF TypeInv, TypeOK, Launch, Over
<1>e. \A content \in Content : Exec(content) \in {"stock", "load", "failed"}
  BY DEF Exec, Content
<1>1. CASE Start
  BY <1>1, <1>e DEF Start, installerVars
<1>2. CASE Load
  <2>1. PICK settings \in SUBSET Settings :
            proc' = [proc EXCEPT !.at = "choose", !.settings = settings]
    BY <1>2 DEF Load
  <2> QED BY <1>2, <2>1 DEF Load, installerVars
<1>3. CASE ServerMode
  BY <1>3 DEF ServerMode, installerVars
<1>4. CASE HandOver
  BY <1>4, <1>e DEF HandOver, installerVars
<1>5. CASE RunCore
  BY <1>5 DEF RunCore, installerVars
<1> QED BY <1>1, <1>2, <1>3, <1>4, <1>5 DEF LauncherStep

-----------------------------------------------------------------------------
(* The files at each point of a run *)

FilesInv == Kept /\ Written /\ Left

\* Where a failed command takes the run, it is known to have failed.
LEMMA FailPlace ==
  ASSUME NEW place \in {"install", "conf", "dropconf"}, run \in Run, FailAndGo(place)
  PROVE  \/ run'.at = "idle" /\ last' = "cut" /\ platform = "unix"
         \/ run'.at = place /\ ~run'.ok /\ platform # "unix"
<1>1. CASE platform = "unix"
  BY <1>1 DEF FailAndGo, End, NoRun
<1>2. CASE platform # "unix"
  BY <1>2 DEF FailAndGo, Run
<1> QED BY <1>1, <1>2

LEMMA LinePlace ==
  ASSUME NEW ok \in BOOLEAN, run \in Run, NextLine(ok)
  PROVE  \/ /\ run.line = 5
            /\ run'.at = "idle" /\ last' = IF ok THEN "installed" ELSE "cut"
         \/ /\ run.line \in 1..4
            /\ run'.at = run.at /\ run'.line = run.line + 1 /\ run'.ok = ok
<1>1. run.line \in 1..5
  BY LineNames DEF Run
<1>2. CASE run.line = 5
  BY <1>2, LineNames DEF NextLine, End, NoRun
<1>3. CASE run.line # 5
  <2>1. run.line # Len(Lines)
    BY <1>3, LineNames
  <2>2. run' = [run EXCEPT !.line = run.line + 1, !.ok = ok]
    BY <2>1 DEF NextLine
  <2>3. run'.at = run.at /\ run'.line = run.line + 1 /\ run'.ok = ok
    BY <2>2 DEF Run
  <2> QED BY <1>1, <1>3, <2>3
<1> QED BY <1>2, <1>3

LEMMA InitFiles == Init => FilesInv
  BY DEF Init, InstallerInit, FilesInv, Kept, Written, Left, NoRun

LEMMA ScriptFiles == TypeInv /\ FilesInv /\ ScriptStep => FilesInv'
<1> SUFFICES ASSUME TypeInv, FilesInv, ScriptStep PROVE FilesInv'
  OBVIOUS
<1> USE DEF FilesInv, Kept, Written, Left, files, history
<1>t. run \in Run /\ target \in Content /\ backup \in Content
  BY DEF TypeInv, TypeOK
<1>0. ASSUME NEW place \in {"prepare", "restore"}, NEW server \in BOOLEAN, Begin(place, server)
      PROVE  FilesInv'
  <2>1. run'.at = place /\ run.at = "idle"
    BY <1>0 DEF Begin, NoRun
  <2> QED BY <1>0, <2>1 DEF Begin
<1>1. CASE Prepare
  <2>1. run'.at = "backup" /\ run'.ok = run.ok
    BY <1>1, <1>t, GotoType DEF Prepare
  <2> QED BY <1>1, <1>t, <2>1 DEF Prepare, Content
<1>2. CASE PrepareFails
  <2>1. run'.at = "idle"
    BY <1>2 DEF PrepareFails, NoRun
  <2> QED BY <1>2, <2>1 DEF PrepareFails
<1>3. CASE KeepBackup
  <2>1. run'.at = "install" /\ run'.ok = run.ok
    BY <1>3, <1>t, GotoType DEF KeepBackup
  <2> QED BY <1>3, <1>t, <2>1 DEF KeepBackup, Content
<1>4. CASE StartBackup
  <2>1. run'.at = "copying" /\ run'.ok = run.ok
    BY <1>4, <1>t, GotoType DEF StartBackup
  <2> QED BY <1>4, <1>t, <2>1 DEF StartBackup, Content
<1>5. CASE FinishBackup
  <2>1. run'.at = "install" /\ run'.ok = run.ok
    BY <1>5, <1>t, GotoType DEF FinishBackup
  <2> QED BY <1>5, <1>t, <2>1 DEF FinishBackup, Content
<1>6. CASE BackupFails
  <2>1. \/ run'.at = "idle" /\ last' = "cut" /\ platform = "unix"
        \/ run'.at = "install" /\ ~run'.ok /\ platform # "unix"
    BY <1>6, <1>t, FailPlace DEF BackupFails
  <2> QED BY <1>6, <1>t, <2>1 DEF BackupFails, Content
<1>7. CASE StartInstall
  <2>1. run'.at = "installing" /\ run'.ok = run.ok
    BY <1>7, <1>t, GotoType DEF StartInstall
  <2> QED BY <1>7, <1>t, <2>1 DEF StartInstall, Content
<1>8. CASE FinishInstall
  <2>1. run'.at = "conf" /\ run'.ok = run.ok
    BY <1>8, <1>t, GotoType DEF FinishInstall
  <2> QED BY <1>8, <1>t, <2>1 DEF FinishInstall, Content
<1>9. CASE InstallFails
  <2>1. \/ run'.at = "idle" /\ last' = "cut" /\ platform = "unix"
        \/ run'.at = "conf" /\ ~run'.ok /\ platform # "unix"
    BY <1>9, <1>t, FailPlace DEF InstallFails
  <2> QED BY <1>9, <1>t, <2>1 DEF InstallFails, Content
<1>10. CASE TruncateConf
  <2>1. run'.at = "lines" /\ run'.line = 1 /\ run'.ok = run.ok
    BY <1>10, <1>t DEF TruncateConf, Run
  <2>2. conf' # NoFile
    BY <1>10, NoFileAssumption DEF TruncateConf
  <2> QED BY <1>10, <2>1, <2>2 DEF TruncateConf
<1>11. CASE WriteLine
  <2>1. run.at = "lines" /\ run.ok \in BOOLEAN /\ conf # NoFile /\ conf \subseteq Settings
    BY <1>11 DEF WriteLine, TypeInv, TypeOK, Run
  <2>2. \/ /\ run.line = 5
           /\ run'.at = "idle" /\ last' = IF run.ok THEN "installed" ELSE "cut"
        \/ /\ run.line \in 1..4
           /\ run'.at = "lines" /\ run'.line = run.line + 1 /\ run'.ok = run.ok
    BY <1>11, <1>t, <2>1, LinePlace DEF WriteLine
  <2>3. /\ conf \subseteq conf'
        /\ run.line \in 1..3 => Lines[run.line] \in conf'
        /\ run.line = 4 => ("fallback" \in conf' <=> "fallback" \in conf \/ backup # "absent")
        /\ run.line \in {1, 2, 3, 5} => ("fallback" \in conf' <=> "fallback" \in conf)
    <3>1. conf' = conf \cup {key \in {Lines[run.line]} : Sets(key)}
      BY <1>11 DEF WriteLine
    <3>2. CASE run.line \in {1, 2, 3}
      BY <3>1, <3>2, LineNames DEF Sets
    <3>3. CASE run.line \in {4, 5}
      BY <3>1, <3>3, LineNames DEF Sets
    <3> QED BY <2>2, <3>2, <3>3
  <2>4. conf' # NoFile
    <3>1. Lines[run.line] \in Settings
      BY <2>2, LineNames DEF Settings, Required
    <3>2. conf' \in SUBSET Settings
      BY <1>11, <2>1, <3>1 DEF WriteLine
    <3> QED BY <3>2, NoFileAssumption
  <2>5. Kept'
    BY <1>11, <2>1, <2>2 DEF WriteLine
  <2>6. Written'
    BY <1>11, <2>1, <2>2, <2>3, <2>4, LineNames DEF WriteLine
  <2>7. Left'
    BY <1>11, <2>1, <2>2, <2>3, <2>4, LineNames DEF WriteLine, Required
  <2> QED BY <2>5, <2>6, <2>7
<1>12. CASE LineFails
  <2>1. run.at = "lines" /\ conf # NoFile
    BY <1>12 DEF LineFails, TypeInv
  <2>2. \/ run'.at = "idle" /\ last' = "cut"
        \/ run'.at = "lines" /\ ~run'.ok
    BY <1>12, <1>t, <2>1, LinePlace DEF LineFails
  <2> QED BY <1>12, <2>1, <2>2 DEF LineFails
<1>13. CASE Restore
  <2>1. run'.at = "dropconf" /\ run'.ok = run.ok
    BY <1>13, <1>t, GotoType DEF Restore
  <2> QED BY <1>13, <1>t, <2>1 DEF Restore, Content
<1>14. CASE NothingToRestore
  <2>1. run'.at = "dropconf" /\ run'.ok = run.ok
    BY <1>14, <1>t, GotoType DEF NothingToRestore
  <2> QED BY <1>14, <1>t, <2>1 DEF NothingToRestore, Content
<1>15. CASE RestoreFails
  <2>1. \/ run'.at = "idle" /\ last' = "cut" /\ platform = "unix"
        \/ run'.at = "dropconf" /\ ~run'.ok /\ platform # "unix"
    BY <1>15, <1>t, FailPlace DEF RestoreFails
  <2> QED BY <1>15, <1>t, <2>1 DEF RestoreFails, Content
<1>16. CASE DropConf
  <2>1. run'.at = "idle" /\ last' = IF run.ok THEN "uninstalled" ELSE "cut"
    BY <1>16 DEF DropConf, End, NoRun
  <2> QED BY <1>16, <2>1 DEF DropConf
<1>17. CASE Stop
  <2>1. run'.at = "idle" /\ last' = "cut"
    BY <1>17 DEF Stop, End, NoRun
  <2> QED BY <1>17, <2>1 DEF Stop
<1>18. ASSUME NEW key \in Settings \ Required, EditConf(key) PROVE FilesInv'
  <2>1. conf' # NoFile /\ Required \cap conf' = Required \cap conf
    BY <1>18, NoFileAssumption DEF EditConf, TypeInv, TypeOK
  <2>2. edits' # 0
    BY <1>18 DEF EditConf, TypeInv, TypeOK
  <2> QED BY <1>18, <2>1, <2>2 DEF EditConf
<1> QED
  BY <1>0, <1>1, <1>2, <1>3, <1>4, <1>5, <1>6, <1>7, <1>8, <1>9, <1>10, <1>11, <1>12, <1>13, <1>14, <1>15, <1>16, <1>17, <1>18
     DEF ScriptStep, InstallerStep, InstallStep, UninstallStep

-----------------------------------------------------------------------------
(* Launches *)

IInv == TypeInv /\ FilesInv /\ ReadWhole /\ ClearLaunchWorks

\* When no run is under way and the last one installed, both binaries are whole.
LEMMA ClearFiles ==
  ASSUME FilesInv, run.at = "idle", last = "installed"
  PROVE  /\ target = "launcher"
         /\ conf # NoFile /\ Required \subseteq conf
         /\ stock /\ ~backupHurt => backup = "original"
  BY DEF FilesInv, Kept, Left

LEMMA ScriptLaunch == IInv /\ ScriptStep => ReadWhole' /\ ClearLaunchWorks'
<1> SUFFICES ASSUME IInv, ScriptStep PROVE ReadWhole' /\ ClearLaunchWorks'
  OBVIOUS
<1>1. /\ proc'.clear => proc.clear /\ run'.at = "idle"
      /\ proc'.at = proc.at /\ proc'.settings = proc.settings
  BY DEF ScriptStep, IInv, TypeInv, TypeOK, Launch
<1>2. ASSUME proc'.clear
      PROVE  UNCHANGED <<run, last, stock, backupHurt>>
  <2>1. run.at = "idle" /\ run'.at = "idle"
    BY <1>1, <1>2 DEF IInv, ReadWhole
  <2>2. ASSUME NEW place \in {"prepare", "restore"}, NEW server \in BOOLEAN
        PROVE  ~Begin(place, server)
    BY <2>1 DEF Begin, NoRun
  <2>3. PICK key \in Settings \ Required : EditConf(key)
    <3>1. ~Prepare /\ ~PrepareFails /\ ~KeepBackup /\ ~StartBackup /\ ~FinishBackup /\ ~BackupFails
      BY <2>1 DEF Prepare, PrepareFails, KeepBackup, StartBackup, FinishBackup, BackupFails
    <3>2. ~StartInstall /\ ~FinishInstall /\ ~InstallFails /\ ~TruncateConf /\ ~WriteLine /\ ~LineFails
      BY <2>1 DEF StartInstall, FinishInstall, InstallFails, TruncateConf, WriteLine, LineFails
    <3>3. ~Restore /\ ~NothingToRestore /\ ~RestoreFails /\ ~DropConf /\ ~Stop
      BY <2>1 DEF Restore, NothingToRestore, RestoreFails, DropConf, Stop
    <3> QED
      BY <2>2, <3>1, <3>2, <3>3 DEF ScriptStep, InstallerStep, InstallStep, UninstallStep
  <2> QED BY <2>3 DEF EditConf
<1>3. ReadWhole'
  BY <1>1, <1>2 DEF IInv, ReadWhole
<1>4. ClearLaunchWorks'
  BY <1>1, <1>2 DEF IInv, ClearLaunchWorks
<1> QED BY <1>3, <1>4

LEMMA LaunchLaunch == IInv /\ (Start \/ LauncherStep) => ReadWhole' /\ ClearLaunchWorks'
<1> SUFFICES ASSUME IInv, Start \/ LauncherStep PROVE ReadWhole' /\ ClearLaunchWorks'
  OBVIOUS
<1> USE DEF ReadWhole, ClearLaunchWorks, installerVars
<1>t. proc \in Launch /\ FilesInv /\ ReadWhole /\ ClearLaunchWorks
  BY DEF IInv, TypeInv, TypeOK
<1>1. CASE Start
  <2>1. proc'.clear => run.at = "idle" /\ last = "installed"
    BY <1>1 DEF Start
  <2>2. proc'.at = Exec(target)
    BY <1>1 DEF Start
  <2>3. proc'.clear => proc'.at = "load"
    BY <1>t, <2>1, <2>2, ClearFiles DEF Exec
  <2> QED BY <1>1, <2>1, <2>3 DEF Start
<1>2. CASE Load
  <2>1. PICK settings \in {env \cup (IF conf = NoFile THEN {} ELSE conf),
                           (env \cup (IF conf = NoFile THEN {} ELSE conf)) \ {"log"}} :
            proc' = [proc EXCEPT !.at = "choose", !.settings = settings]
    BY <1>2 DEF Load
  <2>2. proc.clear => Required \subseteq settings
    BY <1>t, <2>1, ClearFiles DEF Required
  <2>3. proc'.at = "choose" /\ proc'.settings = settings /\ proc'.clear = proc.clear
    BY <1>t, <2>1 DEF Launch
  <2> QED BY <1>2, <1>t, <2>2, <2>3 DEF Load
<1>3. CASE ServerMode
  <2>1. /\ proc.at = "choose" /\ proc'.at \in {"server", "direct"}
        /\ proc'.settings = proc.settings /\ proc'.clear = proc.clear
    BY <1>3, <1>t DEF ServerMode, TriesServer, Launch
  <2> QED BY <1>3, <1>t, <2>1 DEF ServerMode
<1>4. CASE HandOver
  <2>1. proc'.at = Exec(backup) /\ proc'.clear = proc.clear
    BY <1>4, <1>t DEF HandOver, Launch
  <2>2. proc.clear /\ stock /\ ~backupHurt => proc'.at = "stock"
    BY <1>t, <2>1, ClearFiles DEF Exec
  <2>3. proc'.at \notin {"choose", "direct"}
    BY <2>1 DEF Exec, IInv, TypeInv, TypeOK, Content
  <2> QED BY <1>4, <1>t, <2>1, <2>2, <2>3 DEF HandOver
<1>5. CASE RunCore
  <2>1. /\ proc.at \in {"choose", "direct"}
        /\ proc'.at \in {"angr", "failed"} /\ proc'.clear = proc.clear
        /\ Required \subseteq proc.settings => proc'.at = "angr"
    BY <1>5, <1>t DEF RunCore, Launch
  <2> QED BY <1>5, <1>t, <2>1 DEF RunCore
<1> QED BY <1>1, <1>2, <1>3, <1>4, <1>5 DEF LauncherStep

LEMMA Inductive == Spec => []IInv
<1>1. Init => IInv
  BY InitType, InitFiles DEF Init, IInv, ReadWhole, ClearLaunchWorks
<1>2. IInv /\ [Next]_vars => IInv'
  <2> SUFFICES ASSUME IInv, [Next]_vars PROVE IInv'
    OBVIOUS
  <2>1. CASE ScriptStep
    BY <2>1, ScriptType, ScriptFiles, ScriptLaunch DEF IInv
  <2>2. CASE Start \/ LauncherStep
    <3>1. UNCHANGED installerVars
      BY <2>2 DEF Start, LauncherStep, Load, ServerMode, HandOver, RunCore
    <3>2. FilesInv'
      BY <3>1 DEF IInv, FilesInv, Kept, Written, Left, installerVars
    <3> QED BY <2>2, <3>2, LaunchType, LaunchLaunch DEF IInv
  <2>3. CASE UNCHANGED vars
    BY <2>3 DEF vars, installerVars, IInv, TypeInv, TypeOK, FilesInv, Kept, Written, Left,
                ReadWhole, ClearLaunchWorks
  <2> QED BY <2>1, <2>2, <2>3 DEF Next
<1> QED BY <1>1, <1>2, PTL DEF Spec

-----------------------------------------------------------------------------
(* The theorems *)

\* Type correctness of files, run and launch.
THEOREM LauncherTypeCorrect == Spec => []TypeOK
<1>1. IInv => TypeOK
  BY DEF IInv, TypeInv
<1> QED BY <1>1, Inductive, PTL

\* Whatever runs, failures and stops there are, on either platform, Ghidra's own
\* decompiler is in place or in the backup, unless the copy to the backup failed.
THEOREM OriginalIsKept == Spec => []OriginalKept
<1>1. IInv => OriginalKept
  BY DEF IInv, FilesInv, Kept, OriginalKept, TypeInv, TypeOK, Run
<1> QED BY <1>1, Inductive, PTL

\* A run of either script that completes leaves a whole installation or none,
\* whatever state it found.
THEOREM RunsRepeat == Spec => []RunsAreRepeatable
<1>1. IInv => RunsAreRepeatable
  BY DEF IInv, FilesInv, Left, RunsAreRepeatable
<1> QED BY <1>1, Inductive, PTL

\* A launch that no run overlaps, after an installation that completed, does
\* not end in failure, whatever settings the environment and edits make.
THEOREM ClearLaunchesWork == Spec => []ClearLaunchWorks
<1>1. IInv => ClearLaunchWorks
  BY DEF IInv
<1> QED BY <1>1, Inductive, PTL

=============================================================================
