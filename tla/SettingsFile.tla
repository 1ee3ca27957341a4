---------------------------- MODULE SettingsFile ----------------------------
(***************************************************************************)
(* The read-write settings file of src/util/system.cpp: InitSettings,     *)
(* ReadSettingsFile and WriteSettingsFile, which keep m_settings.          *)
(* rw_settings and <datadir>/settings.json in step.  WriteSettingsFile     *)
(* writes the whole map to settings.json.tmp (util::WriteSettings) and    *)
(* then renames it over settings.json (RenameOver).  Writing a file is    *)
(* not atomic: the process can die with the file truncated and half       *)
(* written.  rename() is atomic.  All of it runs under cs_args, so two    *)
(* writers never interleave; what can come between the steps of one      *)
(* write is the death of the process, after which the node is started     *)
(* again and runs InitSettings.                                            *)
(*                                                                         *)
(* Data abstraction: the content of rw_settings is one of a few values;  *)
(* a file holds one of them, or Partial (a truncated JSON text that       *)
(* util::ReadSettings refuses), or does not exist.                        *)
(***************************************************************************)
EXTENDS Naturals

CONSTANTS
    Values,     \* possible contents of rw_settings
    Empty,      \* the empty map, what a node without settings.json has
    Partial,    \* a half-written file
    Absent,     \* no such file
    MaxWrites   \* bound on the WriteSettingsFile calls of a behaviour

ASSUME Empty \in Values /\ Partial \notin Values /\ Absent \notin Values
ASSUME MaxWrites \in Nat

VARIABLES
    rw,         \* m_settings.rw_settings
    files,      \* files[p]: content of each file of Paths
    pc,         \* where the process is, see below
    caller,     \* who called WriteSettingsFile: "init", "update", or
                \* "backup" (WriteSettingsFile with backup = true)
    writes,     \* WriteSettingsFile calls so far
    acked       \* rw_settings of the last WriteSettingsFile, not a backup,
                \* that returned true (history)

vars == <<rw, files, pc, caller, writes, acked>>

(* pc: "down" (not running), "failed" (InitSettings returned an error and *)
(* the node stopped), "idle" (running), or inside WriteSettingsFile      *)
(* called by caller: "open" before util::WriteSettings, "writing" while *)
(* it writes, "rename" after it.                                          *)
Callers == {"init", "update", "backup"}
PCs == {"down", "failed", "idle", "open", "writing", "rename"}

(* settings.json, settings.json.tmp, settings.json.bak and               *)
(* settings.json.bak.tmp.                                                  *)
Paths == {"main", "tmp", "bak", "baktmp"}
Contents == Values \cup {Partial, Absent}

TypeOK ==
    /\ rw \in Values
    /\ files \in [Paths -> Contents]
    /\ pc \in PCs
    /\ caller \in Callers
    /\ writes \in 0..MaxWrites
    /\ acked \in Values

(* A first start: no settings file yet, or one written by an earlier run. *)
Init ==
    /\ rw = Empty
    /\ files \in {f \in [Paths -> Contents] : f["main"] \in Values \cup {Absent}
                                            /\ f["bak"] \in Values \cup {Absent}
                                            /\ f["tmp"] = Absent /\ f["baktmp"] = Absent}
    /\ pc = "down"
    /\ caller = "init"
    /\ writes = 0
    /\ acked = IF files["main"] \in Values THEN files["main"] ELSE Empty

(* Mutant: the temp argument is ignored and the write goes to settings.json. *)
GetSettingsPathIgnoringTemp(temp, backup) == IF backup THEN "bak" ELSE "main"

(* Mutant: the ".bak" suffix is lost and a backup goes to settings.json. *)
GetSettingsPathIgnoringBackup(temp, backup) == IF temp THEN "tmp" ELSE "main"

(* GetSettingsPath(&path, temp, backup): settings.json, with ".bak" for  *)
(* a backup, then ".tmp" for the temporary file.                          *)
GetSettingsPath(temp, backup) ==
    CASE ~backup -> IF temp THEN "tmp" ELSE "main"
      [] OTHER   -> IF temp THEN "baktmp" ELSE "bak"

(* The backup argument of the WriteSettingsFile call in progress. *)
Backup == caller = "backup"

-----------------------------------------------------------------------------
(***************************************************************************)
(* InitSettings, first half: ReadSettingsFile clears rw_settings and      *)
(* reads settings.json (a missing file reads as the empty map); an         *)
(* unreadable file fails InitSettings and the node stops.  Otherwise      *)
(* InitSettings goes on to WriteSettingsFile.                              *)
(***************************************************************************)
ReadSettingsFile ==
    LET c == files[GetSettingsPath(FALSE, FALSE)] IN
    /\ pc = "down"
    /\ rw' = IF c \in Values THEN c ELSE Empty
    /\ pc' = IF c = Partial THEN "failed" ELSE "open"
    /\ caller' = "init"
    /\ UNCHANGED <<files, writes, acked>>

(***************************************************************************)
(* A caller outside util/ (the GUI's or an RPC's settings update) changes *)
(* rw_settings under cs_args and calls WriteSettingsFile.                  *)
(***************************************************************************)
UpdateSetting(v) ==
    /\ pc = "idle"
    /\ rw' = v
    /\ pc' = "open"
    /\ caller' = "update"
    /\ UNCHANGED <<files, writes, acked>>

(* A caller outside util/ saves a copy of rw_settings to settings.json.bak *)
(* (WriteSettingsFile with backup = true), through settings.json.bak.tmp.  *)
BackupSettings ==
    /\ pc = "idle"
    /\ pc' = "open"
    /\ caller' = "backup"
    /\ UNCHANGED <<rw, files, writes, acked>>

(***************************************************************************)
(* util::WriteSettings(path_tmp, rw_settings) opens the file, truncating  *)
(* it, then writes the map.  The write may fail (disk full) and leave the *)
(* file short: WriteSettingsFile returns false, which fails InitSettings  *)
(* and is only reported to an update's caller.                             *)
(***************************************************************************)
OpenSettings ==
    /\ pc = "open"
    /\ writes < MaxWrites
    /\ writes' = writes + 1
    /\ files' = [files EXCEPT ![GetSettingsPath(TRUE, Backup)] = Partial]
    /\ pc' = "writing"
    /\ UNCHANGED <<rw, caller, acked>>

(* Mutant: the result of util::WriteSettings is ignored and the file is   *)
(* renamed whether or not it was written completely.                     *)
WriteSettingsIgnoringError(ok) ==
    /\ pc = "writing"
    /\ files' = [files EXCEPT ![GetSettingsPath(TRUE, Backup)] = IF ok THEN rw ELSE Partial]
    /\ pc' = "rename"
    /\ UNCHANGED <<rw, caller, writes, acked>>

WriteSettings(ok) ==
    /\ pc = "writing"
    /\ files' = [files EXCEPT ![GetSettingsPath(TRUE, Backup)] = IF ok THEN rw ELSE Partial]
    /\ pc' = CASE ok              -> "rename"
               [] caller = "init" -> "failed"
               [] OTHER          -> "idle"
    /\ UNCHANGED <<rw, caller, writes, acked>>

(***************************************************************************)
(* RenameOver(src, dest): fs::rename (MoveFileExW with                    *)
(* MOVEFILE_REPLACE_EXISTING on Windows) replaces dest by src in one      *)
(* step and src is gone, or it fails and changes nothing.  Renaming a     *)
(* file onto itself succeeds and changes nothing.                         *)
(***************************************************************************)
RenameOverFiles(f, src, dst, ok) ==
    IF ok /\ src # dst THEN [f EXCEPT ![dst] = f[src], ![src] = Absent] ELSE f

(* Mutant: WriteSettingsFile returns true whatever RenameOver returned. *)
RenameOverIgnoringError(ok) ==
    /\ pc = "rename"
    /\ files' = RenameOverFiles(files, GetSettingsPath(TRUE, Backup), GetSettingsPath(FALSE, Backup), ok)
    /\ pc' = "idle"
    /\ acked' = IF Backup THEN acked ELSE rw
    /\ UNCHANGED <<rw, caller, writes>>

(***************************************************************************)
(* RenameOver(path_tmp, path): rename() replaces the file at once,        *)
(* or fails and changes nothing.  On success WriteSettingsFile returns    *)
(* true; on failure false, which fails InitSettings and is only reported  *)
(* to an update's caller.                                                  *)
(***************************************************************************)
RenameOver(ok) ==
    /\ pc = "rename"
    /\ files' = RenameOverFiles(files, GetSettingsPath(TRUE, Backup), GetSettingsPath(FALSE, Backup), ok)
    /\ pc' = CASE ok             -> "idle"
               [] caller = "init" -> "failed"
               [] OTHER          -> "idle"
    /\ acked' = IF ok /\ ~Backup THEN rw ELSE acked
    /\ UNCHANGED <<rw, caller, writes>>

(***************************************************************************)
(* The process dies at any point; rw_settings is gone with it, the files  *)
(* stay as they are.                                                       *)
(***************************************************************************)
Crash ==
    /\ pc # "down"
    /\ rw' = Empty
    /\ pc' = "down"
    /\ UNCHANGED <<files, caller, writes, acked>>

Next ==
    \/ ReadSettingsFile
    \/ \E v \in Values : UpdateSetting(v)
    \/ BackupSettings
    \/ OpenSettings
    \/ \E ok \in BOOLEAN : WriteSettings(ok)
    \/ \E ok \in BOOLEAN : RenameOver(ok)
    \/ Crash

Spec == Init /\ [][Next]_vars

-----------------------------------------------------------------------------
(***************************************************************************)
(* Whatever step the process dies in, and however often, and whether or   *)
(* not a write failed half-way, the next start's ReadSettingsFile finds a *)
(* settings.json it can read: WriteSettingsFile only ever replaces it by  *)
(* a complete file, so neither a crash nor a failed save stops the node   *)
(* from starting again.                                                    *)
(***************************************************************************)
SettingsReadableAfterCrash ==
    pc = "down" => files["main"] # Partial

(***************************************************************************)
(* A save that returned true survives: a node that restarts after a crash *)
(* reads back the rw_settings of the last WriteSettingsFile that returned *)
(* true (acked), never an older or a half-saved value.                     *)
(***************************************************************************)
AckedSettingsSurvive ==
    pc = "open" /\ caller = "init" => rw = acked

-----------------------------------------------------------------------------
(***************************************************************************)
(* Refinement mapping onto SettingsStore: the node is up unless pc is      *)
(* "down" (a node that failed to start still holds rw_settings until it    *)
(* exits); the stored settings are what ReadSettingsFile would load from   *)
(* settings.json now, the file itself when it is half-written.             *)
(***************************************************************************)
StoredSettings ==
    CASE files["main"] \in Values -> files["main"]
      [] files["main"] = Absent   -> Empty
      [] OTHER                    -> files["main"]

Store == INSTANCE SettingsStore WITH
    live  <- IF pc = "down" THEN Empty ELSE rw,
    saved <- StoredSettings,
    up    <- pc # "down"

(***************************************************************************)
(* WriteSettingsFile (util::WriteSettings into settings.json.tmp, then     *)
(* RenameOver) together with ReadSettingsFile, the callers' updates and    *)
(* process death implements the atomic store: settings.json only ever     *)
(* changes, in one step, to the complete rw_settings of a save, and a     *)
(* start loads exactly what it holds, whatever fails or dies in between.   *)
(***************************************************************************)
StoreRefined == Store!Spec
====
