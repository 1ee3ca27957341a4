------------------------------ MODULE DirLocks ------------------------------
(***************************************************************************)
(* Directory locks of src/util/system.cpp: LockDirectory, UnlockDirectory *)
(* and ReleaseDirectoryLocks, run by several node processes that share a  *)
(* disk.  Each process keeps dir_locks, a map from lock-file path (a      *)
(* string) to a FileLock object; all three functions run under            *)
(* cs_dir_locks, so each is one atomic step of its process.               *)
(*                                                                         *)
(* The operating system keeps, per lock file, the process (if any) owning *)
(* the advisory lock.  FileLock uses POSIX record locks (fcntl), which    *)
(* belong to the process, not to the descriptor: TryLock succeeds when no *)
(* other process owns the lock, and closing ANY descriptor of the file in *)
(* the owning process drops the lock.  Descriptors are closed by the      *)
(* fopen/fclose that creates the lock file and by destroying a FileLock   *)
(* (erased from the map, or dropped when LockDirectory returns without    *)
(* storing it).  Several path strings may name the same file (FileOf).    *)
(* A process can crash at any time; the OS then drops its locks and the   *)
(* lock files stay on disk.                                                *)
(***************************************************************************)
CONSTANTS
    Procs,        \* node processes sharing the disk
    Paths,        \* lock-file path strings (directory / lockfile_name)
    Files,        \* lock files on disk
    FileOf,       \* FileOf[f]: the file path string f names
    NoProc,       \* no process owns the OS lock
    TryLockArgs   \* values the callers pass for try_lock

ASSUME NoProc \notin Procs
ASSUME FileOf \in [Paths -> Files]
ASSUME TryLockArgs \subseteq BOOLEAN /\ TryLockArgs # {}

VARIABLES
    dir_locks,    \* dir_locks[p]: paths in process p's map
    osLock,       \* osLock[F]: process owning the OS lock on file F
    lockFiles,    \* lock files that exist on disk
    claimed       \* claimed[p]: paths p was told it locked (history)

vars == <<dir_locks, osLock, lockFiles, claimed>>

-----------------------------------------------------------------------------
TypeOK ==
    /\ dir_locks \in [Procs -> SUBSET Paths]
    /\ osLock \in [Files -> Procs \cup {NoProc}]
    /\ lockFiles \subseteq Files
    /\ claimed \in [Procs -> SUBSET Paths]

Init ==
    /\ dir_locks = [p \in Procs |-> {}]
    /\ osLock = [F \in Files |-> NoProc]
    /\ lockFiles = {}
    /\ claimed = [p \in Procs |-> {}]

(***************************************************************************)
(* Process p closes a descriptor of each file in Fs: POSIX drops p's lock *)
(* on those files, whichever descriptor took it.                          *)
(***************************************************************************)
CloseFds(lk, p, Fs) ==
    [F \in Files |-> IF F \in Fs /\ lk[F] = p THEN NoProc ELSE lk[F]]

(* Mutant: the result of TryLock is ignored, as if the early return      *)
(* "if (try_lock && !lock->TryLock()) return error(...)" were lost.      *)
LockDirectoryIgnoringTryLock(p, f, probe_only, try_lock) ==
    LET F == FileOf[f]
        touched == CloseFds(osLock, p, {F})
    IN
    IF f \in dir_locks[p]
    THEN /\ claimed' = [claimed EXCEPT ![p] =
                          IF ~probe_only /\ try_lock THEN @ \cup {f} ELSE @]
         /\ UNCHANGED <<dir_locks, osLock, lockFiles>>
    ELSE /\ lockFiles' = lockFiles \cup {F}
         /\ osLock' = IF touched[F] = NoProc /\ try_lock /\ ~probe_only
                      THEN [touched EXCEPT ![F] = p] ELSE touched
         /\ IF probe_only
            THEN UNCHANGED <<dir_locks, claimed>>
            ELSE /\ dir_locks' = [dir_locks EXCEPT ![p] = @ \cup {f}]
                 /\ claimed' = [claimed EXCEPT ![p] =
                                  IF try_lock THEN @ \cup {f} ELSE @]

(***************************************************************************)
(* LockDirectory(directory, lockfile_name, probe_only, try_lock):         *)
(*  - path already in the map: return true, do not re-lock;              *)
(*  - else create the lock file (fopen "a" + fclose), make a FileLock;  *)
(*  - try_lock and TryLock fails: return false, the FileLock is closed;  *)
(*  - probe_only: return true, the FileLock is closed at return;         *)
(*  - otherwise move the FileLock into the map and return true.          *)
(* claimed records each true result of a locking (non-probe) call made   *)
(* with try_lock, the calls that ask for an exclusive lock.               *)
(***************************************************************************)
LockDirectory(p, f, probe_only, try_lock) ==
    LET F       == FileOf[f]
        touched == CloseFds(osLock, p, {F})   \* after fopen/fclose
        gotLock == try_lock /\ touched[F] = NoProc
    IN
    IF f \in dir_locks[p]
    THEN /\ claimed' = [claimed EXCEPT ![p] =
                          IF ~probe_only /\ try_lock THEN @ \cup {f} ELSE @]
         /\ UNCHANGED <<dir_locks, osLock, lockFiles>>
    ELSE /\ lockFiles' = lockFiles \cup {F}
         /\ IF (try_lock /\ ~gotLock) \/ probe_only
            THEN /\ osLock' = touched
                 /\ UNCHANGED <<dir_locks, claimed>>
            ELSE /\ dir_locks' = [dir_locks EXCEPT ![p] = @ \cup {f}]
                 /\ osLock' = IF gotLock THEN [touched EXCEPT ![F] = p]
                              ELSE touched
                 /\ claimed' = [claimed EXCEPT ![p] =
                                  IF try_lock THEN @ \cup {f} ELSE @]

(* Mutant: the erased FileLock is not destroyed (its descriptor stays   *)
(* open), as if the map held a released raw pointer.                      *)
UnlockDirectoryLeakingFd(p, f) ==
    /\ dir_locks' = [dir_locks EXCEPT ![p] = @ \ {f}]
    /\ claimed' = [claimed EXCEPT ![p] = @ \ {f}]
    /\ UNCHANGED <<osLock, lockFiles>>

(***************************************************************************)
(* UnlockDirectory: erase the path from the map; the destroyed FileLock  *)
(* closes its descriptor.                                                  *)
(***************************************************************************)
UnlockDirectory(p, f) ==
    /\ dir_locks' = [dir_locks EXCEPT ![p] = @ \ {f}]
    /\ osLock' = IF f \in dir_locks[p] THEN CloseFds(osLock, p, {FileOf[f]})
                 ELSE osLock
    /\ claimed' = [claimed EXCEPT ![p] = @ \ {f}]
    /\ UNCHANGED lockFiles

(***************************************************************************)
(* ReleaseDirectoryLocks: clear the whole map, closing every FileLock.   *)
(***************************************************************************)
ReleaseDirectoryLocks(p) ==
    /\ dir_locks' = [dir_locks EXCEPT ![p] = {}]
    /\ osLock' = CloseFds(osLock, p, {FileOf[f] : f \in dir_locks[p]})
    /\ claimed' = [claimed EXCEPT ![p] = {}]
    /\ UNCHANGED lockFiles

(***************************************************************************)
(* A process dies: its static map is gone and the OS drops its locks;    *)
(* the lock files stay on disk.  The restarted process starts empty.     *)
(***************************************************************************)
Crash(p) ==
    /\ dir_locks' = [dir_locks EXCEPT ![p] = {}]
    /\ osLock' = CloseFds(osLock, p, Files)
    /\ claimed' = [claimed EXCEPT ![p] = {}]
    /\ UNCHANGED lockFiles

Next ==
    \E p \in Procs :
        \/ \E f \in Paths, probe \in BOOLEAN, try \in TryLockArgs :
              LockDirectory(p, f, probe, try)
        \/ \E f \in Paths : UnlockDirectory(p, f)
        \/ ReleaseDirectoryLocks(p)
        \/ Crash(p)

Spec == Init /\ [][Next]_vars

-----------------------------------------------------------------------------
(***************************************************************************)
(* Exclusive ownership: whenever LockDirectory told a process that it     *)
(* locked a directory (try_lock set, not probing, result true), and the   *)
(* process has not unlocked that path since, the process owns the OS lock *)
(* on the lock file, so no other node can run on the same directory.      *)
(* This is what the comment on dir_locks ("all the currently held         *)
(* directory locks") and the early return ("don't try to re-lock it")    *)
(* rely on.                                                                 *)
(***************************************************************************)
ClaimedLocksHeld ==
    \A p \in Procs : \A f \in claimed[p] : osLock[FileOf[f]] = p

(***************************************************************************)
(* No orphaned lock: every OS lock a process owns belongs to a FileLock   *)
(* in its dir_locks, so UnlockDirectory or ReleaseDirectoryLocks can drop *)
(* it.  A lock outside the map (a probe's FileLock that outlived the call, *)
(* or an erased entry whose descriptor stayed open) would keep every      *)
(* other node off the directory until this process exits.                 *)
(***************************************************************************)
NoOrphanLocks ==
    \A F \in Files : osLock[F] # NoProc =>
        \E f \in dir_locks[osLock[F]] : FileOf[f] = F

=============================================================================
