# TLA+ models of globenew

This directory holds TLA+ models of the globenew node and the TLC
configurations that check them. The repository's code is under `src/src/`. It contains one
implementation file, `src/src/util/system.cpp`, and a set of headers. `spec.md`
describes the validation core: the verification engine, the signature cache
and the cache budget allocator. The code for that core is not in `src/`.
Only its public header (`script/globeconsensus.h`) and the `CacheSizes`
record (`node/caches.h`) are.

## Inventory

### Parts of the system

| Part | Source | State | Operations | Model |
|---|---|---|---|---|
| Configuration store (`ArgsManager`) | `util/system.cpp` 170-1115 | `m_settings` (forced, command line, settings.json, config file by section), `m_network`, `m_command`, the three cached paths | ParseParameters, ReadConfigFiles (ReadConfigStream, GetConfigOptions, `-includeconf`), SelectConfigNetwork, ForceSetArg, SoftSetArg, ClearForced, GetDataDir, GetDataDirNet, GetBlocksDirPath, ClearPathCache, ReadSettingsFile, LogArgs, GetSetting (with UseDefaultSection), GetUnsuitableSectionOnlyArgs, GetChainName | `ArgsManager` |
| Directory locks | `util/system.cpp` 90-133 | static `dir_locks` map; OS advisory locks on lock files | LockDirectory, UnlockDirectory, ReleaseDirectoryLocks | `DirLocks` |
| Settings file | `util/system.cpp` 507-592, 1186-1202 | `rw_settings`; `settings.json`, `settings.json.bak` and their `.tmp` files on disk | InitSettings, ReadSettingsFile, WriteSettingsFile, RenameOver | `SettingsFile`, refining `SettingsStore` |
| File-descriptor limit | `util/system.cpp` 1277-1294 | RLIMIT_NOFILE soft and hard limit | RaiseFileDescriptorLimit | `FdLimit` |
| Range allocation | `util/system.cpp` 1296-1345 | the file's allocated and zeroed bytes, the file position | AllocateFileRange (posix_fallocate and the fallback loop) | `FileRange` |
| Other file utilities | `util/system.cpp` 135-160, 1209-1295 | none | DirIsWritable, CheckDiskSpace, FileCommit, TruncateFile | not modelled |
| Pure helpers | `util/system.cpp` 746-870, 1363-1543 | none | help text, ShellEscape, runCommand, CheckHex, BytesReadable | not modelled |
| Consensus API | `script/globeconsensus.h` | none (pure) | verify_script(_with_amount), version | `ConsensusAPI` |
| Signature cache and cuckoo set | spec.md 4.1, 4.2, 5 | presence-set slots, generations, salt | initialize, have_verified, record_verified, insert with kicks, generation advance, sweep | `SigCache` |
| Cache budget allocator | `node/caches.h`, spec.md 4.4 | none (pure) | CalculateCacheSizes | not modelled (see below) |
| GUI, wallet, RPC, smsg, zmq, usbdevice, staking, IPC headers | various `.h` | declarations only | none in `src/` | not modelled |

### How the parts interact

At start-up the node calls `ParseParameters`, then `ReadConfigFiles`, then
selects the network (`SelectConfigNetwork`). It then asks for the data
directory (`GetDataDir`, which is cached) and locks it (`LockDirectory`).
Finally it reads and rewrites the settings file (`InitSettings`) and raises
the descriptor limit.

These parts are linked in three places:

- `ReadConfigFiles` resolves the config file against the data directory. That
  fills the path cache of `gArgs`, the global ArgsManager (not `this`), and
  the function clears it again at the end.
- The settings file lives in the data directory that the configuration
  selects.
- The lock file lives in the same directory.

All `ArgsManager` methods take `cs_args`. The three `dir_locks` functions
take `cs_dir_locks`. Apart from process death, the concurrency that matters
is therefore between processes that share a disk (directory locks), and
between steps of one start-up.

### Hard behaviours, and where they are modelled

- **Two processes locking the same directory.** A `try_lock=false` entry,
  probe-only calls, and the POSIX rule that closing any descriptor of a file
  drops the process's lock on it. Modelled in `DirLocks`.
- **Process death at any step.** For directory locks, the OS drops them. For
  the settings file, death can come between writing the temporary file and
  renaming it. Modelled in `DirLocks` and `SettingsFile`.
- **ReadConfigFiles.** Five different ways to fail, partial results that stay
  applied, included files that switch the chain, double negatives, and a path
  cache filled half-way through. Modelled in `ArgsManager`.
- **Integer conversions at a width boundary.** `rlim_t` is converted to `int`
  (`FdLimit`); `offset + length` and the countdown of `length` in unsigned
  int (`FileRange`).
- **A loop that must end** whatever the OS calls return: the zero-writing
  fallback of AllocateFileRange (`FileRange`, under fairness).
- **Verifier threads sharing the signature cache.** A lock-free read of
  a slot can race a writer's relocation, and a key carried out of its slot
  can be dropped when the kick depth is used up. A verify call must return
  the same result with or without the cache. Modelled in `SigCache`.
- **Secrets in the log.** LogArgs masks SENSITIVE arguments of some sources
  and not of others (`ArgsManager`).

## Modules

Each component module has an `MC<Module>.tla` that gives its constants
values for TLC.

### `DirLocks`

Each process `p` keeps `dir_locks[p]`, the set of lock-file paths in its
map. `osLock[F]` is the process holding the OS lock on file `F`, and
`lockFiles` is the set of lock files that exist. `claimed[p]` is a history
variable: the paths for which LockDirectory told `p` that it holds the lock.

- **`LockDirectory(p, f, probe_only, try_lock)`** is the whole function:
  - the early return when `f` is already in the map;
  - `fopen`/`fclose` of the lock file, which closes a descriptor and drops
    the process's lock (`CloseFds`);
  - `TryLock`;
  - the probe path, where the `FileLock` is destroyed and closed;
  - `emplace` into the map.
- **`UnlockDirectory` and `ReleaseDirectoryLocks`** erase entries; the
  destroyed `FileLock`s close their descriptors.
- **`Crash(p)`** kills process `p`.
- **`FileOf`** maps path strings to files, so that two spellings of one lock
  file can be modelled.

### `ArgsManager`

The variables are `settings` (all four sources), `network`, `pathCache`
(`m_cached_datadir_path`), `netCache` (`m_cached_network_datadir_path`),
`blocksCache` (`m_cached_blocks_path`), `command` and `fs` (the config files on disk). A
process phase runs from running to exited. There are two history variables:
`lastRead` (what the last ReadConfigFiles returned, read and warned about)
and `handSet` (an argument was set by hand since the cache was last
cleared).

- **`ReadConfigFiles`** follows the C++ step by step as a chain of stage
  operators (`ReadConfigStart`, `ReadConfigOpen`, `ReadConfigMain`,
  `ReadConfigChain`, `ReadConfigIncludes`, `ReadConfigIncluded`,
  `ReadConfigWarn`, `ReadConfigWarnFinal`). Each stage takes the values the
  stage before it computed as parameters. This keeps TLC's coverage
  profiling from expanding the same expression again at every use. The
  action `ReadConfig` applies the outcome, which has status `ok`, `error`,
  `throw` (GetChainName's runtime_error), `badcast` (UniValue `get_str` on a
  bool) or `assert`.
- **The path caches.** `GetDataDir`, `GetDataDirNet` and `GetBlocksDirPath`
  each fill their cache once; a network path is a record of the base
  directory and the chain's subdirectory (`SubDir`). GetBlocksDirPath
  goes through GetDataDirBase, so it also fills `pathCache`, and it caches
  its path even when the base is empty. `ClearPathCache` clears all three,
  and ReadConfigFiles calls it at the end. The constant `Getters` chooses
  which of the two newer getters a run enables.
- **`ReadSettingsFile`** resolves `settings.json` through GetDataDirNet
  (filling that cache), clears `rw_settings` and loads the file; a file
  that does not parse makes InitSettings fail and the node exit.
- **`LogArgs`** changes no state. It is the operator `LogClearNames(st)`:
  the names whose values it would print in clear. `logArgsPrefix` prints
  `****` for a SENSITIVE argument of the config file or the command line;
  the loop over `rw_settings` prints every value.
- **Network-only arguments.** `NetworkOnlyArgs` holds the names AddArg
  registered with `NETWORK_ONLY`. Off main (and before any network is
  selected), `UseDefaultSection` makes the lookup skip the config file's
  default section for them, unless the last value there is a negation.
  `GetUnsuitableSectionOnlyArgs(st, network)` is an operator, like
  LogArgs. It gives the set init warns about, computed through
  `OnlyHasDefaultSectionSetting`.
- **`util::GetSetting`, `OnlyHasDefaultSectionSetting` and
  `SettingsSpan`** are not in the repository (they
  live in `settings.cpp`). They are modelled from their documented semantics
  and marked `spec_modelled`.
- **Strings are abstracted.**
  - A command-line token or config line is a record that already separates
    section, key and value.
  - The `no` prefix is still stripped by `InterpretKey`.
  - File names and directories are short strings.

### `SettingsFile`

The variables are:

- `rw` (`rw_settings`);
- `files`, holding `main`, `tmp`, `bak` and `baktmp` (`settings.json`,
  its `.tmp`, `settings.json.bak` and its `.tmp`);
- `pc` and `caller` (which step of which WriteSettingsFile call);
- `writes` (a bound);
- `acked` (the content of the last WriteSettingsFile, not a backup, that
  returned true).

- `util::WriteSettings` is split into two steps: opening, which truncates
  the file, and writing, which may fail. The process can die between them.
- `RenameOver` may fail. `RenameOverFiles` is the function itself: the
  destination is replaced in one step, or nothing changes.
- `BackupSettings` stands for a caller outside `src/` that calls
  WriteSettingsFile with `backup = true`. `GetSettingsPath(temp, backup)`
  then names `settings.json.bak` and `settings.json.bak.tmp`. A backup save
  does not change `acked`, and in the refinement it is a stuttering step.
- `UpdateSetting` stands for the callers outside `src/` that change
  `rw_settings` and save it.

### `SettingsStore` and the refinement

`SettingsStore` is what the settings file promises, without files: `live`
settings in a running node, `saved` settings a start would load, and `up`.
Its actions are `Load` (a start), `Set` (a change in memory), `Save` (one
atomic step) and `Stop` (exit or death). `SettingsFile` maps onto it: `up`
is `pc # "down"`, `live` is `rw` while up, and `saved` is what
ReadSettingsFile would load from `settings.json` now (`StoredSettings`).
Writing the temporary file changes nothing visible (a stuttering step);
the rename is the `Save`. The run checks `StoreRefined == Store!Spec` as a
temporal property.

### `FileRange`

One call of AllocateFileRange in the POSIX build with HAVE_POSIX_FALLOCATE.
The variables are the arguments (`offset`, `request`), the counted-down
`length`, the file position `pos`, a program counter, and the bytes
`allocated` by posix_fallocate or `zeroed` by the fallback. `errored`
records a failed fseek or a short fwrite. `Fallocate(ok)`, `Seek(ok)`,
`WriteChunk(written)` (an fwrite that writes any prefix of the chunk) and
`LoopExit` are the steps. `unsigned int` is `UIntBits` wide, and
`length -= now` is computed modulo `2^UIntBits`; `nEndPos` is an `off_t`
and does not wrap.

### `FdLimit`

The variables are the soft and hard limits, the value returned, and the
last request. The widths of `int` and `rlim_t` are constants (8 and 10 bits
in the runs) so that the boundary is reachable. The conversions are
computed modulo those widths.

### `ConsensusAPI`

The error enum and the flag bits, with their values from
`script/globeconsensus.h`, and the two verify calls. The implementation is
not in `src/`. The outcome is therefore modelled from spec.md 4.3, and the
definitions of that outcome are marked spec-modelled in the map.
`PreconditionError` checks the five immediate rejects in the spec's order,
and the first one that fails wins. A flag word with a bit outside
`VERIFY_ALL` is invalid; the test is `(flags & VERIFY_ALL) # flags`, using
`Bitwise`. `VerifyOutcome` evaluates the script only after the
preconditions pass. The script's result is reduced to whether its signature
check holds. A transaction is a record: it deserializes or not, its length
matches or not, and it has a number of inputs. The module has no state;
`SigCache` uses it as the verify call's specification.

### `SigCache`

Worker threads verify inputs in parallel through the API, and every
signature check goes through the shared cuckoo presence set (spec.md 4.1,
4.2 and 5). All of it is spec-modelled: neither the engine nor the cache is
in `src/`.

- **State.**
  - `table`: a slot holds a key and its generation, or `Nil`.
  - `gen`: the current generation.
  - `writer`: the thread inside the writers' exclusive section.
  - Per thread: `pc`, `job`, `result` and the candidate slots still
    `unread`.
  - The insert in progress: the entry `carried`, the slot it came `from`,
    and the kick `depth`.
  - `calls` and the history variable `retained`.
- **Actions.**
  - `Call` runs the preconditions. It either returns at once or starts
    have_verified.
  - `Probe` reads one candidate slot without a lock.
  - `Crypto` is the primitive on a miss.
  - `Acquire` enters record_verified's exclusive section.
  - `Place` puts the carried entry in a free candidate slot.
  - `Kick` swaps the carried entry with an occupant that is not in the slot
    the entry came from.
  - `Drop` gives up at `MaxDepth`.
  - `AdvanceGeneration`, `Sweep` and `Initialize` are the caller's policy,
    maintenance and resize.
- **Abstractions.**
  - The key is the triple (pk, sig, digest), and the salted hash is the
    constant `Bucket`.
  - A slot write is atomic (spec.md 5 demands no torn reads).

## Runs

| Run | Expect | Properties | What it shows |
|---|---|---|---|
| `DirLocks` | pass | ClaimedLocksHeld, NoOrphanLocks | 3 processes, 3 directories, always `try_lock`, with crashes. A directory LockDirectory reports as locked is locked by the OS for that process. Every OS lock a process owns belongs to a `dir_locks` entry, so unlocking can drop it |
| `DirLocksNoTry` | violation | ClaimedLocksHeld | a `try_lock=false` entry makes a later `try_lock=true` call return true without any lock |
| `DirLocksAlias` | violation | ClaimedLocksHeld | a probe through a second spelling of the lock-file path drops the lock held through the first |
| `ArgsManager` | pass | IncludeconfAssertHolds, NoIncludeconfBadCast, IncludesReadOrWarned, IgnoredConfigWarned | every disk with a `globe.conf` of up to 2 lines and included files of up to 1 line, over 10 command lines, with the network-only `-port`. Once a network is selected, a value in the config's default section that the lookup skips is always named by GetUnsuitableSectionOnlyArgs. This holds across the cases where the warning and the lookup differ in form: a negated `-noport` on the command line, `port=1` under `[test]`, and `testnet=1` next to `port=1` |
| `ArgsManagerDataDir` | pass | TypeOK, DataDirCacheCoherent | `-datadir` from the command line, the config file and ForceSetArg/SoftSetArg/ClearForced, with the three caches filled (GetDataDir, GetDataDirNet, GetBlocksDirPath, ReadSettingsFile) and cleared in every order |
| `ArgsManagerSensitiveLog` | violation | NoSensitiveLogged | an `rpcpassword` stored in `settings.json` is printed in clear by LogArgs |
| `ArgsManagerDoubleNeg` | violation | NoIncludeconfBadCast | `noincludeconf=0` in `globe.conf` makes ReadConfigFiles throw |
| `SettingsFile` | pass | SettingsReadableAfterCrash, AckedSettingsSurvive, StoreRefined | crashes at every step, failed writes and failed renames, up to 4 saves, backup saves included; the protocol implements the atomic `SettingsStore`, and a backup save never changes what a start loads |
| `FileRange` | pass | NoWriteOutsideRange, RangeAllocated, Terminates | every outcome of posix_fallocate, fseek and each fwrite, for ranges inside and past `UINT_MAX`: zeros only inside the range, an error-free call backs the whole range, and every call returns |
| `SigCache` | pass | TypeOK, CallsTransparent, RetainedPresent, CallsReturn | 2 threads verify 3 inputs against 2 slots that 3 valid signatures compete for, racing kicks, drops, sweeps and resizes. Every call returns what the uncached API returns, a key is never lost by a kick except when it is the one dropped, and every call returns |
| `FdLimit` | pass | RaisedToRequest | limits that fit in an int, limits changed from outside between calls; the soft limit is raised to the request, or to the hard limit |
| `FdLimitUnlimited` | violation | ReturnsActualLimit | a soft limit above INT_MAX (RLIM_INFINITY) is returned as a negative int |

`NoSensitiveLogged` and `ReturnsActualLimit` are checked only in their
violation runs. A passing instance without a password in `settings.json`,
or without a limit above `INT_MAX`, would only restate the masking guard at
line 1133 or the `return` at line 1290.

### Bounds, and why they are enough

- **ArgsManager.** `globe.conf` can hold up to two lines, drawn from the
  lines that reach each branch: include `a`, `test.includeconf=b`, a
  `[test]` header, `testnet=1`, `noincludeconf=1`, `datadir=d`, and an
  unparsable line. The included file `a` holds up to one line: `testnet=1`,
  `includeconf=b` or `noincludeconf=1`. File `b` is missing or holds
  `regtest=1`. Together these reach every exit of ReadConfigFiles: a
  missing file, a parse error, an included file that is missing, a chain
  switched by an include, conflicting chains, recursive includes and
  negated includes.
- **ArgsManager with `-port`.** `-port` is the one network-only argument.
  It can be set in the default section, under `[test]` (through the
  header), or negated on the command line. With `testnet=1` in the same
  file, each case of the lookup against the warning is reached.
- **DirLocks.** Three processes are needed for a lock to pass from one
  process to a second while a third is waiting.
- **ArgsManagerDataDir** uses the command lines that bear on the data
  directory, the network, the password and invalid keys (the include cases
  are in the `ArgsManager` run), and a `settings.json` that is missing,
  unparsable or holds `testnet=1`.
- **FileRange.** `unsigned int` has 4 bits and a chunk is 4 bytes, so the
  offsets 0, 2, 13 and lengths 0, 3, 4, 9 reach every case: an empty range,
  a range of one chunk, one of several chunks with a short last one, and
  ranges that end past `UINT_MAX` (13 + 9). What matters is the ratio of
  the chunk to the width and to the lengths, not the real sizes.
- **SettingsFile.** Four saves are enough for a crash at each step of an
  init save and of an update save.

- **SigCache.** Two threads suffice for a lock-free read to race a
  writer. There are four checks: three valid ones, and an invalid one that
  differs from a valid one only in the digest. The three valid keys compete
  for two slots, so inserts must kick and, with `MaxDepth` 2, drop. Sweeps
  and resizes interleave with the calls. `MaxCalls` 3 lets a key cached by
  one call be hit by a later call. Two inputs fail a precondition. The
  other scenarios of spec.md 8 are ASSUMEs in `MCSigCache`.

### Fairness

`FileRange` assumes weak fairness of its next-state relation: one call of
AllocateFileRange runs on one thread, with no lock or wait, so a step that
stays possible is taken. Under it, `Terminates` says every call returns.
Its cfg turns deadlock checking off because a returned call has no further
steps. `SigCache` assumes weak fairness of each thread's own steps (probe,
crypto, place, kick, drop). It assumes strong fairness of each thread's
`Acquire`. The writers' section has no suspension points and is held for a
bounded number of steps (spec.md 5), so a thread that keeps asking for it
gets it. Maintenance and resize are not assumed fair. `CallsReturn` says
every call returns. The cfg turns deadlock checking off because the pool
goes idle once `MaxCalls` calls are done.
The other modules check safety only, and assume no fairness:
start-up is single-threaded, and nothing in `src/` promises that a node
restarts or saves.

## Findings

1. **`try_lock=false` entries** (`system.cpp:113`). LockDirectory stores an
   unlocked `FileLock` in `dir_locks`. A later call with `try_lock=true`
   returns true early, although the comment on `dir_locks` says the map holds
   "all the currently held directory locks".
2. **Aliased lock paths** (`system.cpp:105-111`). The map is keyed by the
   path string. A probe or a lock through another spelling of the same file
   opens and closes that file, and POSIX then drops the process's lock.
3. **`noincludeconf=0` in a config file** (`system.cpp:1023`). InterpretValue
   turns the double negative into `true`, which its comment says is
   supported. `add_includes` then calls `get_str()` on that bool and throws
   out of ReadConfigFiles.
4. **RaiseFileDescriptorLimit** (`system.cpp:1290`). When the soft limit is
   above `INT_MAX` (RLIM_INFINITY), the function returns it as a negative
   int. The header comment says it returns the actual limit.

5. **LogArgs prints settings.json secrets** (`system.cpp:1147`). The
   loop over `rw_settings` prints `setting.second.write()` for every
   value, while `logArgsPrefix` prints `****` for SENSITIVE arguments
   (line 1133). An `rpcpassword` stored in `settings.json` reaches the log
   in clear.

## Not modelled, and why

- **Not in this repository.** `util::GetSetting` and `SettingsSpan` (in
  `settings.cpp`) are modelled from their semantics. `fsbridge::FileLock` is
  modelled as POSIX fcntl locks.
- **Left out of ArgsManager.**
  - `m_config_sections` and the warnings about unrecognised sections;
  - `-chain` and `-signet`;
  - `-blocksdir` (GetBlocksDirPath is modelled without it);
  - `-settings` and `-nosettings` (the settings file is always
    `settings.json`);
  - the warning about unknown keys in `settings.json`, which is logging;
  - a `-datadir` stored in `settings.json`, which the node does not
    support: the file lives in the directory it would move.
  These do not feed the properties checked. Recording sections would
  widen `ro_config` to section names no lookup reads, through every stage of
  ReadConfigFiles, for a warning the node only logs.
- **ArgsManager methods whose callers are all outside `src/`.** These are
  `GetCommand`, the typed getters `GetIntArg` and `GetBoolArg`,
  `GetArgs` and `getArgsList`, and the registration calls `AddArg`,
  `AddHiddenArgs` and `AddCommand`. Registration is the model's `Names`,
  `Flags` and `Commands` constants. The others read state without changing
  it. A property about them would restate the code.
- **The file utilities without a caller in `src/`.** These are
  `CheckDiskSpace`, `FileCommit`, `DirectoryCommit`, `TruncateFile` and
  `TryCreateDirectories`. The
  `min_disk_space + additional_bytes` wrap in `CheckDiskSpace` is listed as a
  hazard: no caller in `src/` passes a size near 2^64.
- **AllocateFileRange on Windows and macOS.** Only the POSIX build is
  modelled.
- **Help text, logging, ShellEscape and runCommand** are pure formatting or
  I/O.
- **The cache budget allocator** (`CalculateCacheSizes`, spec.md 4.4). The
  spec leaves the split formula and its constants open (section 9). A model
  would check a formula of our own invention, not the code's.
- **Inside the signature cache.**
  - Torn slot reads: a slot write is atomic in the model, as spec.md 5
    requires.
  - Duplicate inserts of one key by two threads that both missed: the
    model allows them, and no property is about them.
  - The salt and the real hash functions.
- **Power loss.** The model covers the death of a process, not of the
  machine. Whether `settings.json` survives a power cut depends on
  `util::WriteSettings` (not in `src/`) syncing the file, and on the file
  system.
